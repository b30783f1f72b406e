------------------------ MODULE StoreSQLAtomicProofs ------------------------
(***************************************************************************)
(* As long as the methods of two applications do not overlap (Serial), the *)
(* interleaved statements of StoreSQL implement Store, and every unit ever *)
(* supplied stays accounted for.                                           *)
(*                                                                         *)
(* The invariant SerialInv says what the method under way has done so far, *)
(* label by label, as a comparison of the newest tables with the committed *)
(* ones: which lines were taken from stock or given back, and what was read*)
(* to decide that.  At its commit the newest tables become the committed   *)
(* ones, and the comparison is a step of Store.                            *)
(***************************************************************************)
EXTENDS StoreSQLProofs, FiniteSetTheorems

Demand(lines, p) == AtomicStore!Demand(lines, p)

(* At most one application has a method under way.                         *)
Alone == \A c, d \in Clients : pc[c] # "idle" /\ pc[d] # "idle" => c = d

(* The screens can know every committed order.                             *)
CommittedListed == \A o \in OrderIds : committed[Ord(o)] # Absent => Ord(o) \in listed

(* Product ids that were not handed out have no rows.                      *)
FreshProducts ==
    \A p \in fresh : newest[Prod(p)] = Absent /\ committed[Prod(p)] = Absent

(* What the newest products are, compared with the committed ones: the     *)
(* same, less what some lines take, or with what some lines give back.     *)
SameProduct(p) == newest[Prod(p)] = committed[Prod(p)]

SameProducts == \A p \in Products : SameProduct(p)

Changed(p, stock, supplied) ==
    IF committed[Prod(p)] = Absent
      THEN newest[Prod(p)] = Absent
      ELSE /\ newest[Prod(p)] # Absent
           /\ newest[Prod(p)].stock = stock
           /\ newest[Prod(p)].supplied = supplied

Took(lines) ==
    \A p \in Products :
        Changed(p, committed[Prod(p)].stock - Demand(lines, p), committed[Prod(p)].supplied)

Gave(lines) ==
    \A p \in Products :
        Changed(p, committed[Prod(p)].stock + Demand(lines, p), committed[Prod(p)].supplied)

(* Until its first write a method sees and leaves the committed tables.    *)
Reads(c) == view[c] \in {NoView, committed}

Fresh(c) == written[c] = {} /\ Reads(c)

(* A save takes the lines it is done with from stock, each after it has    *)
(* found enough of its product.                                            *)
Takeable(lines) ==
    \A i \in DOMAIN lines : /\ lines[i].qty > 0
                            /\ committed[Prod(lines[i].product)] # Absent

Halfway(c, done) ==
    /\ Took(done) /\ Takeable(done)
    /\ placed[job[c].order] = done \o job[c].lines

Saving(c) ==
    /\ newest[Ord(job[c].order)] = "PENDING"
    /\ placed[job[c].order] \in LineLists
    /\ pc[c] # "commit" => Reads(c)
    /\ pc[c] = "commit" => job[c].lines = <<>>
    /\ \E done \in Seq(Line) : Halfway(c, done)

Checked(c) ==
    /\ newest[Prod(ThisLine(c).product)] # Absent
    /\ newest[Prod(ThisLine(c).product)].stock = job[c].amount
    /\ ThisLine(c).qty > 0

(* What a status change and a deletion have read decides what they do.     *)
ItemsOf(c) == committed[Items(job[c].order)]

OldStatus(c) == job[c].old = committed[Ord(job[c].order)]

Returns(c) == job[c].old \notin {Absent, "CANCELLED"}

Allowed(c) ==
    /\ OldStatus(c) /\ job[c].old # Absent /\ job[c].new \in Statuses
    /\ job[c].old = "CANCELLED" => job[c].new = "CANCELLED"

Headed(c) == Allowed(c) /\ newest[Ord(job[c].order)] = job[c].new

ToReturn(c) ==
    IF job[c].op = "status" THEN Headed(c) /\ Cancels(job[c])
                            ELSE OldStatus(c) /\ Returns(c)

Returning(c) ==
    \E done \in Seq(Line) : Gave(done) /\ ItemsOf(c) = done \o job[c].lines

Returned(c, condition) == IF condition THEN Gave(ItemsOf(c)) ELSE SameProducts

(* The three methods of products.                                          *)
Inserts(c) ==
    /\ job[c].op = "new"
    /\ job[c].product \in Products \ fresh
    /\ committed[Prod(job[c].product)] = Absent
    /\ job[c].amount \in NewStock

Supplies(c) ==
    /\ job[c].op = "add" /\ job[c].product \in Products /\ job[c].amount \in 1..MaxQty

Removes(c) == job[c].op = "remove" /\ job[c].product \in Products

OtherProductsSame(c) == \A q \in Products \ {job[c].product} : SameProduct(q)

AtCommit(c, op) == pc[c] = "commit" /\ job[c].op = op

OrderDone(c) ==
    /\ pc[c] \in {"save_customer", "save_header"} => Fresh(c) /\ job[c].lines \in LineLists
    /\ Saves(c) => Saving(c)
    /\ pc[c] \in {"save_line", "save_stock"} => Checked(c)
    /\ pc[c] \in {"status_read", "delete_read"} => Fresh(c)
    /\ pc[c] = "status_write" => Fresh(c) /\ Allowed(c)
    /\ pc[c] \in {"items_read", "restock"} => ToReturn(c)
    /\ pc[c] = "items_read" =>
          SameProducts /\ Reads(c) /\ Items(job[c].order) \notin written[c]
    /\ pc[c] = "restock" => Returning(c)
    /\ (pc[c] \in {"delete_lines", "delete_header"} \/ AtCommit(c, "delete")) =>
          OldStatus(c) /\ Returned(c, Returns(c))
    /\ AtCommit(c, "status") => Headed(c) /\ Returned(c, Cancels(job[c]))

ProductDone(c) ==
    /\ pc[c] = "insert_product" => written[c] = {} /\ Inserts(c)
    /\ pc[c] = "add_stock" => written[c] = {} /\ Supplies(c)
    /\ pc[c] = "delete_product" => written[c] = {} /\ Removes(c)
    /\ AtCommit(c, "new") =>
          /\ Inserts(c) /\ OtherProductsSame(c)
          /\ newest[Prod(job[c].product)] = NewProduct(job[c].amount)
    /\ AtCommit(c, "add") =>
          /\ Supplies(c) /\ OtherProductsSame(c)
          /\ Changed(job[c].product, committed[Prod(job[c].product)].stock + job[c].amount,
                     committed[Prod(job[c].product)].supplied + job[c].amount)
    /\ AtCommit(c, "remove") =>
          /\ Removes(c) /\ OtherProductsSame(c)
          /\ committed[Prod(job[c].product)] # Absent
          /\ newest[Prod(job[c].product)] = Absent
          /\ References(committed, job[c].product) = {}

Done(c) == OrderDone(c) /\ ProductDone(c) /\ ~AtCommit(c, "none")

SerialInv == Alone /\ CommittedListed /\ FreshProducts /\ \A c \in Clients : Done(c)

Units(lines, p) == AtomicStore!Units(lines, p)

Ordered(lines) == AtomicStore!Ordered(lines)

(* The two instances of Cardinality are one.                               *)
LEMMA DemandCounts ==
    ASSUME NEW lines, NEW p
    PROVE  Demand(lines, p) = Cardinality(Units(lines, p))
<1>1. ASSUME NEW S PROVE AtomicStore!Cardinality(S) = Cardinality(S)
  BY Zenon DEF Cardinality, AtomicStore!Cardinality
<1>2. QED
  BY <1>1 DEF Demand, AtomicStore!Demand, Units

(* A union of finitely many finite sets.                                   *)
LEMMA FiniteFamily ==
    ASSUME NEW S, IsFiniteSet(S), NEW F, \A i \in S : IsFiniteSet(F[i])
    PROVE  IsFiniteSet(UNION {F[i] : i \in S})
<1> DEFINE T == {F[i] : i \in S}
           f == [i \in S |-> F[i]]
<1>1. f \in Surjection(S, T)
  BY DEF Surjection
<1>2. IsFiniteSet(T)
  BY <1>1, FS_Surjection
<1>3. \A t \in T : IsFiniteSet(t)
  OBVIOUS
<1> HIDE DEF T
<1>4. IsFiniteSet(UNION T)
  BY <1>2, <1>3, FS_UNION
<1>5. QED
  BY <1>4 DEF T

(* The pieces of one item.                                                 *)
LEMMA PiecesCount ==
    ASSUME NEW i, NEW q \in Nat
    PROVE  IsFiniteSet({i} \X (1..q)) /\ Cardinality({i} \X (1..q)) = q
<1>1. IsFiniteSet({i}) /\ Cardinality({i}) = 1
  BY FS_Singleton, Zenon
<1>2. IsFiniteSet(1..q) /\ Cardinality(1..q) = IF 1 > q THEN 0 ELSE q - 1 + 1
  BY FS_Interval, 1 \in Int, q \in Int, Zenon
<1>3. Cardinality(1..q) = q
  BY <1>2
<1>4. /\ IsFiniteSet({i} \X (1..q))
      /\ Cardinality({i} \X (1..q)) = Cardinality({i}) * Cardinality(1..q)
  BY <1>1, <1>2, FS_Product, Zenon
<1>5. QED
  BY <1>1, <1>3, <1>4

(* What belongs to p in a list, and how much that is.                      *)
LEMMA UnitsFinite ==
    ASSUME NEW lines \in Seq(Line), NEW p
    PROVE  IsFiniteSet(Units(lines, p)) /\ Demand(lines, p) \in Nat
<1> DEFINE S == {j \in DOMAIN lines : lines[j].product = p}
           F == [i \in S |-> {i} \X (1..lines[i].qty)]
<1>1. IsFiniteSet(S)
  <2>1. DOMAIN lines = 1..Len(lines) /\ Len(lines) \in Nat
    OBVIOUS
  <2>2. IsFiniteSet(1..Len(lines))
    BY <2>1, FS_Interval, 1 \in Int, Len(lines) \in Int, Zenon
  <2>3. S \in SUBSET (1..Len(lines))
    BY <2>1
  <2> HIDE DEF S
  <2>4. QED
    BY <2>2, <2>3, FS_Subset
<1>2. \A i \in S : IsFiniteSet(F[i])
  <2>1. ASSUME NEW i \in S PROVE lines[i].qty \in Nat /\ F[i] = {i} \X (1..lines[i].qty)
    <3>1. i \in DOMAIN lines /\ lines[i] \in Line
      OBVIOUS
    <3>2. QED
      BY <3>1 DEF Line
  <2>2. QED
    BY <2>1, PiecesCount
<1>3. Units(lines, p) = UNION {F[i] : i \in S}
  BY DEF Units, AtomicStore!Units
<1> HIDE DEF S, F
<1>4. IsFiniteSet(Units(lines, p))
  BY <1>1, <1>2, <1>3, FiniteFamily
<1>5. QED
  BY <1>4, FS_CardinalityType, DemandCounts

(* No items, no demand.                                                    *)
LEMMA DemandOfNone ==
    ASSUME NEW lines \in Seq(Line), NEW p, p \notin Ordered(lines)
    PROVE  Demand(lines, p) = 0
<1>1. Units(lines, p) = {}
  BY DEF Units, AtomicStore!Units, Ordered, AtomicStore!Ordered
<1>2. QED
  BY <1>1, FS_EmptySet, DemandCounts

(* One more item adds its quantity.                                        *)
LEMMA DemandOfMore ==
    ASSUME NEW lines \in Seq(Line), NEW line \in Line, NEW p
    PROVE  Demand(Append(lines, line), p) =
               Demand(lines, p) + IF line.product = p THEN line.qty ELSE 0
<1> DEFINE n == Len(lines) + 1
           more == Append(lines, line)
           piece == IF line.product = p THEN {n} \X (1..line.qty) ELSE {}
<1>1. /\ more \in Seq(Line) /\ DOMAIN more = (DOMAIN lines) \cup {n} /\ n \notin DOMAIN lines
      /\ more[n] = line /\ \A i \in DOMAIN lines : more[i] = lines[i]
  OBVIOUS
<1>2. Units(more, p) = Units(lines, p) \cup piece
  <2>1. \A u : u \in Units(more, p) <=>
               \E i \in DOMAIN more : more[i].product = p /\ u \in {i} \X (1..more[i].qty)
    BY DEF Units, AtomicStore!Units
  <2>2. \A u : u \in Units(lines, p) <=>
               \E i \in DOMAIN lines : lines[i].product = p /\ u \in {i} \X (1..lines[i].qty)
    BY DEF Units, AtomicStore!Units
  <2>3. \A u : u \in piece <=> line.product = p /\ u \in {n} \X (1..line.qty)
    OBVIOUS
  <2> HIDE DEF piece, more, n
  <2>4. QED
    BY <1>1, <2>1, <2>2, <2>3
<1>3. Units(lines, p) \cap piece = {}
  <2>1. \A u \in Units(lines, p) : u[1] \in DOMAIN lines
    BY DEF Units, AtomicStore!Units
  <2>2. \A u \in piece : u[1] = n
    OBVIOUS
  <2> HIDE DEF piece, more, n
  <2>3. QED
    BY <1>1, <2>1, <2>2
<1>4. IsFiniteSet(piece) /\ Cardinality(piece) = IF line.product = p THEN line.qty ELSE 0
  <2>1. line.qty \in Nat
    BY DEF Line
  <2>2. CASE line.product = p
    BY <2>1, <2>2, PiecesCount
  <2>3. CASE line.product # p
    BY <2>3, FS_EmptySet
  <2>4. QED
    BY <2>2, <2>3
<1>5. IsFiniteSet(Units(lines, p)) /\ Cardinality(Units(lines, p)) \in Nat
  BY UnitsFinite, DemandCounts
<1> HIDE DEF piece, more
<1>6. Cardinality(Units(more, p)) =
          Cardinality(Units(lines, p)) + Cardinality(piece) - Cardinality({})
  <2>1. Cardinality(Units(lines, p) \cup piece) =
          Cardinality(Units(lines, p)) + Cardinality(piece)
              - Cardinality(Units(lines, p) \cap piece)
    BY <1>4, <1>5, FS_Union, Zenon
  <2>2. QED
    BY <1>2, <1>3, <2>1
<1>7. Cardinality({}) = 0
  BY FS_EmptySet
<1>8. line.qty \in Nat
  BY DEF Line
<1>9. Cardinality(Units(more, p)) = Cardinality(Units(lines, p)) + Cardinality(piece)
  BY <1>4, <1>5, <1>6, <1>7, <1>8
<1>10. QED
  BY <1>4, <1>9, DemandCounts DEF more

Base == Inv1 /\ SessionInv /\ EngineInv /\ OrderInv

(* While c's method runs, what it has not changed is committed.            *)
LEMMA OthersAreQuiet ==
    ASSUME Base, Alone, NEW c \in Clients, pc[c] # "idle"
    PROVE  /\ \A r \in Rows : r \notin written[c] => newest[r] = committed[r]
           /\ \A d \in Clients \ {c} : pc[d] = "idle" /\ written[d] = {}
<1>1. \A d \in Clients \ {c} : pc[d] = "idle" /\ written[d] = {}
  BY DEF Base, SessionInv, IdleHoldsNoLocks, Alone
<1>2. QED
  BY <1>1 DEF Base, EngineInv, Locked

TablesKept == UNCHANGED <<newest, committed>>

(* What a method has done is judged by the two versions of the tables and  *)
(* the lists placed.                                                       *)
LEMMA KeptTables ==
    ASSUME TablesKept
    PROVE  /\ \A lines : /\ Took(lines)' = Took(lines) /\ Gave(lines)' = Gave(lines)
                         /\ Takeable(lines)' = Takeable(lines)
           /\ SameProducts' = SameProducts
  BY DEF TablesKept, Took, Gave, Takeable, SameProducts, SameProduct, Changed

(* Where a method has failed, returned or not begun, nothing is asked.     *)
LEMMA NothingDone ==
    ASSUME NEW c \in Clients, pc'[c] \in {"idle", "raise"}
    PROVE  Done(c)'
  BY DEF Done, OrderDone, ProductDone, AtCommit, Saves

(* ROLLBACK before anything was written changes no row.                    *)
LEMMA RollbackClean ==
    ASSUME Base, NEW c \in Clients, written[c] = {}, Rollback(c)
    PROVE  TablesKept /\ written'[c] = {} /\ view'[c] = NoView
<1>1. newest' = newest
  BY DEF Base, Inv1, EngineTypes, IsContents, Rollback
<1>2. QED
  BY <1>1 DEF Base, Inv1, EngineTypes, Rollback, EndTransaction, TablesKept

(* A method starts from the committed tables.                              *)
LEMMA CallDone ==
    ASSUME Base, Serial, SerialInv, NEW c \in Clients, OrderCall(c) \/ ProductCall(c)
    PROVE  /\ Done(c)' /\ TablesKept /\ UNCHANGED history
           /\ fresh' \subseteq fresh
           /\ \A d \in Clients : pc[d] = "idle"
<1> USE DEF Base, Inv1, AppTypes
<1>0. ASSUME NEW j \in Job, NEW label, Call(c, j, label)
      PROVE  /\ pc'[c] = label /\ job'[c] = j /\ UNCHANGED history
             /\ \A d \in Clients : pc[d] = "idle"
             /\ written[c] = {}
  BY <1>0 DEF Call, Goto, SessionInv, IdleHoldsNoLocks
<1>1. ASSUME NEW j \in Job, NEW label, CallAfterRollback(c, j, label)
      PROVE  /\ pc'[c] = label /\ job'[c] = j /\ UNCHANGED history
             /\ \A d \in Clients : pc[d] = "idle"
             /\ TablesKept /\ Fresh(c)'
  <2>1. Call(c, j, label) /\ Rollback(c)
    BY <1>1 DEF CallAfterRollback
  <2>2. TablesKept /\ written'[c] = {} /\ view'[c] = NoView
    BY <1>0, <2>1, RollbackClean
  <2>3. QED
    BY <1>0, <2>1, <2>2 DEF Fresh, Reads
<1>2. ASSUME NEW lines \in LineLists, SaveTransaction(c, lines)
      PROVE  Done(c)' /\ TablesKept /\ UNCHANGED history /\ fresh' = fresh
             /\ \A d \in Clients : pc[d] = "idle"
  <2> DEFINE j == [NoJob EXCEPT !.op = "save", !.lines = lines]
  <2>1. j \in Job
    BY ShopAssumption, NoJobIsAJob DEF ShopAssumption, Job
  <2>2. j.lines = lines
    BY DEF NoJob
  <2>3. CallAfterRollback(c, j, "save_customer") /\ fresh' = fresh
    BY <1>2 DEF SaveTransaction
  <2> HIDE DEF j
  <2>4. pc'[c] = "save_customer" /\ job'[c] = j /\ Fresh(c)' /\ TablesKept
        /\ UNCHANGED history /\ \A d \in Clients : pc[d] = "idle"
    BY <1>1, <2>1, <2>3
  <2>5. Done(c)'
    BY <2>2, <2>4 DEF Done, OrderDone, ProductDone, AtCommit, Saves
  <2>6. QED
    BY <2>3, <2>4, <2>5
<1>3. ASSUME NEW o \in OrderIds,
             DeleteTransaction(c, o) \/ \E status \in NewStatuses : UpdateStatus(c, o, status)
      PROVE  Done(c)' /\ TablesKept /\ UNCHANGED history /\ fresh' = fresh
             /\ \A d \in Clients : pc[d] = "idle"
  <2>1. PICK j \in Job, label \in {"status_read", "delete_read"} :
           CallAfterRollback(c, j, label)
    BY <1>3, ShopAssumption, NoJobIsAJob
       DEF DeleteTransaction, UpdateStatus, ShopAssumption, Job, NoJob
  <2>2. fresh' = fresh
    BY <1>3 DEF DeleteTransaction, UpdateStatus
  <2>4. pc'[c] = label /\ job'[c] = j /\ Fresh(c)' /\ TablesKept
        /\ UNCHANGED history /\ \A d \in Clients : pc[d] = "idle"
    BY <1>1, <2>1
  <2>5. Done(c)'
    BY <2>4 DEF Done, OrderDone, ProductDone, AtCommit, Saves
  <2>6. QED
    BY <2>2, <2>4, <2>5
<1>4. ASSUME NEW p \in Products, NEW n \in NewStock, SaveProduct(c, p, n)
      PROVE  Done(c)' /\ TablesKept /\ UNCHANGED history /\ fresh' \subseteq fresh
             /\ \A d \in Clients : pc[d] = "idle"
  <2> DEFINE j == [NoJob EXCEPT !.op = "new", !.product = p, !.amount = n]
  <2>0. n \in Nat
    BY ShopAssumption DEF ShopAssumption
  <2>1. j \in Job
    BY <2>0, NoJobIsAJob DEF Job
  <2>2. j.op = "new" /\ j.product = p /\ j.amount = n
    BY DEF NoJob
  <2>3. CallAfterRollback(c, j, "insert_product") /\ fresh' = fresh \ {p} /\ p \in fresh
    BY <1>4 DEF SaveProduct
  <2> HIDE DEF j
  <2>4. pc'[c] = "insert_product" /\ job'[c] = j /\ Fresh(c)' /\ TablesKept
        /\ UNCHANGED history /\ \A d \in Clients : pc[d] = "idle"
    BY <1>1, <2>1, <2>3
  <2>5. committed'[Prod(p)] = Absent
    BY <2>3, <2>4 DEF TablesKept, SerialInv, FreshProducts
  <2>6. Inserts(c)'
    BY <2>2, <2>3, <2>4, <2>5 DEF Inserts
  <2>7. Done(c)'
    BY <2>4, <2>6 DEF Done, OrderDone, ProductDone, AtCommit, Saves, Fresh
  <2>8. QED
    BY <2>3, <2>4, <2>7
<1>5. ASSUME NEW p \in Products,
             CallDeleteProduct(c, p) \/ \E q \in 1..MaxQty : CallAddStock(c, p, q)
      PROVE  Done(c)' /\ TablesKept /\ UNCHANGED history /\ fresh' = fresh
             /\ \A d \in Clients : pc[d] = "idle"
  <2>1. CASE CallDeleteProduct(c, p)
    <3> DEFINE j == [NoJob EXCEPT !.op = "remove", !.product = p]
    <3>1. j \in Job /\ j.op = "remove" /\ j.product = p
      BY NoJobIsAJob DEF Job, NoJob
    <3>2. Call(c, j, "delete_product") /\ UNCHANGED <<engine, fresh>>
      BY <2>1 DEF CallDeleteProduct
    <3> HIDE DEF j
    <3>3. pc'[c] = "delete_product" /\ job'[c] = j /\ UNCHANGED history /\ written[c] = {}
          /\ \A d \in Clients : pc[d] = "idle"
      BY <1>0, <3>1, <3>2
    <3>4. Done(c)'
      BY <3>1, <3>2, <3>3
         DEF Done, OrderDone, ProductDone, AtCommit, Saves, Removes, engine
    <3>5. QED
      BY <3>2, <3>3, <3>4 DEF TablesKept, engine
  <2>2. CASE \E q \in 1..MaxQty : CallAddStock(c, p, q)
    <3>0. PICK q \in 1..MaxQty : CallAddStock(c, p, q)
      BY <2>2
    <3> DEFINE j == [NoJob EXCEPT !.op = "add", !.product = p, !.amount = q]
    <3> HIDE DEF Base, Inv1, AppTypes
    <3>5. q \in Nat
      BY ShopAssumption DEF ShopAssumption
    <3>6. j \in Job
      BY <3>5, NoJobIsAJob DEF Job
    <3>1. j \in Job /\ j.op = "add" /\ j.product = p /\ j.amount = q
      BY <3>6 DEF NoJob
    <3>2. Call(c, j, "add_stock") /\ UNCHANGED <<engine, fresh>>
      BY <3>0 DEF CallAddStock
    <3> HIDE DEF j
    <3>3. pc'[c] = "add_stock" /\ job'[c] = j /\ UNCHANGED history /\ written[c] = {}
          /\ \A d \in Clients : pc[d] = "idle"
      BY <1>0, <3>1, <3>2
    <3>4. Done(c)'
      BY <3>1, <3>2, <3>3
         DEF Done, OrderDone, ProductDone, AtCommit, Saves, Supplies, engine
    <3>7. QED
      BY <3>2, <3>3, <3>4 DEF TablesKept, engine
  <2>3. QED
    BY <1>5, <2>1, <2>2
<1>6. CASE OrderCall(c)
  BY <1>2, <1>3, <1>6 DEF OrderCall
<1>7. CASE ProductCall(c)
  BY <1>4, <1>5, <1>7 DEF ProductCall
<1>8. QED
  BY <1>6, <1>7

(* What the product rows hold.                                             *)
LEMMA ProductValues ==
    ASSUME Base, NEW p \in Products
    PROVE  /\ Prod(p) \in Rows
           /\ newest[Prod(p)] # Absent => newest[Prod(p)] \in ProductRow
           /\ committed[Prod(p)] # Absent => committed[Prod(p)] \in ProductRow
  BY RowsAndValues DEF Base, Inv1, EngineTypes, IsContents

(* Before anything is given back or taken.                                 *)
LEMMA NothingMoved ==
    ASSUME Base, SameProducts
    PROVE  Gave(<<>>) /\ Took(<<>>)
<1> SUFFICES ASSUME NEW p \in Products, committed[Prod(p)] # Absent
             PROVE  /\ newest[Prod(p)].stock = committed[Prod(p)].stock + Demand(<<>>, p)
                    /\ newest[Prod(p)].stock = committed[Prod(p)].stock - Demand(<<>>, p)
  BY DEF SameProducts, SameProduct, Gave, Took, Changed
<1>1. Demand(<<>>, p) = 0
  <2>1. <<>> \in Seq(Line) /\ p \notin Ordered(<<>>)
    BY DEF Ordered, AtomicStore!Ordered
  <2>2. QED
    BY <2>1, DemandOfNone
<1>2. committed[Prod(p)].stock \in Int
  BY ProductValues DEF ProductRow
<1>3. newest[Prod(p)] = committed[Prod(p)]
  BY DEF SameProducts, SameProduct
<1>4. QED
  BY <1>1, <1>2, <1>3

(* After a rollback every product is as committed.                         *)
LEMMA CleanProducts ==
    ASSUME Base, Alone, NEW c \in Clients, pc[c] # "idle", written[c] = {}
    PROVE  SameProducts /\ \A r \in Rows : newest[r] = committed[r]
  BY OthersAreQuiet, RowsAndValues DEF SameProducts, SameProduct

(* A SELECT of a method returns the newest version.                        *)
LEMMA SeesNewest ==
    ASSUME Base, Alone, NEW c \in Clients, pc[c] # "idle", Reads(c), NEW r \in Rows
    PROVE  Seen(c, r) = newest[r]
  BY OthersAreQuiet DEF Seen, ReadView, Reads

(* A SELECT that opens the view opens the committed tables.                *)
LEMMA OpensCommitted ==
    ASSUME Base, NEW c \in Clients, Reads(c), OpenView(c)
    PROVE  TablesKept /\ Reads(c)' /\ written' = written
  BY DEF Base, Inv1, EngineTypes, Reads, OpenView, ReadView, TablesKept

QuietStep(c) == Done(c)' /\ TablesKept /\ UNCHANGED <<listed, placed, fresh>>

(* SELECT customer_id: nothing was done before it, and nothing after it.   *)
LEMMA SelectDone ==
    ASSUME Base, SerialInv, NEW c \in Clients, SelectCustomer(c)
    PROVE  QuietStep(c)
<1> USE DEF Base, Inv1, AppTypes
<1>1. Fresh(c) /\ job[c].lines \in LineLists
  BY DEF SelectCustomer, OrderStep, SerialInv, Done, OrderDone
<1>2. TablesKept /\ Fresh(c)'
  BY <1>1, OpensCommitted DEF Fresh, SelectCustomer
<1>3. job' = job /\ pc'[c] \in {"save_header", "raise"} /\ UNCHANGED <<listed, placed, fresh>>
  BY DEF SelectCustomer, OrderStep, Goto
<1>4. Done(c)'
  BY <1>1, <1>2, <1>3 DEF Done, OrderDone, ProductDone, AtCommit, Saves
<1>5. QED
  BY <1>2, <1>3, <1>4 DEF QuietStep

(* SELECT price, stock_quantity: the stock read is the newest one, and the *)
(* line was not refused.                                                   *)
LEMMA ReadProductDone ==
    ASSUME Base, SerialInv, NEW c \in Clients, ReadProduct(c)
    PROVE  QuietStep(c)
<1> USE DEF Base, Inv1, AppTypes
<1>1. Saving(c) /\ pc[c] = "save_read" /\ Reads(c) /\ Alone
  BY DEF ReadProduct, OrderStep, SerialInv, Done, OrderDone, Saving, Saves
<1> DEFINE row == Seen(c, Prod(ThisLine(c).product))
<1>2. ThisLine(c) \in Line /\ ThisLine(c).product \in Products /\ ThisLine(c).qty \in Nat
  BY <1>1, Lines DEF JobsReady, JobReady, SaveLabels, ThisLine, Job
<1>3. row = newest[Prod(ThisLine(c).product)]
  BY <1>1, <1>2, SeesNewest, ProductValues
<1>4. row # Absent /\ ThisLine(c).qty > 0
  BY <1>2 DEF ReadProduct, Refused
<1>5. /\ TablesKept /\ Reads(c)' /\ UNCHANGED <<listed, placed, fresh>>
      /\ pc'[c] = "save_line"
      /\ job'[c].lines = job[c].lines /\ job'[c].order = job[c].order
      /\ job'[c].amount = row.stock
  <2>1. TablesKept /\ Reads(c)'
    BY <1>1, OpensCommitted DEF ReadProduct
  <2>2. job'[c] = [job[c] EXCEPT !.amount = row.stock] /\ job[c] \in Job
    BY DEF ReadProduct
  <2>3. job'[c].lines = job[c].lines /\ job'[c].order = job[c].order
        /\ job'[c].amount = row.stock
    BY <2>2 DEF Job
  <2>4. QED
    BY <2>1, <2>3 DEF ReadProduct, OrderStep, Goto
<1> HIDE DEF row, Base, Inv1, AppTypes
<1>6. Checked(c)'
  BY <1>3, <1>4, <1>5 DEF Checked, ThisLine, TablesKept
<1>7. Saving(c)'
  <2>1. PICK done \in Seq(Line) : Halfway(c, done)
    BY <1>1 DEF Saving
  <2>2. Halfway(c, done)'
    BY <1>5, <2>1, KeptTables DEF Halfway
  <2>3. QED
    BY <1>1, <1>5, <2>2 DEF Saving, TablesKept
<1>8. Done(c)'
  BY <1>5, <1>6, <1>7 DEF Done, OrderDone, ProductDone, AtCommit, Saves
<1>9. QED
  BY <1>5, <1>8 DEF QuietStep

(* SELECT status: what was read is the committed status of the order.      *)
LEMMA ReadStatusDone ==
    ASSUME Base, SerialInv, NEW c \in Clients, ReadStatus(c) \/ ReadForDelete(c)
    PROVE  QuietStep(c)
<1> USE DEF Base, Inv1, AppTypes
<1> DEFINE r == Ord(job[c].order)
<1>1. Fresh(c) /\ pc[c] \in {"status_read", "delete_read"} /\ Alone /\ r \in Rows
  BY RowsAndValues
     DEF ReadStatus, ReadForDelete, OrderStep, SerialInv, Done, OrderDone, JobsReady, JobReady,
         OrderLabels
<1>2. Seen(c, r) = committed[r]
  BY <1>1, SeesNewest, CleanProducts DEF Fresh
<1>3. /\ TablesKept /\ Fresh(c)' /\ UNCHANGED <<listed, placed, fresh>>
      /\ job'[c].old = committed[r]
      /\ job'[c].order = job[c].order /\ job'[c].op = job[c].op /\ job'[c].new = job[c].new
  <2>1. TablesKept /\ Fresh(c)'
    BY <1>1, OpensCommitted DEF Fresh, ReadStatus, ReadForDelete
  <2>2. job'[c] = [job[c] EXCEPT !.old = Seen(c, r)] /\ job[c] \in Job
    BY DEF ReadStatus, ReadForDelete
  <2>3. /\ job'[c].old = Seen(c, r)
        /\ job'[c].order = job[c].order /\ job'[c].op = job[c].op /\ job'[c].new = job[c].new
    BY <2>2 DEF Job
  <2>4. QED
    BY <1>2, <2>1, <2>3 DEF ReadStatus, ReadForDelete, OrderStep
<1>4. SameProducts' /\ Reads(c)' /\ OldStatus(c)'
  BY <1>1, <1>3, CleanProducts, KeptTables DEF Fresh, OldStatus, TablesKept
<1>5. CASE ReadStatus(c)
  <2>1. /\ pc'[c] = IF committed[r] = Absent
                       \/ (committed[r] = "CANCELLED" /\ job[c].new # "CANCELLED")
                      THEN "raise" ELSE "status_write"
        /\ job[c].new \in Statuses
    BY <1>2, <1>5 DEF ReadStatus, OrderStep, Goto, JobsReady, JobReady
  <2>2. pc'[c] = "status_write" => Allowed(c)'
    BY <1>3, <1>4, <2>1 DEF Allowed
  <2>3. pc'[c] \in {"raise", "status_write"}
    BY <2>1
  <2> HIDE DEF Base, Inv1, AppTypes, r
  <2>4. Done(c)'
    BY <1>3, <2>2, <2>3 DEF Done, OrderDone, ProductDone, AtCommit, Saves
  <2>5. QED
    BY <1>3, <2>4 DEF QuietStep
<1>6. CASE ReadForDelete(c)
  <2>1. /\ pc'[c] = IF committed[r] \in {Absent, "CANCELLED"}
                      THEN "delete_lines" ELSE "items_read"
        /\ job[c].op = "delete"
    BY <1>2, <1>6 DEF ReadForDelete, OrderStep, Goto, OrderInv, Work, OpFits
  <2>2. pc'[c] = "items_read" => ToReturn(c)'
    BY <1>3, <1>4, <2>1 DEF ToReturn, Returns
  <2>3. pc'[c] = "delete_lines" => Returned(c, Returns(c))'
    BY <1>3, <1>4, <2>1 DEF Returned, Returns
  <2>4. pc'[c] \in {"delete_lines", "items_read"}
    BY <2>1
  <2> HIDE DEF Base, Inv1, AppTypes, r
  <2>5. Done(c)'
    BY <1>3, <1>4, <2>2, <2>3, <2>4
       DEF Done, OrderDone, ProductDone, AtCommit, Saves, Fresh
  <2>6. QED
    BY <1>3, <2>5 DEF QuietStep
<1>7. QED
  BY <1>5, <1>6

(* SELECT the items: all of them are still to be given back.               *)
LEMMA ReadItemsDone ==
    ASSUME Base, SerialInv, NEW c \in Clients, ReadItems(c)
    PROVE  QuietStep(c)
<1> USE DEF Base, Inv1, AppTypes
<1> DEFINE o == job[c].order
           lines == committed[Items(o)]
<1>1. /\ pc[c] = "items_read" /\ Alone /\ o \in OrderIds
      /\ ToReturn(c) /\ SameProducts /\ Reads(c) /\ Items(o) \notin written[c]
  BY DEF ReadItems, OrderStep, SerialInv, Done, OrderDone, JobsReady, JobReady, OrderLabels
<1>2. lines \in Seq(Line) /\ lines # Absent
  <2>1. committed[Ord(o)] # Absent
    BY <1>1 DEF ToReturn, Headed, Allowed, OldStatus, Returns
  <2>2. lines = placed[o]
    BY <1>1, <2>1 DEF OrderInv, OrdersWhole
  <2>3. QED
    BY <1>1, <2>2, ShopAssumption DEF ShopAssumption
<1>3. Seen(c, Items(o)) = lines
  BY <1>1, SeesNewest, OthersAreQuiet, RowsAndValues
<1>4. job[c].op \in {"status", "delete"}
  BY <1>1 DEF OrderInv, Work, OpFits
<1>5. /\ TablesKept /\ UNCHANGED <<listed, placed, fresh>>
      /\ pc'[c] = IF lines # <<>> THEN "restock"
                  ELSE IF job[c].op = "delete" THEN "delete_lines" ELSE "commit"
      /\ job'[c].lines = lines
      /\ job'[c].order = o /\ job'[c].op = job[c].op /\ job'[c].new = job[c].new
      /\ job'[c].old = job[c].old
  <2>1. TablesKept
    BY <1>1, OpensCommitted DEF ReadItems
  <2>2. job'[c] = [job[c] EXCEPT !.lines = lines] /\ job[c] \in Job
    BY <1>2, <1>3 DEF ReadItems
  <2>3. /\ job'[c].lines = lines /\ job'[c].old = job[c].old
        /\ job'[c].order = o /\ job'[c].op = job[c].op /\ job'[c].new = job[c].new
    BY <2>2 DEF Job
  <2>4. pc'[c] = IF lines # <<>> THEN "restock"
                  ELSE IF job[c].op = "delete" THEN "delete_lines" ELSE "commit"
    BY <1>2, <1>3 DEF ReadItems, OrderStep, Goto, LoopTo, AfterRestock
  <2>5. QED
    BY <2>1, <2>3, <2>4 DEF ReadItems, OrderStep
<1>6. Gave(<<>>)'
  BY <1>1, <1>5, NothingMoved, KeptTables
<1>7. lines' = lines /\ lines = <<>> \o lines
  BY <1>2, <1>5 DEF TablesKept
<1>8. ToReturn(c)'
  BY <1>1, <1>5 DEF ToReturn, Headed, Allowed, OldStatus, Returns, Cancels, TablesKept
<1>9. PICK l : l = lines
  OBVIOUS
<1>10. l \in Seq(Line) /\ ItemsOf(c)' = l /\ job'[c].lines = l /\ l = <<>> \o l
  BY <1>2, <1>5, <1>7, <1>9 DEF ItemsOf
<1>11. (pc'[c] = "restock" /\ l # <<>>)
       \/ (pc'[c] = "delete_lines" /\ job[c].op = "delete" /\ l = <<>>)
       \/ (pc'[c] = "commit" /\ job[c].op = "status" /\ l = <<>>)
  BY <1>4, <1>5, <1>9
<1> HIDE DEF Base, Inv1, AppTypes, o, lines
<1>12. CASE pc'[c] = "restock"
  <2>1. Returning(c)'
    <3>1. <<>> \in Seq(Line) /\ Gave(<<>>)' /\ ItemsOf(c)' = <<>> \o job'[c].lines
      BY <1>6, <1>10
    <3>2. QED
      BY <3>1 DEF Returning
  <2>2. QED
    BY <1>5, <1>8, <1>12, <2>1
       DEF QuietStep, Done, OrderDone, ProductDone, AtCommit, Saves
<1>13. CASE pc'[c] = "delete_lines" /\ job[c].op = "delete" /\ l = <<>>
  <2>1. Gave(ItemsOf(c))'
    BY <1>6, <1>10, <1>13
  <2>2. OldStatus(c)' /\ Returned(c, Returns(c))'
    BY <1>5, <1>8, <1>13, <2>1 DEF Returned, ToReturn
  <2>3. QED
    BY <1>5, <1>13, <2>2
       DEF QuietStep, Done, OrderDone, ProductDone, AtCommit, Saves
<1>14. CASE pc'[c] = "commit" /\ job[c].op = "status" /\ l = <<>>
  <2>1. Gave(ItemsOf(c))'
    BY <1>6, <1>10, <1>14
  <2>2. Headed(c)' /\ Returned(c, Cancels(job[c]))'
    BY <1>5, <1>8, <1>14, <2>1 DEF Returned, ToReturn
  <2>3. QED
    BY <1>5, <1>14, <2>2
       DEF QuietStep, Done, OrderDone, ProductDone, AtCommit, Saves
<1>15. QED
  BY <1>11, <1>12, <1>13, <1>14

(* A statement that fails leaves everything to the except branch.          *)
LEMMA FailDone ==
    ASSUME Base, SerialInv, NEW c \in Clients,
           OrderIdsUsedUp(c) \/ RefuseLine(c) \/ LockError(c)
    PROVE  QuietStep(c)
<1>1. /\ pc'[c] = "raise" /\ TablesKept /\ UNCHANGED <<listed, placed, fresh>>
  BY DEF Base, Inv1, AppTypes, OrderIdsUsedUp, RefuseLine, LockError, OrderStep, Raise, Goto,
         engine, TablesKept, counters, history
<1>2. QED
  BY <1>1, NothingDone DEF QuietStep

(* What a write leaves as it was.                                          *)
LEMMA WrittenRow ==
    ASSUME Base, NEW c \in Clients, NEW r \in Rows, NEW v, NEW parents, Write(c, r, v, parents)
    PROVE  /\ newest'[r] = v /\ committed' = committed /\ view' = view
           /\ \A s \in Rows : s # r => newest'[s] = newest[s]
           /\ written'[c] \in {written[c], written[c] \cup {r}}
  BY DEF Base, Inv1, EngineTypes, IsContents, Write

ProductsKept ==
    /\ committed' = committed
    /\ \A p \in Products : newest'[Prod(p)] = newest[Prod(p)]

(* Statements on orders leave what was taken and given as it was.          *)
LEMMA KeptProducts ==
    ASSUME ProductsKept
    PROVE  /\ \A lines : /\ Took(lines)' = Took(lines) /\ Gave(lines)' = Gave(lines)
                         /\ Takeable(lines)' = Takeable(lines)
           /\ SameProducts' = SameProducts
  BY DEF ProductsKept, Took, Gave, Takeable, SameProducts, SameProduct, Changed

(* A write of an order row or of items keeps every product.                *)
LEMMA OrderWrite ==
    ASSUME Base, NEW c \in Clients, NEW o \in OrderIds, NEW r \in {Ord(o), Items(o)},
           NEW v, NEW parents, Write(c, r, v, parents)
    PROVE  /\ ProductsKept /\ newest'[r] = v /\ view' = view
           /\ written'[c] \in {written[c], written[c] \cup {r}}
           /\ \A e \in OrderIds : /\ Ord(e) # r => newest'[Ord(e)] = newest[Ord(e)]
                                  /\ Items(e) # r => newest'[Items(e)] = newest[Items(e)]
<1>1. r \in Rows
  BY RowsAndValues
<1>2. \A p \in Products : Prod(p) \in Rows /\ Prod(p) # r
  BY RowsAndValues, RowsDiffer
<1>3. QED
  BY <1>1, <1>2, WrittenRow, RowsAndValues DEF ProductsKept

WriteStep(c) ==
    /\ Done(c)' /\ FreshProducts'
    /\ UNCHANGED <<committed, listed, fresh>>

(* ... and so it keeps the products that are not there yet.                *)
LEMMA FreshKept ==
    ASSUME Base, FreshProducts, ProductsKept, fresh' = fresh
    PROVE  FreshProducts'
  BY DEF Base, Inv1, AppTypes, FreshProducts, ProductsKept

(* INSERT INTO orders: an order of which nothing is taken yet.             *)
LEMMA InsertOrderDone ==
    ASSUME Base, SerialInv, NEW c \in Clients, InsertOrder(c)
    PROVE  WriteStep(c)
<1> USE DEF Base, Inv1, AppTypes
<1>1. /\ Fresh(c) /\ job[c].lines \in LineLists /\ pc[c] = "save_header" /\ Alone
      /\ FreshProducts
  BY DEF InsertOrder, OrderStep, SerialInv, Done, OrderDone
<1>2. PICK o \in OrderIds : o = nextOrder
  BY DEF InsertOrder
<1>3. /\ ProductsKept /\ newest'[Ord(o)] = "PENDING" /\ view' = view
  <2>1. Write(c, Ord(o), "PENDING", {})
    BY <1>2 DEF InsertOrder
  <2> HIDE DEF Base, Inv1, AppTypes
  <2>2. QED
    BY <2>1, OrderWrite
<1>4. /\ job'[c].order = o /\ job'[c].lines = job[c].lines
      /\ pc'[c] = "save_read" /\ UNCHANGED <<listed, fresh>>
      /\ placed'[o] = job[c].lines
  <2>1. job'[c] = [job[c] EXCEPT !.order = o] /\ job[c] \in Job
    BY <1>2 DEF InsertOrder
  <2>2. job'[c].order = o /\ job'[c].lines = job[c].lines
    BY <2>1 DEF Job
  <2>3. QED
    BY <1>2, <2>2 DEF InsertOrder, OrderStep, Goto
<1>5. PICK lines \in LineLists : lines = job[c].lines
  BY <1>1
<1>6. lines = <<>> \o lines /\ <<>> \in Seq(Line)
  BY ShopAssumption DEF ShopAssumption
<1> HIDE DEF Base, Inv1, AppTypes
<1>7. Took(<<>>)' /\ Takeable(<<>>)'
  <2>1. Took(<<>>)
    BY <1>1, CleanProducts, NothingMoved DEF Fresh
  <2>2. Takeable(<<>>)
    BY DEF Takeable
  <2>3. QED
    BY <1>3, <2>1, <2>2, KeptProducts
<1>8. Halfway(c, <<>>)'
  BY <1>4, <1>5, <1>6, <1>7 DEF Halfway
<1>9. Saving(c)'
  BY <1>1, <1>3, <1>4, <1>5, <1>6, <1>8 DEF Saving, Fresh, Reads, ProductsKept
<1>10. Done(c)'
  BY <1>4, <1>9 DEF Done, OrderDone, ProductDone, AtCommit, Saves
<1>11. QED
  BY <1>1, <1>3, <1>4, <1>10, FreshKept DEF WriteStep, ProductsKept

(* INSERT INTO order_items: the line has been checked and is still to be   *)
(* taken.                                                                  *)
LEMMA InsertLineDone ==
    ASSUME Base, SerialInv, NEW c \in Clients, InsertLine(c)
    PROVE  WriteStep(c)
<1> USE DEF Base, Inv1, AppTypes
<1> DEFINE o == job[c].order
           p == ThisLine(c).product
<1>1. /\ Saving(c) /\ Checked(c) /\ pc[c] = "save_line" /\ o \in OrderIds /\ FreshProducts
  BY DEF InsertLine, OrderStep, SerialInv, Done, OrderDone, Saves, JobsReady, JobReady,
         OrderLabels
<1>2. p \in Products /\ UNCHANGED <<listed, fresh, placed>>
  BY <1>1, Lines DEF JobsReady, JobReady, SaveLabels, ThisLine, Job, InsertLine, OrderStep
<1>3. CASE Raise(c)
  <2>1. pc'[c] = "raise" /\ ProductsKept
    BY <1>3 DEF Raise, Goto, engine, ProductsKept
  <2>2. QED
    BY <1>1, <1>2, <2>1, NothingDone, FreshKept DEF WriteStep, ProductsKept
<1>4. CASE ~Raise(c)
  <2>1. /\ Write(c, Items(o), Append(SoFar(o), ThisLine(c)), {Prod(p)})
        /\ pc'[c] = "save_stock" /\ job' = job
    BY <1>4 DEF InsertLine, OrderStep, Goto, SoFar
  <2> HIDE DEF Base, Inv1, AppTypes
  <2>2. ProductsKept /\ newest'[Ord(o)] = newest[Ord(o)] /\ view' = view
    BY <1>1, <2>1, OrderWrite, RowsDiffer
  <2>3. Saving(c)'
    <3>1. PICK done \in Seq(Line) : Halfway(c, done)
      BY <1>1 DEF Saving
    <3>2. Halfway(c, done)'
      BY <1>2, <2>1, <2>2, <3>1, KeptProducts DEF Halfway
    <3>3. QED
      BY <1>1, <1>2, <2>1, <2>2, <3>2 DEF Saving, Reads, ProductsKept
  <2>4. Checked(c)'
    BY <1>1, <1>2, <2>1, <2>2 DEF Checked, ProductsKept, ThisLine
  <2>5. Done(c)'
    BY <2>1, <2>3, <2>4 DEF Done, OrderDone, ProductDone, AtCommit, Saves
  <2>6. QED
    BY <1>1, <1>2, <2>2, <2>5, FreshKept DEF WriteStep, ProductsKept
<1>5. QED
  BY <1>3, <1>4

(* What a write of a product leaves as it was.                             *)
OtherRowsKept(p) ==
    /\ committed' = committed
    /\ \A q \in Products : q # p => newest'[Prod(q)] = newest[Prod(q)]
    /\ \A o \in OrderIds : /\ newest'[Ord(o)] = newest[Ord(o)]
                           /\ newest'[Items(o)] = newest[Items(o)]

(* UPDATE products changes one product and no row of orders.               *)
LEMMA ProductWrite ==
    ASSUME Base, NEW c \in Clients, NEW p \in Products,
           NEW v, NEW parents, Write(c, Prod(p), v, parents)
    PROVE  /\ OtherRowsKept(p) /\ newest'[Prod(p)] = v /\ view' = view
           /\ written'[c] \in {written[c], written[c] \cup {Prod(p)}}
<1>1. Prod(p) \in Rows
  BY RowsAndValues
<1>2. \A q \in Products : Prod(q) \in Rows /\ (q # p => Prod(q) # Prod(p))
  BY RowsAndValues, RowsDiffer
<1>3. \A o \in OrderIds : Ord(o) \in Rows /\ Items(o) \in Rows
                          /\ Ord(o) # Prod(p) /\ Items(o) # Prod(p)
  BY RowsAndValues, RowsDiffer
<1>4. QED
  BY <1>1, <1>2, <1>3, WrittenRow DEF OtherRowsKept

(* Products that exist, or are about to, are not fresh.                    *)
LEMMA FreshOthers ==
    ASSUME Base, FreshProducts, NEW p \in Products, p \notin fresh, OtherRowsKept(p),
           fresh' = fresh
    PROVE  FreshProducts'
  BY DEF Base, Inv1, AppTypes, FreshProducts, OtherRowsKept

(* The stock of a row changes by q.                                        *)
StockMoves(p, q) ==
    /\ OtherRowsKept(p)
    /\ newest[Prod(p)] = Absent => newest'[Prod(p)] = Absent
    /\ newest[Prod(p)] # Absent =>
          /\ newest'[Prod(p)] # Absent
          /\ newest'[Prod(p)].stock = newest[Prod(p)].stock + q
          /\ newest'[Prod(p)].supplied = newest[Prod(p)].supplied

(* One line more is taken from stock.                                      *)
LEMMA TakeOne ==
    ASSUME Base, NEW done \in Seq(Line), NEW line \in Line, Took(done),
           StockMoves(line.product, -line.qty)
    PROVE  Took(Append(done, line))'
<1>1. line.qty \in Nat /\ line.product \in Products
  BY DEF Line
<1> SUFFICES ASSUME NEW p \in Products
             PROVE  Changed(p, committed[Prod(p)].stock - Demand(Append(done, line), p),
                            committed[Prod(p)].supplied)'
  BY DEF Took
<1>2. /\ Demand(done, p) \in Nat
      /\ Demand(Append(done, line), p) =
            Demand(done, p) + IF line.product = p THEN line.qty ELSE 0
  BY UnitsFinite, DemandOfMore
<1>3. Changed(p, committed[Prod(p)].stock - Demand(done, p), committed[Prod(p)].supplied)
  BY DEF Took
<1>4. committed' = committed
  BY DEF StockMoves, OtherRowsKept
<1>5. CASE p # line.product
  <2>1. newest'[Prod(p)] = newest[Prod(p)]
    BY <1>5 DEF StockMoves, OtherRowsKept
  <2>2. committed[Prod(p)] # Absent => committed[Prod(p)].stock \in Int
    BY ProductValues DEF ProductRow
  <2>3. QED
    BY <1>2, <1>3, <1>4, <1>5, <2>1, <2>2 DEF Changed
<1>6. CASE p = line.product
  <2>2. committed[Prod(p)] # Absent => committed[Prod(p)].stock \in Int
    BY ProductValues DEF ProductRow
  <2>3. QED
    BY <1>1, <1>2, <1>3, <1>4, <1>6, <2>2 DEF Changed, StockMoves
<1>7. QED
  BY <1>5, <1>6

(* One line more is given back to stock.                                   *)
LEMMA GiveOne ==
    ASSUME Base, NEW done \in Seq(Line), NEW line \in Line, Gave(done),
           StockMoves(line.product, line.qty)
    PROVE  Gave(Append(done, line))'
<1>1. line.qty \in Nat /\ line.product \in Products
  BY DEF Line
<1> SUFFICES ASSUME NEW p \in Products
             PROVE  Changed(p, committed[Prod(p)].stock + Demand(Append(done, line), p),
                            committed[Prod(p)].supplied)'
  BY DEF Gave
<1>2. /\ Demand(done, p) \in Nat
      /\ Demand(Append(done, line), p) =
            Demand(done, p) + IF line.product = p THEN line.qty ELSE 0
  BY UnitsFinite, DemandOfMore
<1>3. Changed(p, committed[Prod(p)].stock + Demand(done, p), committed[Prod(p)].supplied)
  BY DEF Gave
<1>4. committed' = committed
  BY DEF StockMoves, OtherRowsKept
<1>5. CASE p # line.product
  <2>1. newest'[Prod(p)] = newest[Prod(p)]
    BY <1>5 DEF StockMoves, OtherRowsKept
  <2>2. committed[Prod(p)] # Absent => committed[Prod(p)].stock \in Int
    BY ProductValues DEF ProductRow
  <2>3. QED
    BY <1>2, <1>3, <1>4, <1>5, <2>1, <2>2 DEF Changed
<1>6. CASE p = line.product
  <2>2. committed[Prod(p)] # Absent => committed[Prod(p)].stock \in Int
    BY ProductValues DEF ProductRow
  <2>3. QED
    BY <1>1, <1>2, <1>3, <1>4, <1>6, <2>2 DEF Changed, StockMoves
<1>7. QED
  BY <1>5, <1>6

(* UPDATE products in save_transaction: the line at hand is taken from     *)
(* stock.                                                                  *)
LEMMA DeductDone ==
    ASSUME Base, SerialInv, NEW c \in Clients, DeductStock(c)
    PROVE  WriteStep(c)
<1> USE DEF Base, Inv1, AppTypes
<1> DEFINE line == ThisLine(c)
           p == line.product
           o == job[c].order
           row == newest[Prod(p)]
           less == [row EXCEPT !.stock = job[c].amount - line.qty]
<1>1. /\ Saving(c) /\ Checked(c) /\ pc[c] = "save_stock" /\ o \in OrderIds /\ FreshProducts
      /\ job[c].lines \in Seq(Line) /\ job[c].lines # <<>>
      /\ job[c].amount \in 0..MaxInt /\ line.qty <= job[c].amount
      /\ job[c].op = "save"
  BY DEF DeductStock, OrderStep, SerialInv, Done, OrderDone, Saves, JobsReady, JobReady,
         OrderLabels, SaveLabels, Job, OrderInv, Work, OpFits
<1>2. /\ line \in Line /\ p \in Products /\ line.qty \in Nat /\ line = Head(job[c].lines)
      /\ UNCHANGED <<listed, fresh, placed>>
  BY <1>1, Lines DEF ThisLine, DeductStock, OrderStep
<1>3. row # Absent /\ row \in ProductRow /\ row.stock = job[c].amount /\ line.qty > 0
  BY <1>1, <1>2, ProductValues DEF Checked
<1>4. less \in ProductRow /\ less.stock = row.stock - line.qty /\ less.supplied = row.supplied
  <2>1. job[c].amount - line.qty \in 0..MaxInt
    BY <1>1, <1>2, ShopAssumption DEF ShopAssumption
  <2>2. QED
    BY <1>3, <2>1 DEF ProductRow
<1>5. Write(c, Prod(p), less, {})
  BY <1>3 DEF DeductStock, UpdateProduct
<1>6. /\ job'[c].lines = Tail(job[c].lines) /\ job'[c].order = o /\ job'[c].op = "save"
      /\ pc'[c] = IF Tail(job[c].lines) = <<>> THEN "commit" ELSE "save_read"
  <2>1. job'[c] = [job[c] EXCEPT !.lines = Tail(job[c].lines)] /\ job[c] \in Job
    BY DEF DeductStock
  <2>2. job'[c].lines = Tail(job[c].lines) /\ job'[c].order = o /\ job'[c].op = "save"
    BY <1>1, <2>1 DEF Job
  <2>3. QED
    BY <2>2 DEF DeductStock, OrderStep, Goto, LoopTo
<1> HIDE DEF less, row, line, o
<1>7. PICK l \in Line : l = line
  BY <1>2
<1> HIDE DEF Base, Inv1, AppTypes
<1>8. /\ OtherRowsKept(p) /\ newest'[Prod(p)] = less /\ view' = view
  BY <1>2, <1>5, ProductWrite
<1>9. StockMoves(l.product, -l.qty)
  <2>1. row.stock - line.qty = row.stock + (-line.qty)
    BY <1>2, <1>3 DEF ProductRow
  <2>2. less # Absent
    BY <1>4, ShopAssumption DEF ShopAssumption
  <2>3. QED
    BY <1>3, <1>4, <1>7, <1>8, <2>1, <2>2 DEF StockMoves, row
<1>10. PICK done \in Seq(Line) : Halfway(c, done)
  BY <1>1 DEF Saving
<1>11. Append(done, l) \in Seq(Line)
  OBVIOUS
<1>12. Halfway(c, Append(done, l))'
  <2>1. Took(Append(done, l))'
    BY <1>9, <1>10, TakeOne DEF Halfway
  <2>2. committed[Prod(l.product)] # Absent
    BY <1>2, <1>3, <1>7, <1>10 DEF Halfway, Took, Changed, row
  <2>3. Takeable(Append(done, l))'
    <3>1. Takeable(done) /\ committed' = committed
      BY <1>8, <1>10 DEF Halfway, OtherRowsKept
    <3>2. ASSUME NEW i \in DOMAIN Append(done, l)
          PROVE  \/ i \in DOMAIN done /\ Append(done, l)[i] = done[i]
                 \/ Append(done, l)[i] = l
      OBVIOUS
    <3>3. QED
      BY <1>3, <1>7, <2>2, <3>1, <3>2 DEF Takeable
  <2>4. placed'[o] = Append(done, l) \o Tail(job[c].lines)
    BY <1>1, <1>2, <1>7, <1>10, MoveOne DEF Halfway, o
  <2>5. QED
    BY <1>6, <2>1, <2>3, <2>4 DEF Halfway
<1>13. Saving(c)'
  <2>1. newest'[Ord(o)] = "PENDING" /\ placed'[o] \in LineLists
    BY <1>1, <1>2, <1>8 DEF Saving, OtherRowsKept, o
  <2>2. Reads(c)'
    BY <1>1, <1>8 DEF Saving, Reads, OtherRowsKept
  <2>3. QED
    BY <1>6, <1>11, <1>12, <2>1, <2>2 DEF Saving
<1>14. Done(c)'
  BY <1>6, <1>13 DEF Done, OrderDone, ProductDone, AtCommit, Saves
<1>15. FreshProducts'
  <2>1. p \notin fresh
    BY <1>1, <1>3 DEF FreshProducts, row
  <2>2. QED
    BY <1>1, <1>2, <1>8, <2>1, FreshOthers
<1>16. QED
  BY <1>2, <1>8, <1>14, <1>15 DEF WriteStep, OtherRowsKept

(* UPDATE products in update_status and delete_transaction: a line goes    *)
(* back to stock.                                                          *)
LEMMA RestockDone ==
    ASSUME Base, SerialInv, NEW c \in Clients, Restock(c)
    PROVE  WriteStep(c)
<1> USE DEF Base, Inv1, AppTypes
<1> DEFINE line == ThisLine(c)
           p == line.product
           o == job[c].order
           row == newest[Prod(p)]
           more == [row EXCEPT !.stock = @ + line.qty]
<1>1. /\ ToReturn(c) /\ Returning(c) /\ pc[c] = "restock" /\ o \in OrderIds /\ FreshProducts
      /\ job[c].lines \in Seq(Line) /\ job[c].lines # <<>>
      /\ job[c].op \in {"status", "delete"}
  BY DEF Restock, OrderStep, SerialInv, Done, OrderDone, JobsReady, JobReady,
         OrderLabels, Job, OrderInv, Work, OpFits
<1>2. /\ line \in Line /\ p \in Products /\ line.qty \in Nat /\ line = Head(job[c].lines)
      /\ UNCHANGED <<listed, fresh, placed>>
  BY <1>1, Lines DEF ThisLine, Restock, OrderStep
<1>3. row # Absent => row \in ProductRow
  BY <1>2, ProductValues
<1>4. CASE Raise(c)
  <2>1. pc'[c] = "raise" /\ ProductsKept
    BY <1>4 DEF Raise, Goto, engine, ProductsKept
  <2>2. QED
    BY <1>1, <1>2, <2>1, NothingDone, FreshKept DEF WriteStep, ProductsKept
<1>5. CASE ~Raise(c)
  <2>0. ~Overflows(p, line.qty) /\ UpdateProduct(c, p, more)
    BY <1>5 DEF Restock
  <2>1. /\ job'[c].lines = Tail(job[c].lines) /\ job'[c].order = o /\ job'[c].op = job[c].op
        /\ job'[c].new = job[c].new /\ job'[c].old = job[c].old
        /\ pc'[c] = IF Tail(job[c].lines) # <<>> THEN "restock"
                    ELSE IF job[c].op = "delete" THEN "delete_lines" ELSE "commit"
    <3>1. job'[c] = [job[c] EXCEPT !.lines = Tail(job[c].lines)] /\ job[c] \in Job
      BY <1>5 DEF Restock
    <3>2. /\ job'[c].lines = Tail(job[c].lines) /\ job'[c].order = o /\ job'[c].op = job[c].op
          /\ job'[c].new = job[c].new /\ job'[c].old = job[c].old
      BY <3>1 DEF Job
    <3>3. QED
      BY <1>5, <3>2 DEF Restock, OrderStep, Goto, LoopTo, AfterRestock
  <2>2. row # Absent => /\ more.stock = row.stock + line.qty /\ more.supplied = row.supplied
                        /\ more # Absent
    <3>1. SUFFICES ASSUME row # Absent
                   PROVE  /\ more.stock = row.stock + line.qty
                          /\ more.supplied = row.supplied /\ more # Absent
      OBVIOUS
    <3>2. row.stock + line.qty \in 0..MaxInt
      BY <1>2, <1>3, <2>0, <3>1, ShopAssumption DEF Overflows, ProductRow, ShopAssumption
    <3>3. more \in ProductRow /\ more.stock = row.stock + line.qty
          /\ more.supplied = row.supplied
      BY <1>3, <3>1, <3>2 DEF ProductRow
    <3>4. QED
      BY <3>3, ShopAssumption DEF ShopAssumption
  <2>3. row = Absent => UNCHANGED engine
    BY <2>0 DEF UpdateProduct
  <2>4. row # Absent => Write(c, Prod(p), more, {})
    BY <2>0 DEF UpdateProduct
  <2> HIDE DEF more, Base, Inv1, AppTypes
  <2>5. OtherRowsKept(p) /\ (row # Absent => newest'[Prod(p)] = more)
    <3>1. CASE row = Absent
      BY <2>3, <3>1 DEF engine, OtherRowsKept
    <3>2. CASE row # Absent
      BY <1>2, <2>4, <3>2, ProductWrite
    <3>3. QED
      BY <3>1, <3>2
  <2>6. row = Absent => newest'[Prod(p)] = Absent
    BY <2>3 DEF engine
  <2> HIDE DEF row, line, o
  <2>7. PICK l \in Line : l = line
    BY <1>2
  <2>8. StockMoves(l.product, l.qty)
    BY <2>2, <2>5, <2>6, <2>7 DEF StockMoves, row
  <2>9. PICK done \in Seq(Line) : Gave(done) /\ ItemsOf(c) = done \o job[c].lines
    BY <1>1 DEF Returning
  <2>10. PICK all \in Seq(Line) : all = Append(done, l)
    <3>1. Append(done, l) \in Seq(Line)
      OBVIOUS
    <3>2. QED
      BY <3>1
  <2>11. Gave(all)'
    BY <2>8, <2>9, <2>10, GiveOne
  <2>12. ItemsOf(c)' = all \o job'[c].lines
    <3>1. ItemsOf(c)' = ItemsOf(c)
      BY <2>1, <2>5 DEF ItemsOf, OtherRowsKept, o
    <3>2. ItemsOf(c) = all \o Tail(job[c].lines)
      BY <1>1, <1>2, <2>7, <2>9, <2>10, MoveOne
    <3>3. QED
      BY <2>1, <3>1, <3>2
  <2>13. ToReturn(c)'
    BY <1>1, <2>1, <2>5
       DEF ToReturn, Headed, Allowed, OldStatus, Returns, Cancels, OtherRowsKept, o
  <2>14. FreshProducts'
    <3>1. CASE row = Absent
      <4>1. ProductsKept
        BY <2>3, <3>1 DEF ProductsKept, engine
      <4>2. QED
        BY <1>1, <1>2, <4>1, FreshKept
    <3>2. CASE row # Absent
      <4>1. p \notin fresh
        BY <1>1, <3>2 DEF FreshProducts, row
      <4>2. QED
        BY <1>1, <1>2, <2>5, <4>1, FreshOthers
    <3>3. QED
      BY <3>1, <3>2
  <2>15. \/ pc'[c] = "restock"
         \/ pc'[c] = "delete_lines" /\ job'[c].op = "delete" /\ job'[c].lines = <<>>
         \/ pc'[c] = "commit" /\ job'[c].op = "status" /\ job'[c].lines = <<>>
    BY <1>1, <2>1
  <2>16. Done(c)'
    <3>1. CASE pc'[c] = "restock"
      <4>1. Returning(c)'
        BY <2>11, <2>12 DEF Returning
      <4>2. QED
        BY <2>13, <3>1, <4>1 DEF Done, OrderDone, ProductDone, AtCommit, Saves
    <3>2. ASSUME job'[c].lines = <<>> PROVE Gave(ItemsOf(c))'
      <4>1. ItemsOf(c)' = all
        BY <2>12, <3>2
      <4>2. QED
        BY <2>11, <4>1
    <3>3. CASE pc'[c] = "delete_lines" /\ job'[c].op = "delete" /\ job'[c].lines = <<>>
      <4>1. OldStatus(c)' /\ Returned(c, Returns(c))'
        BY <2>13, <3>2, <3>3 DEF Returned, ToReturn
      <4>2. QED
        BY <3>3, <4>1 DEF Done, OrderDone, ProductDone, AtCommit, Saves
    <3>4. CASE pc'[c] = "commit" /\ job'[c].op = "status" /\ job'[c].lines = <<>>
      <4>1. Headed(c)' /\ Returned(c, Cancels(job[c]))'
        BY <2>13, <3>2, <3>4 DEF Returned, ToReturn
      <4>2. QED
        BY <3>4, <4>1 DEF Done, OrderDone, ProductDone, AtCommit, Saves
    <3>5. QED
      BY <2>15, <3>1, <3>3, <3>4
  <2>17. QED
    BY <1>2, <2>5, <2>14, <2>16 DEF WriteStep, OtherRowsKept
<1>6. QED
  BY <1>4, <1>5

(* UPDATE orders SET status: the header is written; a cancellation goes on *)
(* to the items.                                                           *)
LEMMA WriteStatusDone ==
    ASSUME Base, SerialInv, NEW c \in Clients, WriteStatus(c)
    PROVE  WriteStep(c)
<1> USE DEF Base, Inv1, AppTypes
<1> DEFINE o == job[c].order
<1>1. /\ Fresh(c) /\ Allowed(c) /\ pc[c] = "status_write" /\ Alone /\ FreshProducts
      /\ o \in OrderIds /\ job[c].op = "status"
  BY DEF WriteStatus, OrderStep, SerialInv, Done, OrderDone, JobsReady, JobReady,
         OrderLabels, OrderInv, Work, OpFits
<1>2. /\ job' = job /\ UNCHANGED <<listed, fresh>>
      /\ pc'[c] = IF Cancels(job[c]) THEN "items_read" ELSE "commit"
  BY DEF WriteStatus, OrderStep, Goto
<1> HIDE DEF Base, Inv1, AppTypes
<1>3. newest[Ord(o)] = committed[Ord(o)] /\ SameProducts
  BY <1>1, CleanProducts, RowsAndValues DEF Fresh
<1>4. Write(c, Ord(o), job[c].new, {})
  BY <1>1, <1>3 DEF Allowed, OldStatus, WriteStatus
<1>5. /\ ProductsKept /\ newest'[Ord(o)] = job[c].new /\ view' = view
      /\ written'[c] \in {written[c], written[c] \cup {Ord(o)}}
  BY <1>1, <1>4, OrderWrite
<1>6. /\ Headed(c)' /\ SameProducts' /\ Reads(c)' /\ Items(o) \notin written'[c]
  <2>1. Headed(c)'
    BY <1>1, <1>2, <1>5 DEF Headed, Allowed, OldStatus, ProductsKept
  <2>2. SameProducts' /\ Reads(c)'
    BY <1>1, <1>3, <1>5, KeptProducts DEF Fresh, Reads, ProductsKept
  <2>3. QED
    BY <1>1, <1>5, <2>1, <2>2, RowsDiffer DEF Fresh
<1>7. Done(c)'
  <2>1. CASE pc'[c] = "items_read" /\ Cancels(job[c])
    <3>1. ToReturn(c)'
      BY <1>1, <1>2, <1>6, <2>1 DEF ToReturn, Cancels
    <3>2. QED
      BY <1>2, <1>6, <2>1, <3>1 DEF Done, OrderDone, ProductDone, AtCommit, Saves
  <2>2. CASE pc'[c] = "commit" /\ ~Cancels(job[c])
    <3>1. Returned(c, Cancels(job[c]))'
      BY <1>2, <1>6, <2>2 DEF Returned, Cancels
    <3>2. QED
      BY <1>1, <1>2, <1>6, <2>2, <3>1 DEF Done, OrderDone, ProductDone, AtCommit, Saves
  <2>3. QED
    BY <1>2, <2>1, <2>2
<1>8. QED
  BY <1>1, <1>2, <1>5, <1>7, FreshKept DEF WriteStep, ProductsKept

(* DELETE FROM order_items and orders: what had to go back has gone back   *)
(* before.                                                                 *)
LEMMA DeleteDone ==
    ASSUME Base, SerialInv, NEW c \in Clients, DeleteLines(c) \/ DeleteHeader(c)
    PROVE  WriteStep(c)
<1> USE DEF Base, Inv1, AppTypes
<1> DEFINE o == job[c].order
<1>1. /\ pc[c] \in {"delete_lines", "delete_header"} /\ FreshProducts
      /\ OldStatus(c) /\ Returned(c, Returns(c))
      /\ o \in OrderIds /\ job[c].op = "delete"
  BY DEF DeleteLines, DeleteHeader, OrderStep, SerialInv, Done, OrderDone, JobsReady, JobReady,
         OrderLabels, OrderInv, Work, OpFits
<1>2. /\ job' = job /\ UNCHANGED <<listed, fresh>>
      /\ pc'[c] \in {"delete_header", "commit"}
  BY DEF DeleteLines, DeleteHeader, DeleteRow, OrderStep, Goto
<1>3. PICK r \in {Ord(o), Items(o)} : UNCHANGED engine \/ Write(c, r, Absent, {})
  BY DEF DeleteLines, DeleteHeader, DeleteRow
<1> HIDE DEF Base, Inv1, AppTypes
<1>4. ProductsKept
  <2>1. CASE UNCHANGED engine
    BY <2>1 DEF ProductsKept, engine
  <2>2. CASE Write(c, r, Absent, {})
    BY <1>1, <2>2, OrderWrite
  <2>3. QED
    BY <1>3, <2>1, <2>2
<1>5. OldStatus(c)' /\ Returned(c, Returns(c))'
  <2>1. ItemsOf(c)' = ItemsOf(c) /\ OldStatus(c)' /\ Returns(c)' = Returns(c)
    BY <1>1, <1>2, <1>4 DEF ItemsOf, OldStatus, Returns, ProductsKept
  <2>2. PICK l : l = ItemsOf(c)
    OBVIOUS
  <2>3. Gave(l)' = Gave(l) /\ SameProducts' = SameProducts
    BY <1>4, KeptProducts
  <2>4. ItemsOf(c)' = l
    BY <2>1, <2>2
  <2>5. Gave(ItemsOf(c))' = Gave(ItemsOf(c))
    BY <2>2, <2>3, <2>4
  <2>6. QED
    BY <1>1, <2>1, <2>3, <2>5 DEF Returned
<1>6. Done(c)'
  BY <1>1, <1>2, <1>5 DEF Done, OrderDone, ProductDone, AtCommit, Saves
<1>7. QED
  BY <1>1, <1>2, <1>4, <1>6, FreshKept DEF WriteStep, ProductsKept

(* INSERT INTO products: the only product that differs from the committed  *)
(* ones.                                                                   *)
LEMMA InsertProductDone ==
    ASSUME Base, SerialInv, NEW c \in Clients, InsertProduct(c)
    PROVE  WriteStep(c)
<1> USE DEF Base, Inv1, AppTypes
<1> DEFINE p == job[c].product
           row == NewProduct(job[c].amount)
<1>1. written[c] = {} /\ Inserts(c) /\ pc[c] = "insert_product" /\ Alone /\ FreshProducts
  BY DEF InsertProduct, ProductStep, SerialInv, Done, ProductDone
<1>2. /\ job' = job /\ UNCHANGED <<listed, fresh>> /\ pc'[c] = "commit"
      /\ Write(c, Prod(p), row, {}) /\ p \in Products \ fresh
  BY <1>1 DEF InsertProduct, ProductStep, Goto, history, Inserts
<1> HIDE DEF Base, Inv1, AppTypes, row
<1>3. OtherRowsKept(p) /\ newest'[Prod(p)] = row
  BY <1>2, ProductWrite
<1>4. SameProducts
  BY <1>1, CleanProducts
<1>5. OtherProductsSame(c)' /\ Inserts(c)'
  BY <1>1, <1>2, <1>3, <1>4
     DEF OtherProductsSame, SameProducts, SameProduct, OtherRowsKept, Inserts
<1>6. newest'[Prod(job'[c].product)] = NewProduct(job'[c].amount)
  BY <1>2, <1>3 DEF row
<1>7. Done(c)'
  BY <1>2, <1>5, <1>6 DEF Done, OrderDone, ProductDone, AtCommit, Saves, Inserts
<1>8. FreshProducts'
  BY <1>1, <1>2, <1>3, FreshOthers
<1>9. QED
  BY <1>2, <1>3, <1>7, <1>8 DEF WriteStep, OtherRowsKept

(* UPDATE products in add_stock: the newest stock grows, from the          *)
(* committed one.                                                          *)
LEMMA AddStockDone ==
    ASSUME Base, SerialInv, NEW c \in Clients, AddStock(c)
    PROVE  WriteStep(c)
<1> USE DEF Base, Inv1, AppTypes
<1> DEFINE p == job[c].product
           q == job[c].amount
           row == newest[Prod(p)]
           more == [row EXCEPT !.stock = @ + q, !.supplied = @ + q]
<1>1. /\ written[c] = {} /\ Supplies(c) /\ pc[c] = "add_stock" /\ Alone /\ FreshProducts
      /\ UNCHANGED <<listed, fresh>> /\ q \in Nat /\ p \in Products
  BY DEF AddStock, ProductStep, SerialInv, Done, ProductDone, history, Supplies, Job
<1>2. CASE Raise(c)
  <2>1. pc'[c] = "raise" /\ ProductsKept
    BY <1>2 DEF Raise, Goto, engine, ProductsKept
  <2>2. QED
    BY <1>1, <2>1, NothingDone, FreshKept DEF WriteStep, ProductsKept
<1>3. CASE ~Raise(c)
  <2>1. /\ ~Overflows(p, q) /\ UpdateProduct(c, p, more) /\ job' = job /\ pc'[c] = "commit"
    BY <1>3 DEF AddStock, ProductStep, Goto
  <2>2. row # Absent => /\ more.stock = row.stock + q /\ more.supplied = row.supplied + q
                        /\ more # Absent
    <3>1. SUFFICES ASSUME row # Absent
                   PROVE  /\ more.stock = row.stock + q
                          /\ more.supplied = row.supplied + q /\ more # Absent
      OBVIOUS
    <3>2. row \in ProductRow
      BY <1>1, <3>1, ProductValues
    <3>3. row.stock + q \in 0..MaxInt
      BY <1>1, <2>1, <3>1, <3>2, ShopAssumption DEF Overflows, ProductRow, ShopAssumption
    <3>4. row.supplied + q \in Nat
      BY <1>1, <3>2 DEF ProductRow
    <3>5. more \in ProductRow /\ more.stock = row.stock + q
          /\ more.supplied = row.supplied + q
      BY <3>2, <3>3, <3>4 DEF ProductRow
    <3>6. QED
      BY <3>5, ShopAssumption DEF ShopAssumption
  <2>3. row = Absent => UNCHANGED engine
    BY <2>1 DEF UpdateProduct
  <2>4. row # Absent => Write(c, Prod(p), more, {})
    BY <2>1 DEF UpdateProduct
  <2> HIDE DEF more, Base, Inv1, AppTypes
  <2>5. OtherRowsKept(p) /\ newest'[Prod(p)] = IF row = Absent THEN Absent ELSE more
    <3>1. CASE row = Absent
      BY <2>3, <3>1 DEF engine, OtherRowsKept
    <3>2. CASE row # Absent
      BY <1>1, <2>4, <3>2, ProductWrite
    <3>3. QED
      BY <3>1, <3>2
  <2>6. SameProducts
    BY <1>1, CleanProducts
  <2>7. OtherProductsSame(c)' /\ Supplies(c)'
    BY <1>1, <2>1, <2>5, <2>6
       DEF OtherProductsSame, SameProducts, SameProduct, OtherRowsKept, Supplies
  <2>8. Changed(job[c].product, committed[Prod(job[c].product)].stock + job[c].amount,
                committed[Prod(job[c].product)].supplied + job[c].amount)'
    <3>1. row = committed[Prod(p)] /\ committed' = committed
      BY <1>1, <2>5, <2>6 DEF SameProducts, SameProduct, OtherRowsKept
    <3>2. QED
      BY <2>1, <2>2, <2>5, <3>1 DEF Changed
  <2>9. Done(c)'
    BY <2>1, <2>7, <2>8 DEF Done, OrderDone, ProductDone, AtCommit, Saves, Supplies
  <2>10. FreshProducts'
    <3>1. CASE row = Absent
      <4>1. ProductsKept
        BY <2>3, <3>1 DEF ProductsKept, engine
      <4>2. QED
        BY <1>1, <4>1, FreshKept
    <3>2. CASE row # Absent
      <4>1. p \notin fresh
        BY <1>1, <3>2 DEF FreshProducts
      <4>2. QED
        BY <1>1, <2>5, <4>1, FreshOthers
    <3>3. QED
      BY <3>1, <3>2
  <2>11. QED
    BY <1>1, <2>5, <2>9, <2>10 DEF WriteStep, OtherRowsKept
<1>4. QED
  BY <1>2, <1>3

(* DELETE FROM products: the product is gone, and no committed order lists *)
(* it.                                                                     *)
LEMMA DeleteProductDone ==
    ASSUME Base, SerialInv, NEW c \in Clients, DeleteProduct(c)
    PROVE  WriteStep(c)
<1> USE DEF Base, Inv1, AppTypes
<1> DEFINE p == job[c].product
<1>1. /\ written[c] = {} /\ Removes(c) /\ pc[c] = "delete_product" /\ Alone /\ FreshProducts
      /\ UNCHANGED <<listed, fresh>> /\ p \in Products
  BY DEF DeleteProduct, ProductStep, SerialInv, Done, ProductDone, history, Removes
<1>2. CASE Raise(c)
  <2>1. pc'[c] = "raise" /\ ProductsKept
    BY <1>2 DEF Raise, Goto, engine, ProductsKept
  <2>2. QED
    BY <1>1, <2>1, NothingDone, FreshKept DEF WriteStep, ProductsKept
<1>3. CASE ~Raise(c)
  <2>1. /\ newest[Prod(p)] # Absent /\ References(newest, p) = {}
        /\ Write(c, Prod(p), Absent, ChildRows(p)) /\ job' = job /\ pc'[c] = "commit"
    BY <1>3 DEF DeleteProduct, ProductStep, Goto
  <2> HIDE DEF Base, Inv1, AppTypes
  <2>2. OtherRowsKept(p) /\ newest'[Prod(p)] = Absent
    BY <1>1, <2>1, ProductWrite
  <2>3. SameProducts /\ \A r \in Rows : newest[r] = committed[r]
    BY <1>1, CleanProducts
  <2>4. \A o \in OrderIds : newest[Items(o)] = committed[Items(o)]
    BY <2>3, RowsAndValues
  <2>5. References(committed, p) = {}
    BY <2>1, <2>4 DEF References
  <2>6. References(committed, job[c].product)' = {}
    BY <2>1, <2>2, <2>5 DEF References, OtherRowsKept
  <2>7. OtherProductsSame(c)' /\ Removes(c)'
    BY <1>1, <2>1, <2>2, <2>3
       DEF OtherProductsSame, SameProducts, SameProduct, OtherRowsKept, Removes
  <2>8. (committed[Prod(job[c].product)] # Absent)' /\ (newest[Prod(job[c].product)] = Absent)'
    BY <1>1, <2>1, <2>2, <2>3 DEF SameProducts, SameProduct, OtherRowsKept
  <2>9. Done(c)'
    BY <2>1, <2>6, <2>7, <2>8 DEF Done, OrderDone, ProductDone, AtCommit, Saves, Removes
  <2>10. p \notin fresh
    BY <1>1, <2>1 DEF FreshProducts
  <2>11. FreshProducts'
    BY <1>1, <2>2, <2>10, FreshOthers
  <2>12. QED
    BY <1>1, <2>2, <2>9, <2>11 DEF WriteStep, OtherRowsKept
<1>4. QED
  BY <1>2, <1>3

(* A method does not notice that another application opened or lost a view.*)
LEMMA SameDone ==
    ASSUME NEW d \in Clients, Done(d), TablesKept, UNCHANGED <<placed, fresh>>,
           pc'[d] = pc[d], job'[d] = job[d], written'[d] = written[d], view'[d] = view[d]
    PROVE  Done(d)'
<1> USE DEF TablesKept
<1>1. /\ SameProducts' = SameProducts /\ Saves(d)' = Saves(d)
      /\ Reads(d)' = Reads(d) /\ Fresh(d)' = Fresh(d) /\ Checked(d)' = Checked(d)
  BY DEF SameProducts, SameProduct, Saves, Reads, Fresh, Checked, ThisLine
<1>2. Saving(d)' = Saving(d) /\ Returning(d)' = Returning(d)
  <2>1. \A done : Halfway(d, done)' = Halfway(d, done)
    BY KeptTables DEF Halfway
  <2>2. \A done : (Gave(done) /\ ItemsOf(d) = done \o job[d].lines)'
                   = (Gave(done) /\ ItemsOf(d) = done \o job[d].lines)
    BY KeptTables DEF ItemsOf
  <2>3. Saving(d)' = Saving(d)
    BY <1>1, <2>1 DEF Saving
  <2>4. Returning(d)' = Returning(d)
    BY <2>2 DEF Returning
  <2>5. QED
    BY <2>3, <2>4
<1>3. PICK l : l = ItemsOf(d)
  OBVIOUS
<1>4. ItemsOf(d)' = l /\ Gave(l)' = Gave(l)
  BY <1>3, KeptTables DEF ItemsOf
<1>5. Gave(ItemsOf(d))' = Gave(ItemsOf(d))
  BY <1>3, <1>4
<1>6. /\ OldStatus(d)' = OldStatus(d) /\ Returns(d)' = Returns(d)
      /\ Cancels(job[d])' = Cancels(job[d])
      /\ Allowed(d)' = Allowed(d) /\ Headed(d)' = Headed(d) /\ ToReturn(d)' = ToReturn(d)
  BY DEF OldStatus, Returns, Cancels, Allowed, Headed, ToReturn
<1>7. /\ Returned(d, Returns(d))' = Returned(d, Returns(d))
      /\ Returned(d, Cancels(job[d]))' = Returned(d, Cancels(job[d]))
  BY <1>1, <1>5, <1>6 DEF Returned
<1>8. OrderDone(d)'
  BY <1>1, <1>2, <1>6, <1>7 DEF Done, OrderDone, AtCommit
<1>9. ProductDone(d)'
  BY DEF Done, ProductDone, AtCommit, Inserts, Supplies, Removes, OtherProductsSame,
         SameProduct, Changed, References
<1>10. QED
  BY <1>8, <1>9 DEF Done, AtCommit

(* COMMIT makes the newest tables the committed ones.                      *)
LEMMA Publishes ==
    ASSUME Base, Alone, NEW c \in Clients, pc[c] = "commit", Publish(c)
    PROVE  newest' = newest /\ committed' = newest
<1>1. \A r \in Rows : committed'[r] = newest[r]
  BY OthersAreQuiet DEF Publish, Commit
<1>2. newest = [r \in Rows |-> newest[r]] /\ committed' = [r \in Rows |-> committed'[r]]
  BY DEF Base, Inv1, EngineTypes, IsContents, Publish, Commit
<1>3. QED
  BY <1>1, <1>2 DEF Publish, Commit

(* Everything c does that leaves the committed tables alone ...            *)
Internal(c) ==
    /\ Done(c)' /\ FreshProducts' /\ UNCHANGED committed /\ listed' = listed

(* ... and that others do not see.                                         *)
Invisible(c) ==
    /\ pc[c] = "idle" /\ pc'[c] = "idle"
    /\ TablesKept /\ UNCHANGED <<placed, fresh, listed>>

(* Every statement of a method leaves its method with what it should have  *)
(* done.                                                                   *)
LEMMA StatementDone ==
    ASSUME Base, SerialInv, NEW c \in Clients,
           OrderStatement(c) \/ ProductStatement(c) \/ LockError(c)
    PROVE  Internal(c) /\ pc[c] # "idle"
<1>1. QuietStep(c) \/ WriteStep(c)
  BY SelectDone, ReadProductDone, ReadStatusDone, ReadItemsDone, FailDone,
     InsertOrderDone, InsertLineDone, DeductDone, RestockDone, WriteStatusDone, DeleteDone,
     InsertProductDone, AddStockDone, DeleteProductDone
     DEF OrderStatement, ProductStatement
<1>2. Internal(c)
  <2>1. CASE QuietStep(c)
    <3>1. ProductsKept
      BY <2>1 DEF QuietStep, TablesKept, ProductsKept
    <3>2. FreshProducts'
      BY <2>1, <3>1, FreshKept DEF QuietStep, SerialInv
    <3>3. QED
      BY <2>1, <3>2 DEF QuietStep, TablesKept, Internal
  <2>2. CASE WriteStep(c)
    BY <2>2 DEF WriteStep, Internal
  <2>3. QED
    BY <1>1, <2>1, <2>2
<1>3. pc[c] # "idle"
  <2>1. CASE OrderStatement(c)
    BY <2>1 DEF OrderStatement, SelectCustomer, InsertOrder, OrderIdsUsedUp, ReadProduct,
                RefuseLine, InsertLine, DeductStock, ReadStatus, WriteStatus,
                ReadForDelete, ReadItems, Restock, DeleteLines, DeleteHeader, OrderStep
  <2>2. CASE ProductStatement(c)
    BY <2>2 DEF ProductStatement, InsertProduct, AddStock, DeleteProduct, ProductStep
  <2>3. CASE LockError(c)
    BY <2>3 DEF LockError, Waits, WritesNext, SharesNext
  <2>4. QED
    BY <2>1, <2>2, <2>3
<1>4. QED
  BY <1>2, <1>3

(* After a rollback nothing is done, and nobody else can tell.             *)
LEMMA RollbackDone ==
    ASSUME Base, SerialInv, NEW c \in Clients,
           HandleError(c) \/ Disconnect(c) \/ PrologueFails(c)
    PROVE  Internal(c) /\ (pc[c] = "idle" => Invisible(c))
<1> USE DEF Base, Inv1, AppTypes
<1>1. Rollback(c) /\ UNCHANGED <<listed, placed, fresh>> /\ pc'[c] \in {"idle", "raise"}
      /\ (pc[c] = "idle" => pc'[c] = "idle")
  BY DEF HandleError, Disconnect, PrologueFails, Lose, Finish, Goto, counters, history
<1>2. FreshProducts'
  <2>1. \A p \in Products : newest'[Prod(p)] \in {newest[Prod(p)], committed[Prod(p)]}
                            /\ committed'[Prod(p)] = committed[Prod(p)]
    BY <1>1, RowsAndValues DEF Rollback
  <2>2. QED
    BY <1>1, <2>1 DEF SerialInv, FreshProducts
<1>3. Internal(c)
  BY <1>1, <1>2, NothingDone DEF Internal, Rollback
<1>4. ASSUME pc[c] = "idle" PROVE Invisible(c)
  <2>1. written[c] = {}
    BY <1>4 DEF SessionInv, IdleHoldsNoLocks
  <2> HIDE DEF Base, Inv1, AppTypes
  <2>2. TablesKept
    BY <1>1, <2>1, RollbackClean
  <2>3. QED
    BY <1>1, <1>4, <2>2 DEF Invisible
<1>5. QED
  BY <1>3, <1>4

(* A screen that reads changes nothing for any method.                     *)
LEMMA BrowseDone ==
    ASSUME Base, SerialInv, NEW c \in Clients, Browse(c)
    PROVE  Internal(c) /\ Invisible(c)
<1>1. Invisible(c)
  BY DEF Browse, Invisible, OpenView, TablesKept, counters, history
<1>2. ProductsKept
  BY <1>1 DEF Invisible, TablesKept, ProductsKept
<1>3. FreshProducts'
  BY <1>1, <1>2, FreshKept DEF Invisible, SerialInv
<1>4. QED
  BY <1>1, <1>3, NothingDone DEF Internal, Invisible, TablesKept

(* After a commit the method has nothing left to answer for.               *)
LEMMA CommitDone ==
    ASSUME Base, SerialInv, NEW c \in Clients, CommitCall(c) \/ CommitReplyLost(c)
    PROVE  /\ Done(c)' /\ FreshProducts' /\ CommittedListed'
           /\ pc[c] = "commit" /\ Publish(c)
           /\ newest' = newest /\ committed' = newest
<1>1. pc[c] = "commit" /\ Publish(c) /\ fresh' = fresh /\ pc'[c] \in {"idle", "raise"}
  BY DEF CommitCall, CommitReplyLost, Finish, Goto, counters, Base, Inv1, AppTypes
<1>2. newest' = newest /\ committed' = newest
  BY <1>1, Publishes DEF SerialInv
<1>3. FreshProducts'
  BY <1>1, <1>2 DEF SerialInv, FreshProducts
<1>4. CommittedListed'
  BY <1>1, RowsAndValues DEF Publish, CommittedListed
<1>5. QED
  BY <1>1, <1>2, <1>3, <1>4, NothingDone

(* The actions of one application. *)
Action(c) == \/ OrderCall(c) \/ ProductCall(c) \/ Browse(c) \/ Proceed(c)
             \/ CommitReplyLost(c) \/ Disconnect(c) \/ PrologueFails(c)

(* A call of a method happens only while no other method runs.             *)
LEMMA CallsAlone ==
    ASSUME Base, Serial, SerialInv, NEW c \in Clients, OrderCall(c) \/ ProductCall(c)
    PROVE  Internal(c) /\ \A d \in Clients : pc[d] = "idle"
<1>1. /\ Done(c)' /\ TablesKept /\ UNCHANGED history /\ fresh' \subseteq fresh
      /\ \A d \in Clients : pc[d] = "idle"
  BY CallDone
<1>2. FreshProducts'
  BY <1>1 DEF SerialInv, FreshProducts, TablesKept
<1>3. QED
  BY <1>1, <1>2 DEF Internal, TablesKept, history

(* What an action comes to.                                                *)
LEMMA ActionKinds ==
    ASSUME Base, Serial, SerialInv, NEW c \in Clients, Action(c)
    PROVE  /\ Done(c)' /\ FreshProducts' /\ CommittedListed'
           /\ \/ Invisible(c)
              \/ \A d \in Clients \ {c} : pc[d] = "idle"
           /\ \/ UNCHANGED <<committed, listed>>
              \/ /\ pc[c] = "commit" /\ Publish(c)
                 /\ newest' = newest /\ committed' = newest
<1>1. CASE OrderCall(c) \/ ProductCall(c)
  BY <1>1, CallsAlone DEF Internal, SerialInv, CommittedListed
<1>2. CASE OrderStatement(c) \/ ProductStatement(c) \/ LockError(c)
  <2>1. Internal(c) /\ pc[c] # "idle"
    BY <1>2, StatementDone
  <2>2. \A d \in Clients \ {c} : pc[d] = "idle"
    BY <2>1, OthersAreQuiet DEF SerialInv
  <2>3. QED
    BY <2>1, <2>2 DEF Internal, SerialInv, CommittedListed
<1>3. CASE HandleError(c) \/ Disconnect(c) \/ PrologueFails(c)
  <2>1. Internal(c) /\ (pc[c] = "idle" => Invisible(c))
    BY <1>3, RollbackDone
  <2>2. pc[c] # "idle" => \A d \in Clients \ {c} : pc[d] = "idle"
    BY OthersAreQuiet DEF SerialInv
  <2>3. QED
    BY <2>1, <2>2 DEF Internal, SerialInv, CommittedListed
<1>4. CASE Browse(c)
  BY <1>4, BrowseDone DEF Internal, SerialInv, CommittedListed
<1>5. CASE CommitCall(c) \/ CommitReplyLost(c)
  <2>1. /\ Done(c)' /\ FreshProducts' /\ CommittedListed'
        /\ pc[c] = "commit" /\ Publish(c)
        /\ newest' = newest /\ committed' = newest
    BY <1>5, CommitDone
  <2>2. \A d \in Clients \ {c} : pc[d] = "idle"
    BY <2>1, OthersAreQuiet DEF SerialInv
  <2>3. QED
    BY <2>1, <2>2
<1>6. QED
  BY <1>1, <1>2, <1>3, <1>4, <1>5 DEF Action, Proceed

(* Every step keeps the methods apart, and what each has done in order.    *)
LEMMA StepSerial == Base /\ Serial /\ SerialInv /\ [Next]_vars => SerialInv'
<1> SUFFICES ASSUME Base, Serial, SerialInv, [Next]_vars PROVE SerialInv'
  OBVIOUS
<1>1. CASE UNCHANGED vars
  <2>1. ASSUME NEW d \in Clients PROVE Done(d)'
    BY <1>1, SameDone DEF SerialInv, vars, engine, counters, history, TablesKept
  <2>2. Alone' /\ CommittedListed' /\ FreshProducts'
    BY <1>1 DEF SerialInv, Alone, CommittedListed, FreshProducts, vars, engine, counters,
                history
  <2>3. QED
    BY <2>1, <2>2 DEF SerialInv
<1>2. CASE Next
  <2>1. PICK c \in Clients : Action(c)
    BY <1>2 DEF Next, Action
  <2>2. /\ Done(c)' /\ FreshProducts' /\ CommittedListed'
        /\ \/ Invisible(c)
           \/ \A d \in Clients \ {c} : pc[d] = "idle"
    BY <2>1, ActionKinds
  <2>3. ASSUME NEW d \in Clients, d # c
        PROVE  /\ pc'[d] = pc[d] /\ job'[d] = job[d] /\ written'[d] = written[d]
               /\ view'[d] = view[d]
    <3>1. pc'[d] = pc[d] /\ job'[d] = job[d] /\ written'[d] = written[d]
      BY <2>1, <2>3, ActionOthers DEF Action, Base
    <3>2. OthersKept(c)
      BY <2>1, StatementSession, TransactionEnds, NoRollbackSession
         DEF Action, Base, Proceed, ProductCall
    <3>3. QED
      BY <2>3, <3>1, <3>2 DEF OthersKept
  <2>4. ASSUME NEW d \in Clients, d # c PROVE Done(d)'
    <3>1. CASE Invisible(c)
      <4>1. Done(d) /\ TablesKept /\ UNCHANGED <<placed, fresh>>
        BY <3>1 DEF SerialInv, Invisible
      <4>2. QED
        BY <2>3, <2>4, <4>1, SameDone
    <3>2. CASE \A e \in Clients \ {c} : pc[e] = "idle"
      BY <2>3, <2>4, <3>2, NothingDone
    <3>3. QED
      BY <2>2, <3>1, <3>2
  <2>5. Alone'
    <3>1. CASE Invisible(c)
      BY <2>3, <3>1 DEF SerialInv, Alone, Invisible
    <3>2. CASE \A e \in Clients \ {c} : pc[e] = "idle"
      BY <2>3, <3>2 DEF Alone
    <3>3. QED
      BY <2>2, <3>1, <3>2
  <2>6. QED
    BY <2>2, <2>4, <2>5 DEF SerialInv
<1>3. QED
  BY <1>1, <1>2

(* At the start no method runs.                                            *)
LEMMA InitSerial == Init => SerialInv
<1> SUFFICES ASSUME Init PROVE SerialInv
  OBVIOUS
<1>1. \A c \in Clients : pc[c] = "idle"
  BY DEF Init
<1>2. \A c \in Clients : Done(c)
  BY <1>1 DEF Done, OrderDone, ProductDone, AtCommit, Saves
<1>3. CommittedListed
  BY RowsAndValues, RowsDiffer DEF Init, EngineInit, ProdRows, Prod, Ord, CommittedListed
<1>4. FreshProducts
  BY RowsAndValues DEF Init, EngineInit, ProdRows, Prod, FreshProducts
<1>5. QED
  BY <1>1, <1>2, <1>3, <1>4 DEF SerialInv, Alone

(* What the commit of c makes of the store.                                *)
Commits(c) ==
    /\ Base /\ SerialInv /\ pc[c] = "commit"
    /\ Publish(c) /\ newest' = newest /\ committed' = newest

Unused == {o \in OrderIds : Ord(o) \notin listed}

(* After the commit the store is what the newest version of the tables     *)
(* shows.                                                                  *)
LEMMA StoreAfter ==
    ASSUME NEW c \in Clients, Commits(c)
    PROVE  /\ Stock(committed)' = Stock(newest) /\ Orders(committed)' = Orders(newest)
           /\ Unused' = {o \in Unused : newest[Ord(o)] = Absent}
<1>1. Stock(committed)' = Stock(newest)
  BY DEF Commits, Stock
<1>2. Orders(committed)' = Orders(newest)
  BY DEF Commits, Orders
<1>3. \A o \in OrderIds : Ord(o) \in listed' <=> Ord(o) \in listed \/ newest[Ord(o)] # Absent
  BY RowsAndValues DEF Commits, Publish
<1>4. QED
  BY <1>1, <1>2, <1>3 DEF Unused

(* The stock a version of the tables shows.                                *)
LEMMA StockOf ==
    ASSUME Base, NEW p \in Products
    PROVE  /\ Stock(committed)[p] = IF committed[Prod(p)] = Absent THEN Absent
                                    ELSE committed[Prod(p)].stock
           /\ Stock(newest)[p] = IF newest[Prod(p)] = Absent THEN Absent
                                 ELSE newest[Prod(p)].stock
           /\ committed[Prod(p)] # Absent =>
                 committed[Prod(p)].stock \in 0..MaxInt /\ committed[Prod(p)].supplied \in Nat
           /\ newest[Prod(p)] # Absent =>
                 newest[Prod(p)].stock \in 0..MaxInt /\ newest[Prod(p)].supplied \in Nat
           /\ Stock(committed)[p] = Absent <=> committed[Prod(p)] = Absent
<1>1. committed[Prod(p)] # Absent =>
                 committed[Prod(p)].stock \in 0..MaxInt /\ committed[Prod(p)].supplied \in Nat
  BY ProductValues DEF ProductRow
<1>2. newest[Prod(p)] # Absent =>
                 newest[Prod(p)].stock \in 0..MaxInt /\ newest[Prod(p)].supplied \in Nat
  BY ProductValues DEF ProductRow
<1>3. Absent \notin 0..MaxInt
  BY StoreAssumption, ShopAssumption DEF StoreAssumption, ShopAssumption
<1>4. QED
  BY <1>1, <1>2, <1>3 DEF Stock

(* A method changes no other order than its own.                           *)
LEMMA OtherOrders ==
    ASSUME Base, SerialInv, NEW c \in Clients, pc[c] = "commit",
           NEW o \in OrderIds,
           o # job[c].order \/ job[c].op \notin {"save", "status", "delete"}
    PROVE  newest[Ord(o)] = committed[Ord(o)] /\ newest[Items(o)] = committed[Items(o)]
<1>1. Ord(o) \notin written[c] /\ Items(o) \notin written[c]
  BY DEF Base, OrderInv, Work, OwnOrder
<1>2. QED
  BY <1>1, OthersAreQuiet, RowsAndValues DEF SerialInv

(* A list is taken from stock, or given back to it, product by product.    *)
LEMMA StockTaken ==
    ASSUME Base, NEW lines \in Seq(Line), Took(lines)
    PROVE  /\ Stock(newest) = [p \in Products |-> IF p \in Ordered(lines)
                                 THEN Stock(committed)[p] - Demand(lines, p)
                                 ELSE Stock(committed)[p]]
              \/ \E p \in Ordered(lines) : committed[Prod(p)] = Absent
           /\ \A p \in Products :
                 committed[Prod(p)] # Absent => Demand(lines, p) <= Stock(committed)[p]
<1>1. ASSUME NEW p \in Products, committed[Prod(p)] # Absent
      PROVE  /\ Stock(newest)[p] = Stock(committed)[p] - Demand(lines, p)
             /\ Demand(lines, p) <= Stock(committed)[p]
             /\ p \notin Ordered(lines) => Stock(newest)[p] = Stock(committed)[p]
  <2>1. Demand(lines, p) \in Nat /\ (p \notin Ordered(lines) => Demand(lines, p) = 0)
    BY UnitsFinite, DemandOfNone
  <2>2. newest[Prod(p)] # Absent
        /\ newest[Prod(p)].stock = committed[Prod(p)].stock - Demand(lines, p)
    BY <1>1 DEF Took, Changed
  <2>3. /\ Stock(newest)[p] = newest[Prod(p)].stock
        /\ Stock(committed)[p] = committed[Prod(p)].stock
        /\ newest[Prod(p)].stock \in 0..MaxInt /\ committed[Prod(p)].stock \in 0..MaxInt
    BY <1>1, <2>2, StockOf
  <2>4. QED
    BY <2>1, <2>2, <2>3
<1>2. ASSUME NEW p \in Products, committed[Prod(p)] = Absent
      PROVE  Stock(newest)[p] = Absent /\ Stock(committed)[p] = Absent
  <2>1. newest[Prod(p)] = Absent
    BY <1>2 DEF Took, Changed
  <2>2. QED
    BY <1>2, <2>1, StockOf
<1>3. Stock(newest) = [p \in Products |-> Stock(newest)[p]]
  BY DEF Stock
<1>4. QED
  BY <1>1, <1>2, <1>3

(* Likewise for a list that goes back to stock.                            *)
LEMMA StockGiven ==
    ASSUME Base, NEW lines \in Seq(Line), Gave(lines)
    PROVE  /\ Stock(newest) = [p \in Products |-> IF p \in Ordered(lines)
                                 THEN Stock(committed)[p] + Demand(lines, p)
                                 ELSE Stock(committed)[p]]
              \/ \E p \in Ordered(lines) : committed[Prod(p)] = Absent
           /\ \A p \in Products :
                 committed[Prod(p)] # Absent =>
                    Stock(committed)[p] + Demand(lines, p) <= MaxInt
<1>1. ASSUME NEW p \in Products, committed[Prod(p)] # Absent
      PROVE  /\ Stock(newest)[p] = Stock(committed)[p] + Demand(lines, p)
             /\ Stock(committed)[p] + Demand(lines, p) <= MaxInt
             /\ p \notin Ordered(lines) => Stock(newest)[p] = Stock(committed)[p]
  <2>1. Demand(lines, p) \in Nat /\ (p \notin Ordered(lines) => Demand(lines, p) = 0)
    BY UnitsFinite, DemandOfNone
  <2>2. newest[Prod(p)] # Absent
        /\ newest[Prod(p)].stock = committed[Prod(p)].stock + Demand(lines, p)
    BY <1>1 DEF Gave, Changed
  <2>3. /\ Stock(newest)[p] = newest[Prod(p)].stock
        /\ Stock(committed)[p] = committed[Prod(p)].stock
        /\ newest[Prod(p)].stock \in 0..MaxInt /\ committed[Prod(p)].stock \in 0..MaxInt
    BY <1>1, <2>2, StockOf
  <2>4. QED
    BY <2>1, <2>2, <2>3, ShopAssumption DEF ShopAssumption
<1>2. ASSUME NEW p \in Products, committed[Prod(p)] = Absent
      PROVE  Stock(newest)[p] = Absent /\ Stock(committed)[p] = Absent
  <2>1. newest[Prod(p)] = Absent
    BY <1>2 DEF Gave, Changed
  <2>2. QED
    BY <1>2, <2>1, StockOf
<1>3. Stock(newest) = [p \in Products |-> Stock(newest)[p]]
  BY DEF Stock
<1>4. QED
  BY <1>1, <1>2, <1>3

(* The items of a committed order name products that exist.                *)
LEMMA OrderedExist ==
    ASSUME Base, NEW o \in OrderIds, committed[Items(o)] # Absent,
           NEW p \in Ordered(committed[Items(o)])
    PROVE  p \in Products /\ committed[Prod(p)] # Absent
<1>1. committed[Items(o)] \in Seq(Line)
  BY RowsAndValues DEF Base, Inv1, EngineTypes, IsContents
<1>2. PICK i \in DOMAIN committed[Items(o)] : committed[Items(o)][i].product = p
  BY DEF Ordered, AtomicStore!Ordered
<1>3. p \in Products
  <2>1. committed[Items(o)][i] \in Line
    BY <1>1, <1>2
  <2>2. QED
    BY <1>2, <2>1 DEF Line
<1>4. Refers(committed, o, p)
  BY <1>2 DEF Refers, References
<1>5. QED
  BY <1>3, <1>4 DEF Base, EngineInv, ReferencesKept, ProductsCommitted

(* What a save that reaches its commit has written: a new order, with the  *)
(* items it was placed with, which it took from stock.                     *)
Saved(c) ==
    LET o == job[c].order
        lines == placed[o] IN
    /\ o \in OrderIds /\ Ord(o) \notin listed
    /\ newest[Ord(o)] = "PENDING" /\ committed[Ord(o)] = Absent
    /\ lines \in LineLists /\ lines \in Seq(Line) /\ lines # <<>>
    /\ newest[Items(o)] = lines /\ Took(lines) /\ Takeable(lines)

(* A save reaches its commit only like this.                               *)
LEMMA SaveAtCommit ==
    ASSUME NEW c \in Clients, Commits(c), AtCommit(c, "save")
    PROVE  Saved(c)
<1> USE DEF Commits
<1> DEFINE o == job[c].order
           lines == placed[o]
<1>1. Saving(c) /\ HalfSaved(c, o)
  BY DEF SerialInv, Done, OrderDone, Saves, AtCommit, Base, OrderInv, Work, SavesWhole
<1>2. /\ o \in OrderIds /\ Ord(o) \notin listed
      /\ newest[Ord(o)] = "PENDING" /\ committed[Ord(o)] = Absent
      /\ lines \in LineLists /\ job[c].lines = <<>> /\ lines # <<>>
  BY <1>1 DEF Saving, HalfSaved, AtCommit
<1>3. lines \in Seq(Line)
  BY <1>2, ShopAssumption DEF ShopAssumption
<1>4. newest[Items(o)] = lines
  <2>1. SoFar(o) \in Seq(Line)
    BY <1>2, RowsAndValues DEF SoFar, Base, Inv1, EngineTypes, IsContents
  <2>2. ToCome(c) = <<>>
    BY DEF ToCome, AtCommit
  <2>3. lines = SoFar(o) \o <<>>
    BY <1>1, <2>2 DEF HalfSaved
  <2>4. lines = SoFar(o)
    BY <2>1, <2>3
  <2>5. QED
    BY <1>2, <2>4 DEF SoFar
<1>5. Took(lines) /\ Takeable(lines)
  <2>1. PICK done \in Seq(Line) : Halfway(c, done)
    BY <1>1 DEF Saving
  <2>2. lines = done \o <<>>
    BY <1>2, <2>1 DEF Halfway
  <2>3. lines = done
    BY <2>1, <2>2
  <2>4. QED
    BY <2>1, <2>3 DEF Halfway
<1> HIDE DEF Commits, o, lines
<1>6. QED
  BY <1>2, <1>3, <1>4, <1>5 DEF Saved, o, lines

(* A saved order has taken its items: PlaceOrder.                          *)
LEMMA CommitSave ==
    ASSUME NEW c \in Clients, Commits(c), AtCommit(c, "save")
    PROVE  \E o \in OrderIds, lines \in LineLists : AtomicStore!PlaceOrder(o, lines)
<1> USE DEF Commits
<1> DEFINE o == job[c].order
           lines == placed[o]
<1>1. Saved(c)
  BY SaveAtCommit
<1>2. /\ o \in OrderIds /\ Ord(o) \notin listed
      /\ newest[Ord(o)] = "PENDING" /\ committed[Ord(o)] = Absent
      /\ lines \in LineLists
  BY <1>1 DEF Saved
<1>3. lines \in Seq(Line)
  BY <1>1 DEF Saved
<1>4. newest[Items(o)] = lines
  BY <1>1 DEF Saved
<1>5. Took(lines) /\ Takeable(lines)
  BY <1>1 DEF Saved
<1>6. \A p \in Ordered(lines) : p \in Products /\ committed[Prod(p)] # Absent
  <2>1. ASSUME NEW i \in DOMAIN lines
        PROVE  lines[i].product \in Products /\ committed[Prod(lines[i].product)] # Absent
    <3>1. lines[i] \in Line
      BY <1>3
    <3>2. QED
      BY <1>5, <3>1 DEF Takeable, Line
  <2>2. QED
    BY <2>1 DEF Ordered, AtomicStore!Ordered
<1>7. /\ Stock(newest) = [p \in Products |-> IF p \in Ordered(lines)
                             THEN Stock(committed)[p] - Demand(lines, p)
                             ELSE Stock(committed)[p]]
      /\ \A p \in Ordered(lines) : /\ Stock(committed)[p] # Absent
                                   /\ Demand(lines, p) <= Stock(committed)[p]
  BY <1>3, <1>5, <1>6, StockTaken, StockOf
<1>8. Orders(newest) = [Orders(committed) EXCEPT ![o] = [status |-> "PENDING", lines |-> lines]]
  <2>1. newest[Ord(o)] # Absent
    BY <1>2, ShopAssumption DEF ShopAssumption, Statuses
  <2>2. \A n \in OrderIds : n # o =>
           newest[Ord(n)] = committed[Ord(n)] /\ newest[Items(n)] = committed[Items(n)]
    BY OtherOrders, <1>2 DEF AtCommit
  <2>3. QED
    BY <1>2, <1>4, <2>1, <2>2 DEF Orders
<1>9. {n \in Unused : newest[Ord(n)] = Absent} = Unused \ {o}
  <2>1. newest[Ord(o)] # Absent
    BY <1>2, ShopAssumption DEF ShopAssumption, Statuses
  <2>2. ASSUME NEW n \in Unused, n # o PROVE newest[Ord(n)] = Absent
    <3>1. newest[Ord(n)] = committed[Ord(n)]
      BY <2>2, OtherOrders DEF Unused, AtCommit
    <3>2. QED
      BY <2>2, <3>1 DEF SerialInv, CommittedListed, Unused
  <2>3. QED
    BY <2>1, <2>2
<1>10. /\ Stock(committed)' = Stock(newest) /\ Orders(committed)' = Orders(newest)
       /\ Unused' = Unused \ {o}
  BY <1>9, StoreAfter
<1>11. o \in Unused /\ \A i \in DOMAIN lines : lines[i].qty > 0
  BY <1>2, <1>5 DEF Unused, Takeable
<1> HIDE DEF Commits, o, lines
<1>12. AtomicStore!PlaceOrder(o, lines)
  BY <1>7, <1>8, <1>10, <1>11
     DEF AtomicStore!PlaceOrder, AtomicStore!Exists, Ordered, Demand, Unused
<1>13. QED
  BY <1>2, <1>12

(* A commit that leaves no trace in the store.                             *)
LEMMA StoreStays ==
    ASSUME NEW c \in Clients, Commits(c),
           Stock(newest) = Stock(committed), Orders(newest) = Orders(committed),
           {o \in Unused : newest[Ord(o)] = Absent} = Unused
    PROVE  UNCHANGED AtomicStore!store
  BY StoreAfter DEF AtomicStore!store, Unused

(* The same products show the same stock.                                  *)
LEMMA SameStock ==
    ASSUME SameProducts
    PROVE  Stock(newest) = Stock(committed)
  BY DEF SameProducts, SameProduct, Stock

(* An order of the store.                                                  *)
LEMMA OrderOf ==
    ASSUME Base, NEW o \in OrderIds, committed[Ord(o)] # Absent
    PROVE  /\ committed[Items(o)] \in Seq(Line) /\ committed[Items(o)] # Absent
           /\ Orders(committed)[o] = [status |-> committed[Ord(o)],
                                      lines |-> committed[Items(o)]]
           /\ Orders(committed)[o] # Absent
           /\ Orders(committed)[o].status = committed[Ord(o)]
           /\ Orders(committed)[o].lines = committed[Items(o)]
<1>1. committed[Items(o)] = placed[o] /\ placed[o] \in Seq(Line)
  BY DEF Base, OrderInv, OrdersWhole, Inv1, AppTypes
<1>2. committed[Ord(o)] \in Statuses
  BY RowsAndValues DEF Base, Inv1, EngineTypes, IsContents
<1>3. Orders(committed)[o] = [status |-> committed[Ord(o)], lines |-> committed[Items(o)]]
  BY DEF Orders
<1>4. Orders(committed)[o] \in [status : Statuses, lines : Seq(Line)]
  BY <1>1, <1>2, <1>3
<1>5. QED
  BY <1>1, <1>3, <1>4, StoreAssumption, ShopAssumption DEF StoreAssumption, ShopAssumption

(* The items of an order have gone back.                                   *)
LEMMA GivenBack ==
    ASSUME NEW c \in Clients, Commits(c), NEW o \in OrderIds, committed[Ord(o)] # Absent,
           Gave(committed[Items(o)])
    PROVE  AtomicStore!GiveBack(o)
<1>1. PICK lines \in Seq(Line) : lines = committed[Items(o)]
  BY OrderOf DEF Commits
<1>2. \A p \in Ordered(lines) : p \in Products /\ committed[Prod(p)] # Absent
  BY <1>1, OrderedExist, OrderOf DEF Commits
<1>3. Gave(lines)
  BY <1>1
<1>4. /\ Stock(newest) = [p \in Products |-> IF p \in Ordered(lines)
                             THEN Stock(committed)[p] + Demand(lines, p)
                             ELSE Stock(committed)[p]]
      /\ \A p \in Ordered(lines) : Stock(committed)[p] + Demand(lines, p) <= MaxInt
  BY <1>2, <1>3, StockGiven DEF Commits
<1>5. Orders(committed)[o].lines = lines
  BY <1>1, OrderOf DEF Commits
<1>6. Stock(committed)' = Stock(newest)
  BY StoreAfter
<1>7. QED
  BY <1>4, <1>5, <1>6 DEF AtomicStore!GiveBack, Ordered, Demand

(* What a status change that reaches its commit has written: the header,   *)
(* after it gave the items back if this cancels the order.                 *)
Restated(c) ==
    LET o == job[c].order
        old == committed[Ord(o)] IN
    /\ o \in OrderIds /\ old # Absent /\ job[c].old = old
    /\ job[c].new \in Statuses /\ newest[Ord(o)] = job[c].new
    /\ newest[Items(o)] = committed[Items(o)]
    /\ old = "CANCELLED" => job[c].new = "CANCELLED"
    /\ Returned(c, Cancels(job[c]))

(* A status change reaches its commit only like this.                      *)
LEMMA StatusAtCommit ==
    ASSUME NEW c \in Clients, Commits(c), AtCommit(c, "status")
    PROVE  Restated(c)
<1> USE DEF Commits
<1> DEFINE o == job[c].order
           new == job[c].new
           old == committed[Ord(o)]
<1>1. /\ Headed(c) /\ Returned(c, Cancels(job[c])) /\ Work(c)
  BY DEF SerialInv, Done, OrderDone, AtCommit, Base, OrderInv
<1>2. /\ o \in OrderIds /\ old # Absent /\ new \in Statuses /\ newest[Ord(o)] = new
      /\ job[c].old = old
      /\ old = "CANCELLED" => new = "CANCELLED"
      /\ Items(o) \notin written[c]
  BY <1>1 DEF Headed, Allowed, OldStatus, Work, KnownOrder, ChangesHeader, AtCommit
<1>3. newest[Items(o)] = committed[Items(o)]
  BY <1>2, OthersAreQuiet, RowsAndValues DEF SerialInv
<1> HIDE DEF Commits, o, new, old
<1>4. QED
  BY <1>1, <1>2, <1>3 DEF Restated, o, new, old

(* A status change: CancelOrder, SetStatus, or a cancellation repeated.    *)
LEMMA CommitStatus ==
    ASSUME NEW c \in Clients, Commits(c), AtCommit(c, "status")
    PROVE  \/ \E o \in OrderIds : AtomicStore!CancelOrder(o)
           \/ \E o \in OrderIds, status \in {"PENDING", "PAID", "SHIPPED"} :
                 AtomicStore!SetStatus(o, status)
           \/ UNCHANGED AtomicStore!store
<1> USE DEF Commits
<1> DEFINE o == job[c].order
           new == job[c].new
           old == committed[Ord(o)]
<1>1. Returned(c, Cancels(job[c])) /\ Restated(c)
  BY StatusAtCommit DEF Restated
<1>2. /\ o \in OrderIds /\ old # Absent /\ new \in Statuses /\ newest[Ord(o)] = new
      /\ job[c].old = old
      /\ old = "CANCELLED" => new = "CANCELLED"
  BY <1>1 DEF Restated
<1>3. newest[Items(o)] = committed[Items(o)]
  BY <1>1 DEF Restated
<1>4. new # Absent
  BY <1>2, ShopAssumption DEF ShopAssumption
<1>5. Orders(newest) = [Orders(committed) EXCEPT ![o].status = new]
  <2>1. \A n \in OrderIds : n # o =>
           newest[Ord(n)] = committed[Ord(n)] /\ newest[Items(n)] = committed[Items(n)]
    BY OtherOrders
  <2>2. \A n \in OrderIds : n # o => Orders(newest)[n] = Orders(committed)[n]
    BY <2>1 DEF Orders
  <2>3. Orders(newest)[o] = [status |-> new, lines |-> committed[Items(o)]]
    BY <1>2, <1>3, <1>4 DEF Orders
  <2>4. Orders(committed)[o] = [status |-> old, lines |-> committed[Items(o)]]
    BY <1>2, OrderOf
  <2>5. Orders(newest)[o] = [Orders(committed)[o] EXCEPT !.status = new]
    BY <2>3, <2>4
  <2>6. Orders(newest) = [n \in OrderIds |-> Orders(newest)[n]]
        /\ Orders(committed) = [n \in OrderIds |-> Orders(committed)[n]]
    BY DEF Orders
  <2> HIDE DEF Commits, o, new
  <2>7. QED
    BY <1>2, <2>2, <2>5, <2>6
<1>6. {n \in Unused : newest[Ord(n)] = Absent} = Unused
  <2>1. o \notin Unused
    BY <1>2 DEF SerialInv, CommittedListed, Unused
  <2>2. ASSUME NEW n \in Unused PROVE newest[Ord(n)] = Absent
    <3>1. newest[Ord(n)] = committed[Ord(n)]
      BY <2>1, <2>2, OtherOrders DEF Unused
    <3>2. QED
      BY <2>2, <3>1 DEF SerialInv, CommittedListed, Unused
  <2>3. QED
    BY <2>2
<1>7. /\ Stock(committed)' = Stock(newest) /\ Orders(committed)' = Orders(newest)
      /\ Unused' = Unused
  BY <1>6, StoreAfter
<1>8. Orders(committed)[o] # Absent /\ Orders(committed)[o].status = old
  BY <1>2, OrderOf
<1> HIDE DEF o, new, old
<1>9. CASE Cancels(job[c])
  <2>1. new = "CANCELLED" /\ old # "CANCELLED" /\ Gave(committed[Items(o)])
    BY <1>1, <1>2, <1>9 DEF Cancels, Returned, ItemsOf, o, new, old
  <2>2. AtomicStore!GiveBack(o)
    BY <1>2, <2>1, GivenBack DEF old
  <2>3. AtomicStore!CancelOrder(o)
    BY <1>5, <1>7, <1>8, <2>1, <2>2
       DEF AtomicStore!CancelOrder, AtomicStore!Outstanding, Unused
  <2>4. QED
    BY <1>2, <2>3
<1>10. CASE ~Cancels(job[c])
  <2>1. Stock(newest) = Stock(committed)
    BY <1>1, <1>10, SameStock DEF Returned
  <2>2. CASE new = "CANCELLED"
    <3>1. old = "CANCELLED"
      BY <1>2, <1>10, <2>2 DEF Cancels, new, old, o
    <3>2. Orders(newest) = Orders(committed)
      <4>1. [Orders(committed)[o] EXCEPT !.status = new] = Orders(committed)[o]
        <5>1. Orders(committed)[o] = [status |-> old, lines |-> committed[Items(o)]]
          BY <1>2, OrderOf DEF old
        <5>2. QED
          BY <2>2, <3>1, <5>1
      <4>2. Orders(committed) = [n \in OrderIds |-> Orders(committed)[n]]
        BY DEF Orders
      <4>3. QED
        BY <1>2, <1>5, <4>1, <4>2
    <3>3. QED
      BY <1>6, <2>1, <3>2, StoreStays
  <2>3. CASE new # "CANCELLED"
    <3>1. old # "CANCELLED" /\ new \in {"PENDING", "PAID", "SHIPPED"}
      BY <1>2, <2>3 DEF Statuses
    <3>2. AtomicStore!SetStatus(o, new)
      BY <1>5, <1>7, <1>8, <2>1, <2>3, <3>1
         DEF AtomicStore!SetStatus, AtomicStore!Outstanding, Unused
    <3>3. QED
      BY <1>2, <3>1, <3>2
  <2>4. QED
    BY <2>2, <2>3
<1>11. QED
  BY <1>9, <1>10

(* What a deletion that reaches its commit has written: no order row and   *)
(* no items are left, and what an outstanding order took has gone back.    *)
Deleted(c) ==
    LET o == job[c].order IN
    /\ o \in OrderIds /\ OldStatus(c) /\ Returned(c, Returns(c))
    /\ newest[Ord(o)] = Absent /\ newest[Items(o)] = Absent

(* A deletion reaches its commit only like this.                           *)
LEMMA DeleteAtCommit ==
    ASSUME NEW c \in Clients, Commits(c), AtCommit(c, "delete")
    PROVE  Deleted(c)
<1> USE DEF Commits
<1> DEFINE o == job[c].order
           old == committed[Ord(o)]
<1>1. /\ OldStatus(c) /\ Returned(c, Returns(c)) /\ Work(c)
  BY DEF SerialInv, Done, OrderDone, AtCommit, Base, OrderInv
<1>2. /\ o \in OrderIds /\ job[c].old = old
      /\ newest[Ord(o)] = Absent /\ newest[Items(o)] = Absent
  BY <1>1 DEF OldStatus, Work, KnownOrder, DeletesWhole, Gone, AtCommit
<1> HIDE DEF Commits, o, old
<1>3. QED
  BY <1>1, <1>2 DEF Deleted, o, old

(* A deletion: DeleteOrder, or nothing was there.                          *)
LEMMA CommitDelete ==
    ASSUME NEW c \in Clients, Commits(c), AtCommit(c, "delete")
    PROVE  \/ \E o \in OrderIds : AtomicStore!DeleteOrder(o)
           \/ UNCHANGED AtomicStore!store
<1> USE DEF Commits
<1> DEFINE o == job[c].order
           old == committed[Ord(o)]
<1>1. OldStatus(c) /\ Returned(c, Returns(c)) /\ Deleted(c)
  BY DeleteAtCommit DEF Deleted
<1>2. /\ o \in OrderIds /\ job[c].old = old
      /\ newest[Ord(o)] = Absent /\ newest[Items(o)] = Absent
  BY <1>1 DEF Deleted, OldStatus
<1>3. \A n \in OrderIds : n # o =>
         newest[Ord(n)] = committed[Ord(n)] /\ newest[Items(n)] = committed[Items(n)]
  BY OtherOrders
<1>4. Orders(newest) = [Orders(committed) EXCEPT ![o] = Absent]
  <2>1. \A n \in OrderIds : n # o => Orders(newest)[n] = Orders(committed)[n]
    BY <1>3 DEF Orders
  <2>2. Orders(newest)[o] = Absent
    BY <1>2 DEF Orders
  <2>3. Orders(newest) = [n \in OrderIds |-> Orders(newest)[n]]
        /\ Orders(committed) = [n \in OrderIds |-> Orders(committed)[n]]
    BY DEF Orders
  <2> HIDE DEF Commits, o
  <2>4. QED
    BY <1>2, <2>1, <2>2, <2>3
<1>5. {n \in Unused : newest[Ord(n)] = Absent} = Unused
  BY <1>2, <1>3 DEF SerialInv, CommittedListed, Unused
<1>6. /\ Stock(committed)' = Stock(newest) /\ Orders(committed)' = Orders(newest)
      /\ Unused' = Unused
  BY <1>5, StoreAfter
<1> HIDE DEF o, old
<1>7. CASE old = Absent
  <2>1. Stock(newest) = Stock(committed)
    BY <1>1, <1>2, <1>7, SameStock DEF Returned, Returns
  <2>2. Orders(committed)[o] = Absent
    BY <1>2, <1>7 DEF Orders, old
  <2>3. Orders(newest) = Orders(committed)
    <3>1. Orders(committed) = [n \in OrderIds |-> Orders(committed)[n]]
      BY DEF Orders
    <3>2. QED
      BY <1>2, <1>4, <2>2, <3>1
  <2>4. QED
    BY <1>5, <2>1, <2>3, StoreStays
<1>8. CASE old # Absent
  <2>1. Orders(committed)[o] # Absent /\ Orders(committed)[o].status = old
    BY <1>2, <1>8, OrderOf DEF old
  <2>2. IF old # "CANCELLED" THEN AtomicStore!GiveBack(o) ELSE Stock(newest) = Stock(committed)
    <3>1. CASE old # "CANCELLED"
      <4>1. Gave(committed[Items(o)])
        BY <1>1, <1>2, <1>8, <3>1 DEF Returned, Returns, ItemsOf, o
      <4>2. QED
        BY <1>2, <1>8, <3>1, <4>1, GivenBack DEF old
    <3>2. CASE old = "CANCELLED"
      BY <1>1, <1>2, <3>2, SameStock DEF Returned, Returns
    <3>3. QED
      BY <3>1, <3>2
  <2>3. AtomicStore!DeleteOrder(o)
    BY <1>4, <1>6, <2>1, <2>2 DEF AtomicStore!DeleteOrder, AtomicStore!Outstanding, Unused
  <2>4. QED
    BY <1>2, <2>3
<1>9. QED
  BY <1>7, <1>8

(* The methods of products leave the orders as they are.                   *)
LEMMA OrdersStay ==
    ASSUME NEW c \in Clients, Commits(c), job[c].op \notin {"save", "status", "delete"}
    PROVE  /\ Orders(newest) = Orders(committed)
           /\ {o \in Unused : newest[Ord(o)] = Absent} = Unused
           /\ Stock(committed)' = Stock(newest) /\ Orders(committed)' = Orders(committed)
           /\ Unused' = Unused
<1>1. \A o \in OrderIds :
         newest[Ord(o)] = committed[Ord(o)] /\ newest[Items(o)] = committed[Items(o)]
  BY OtherOrders DEF Commits
<1>2. Orders(newest) = Orders(committed)
  BY <1>1 DEF Orders
<1>3. {o \in Unused : newest[Ord(o)] = Absent} = Unused
  BY <1>1 DEF Commits, SerialInv, CommittedListed, Unused
<1>4. QED
  BY <1>2, <1>3, StoreAfter

(* If one product changed, one stock changed.                              *)
LEMMA OneStock ==
    ASSUME Base, NEW p \in Products, \A q \in Products \ {p} : SameProduct(q)
    PROVE  Stock(newest) = [Stock(committed) EXCEPT ![p] = Stock(newest)[p]]
<1>1. \A q \in Products : q # p => Stock(newest)[q] = Stock(committed)[q]
  BY DEF SameProduct, Stock
<1>2. Stock(newest) = [q \in Products |-> Stock(newest)[q]]
      /\ Stock(committed) = [q \in Products |-> Stock(committed)[q]]
  BY DEF Stock
<1>3. QED
  BY <1>1, <1>2

(* A product form: SaveProduct.                                            *)
LEMMA CommitNew ==
    ASSUME NEW c \in Clients, Commits(c), AtCommit(c, "new")
    PROVE  \E p \in Products, n \in NewStock : AtomicStore!SaveProduct(p, n)
<1> USE DEF Commits
<1> DEFINE p == job[c].product
           n == job[c].amount
<1>1. /\ p \in Products /\ n \in NewStock /\ committed[Prod(p)] = Absent
      /\ newest[Prod(p)] = NewProduct(n) /\ \A q \in Products \ {p} : SameProduct(q)
  BY DEF SerialInv, Done, ProductDone, AtCommit, Inserts, OtherProductsSame
<1>2. /\ Orders(committed)' = Orders(committed) /\ Unused' = Unused
      /\ Stock(committed)' = Stock(newest)
  BY OrdersStay DEF AtCommit
<1> HIDE DEF p, n
<1>3. Stock(newest)[p] = n /\ Stock(committed)[p] = Absent
  <2>1. NewProduct(n) # Absent /\ NewProduct(n).stock = n
    <3>1. NewProduct(n) \in ProductRow
      BY <1>1, ShopAssumption DEF NewProduct, ProductRow, ShopAssumption
    <3>2. QED
      BY <3>1, ShopAssumption DEF NewProduct, ShopAssumption
  <2>2. QED
    BY <1>1, <2>1 DEF Stock
<1>4. Stock(newest) = [Stock(committed) EXCEPT ![p] = n]
  BY <1>1, <1>3, OneStock
<1>5. AtomicStore!SaveProduct(p, n)
  BY <1>2, <1>3, <1>4
     DEF AtomicStore!SaveProduct, AtomicStore!Exists, AtomicStore!NewStockOf, Unused
<1>6. QED
  BY <1>1, <1>5

(* A restock: AddStock, or the product is gone and nothing happens.        *)
LEMMA CommitAdd ==
    ASSUME NEW c \in Clients, Commits(c), AtCommit(c, "add")
    PROVE  \/ \E p \in Products, q \in 1..MaxQty : AtomicStore!AddStock(p, q)
           \/ UNCHANGED AtomicStore!store
<1> USE DEF Commits
<1> DEFINE p == job[c].product
           q == job[c].amount
<1>1. /\ p \in Products /\ q \in 1..MaxQty
      /\ Changed(p, committed[Prod(p)].stock + q, committed[Prod(p)].supplied + q)
      /\ \A r \in Products \ {p} : SameProduct(r)
  BY DEF SerialInv, Done, ProductDone, AtCommit, Supplies, OtherProductsSame
<1>2. /\ Orders(committed)' = Orders(committed) /\ Unused' = Unused
      /\ Stock(committed)' = Stock(newest)
      /\ Orders(newest) = Orders(committed)
      /\ {o \in Unused : newest[Ord(o)] = Absent} = Unused
  BY OrdersStay DEF AtCommit
<1> HIDE DEF p, q
<1>3. CASE committed[Prod(p)] = Absent
  <2>1. SameProducts
    BY <1>1, <1>3 DEF Changed, SameProducts, SameProduct
  <2>2. QED
    BY <1>2, <2>1, SameStock, StoreStays
<1>4. CASE committed[Prod(p)] # Absent
  <2>1. newest[Prod(p)] # Absent /\ newest[Prod(p)].stock = committed[Prod(p)].stock + q
    BY <1>1, <1>4 DEF Changed
  <2>2. /\ Stock(newest)[p] = Stock(committed)[p] + q /\ Stock(committed)[p] # Absent
        /\ Stock(newest)[p] \in 0..MaxInt
    BY <1>1, <1>4, <2>1, StockOf
  <2>3. Stock(newest) = [Stock(committed) EXCEPT ![p] = Stock(committed)[p] + q]
    BY <1>1, <2>2, OneStock
  <2>4. Stock(committed)[p] + q <= MaxInt
    BY <2>2, ShopAssumption DEF ShopAssumption
  <2>5. AtomicStore!AddStock(p, q)
    BY <1>2, <2>2, <2>3, <2>4
       DEF AtomicStore!AddStock, AtomicStore!Exists, AtomicStore!NewStockOf, Unused
  <2>6. QED
    BY <1>1, <2>5
<1>5. QED
  BY <1>3, <1>4

(* A deletion of a product no order lists.                                 *)
LEMMA CommitRemove ==
    ASSUME NEW c \in Clients, Commits(c), AtCommit(c, "remove")
    PROVE  \E p \in Products : AtomicStore!DeleteProduct(p)
<1> USE DEF Commits
<1> DEFINE p == job[c].product
<1>1. /\ p \in Products /\ committed[Prod(p)] # Absent /\ newest[Prod(p)] = Absent
      /\ References(committed, p) = {}
      /\ \A q \in Products \ {p} : SameProduct(q)
  BY DEF SerialInv, Done, ProductDone, AtCommit, Removes, OtherProductsSame
<1>2. /\ Orders(committed)' = Orders(committed) /\ Unused' = Unused
      /\ Stock(committed)' = Stock(newest)
  BY OrdersStay DEF AtCommit
<1> HIDE DEF p
<1>3. Stock(newest)[p] = Absent /\ Stock(committed)[p] # Absent
  BY <1>1, StockOf
<1>4. Stock(newest) = [Stock(committed) EXCEPT ![p] = Absent]
  BY <1>1, <1>3, OneStock
<1>5. ASSUME NEW o \in OrderIds, Orders(committed)[o] # Absent
      PROVE  p \notin Ordered(Orders(committed)[o].lines)
  <2>1. committed[Ord(o)] # Absent
    BY <1>5 DEF Orders
  <2>2. Orders(committed)[o].lines = committed[Items(o)] /\ committed[Items(o)] # Absent
    BY <2>1, OrderOf
  <2>3. o \notin References(committed, p)
    BY <1>1
  <2>4. QED
    BY <2>2, <2>3 DEF References, Ordered, AtomicStore!Ordered
<1>6. AtomicStore!DeleteProduct(p)
  BY <1>2, <1>3, <1>4, <1>5
     DEF AtomicStore!DeleteProduct, AtomicStore!Exists, AtomicStore!NewStockOf, Ordered, Unused
<1>7. QED
  BY <1>1, <1>6

(* Every commit is one step of the store.                                  *)
LEMMA CommitIsAtomic ==
    ASSUME NEW c \in Clients, Commits(c)
    PROVE  AtomicStore!Next \/ UNCHANGED AtomicStore!store
<1>1. job[c].op \in {"save", "status", "delete", "new", "add", "remove"}
  BY DEF Commits, SerialInv, Done, AtCommit, Base, Inv1, AppTypes, Job
<1>2. CASE AtCommit(c, "save")
  BY <1>2, CommitSave DEF AtomicStore!Next
<1>3. CASE AtCommit(c, "status")
  BY <1>3, CommitStatus DEF AtomicStore!Next
<1>4. CASE AtCommit(c, "delete")
  BY <1>4, CommitDelete DEF AtomicStore!Next
<1>5. CASE AtCommit(c, "new")
  BY <1>5, CommitNew DEF AtomicStore!Next
<1>6. CASE AtCommit(c, "add")
  BY <1>6, CommitAdd DEF AtomicStore!Next
<1>7. CASE AtCommit(c, "remove")
  BY <1>7, CommitRemove DEF AtomicStore!Next
<1>8. QED
  BY <1>1, <1>2, <1>3, <1>4, <1>5, <1>6, <1>7 DEF Commits, AtCommit

(* And everything else is none.                                            *)
LEMMA StepIsAtomic ==
    Base /\ Serial /\ SerialInv /\ [Next]_vars => [AtomicStore!Next]_(AtomicStore!store)
<1> SUFFICES ASSUME Base, Serial, SerialInv, [Next]_vars
             PROVE  AtomicStore!Next \/ UNCHANGED AtomicStore!store
  OBVIOUS
<1>1. CASE UNCHANGED <<committed, listed>>
  BY <1>1 DEF AtomicStore!store, Stock, Orders
<1>2. CASE UNCHANGED vars
  BY <1>1, <1>2 DEF vars, engine, history
<1>3. CASE Next
  <2>1. PICK c \in Clients : Action(c)
    BY <1>3 DEF Next, Action
  <2>2. UNCHANGED <<committed, listed>> \/ Commits(c)
    BY <2>1, ActionKinds DEF Commits
  <2>3. QED
    BY <1>1, <2>2, CommitIsAtomic
<1>4. QED
  BY <1>2, <1>3

(* The tables at the start are those of the store.                         *)
LEMMA InitIsAtomic == Init => AtomicStore!Init
<1> SUFFICES ASSUME Init PROVE AtomicStore!Init
  OBVIOUS
<1>1. Stock(committed) = InitialStock
  <2>1. ASSUME NEW p \in Products PROVE Stock(committed)[p] = InitialStock[p]
    <3>1. committed[Prod(p)] = IF InitialStock[p] # Absent THEN NewProduct(InitialStock[p])
                                                           ELSE Absent
      BY RowsAndValues DEF Init, EngineInit, ProdRows, Prod
    <3>2. InitialStock[p] # Absent => NewProduct(InitialStock[p]) \in ProductRow
      BY ShopAssumption DEF ShopAssumption, NewProduct, ProductRow
    <3>3. InitialStock[p] # Absent => /\ NewProduct(InitialStock[p]) # Absent
                                      /\ NewProduct(InitialStock[p]).stock = InitialStock[p]
      BY <3>2, ShopAssumption DEF ShopAssumption, NewProduct
    <3>4. QED
      BY <3>1, <3>3 DEF Stock
  <2>2. Stock(committed) = [p \in Products |-> Stock(committed)[p]]
        /\ InitialStock = [p \in Products |-> InitialStock[p]]
    BY StoreAssumption DEF Stock, StoreAssumption
  <2>3. QED
    BY <2>1, <2>2
<1>2. \A o \in OrderIds : committed[Ord(o)] = Absent /\ Ord(o) \notin listed
  BY RowsAndValues, RowsDiffer DEF Init, EngineInit, ProdRows, Prod, Ord
<1>3. QED
  BY <1>1, <1>2 DEF AtomicStore!Init, Orders

(* The invariants of StoreSQLProofs hold at the start ...                  *)
LEMMA InitBase == Init => Base
  BY InitInv1, InitSession, InitEngineInv, InitOrderInv DEF Base

(* ... and every step keeps them.                                          *)
LEMMA StepBase == Base /\ [Next]_vars => Base'
  BY StepInv1, StepSession, StepEngineInv, StepOrderInv DEF Base

(* As long as methods do not overlap, each is one atomic step of Store.    *)
THEOREM SerialMethodsAreAtomic == Serial => (Spec => MethodsAreAtomic)
<1> SUFFICES ASSUME Serial PROVE Spec => MethodsAreAtomic
  OBVIOUS
<1>1. Base /\ SerialInv /\ [Next]_vars => Base' /\ SerialInv'
  BY StepBase, StepSerial
<1>2. Init => Base /\ SerialInv
  BY InitBase, InitSerial
<1>3. Base /\ SerialInv /\ [Next]_vars => [AtomicStore!Next]_(AtomicStore!store)
  BY StepIsAtomic
<1>4. QED
  BY <1>1, <1>2, <1>3, InitIsAtomic, PTL DEF Spec, MethodsAreAtomic, AtomicStore!Spec

(* The units of p in the lists of some orders, each counted once.          *)
UnitsOf(orders, lists, p) == UNION {{o} \X Units(lists[o], p) : o \in orders}

(* The outstanding orders of a version of the tables, and their items.     *)
Outstanding(tables) == {o \in OrderIds : tables[Ord(o)] \notin {Absent, "CANCELLED"}}

Lists(tables) == [o \in OrderIds |-> tables[Items(o)]]

SoldIn(tables, p) == Cardinality(UnitsOf(Outstanding(tables), Lists(tables), p))

(* Finitely many orders with finite lists hold finitely many units.        *)
LEMMA UnitsOfFinite ==
    ASSUME NEW S \in SUBSET OrderIds, NEW L, \A o \in S : L[o] \in Seq(Line), NEW p
    PROVE  IsFiniteSet(UnitsOf(S, L, p)) /\ Cardinality(UnitsOf(S, L, p)) \in Nat
<1> DEFINE F == [o \in S |-> {o} \X Units(L[o], p)]
<1>1. IsFiniteSet(S)
  <2>1. IsFiniteSet(OrderIds)
    <3>1. MaxOrders \in Int
      BY ShopAssumption DEF ShopAssumption
    <3>2. QED
      BY <3>1, FS_Interval, 1 \in Int, Zenon DEF OrderIds
  <2>2. QED
    BY <2>1, FS_Subset
<1>2. \A o \in S : IsFiniteSet(F[o])
  <2>1. ASSUME NEW o \in S PROVE IsFiniteSet({o} \X Units(L[o], p))
    <3>1. IsFiniteSet({o})
      BY FS_Singleton, Zenon
    <3>2. IsFiniteSet(Units(L[o], p))
      BY UnitsFinite
    <3>3. QED
      BY <3>1, <3>2, FS_Product, Zenon
  <2>2. QED
    BY <2>1
<1>3. UnitsOf(S, L, p) = UNION {F[o] : o \in S}
  BY DEF UnitsOf
<1> HIDE DEF F
<1>4. IsFiniteSet(UnitsOf(S, L, p))
  BY <1>1, <1>2, <1>3, FiniteFamily
<1>5. QED
  BY <1>4, FS_CardinalityType

(* Only the lists of those orders matter.                                  *)
LEMMA UnitsOfSame ==
    ASSUME NEW S, NEW L, NEW M, \A o \in S : L[o] = M[o], NEW p
    PROVE  UnitsOf(S, L, p) = UnitsOf(S, M, p)
  BY DEF UnitsOf

(* One more order adds what it demands.                                    *)
LEMMA UnitsOfMore ==
    ASSUME NEW S \in SUBSET OrderIds, NEW L, NEW o \in OrderIds, o \notin S,
           \A n \in S \cup {o} : L[n] \in Seq(Line), NEW p
    PROVE  Cardinality(UnitsOf(S \cup {o}, L, p)) =
               Cardinality(UnitsOf(S, L, p)) + Demand(L[o], p)
<1> DEFINE piece == {o} \X Units(L[o], p)
<1>1. IsFiniteSet(UnitsOf(S, L, p)) /\ Cardinality(UnitsOf(S, L, p)) \in Nat
  BY UnitsOfFinite
<1>2. IsFiniteSet(piece) /\ Cardinality(piece) = Demand(L[o], p)
  <2>1. IsFiniteSet({o}) /\ Cardinality({o}) = 1
    BY FS_Singleton, Zenon
  <2>2. IsFiniteSet(Units(L[o], p)) /\ Demand(L[o], p) \in Nat
    BY UnitsFinite
  <2>3. /\ IsFiniteSet(piece)
        /\ Cardinality(piece) = Cardinality({o}) * Cardinality(Units(L[o], p))
    BY <2>1, <2>2, FS_Product, Zenon
  <2>4. Cardinality(piece) = 1 * Demand(L[o], p)
    BY <2>1, <2>3, DemandCounts
  <2>5. 1 * Demand(L[o], p) = Demand(L[o], p)
    BY <2>2
  <2>6. QED
    BY <2>3, <2>4, <2>5
<1>3. UnitsOf(S \cup {o}, L, p) = UnitsOf(S, L, p) \cup piece
  BY DEF UnitsOf
<1>4. UnitsOf(S, L, p) \cap piece = {}
  <2>1. \A u \in UnitsOf(S, L, p) : u[1] \in S
    BY DEF UnitsOf
  <2>2. \A u \in piece : u[1] = o
    OBVIOUS
  <2> HIDE DEF piece
  <2>3. QED
    BY <2>1, <2>2
<1> HIDE DEF piece
<1>5. Cardinality(UnitsOf(S, L, p) \cup piece) =
          Cardinality(UnitsOf(S, L, p)) + Cardinality(piece)
              - Cardinality(UnitsOf(S, L, p) \cap piece)
  BY <1>1, <1>2, FS_Union, Zenon
<1>6. Cardinality({}) = 0 /\ Demand(L[o], p) \in Nat
  BY FS_EmptySet, UnitsFinite
<1>7. Cardinality(UnitsOf(S \cup {o}, L, p)) =
          Cardinality(UnitsOf(S, L, p)) + Demand(L[o], p) - 0
  BY <1>2, <1>3, <1>4, <1>5, <1>6
<1>8. QED
  BY <1>1, <1>6, <1>7

(* Orders that do not list p hold none of it.                              *)
LEMMA NoUnits ==
    ASSUME NEW S, NEW L, NEW p, \A o \in S : p \notin Ordered(L[o])
    PROVE  Cardinality(UnitsOf(S, L, p)) = 0
<1>1. \A o \in S : Units(L[o], p) = {}
  BY DEF Units, AtomicStore!Units, Ordered, AtomicStore!Ordered
<1>2. UnitsOf(S, L, p) = {}
  BY <1>1 DEF UnitsOf
<1>3. QED
  BY <1>2, FS_EmptySet

-----------------------------------------------------------------------------
(* Sold counts the outstanding orders of the committed tables.             *)
LEMMA SoldCommitted ==
    ASSUME NEW p
    PROVE  /\ Sold(p) = SoldIn(committed, p)
           /\ committed' = newest => Sold(p)' = SoldIn(newest, p)
<1>1. \A S, L : UnitsOf(S, L, p) = UNION {{o} \X AtomicStore!Units(L[o], p) : o \in S}
  BY DEF UnitsOf, Units
<1>2. UnitsOf(Outstanding(committed), Lists(committed), p) =
        UNION {{o} \X AtomicStore!Units(committed[Items(o)], p) : o \in Outstanding(committed)}
  BY <1>1 DEF Outstanding, Lists
<1>3. UnitsOf(Outstanding(newest), Lists(newest), p) =
        UNION {{o} \X AtomicStore!Units(newest[Items(o)], p) : o \in Outstanding(newest)}
  BY <1>1 DEF Outstanding, Lists
<1>4. Sold(p) = SoldIn(committed, p)
  BY <1>2 DEF Sold, SoldIn, Outstanding
<1>5. ASSUME committed' = newest PROVE Sold(p)' = SoldIn(newest, p)
  <2>1. Sold(p)' = Cardinality(UNION {{o} \X AtomicStore!Units(newest[Items(o)], p) :
                                         o \in Outstanding(newest)})
    BY <1>5 DEF Sold, Outstanding, AtomicStore!Units
  <2>2. QED
    BY <1>3, <2>1 DEF SoldIn
<1>6. QED
  BY <1>4, <1>5

(* The outstanding orders have items.                                      *)
LEMMA OutstandingLists ==
    ASSUME Base, NEW o \in Outstanding(committed)
    PROVE  o \in OrderIds /\ committed[Ord(o)] # Absent
           /\ Lists(committed)[o] = committed[Items(o)]
           /\ Lists(committed)[o] \in Seq(Line) /\ committed[Items(o)] # Absent
  BY OrderOf DEF Outstanding, Lists

(* What a commit does to the units sold: nothing, ...                      *)
LEMMA SoldStays ==
    ASSUME NEW c \in Clients, Commits(c), Outstanding(newest) = Outstanding(committed),
           \A o \in Outstanding(committed) : newest[Items(o)] = committed[Items(o)],
           NEW p
    PROVE  Sold(p)' = Sold(p) /\ Sold(p) \in Nat
<1>1. \A o \in Outstanding(committed) : Lists(newest)[o] = Lists(committed)[o]
  BY DEF Lists, Outstanding
<1>2. SoldIn(newest, p) = SoldIn(committed, p)
  BY <1>1, UnitsOfSame DEF SoldIn
<1>3. SoldIn(committed, p) \in Nat
  <2>1. Outstanding(committed) \in SUBSET OrderIds
    BY DEF Outstanding
  <2>2. \A o \in Outstanding(committed) : Lists(committed)[o] \in Seq(Line)
    BY OutstandingLists DEF Commits
  <2>3. QED
    BY <2>1, <2>2, UnitsOfFinite DEF SoldIn
<1>4. QED
  BY <1>2, <1>3, SoldCommitted DEF Commits

(* ... or one order comes to the outstanding ones, ...                     *)
LEMMA SoldGrows ==
    ASSUME NEW c \in Clients, Commits(c), NEW o \in OrderIds,
           o \notin Outstanding(committed),
           Outstanding(newest) = Outstanding(committed) \cup {o},
           \A n \in Outstanding(committed) : newest[Items(n)] = committed[Items(n)],
           newest[Items(o)] \in Seq(Line), NEW p
    PROVE  /\ Sold(p) \in Nat /\ Demand(newest[Items(o)], p) \in Nat
           /\ Sold(p)' = Sold(p) + Demand(newest[Items(o)], p)
<1> DEFINE S == Outstanding(committed)
<1>1. S \in SUBSET OrderIds
  BY DEF Outstanding
<1>2. \A n \in S : Lists(committed)[n] \in Seq(Line) /\ Lists(newest)[n] = Lists(committed)[n]
  BY <1>1, OutstandingLists DEF Commits, Lists
<1>3. Lists(newest)[o] = newest[Items(o)]
  BY DEF Lists
<1>4. UnitsOf(S, Lists(newest), p) = UnitsOf(S, Lists(committed), p)
  BY <1>2, UnitsOfSame
<1>5. \A n \in S \cup {o} : Lists(newest)[n] \in Seq(Line)
  BY <1>2, <1>3
<1> HIDE DEF S
<1>6. Cardinality(UnitsOf(S \cup {o}, Lists(newest), p)) =
          Cardinality(UnitsOf(S, Lists(newest), p)) + Demand(Lists(newest)[o], p)
  <2>1. o \notin S
    BY DEF S
  <2>2. QED
    BY <1>1, <1>5, <2>1, UnitsOfMore
<1>7. SoldIn(committed, p) \in Nat
  BY <1>1, <1>2, UnitsOfFinite DEF SoldIn, S
<1>8. SoldIn(newest, p) = SoldIn(committed, p) + Demand(newest[Items(o)], p)
  BY <1>3, <1>4, <1>6 DEF SoldIn, S
<1>9. Demand(newest[Items(o)], p) \in Nat
  BY UnitsFinite
<1>10. QED
  BY <1>7, <1>8, <1>9, SoldCommitted DEF Commits

(* ... or one order leaves them.                                           *)
LEMMA SoldShrinks ==
    ASSUME NEW c \in Clients, Commits(c), NEW o \in Outstanding(committed),
           Outstanding(newest) = Outstanding(committed) \ {o},
           \A n \in Outstanding(newest) : newest[Items(n)] = committed[Items(n)],
           NEW p
    PROVE  /\ Sold(p)' \in Nat /\ Demand(committed[Items(o)], p) \in Nat
           /\ Sold(p) = Sold(p)' + Demand(committed[Items(o)], p)
<1> DEFINE S == Outstanding(newest)
<1>1. S \in SUBSET OrderIds /\ o \in OrderIds /\ o \notin S /\ S \cup {o} = Outstanding(committed)
  BY DEF Outstanding
<1>2. \A n \in Outstanding(committed) : Lists(committed)[n] \in Seq(Line)
  BY OutstandingLists DEF Commits
<1>3. Lists(committed)[o] = committed[Items(o)]
  BY <1>1 DEF Lists
<1>4. \A n \in S : Lists(newest)[n] = Lists(committed)[n]
  BY <1>1 DEF Lists
<1> HIDE DEF S
<1>5. UnitsOf(S, Lists(newest), p) = UnitsOf(S, Lists(committed), p)
  BY <1>4, UnitsOfSame
<1>6. Cardinality(UnitsOf(S \cup {o}, Lists(committed), p)) =
          Cardinality(UnitsOf(S, Lists(committed), p)) + Demand(Lists(committed)[o], p)
  BY <1>1, <1>2, UnitsOfMore
<1>7. Cardinality(UnitsOf(S, Lists(committed), p)) \in Nat
  BY <1>1, <1>2, UnitsOfFinite
<1>8. SoldIn(newest, p) \in Nat
  BY <1>5, <1>7 DEF SoldIn, S
<1>9. SoldIn(committed, p) = SoldIn(newest, p) + Demand(committed[Items(o)], p)
  BY <1>1, <1>3, <1>5, <1>6 DEF SoldIn, S
<1>10. Demand(committed[Items(o)], p) \in Nat
  BY <1>1, <1>2, <1>3, UnitsFinite
<1>11. QED
  BY <1>8, <1>9, <1>10, SoldCommitted DEF Commits

Account(p) ==
    committed[Prod(p)] # Absent
        => committed[Prod(p)].stock + Sold(p) = committed[Prod(p)].supplied

(* The numbers of an account.                                              *)
LEMMA AccountNumbers ==
    ASSUME Base, NEW p \in Products
    PROVE  /\ committed[Prod(p)] # Absent =>
                 committed[Prod(p)].stock \in Nat /\ committed[Prod(p)].supplied \in Nat
           /\ newest[Prod(p)] # Absent =>
                 newest[Prod(p)].stock \in Nat /\ newest[Prod(p)].supplied \in Nat
<1>1. \A n \in 0..MaxInt : n \in Nat
  BY ShopAssumption DEF ShopAssumption
<1>2. QED
  BY <1>1, StockOf

(* An order that takes or gives back its items is what the account needs.  *)
LEMMA AccountTaken ==
    ASSUME Base, NEW p \in Products, Account(p), NEW lines, Took(lines),
           committed' = newest, Sold(p) \in Nat, Demand(lines, p) \in Nat,
           Sold(p)' = Sold(p) + Demand(lines, p)
    PROVE  Account(p)'
<1>1. SUFFICES ASSUME newest[Prod(p)] # Absent
               PROVE  newest[Prod(p)].stock + Sold(p)' = newest[Prod(p)].supplied
  BY DEF Account
<1>2. /\ committed[Prod(p)] # Absent
      /\ newest[Prod(p)].stock = committed[Prod(p)].stock - Demand(lines, p)
      /\ newest[Prod(p)].supplied = committed[Prod(p)].supplied
  BY <1>1 DEF Took, Changed
<1>3. committed[Prod(p)].stock + Sold(p) = committed[Prod(p)].supplied
  BY <1>2 DEF Account
<1>4. committed[Prod(p)].stock \in Nat
  BY <1>2, AccountNumbers
<1>5. QED
  BY <1>2, <1>3, <1>4

(* Likewise for the items that go back to stock.                           *)
LEMMA AccountGiven ==
    ASSUME Base, NEW p \in Products, Account(p), NEW lines, Gave(lines),
           committed' = newest, Sold(p)' \in Nat, Demand(lines, p) \in Nat,
           Sold(p) = Sold(p)' + Demand(lines, p)
    PROVE  Account(p)'
<1>1. SUFFICES ASSUME newest[Prod(p)] # Absent
               PROVE  newest[Prod(p)].stock + Sold(p)' = newest[Prod(p)].supplied
  BY DEF Account
<1>2. /\ committed[Prod(p)] # Absent
      /\ newest[Prod(p)].stock = committed[Prod(p)].stock + Demand(lines, p)
      /\ newest[Prod(p)].supplied = committed[Prod(p)].supplied
  BY <1>1 DEF Gave, Changed
<1>3. committed[Prod(p)].stock + Sold(p) = committed[Prod(p)].supplied
  BY <1>2 DEF Account
<1>4. committed[Prod(p)].stock \in Nat
  BY <1>2, AccountNumbers
<1>5. QED
  BY <1>2, <1>3, <1>4

(* A product that stays as it is, with the units sold of it.               *)
LEMMA AccountKept ==
    ASSUME NEW p \in Products, Account(p), SameProduct(p), committed' = newest,
           Sold(p)' = Sold(p)
    PROVE  Account(p)'
<1>1. committed'[Prod(p)] = committed[Prod(p)]
  BY DEF SameProduct
<1>2. QED
  BY <1>1 DEF Account

-----------------------------------------------------------------------------
(* A saved order moves its units from stock to the units sold.             *)
LEMMA SaveAccounts ==
    ASSUME NEW c \in Clients, Commits(c), AtCommit(c, "save"),
           NEW p \in Products, Account(p)
    PROVE  Account(p)'
<1> DEFINE o == job[c].order
           lines == placed[o]
<1>1. /\ o \in OrderIds /\ newest[Ord(o)] = "PENDING" /\ committed[Ord(o)] = Absent
      /\ newest[Items(o)] = lines /\ lines \in Seq(Line) /\ Took(lines)
  BY SaveAtCommit DEF Saved
<1>2. \A n \in OrderIds : n # o =>
         newest[Ord(n)] = committed[Ord(n)] /\ newest[Items(n)] = committed[Items(n)]
  BY OtherOrders DEF Commits
<1> HIDE DEF o, lines
<1>3. newest[Ord(o)] \notin {Absent, "CANCELLED"}
  BY <1>1, ShopAssumption DEF ShopAssumption, Statuses
<1>4. /\ o \notin Outstanding(committed)
      /\ Outstanding(newest) = Outstanding(committed) \cup {o}
      /\ \A n \in Outstanding(committed) : newest[Items(n)] = committed[Items(n)]
  BY <1>1, <1>2, <1>3 DEF Outstanding
<1>5. newest[Items(o)] \in Seq(Line)
  BY <1>1
<1>6. /\ Sold(p) \in Nat /\ Demand(newest[Items(o)], p) \in Nat
      /\ Sold(p)' = Sold(p) + Demand(newest[Items(o)], p)
  BY <1>1, <1>4, <1>5, SoldGrows
<1>7. QED
  BY <1>1, <1>6, AccountTaken DEF Commits

(* Units of an order that leaves the outstanding ones go back to stock.    *)
LEMMA LeavingAccounts ==
    ASSUME NEW c \in Clients, Commits(c), NEW o \in Outstanding(committed),
           Outstanding(newest) = Outstanding(committed) \ {o},
           \A n \in OrderIds : n # o => newest[Items(n)] = committed[Items(n)],
           Gave(committed[Items(o)]), NEW p \in Products, Account(p)
    PROVE  Account(p)'
<1>1. \A n \in Outstanding(newest) : newest[Items(n)] = committed[Items(n)]
  BY DEF Outstanding
<1>2. /\ Sold(p)' \in Nat /\ Demand(committed[Items(o)], p) \in Nat
      /\ Sold(p) = Sold(p)' + Demand(committed[Items(o)], p)
  BY <1>1, SoldShrinks
<1>3. QED
  BY <1>2, AccountGiven DEF Commits

(* A status change moves units only when it cancels an outstanding order.  *)
LEMMA StatusAccounts ==
    ASSUME NEW c \in Clients, Commits(c), AtCommit(c, "status"),
           NEW p \in Products, Account(p)
    PROVE  Account(p)'
<1> DEFINE o == job[c].order
           new == job[c].new
           old == committed[Ord(o)]
<1>1. /\ o \in OrderIds /\ old # Absent /\ job[c].old = old
      /\ new \in Statuses /\ newest[Ord(o)] = new
      /\ newest[Items(o)] = committed[Items(o)]
      /\ old = "CANCELLED" => new = "CANCELLED"
      /\ Returned(c, Cancels(job[c]))
  BY StatusAtCommit DEF Restated
<1>2. \A n \in OrderIds : n # o =>
         newest[Ord(n)] = committed[Ord(n)] /\ newest[Items(n)] = committed[Items(n)]
  BY OtherOrders DEF Commits
<1>3. new # Absent
  BY <1>1, ShopAssumption DEF ShopAssumption
<1>4. Cancels(job[c]) <=> new = "CANCELLED" /\ old # "CANCELLED"
  BY <1>1 DEF Cancels
<1>5. Cancels(job[c]) => Gave(committed[Items(o)])
  BY <1>1 DEF Returned, ItemsOf
<1>6. ~Cancels(job[c]) => SameProducts
  BY <1>1 DEF Returned
<1> HIDE DEF o, new, old
<1>7. CASE Cancels(job[c])
  <2>1. o \in Outstanding(committed) /\ Outstanding(newest) = Outstanding(committed) \ {o}
    BY <1>1, <1>2, <1>4, <1>7 DEF Outstanding, old
  <2>2. QED
    BY <1>2, <1>5, <1>7, <2>1, LeavingAccounts
<1>8. CASE ~Cancels(job[c])
  <2>1. Outstanding(newest) = Outstanding(committed)
    BY <1>1, <1>2, <1>3, <1>4, <1>8 DEF Outstanding, old
  <2>2. \A n \in Outstanding(committed) : newest[Items(n)] = committed[Items(n)]
    BY <1>1, <1>2 DEF Outstanding
  <2>3. Sold(p)' = Sold(p)
    BY <2>1, <2>2, SoldStays
  <2>4. QED
    BY <1>6, <1>8, <2>3, AccountKept DEF SameProducts, Commits
<1>9. QED
  BY <1>7, <1>8

(* A deletion moves units only when the order was outstanding.             *)
LEMMA DeleteAccounts ==
    ASSUME NEW c \in Clients, Commits(c), AtCommit(c, "delete"),
           NEW p \in Products, Account(p)
    PROVE  Account(p)'
<1> DEFINE o == job[c].order
           old == committed[Ord(o)]
<1>1. /\ o \in OrderIds /\ job[c].old = old /\ Returned(c, Returns(c))
      /\ newest[Ord(o)] = Absent
  BY DeleteAtCommit DEF Deleted, OldStatus
<1>2. \A n \in OrderIds : n # o =>
         newest[Ord(n)] = committed[Ord(n)] /\ newest[Items(n)] = committed[Items(n)]
  BY OtherOrders DEF Commits
<1>3. Returns(c) <=> old \notin {Absent, "CANCELLED"}
  BY <1>1 DEF Returns
<1>4. Returns(c) => Gave(committed[Items(o)])
  BY <1>1 DEF Returned, ItemsOf
<1>5. ~Returns(c) => SameProducts
  BY <1>1 DEF Returned
<1> HIDE DEF o, old
<1>6. CASE Returns(c)
  <2>1. o \in Outstanding(committed) /\ Outstanding(newest) = Outstanding(committed) \ {o}
    BY <1>1, <1>2, <1>3, <1>6 DEF Outstanding, old
  <2>2. QED
    BY <1>2, <1>4, <1>6, <2>1, LeavingAccounts
<1>7. CASE ~Returns(c)
  <2>1. o \notin Outstanding(committed) /\ Outstanding(newest) = Outstanding(committed)
    BY <1>1, <1>2, <1>3, <1>7 DEF Outstanding, old
  <2>2. \A n \in Outstanding(committed) : newest[Items(n)] = committed[Items(n)]
    BY <1>2, <2>1 DEF Outstanding
  <2>3. Sold(p)' = Sold(p)
    BY <2>1, <2>2, SoldStays
  <2>4. QED
    BY <1>5, <1>7, <2>3, AccountKept DEF SameProducts, Commits
<1>8. QED
  BY <1>6, <1>7

(* The methods of products leave the units sold as they are.               *)
LEMMA ProductSold ==
    ASSUME NEW c \in Clients, Commits(c), job[c].op \notin {"save", "status", "delete"},
           NEW p \in Products
    PROVE  Sold(p)' = Sold(p) /\ Sold(p) \in Nat
<1>1. \A n \in OrderIds :
         newest[Ord(n)] = committed[Ord(n)] /\ newest[Items(n)] = committed[Items(n)]
  BY OtherOrders DEF Commits
<1>2. Outstanding(newest) = Outstanding(committed)
  BY <1>1 DEF Outstanding
<1>3. \A n \in Outstanding(committed) : newest[Items(n)] = committed[Items(n)]
  BY <1>1 DEF Outstanding
<1>4. QED
  BY <1>2, <1>3, SoldStays

(* What no committed product is, no order has.                             *)
LEMMA NothingSold ==
    ASSUME Base, NEW p \in Products, committed[Prod(p)] = Absent
    PROVE  Sold(p) = 0
<1>1. \A o \in Outstanding(committed) : p \notin Ordered(Lists(committed)[o])
  <2>1. ASSUME NEW o \in Outstanding(committed), p \in Ordered(committed[Items(o)])
        PROVE  FALSE
    BY <2>1, OutstandingLists, OrderedExist
  <2>2. QED
    BY <2>1, OutstandingLists
<1>2. QED
  BY <1>1, NoUnits, SoldCommitted DEF SoldIn

(* A new product has the stock it was saved with.                          *)
LEMMA NewAccounts ==
    ASSUME NEW c \in Clients, Commits(c), AtCommit(c, "new"),
           NEW p \in Products, Account(p)
    PROVE  Account(p)'
<1>1. /\ Inserts(c) /\ OtherProductsSame(c)
      /\ newest[Prod(job[c].product)] = NewProduct(job[c].amount)
  BY DEF Commits, SerialInv, Done, ProductDone
<1>2. Sold(p)' = Sold(p)
  BY ProductSold DEF AtCommit
<1>3. CASE p = job[c].product
  <2>1. Sold(p) = 0
    BY <1>1, <1>3, NothingSold DEF Inserts, Commits
  <2>2. /\ newest[Prod(p)].stock = job[c].amount /\ newest[Prod(p)].supplied = job[c].amount
        /\ job[c].amount \in Nat
    <3>1. job[c].amount \in 0..MaxInt
      BY <1>1, ShopAssumption DEF Inserts, ShopAssumption
    <3>2. job[c].amount \in Nat
      BY <3>1, ShopAssumption DEF ShopAssumption
    <3>3. newest[Prod(p)] = NewProduct(job[c].amount)
      BY <1>1, <1>3
    <3>4. QED
      BY <3>2, <3>3 DEF NewProduct
  <2>3. committed' = newest
    BY DEF Commits
  <2>4. newest[Prod(p)].stock + Sold(p)' = newest[Prod(p)].supplied
    BY <1>2, <2>1, <2>2
  <2>5. QED
    BY <2>3, <2>4 DEF Account
<1>4. CASE p # job[c].product
  <2>1. SameProduct(p)
    BY <1>1, <1>4 DEF OtherProductsSame
  <2>2. QED
    BY <1>2, <2>1, AccountKept DEF Commits
<1>5. QED
  BY <1>3, <1>4

(* A restock adds to the stock what it adds to the units supplied.         *)
LEMMA AddAccounts ==
    ASSUME NEW c \in Clients, Commits(c), AtCommit(c, "add"),
           NEW p \in Products, Account(p)
    PROVE  Account(p)'
<1> DEFINE q == job[c].amount
           a == committed[Prod(p)]
           b == newest[Prod(p)]
<1>1. /\ Supplies(c) /\ OtherProductsSame(c)
      /\ Changed(job[c].product, committed[Prod(job[c].product)].stock + q,
                 committed[Prod(job[c].product)].supplied + q)
  BY DEF Commits, SerialInv, Done, ProductDone
<1>2. Sold(p)' = Sold(p) /\ Sold(p) \in Nat
  BY ProductSold DEF AtCommit
<1>3. CASE p = job[c].product
  <2>1. SUFFICES ASSUME b # Absent
                 PROVE  b.stock + Sold(p) = b.supplied
    BY <1>2 DEF Account, Commits
  <2>2. a # Absent /\ b.stock = a.stock + q /\ b.supplied = a.supplied + q
    BY <1>1, <1>3, <2>1 DEF Changed
  <2>3. a.stock + Sold(p) = a.supplied
    BY <2>2 DEF Account
  <2>4. a.stock \in Nat /\ a.supplied \in Nat
    BY <2>2, AccountNumbers DEF Commits
  <2>5. q \in Nat
    BY <1>1 DEF Supplies
  <2> HIDE DEF a, b, q
  <2>6. QED
    BY <1>2, <2>2, <2>3, <2>4, <2>5
<1>4. CASE p # job[c].product
  <2>1. SameProduct(p)
    BY <1>1, <1>4 DEF OtherProductsSame
  <2>2. QED
    BY <1>2, <2>1, AccountKept DEF Commits
<1>5. QED
  BY <1>3, <1>4

(* A product that is deleted has no account any more.                      *)
LEMMA RemoveAccounts ==
    ASSUME NEW c \in Clients, Commits(c), AtCommit(c, "remove"),
           NEW p \in Products, Account(p)
    PROVE  Account(p)'
<1>1. OtherProductsSame(c) /\ newest[Prod(job[c].product)] = Absent
  BY DEF Commits, SerialInv, Done, ProductDone
<1>2. Sold(p)' = Sold(p)
  BY ProductSold DEF AtCommit
<1>3. CASE p = job[c].product
  BY <1>1, <1>3 DEF Account, Commits
<1>4. CASE p # job[c].product
  <2>1. SameProduct(p)
    BY <1>1, <1>4 DEF OtherProductsSame
  <2>2. QED
    BY <1>2, <2>1, AccountKept DEF Commits
<1>5. QED
  BY <1>3, <1>4

(* Every commit keeps every account.                                       *)
LEMMA CommitAccounts ==
    ASSUME NEW c \in Clients, Commits(c), NEW p \in Products, Account(p)
    PROVE  Account(p)'
<1>1. job[c].op \in {"save", "status", "delete", "new", "add", "remove"}
  BY DEF Commits, SerialInv, Done, AtCommit, Base, Inv1, AppTypes, Job
<1>2. CASE AtCommit(c, "save")
  BY <1>2, SaveAccounts
<1>3. CASE AtCommit(c, "status")
  BY <1>3, StatusAccounts
<1>4. CASE AtCommit(c, "delete")
  BY <1>4, DeleteAccounts
<1>5. CASE AtCommit(c, "new")
  BY <1>5, NewAccounts
<1>6. CASE AtCommit(c, "add")
  BY <1>6, AddAccounts
<1>7. CASE AtCommit(c, "remove")
  BY <1>7, RemoveAccounts
<1>8. QED
  BY <1>1, <1>2, <1>3, <1>4, <1>5, <1>6, <1>7 DEF Commits, AtCommit

(* Nothing else changes the committed tables.                              *)
LEMMA StepAccounts ==
    Base /\ Serial /\ SerialInv /\ StockAccounted /\ [Next]_vars => StockAccounted'
<1> SUFFICES ASSUME Base, Serial, SerialInv, StockAccounted, [Next]_vars
             PROVE  StockAccounted'
  OBVIOUS
<1>1. CASE UNCHANGED committed
  BY <1>1 DEF StockAccounted, Sold, AtomicStore!Units
<1>2. CASE UNCHANGED vars
  BY <1>1, <1>2 DEF vars, engine
<1>3. CASE Next
  <2>1. PICK c \in Clients : Action(c)
    BY <1>3 DEF Next, Action
  <2>2. UNCHANGED committed \/ Commits(c)
    BY <2>1, ActionKinds DEF Commits
  <2>3. ASSUME Commits(c) PROVE StockAccounted'
    <3>1. \A p \in Products : Account(p)
      BY DEF StockAccounted, Account
    <3>2. \A p \in Products : Account(p)'
      BY <2>3, <3>1, CommitAccounts
    <3>3. QED
      BY <3>2 DEF StockAccounted, Account
  <2>4. QED
    BY <1>1, <2>2, <2>3
<1>4. QED
  BY <1>2, <1>3

(* At the start nothing is sold.                                           *)
LEMMA InitAccounts == Init => StockAccounted
<1> SUFFICES ASSUME Init, NEW p \in Products, committed[Prod(p)] # Absent
             PROVE  committed[Prod(p)].stock + Sold(p) = committed[Prod(p)].supplied
  BY DEF StockAccounted
<1>1. committed[Prod(p)] = NewProduct(InitialStock[p]) /\ InitialStock[p] # Absent
  BY RowsAndValues DEF Init, EngineInit, ProdRows, Prod
<1>2. InitialStock[p] \in Nat
  BY <1>1, ShopAssumption DEF ShopAssumption
<1>3. \A o \in OrderIds : committed[Ord(o)] = Absent
  BY RowsAndValues, RowsDiffer DEF Init, EngineInit, ProdRows, Prod, Ord
<1>4. Outstanding(committed) = {}
  BY <1>3 DEF Outstanding
<1>5. Sold(p) = 0
  BY <1>4, NoUnits, SoldCommitted DEF SoldIn
<1>6. QED
  BY <1>1, <1>2, <1>5 DEF NewProduct

(* As long as methods do not overlap, every unit ever supplied is in stock *)
(* or in an order that is not cancelled, for every number of applications, *)
(* products and orders.                                                    *)
THEOREM SerialStockAccounted == Serial => (Spec => []StockAccounted)
<1> SUFFICES ASSUME Serial PROVE Spec => []StockAccounted
  OBVIOUS
<1>1. Base /\ SerialInv /\ [Next]_vars => Base' /\ SerialInv'
  BY StepBase, StepSerial
<1>2. Init => Base /\ SerialInv /\ StockAccounted
  BY InitBase, InitSerial, InitAccounts
<1>3. Base /\ SerialInv /\ StockAccounted /\ [Next]_vars => StockAccounted'
  BY StepAccounts
<1>4. QED
  BY <1>1, <1>2, <1>3, PTL DEF Spec
=============================================================================
