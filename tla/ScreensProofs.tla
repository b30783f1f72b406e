---------------------------- MODULE ScreensProofs ----------------------------
(***************************************************************************)
(* Theorems about Screens, for any number of applications, products, orders*)
(* and commits.  The invariant has two parts:                              *)
(*   Types      every variable has its type, and the products of an order  *)
(*              exist, so that what a cancellation adds up are numbers;    *)
(*   WindowInv  what a handler has loaded so far is what the open read view*)
(*              shows, neither is older than its own commit, and no screen *)
(*              shows anything newer than that view.                       *)
(***************************************************************************)
EXTENDS Screens, FiniteSetTheorems, WellFoundedInduction, TLAPS

(* The committed tables.                                                   *)
OrderRow == [status : {"PENDING", "PAID", "SHIPPED", "CANCELLED"}, lines : LineLists]

StoreTypes ==
    /\ stock \in [Products -> 0..MaxInt \cup {Absent}]
    /\ orders \in [OrderIds -> OrderRow \cup {Absent}]
    /\ unused \subseteq OrderIds

(* The products of an order exist: a deletion looks for orders, and a new  *)
(* order for its products.                                                 *)
ItemsExist ==
    \A o \in OrderIds : orders[o] # Absent =>
        \A p \in DB!Ordered(orders[o].lines) : p \in Products /\ stock[p] # Absent

StoreInv == StoreTypes /\ ItemsExist

-----------------------------------------------------------------------------
(* A set of product ids that is not empty has a largest one.               *)
LEMMA LargestProduct ==
    ASSUME NEW S \in SUBSET (0..MaxProduct), S # {}
    PROVE  Max(S) \in S /\ \A n \in S : Max(S) >= n
<1>1. MaxProduct \in Nat
  BY ScreensAssumption DEF ScreensAssumption
<1>2. \E m \in S : \A n \in S : m >= n
  <2> DEFINE R == {p \in Nat \X Nat : p[1] < p[2]}
             T == {MaxProduct - n : n \in S}
  <2>1. IsWellFoundedOn(R, Nat)
    BY NatLessThanWellFounded DEF OpToRel
  <2>2. \A n, m \in Nat : n < m => <<n, m>> \in R
    OBVIOUS
  <2>3. \A n \in S : n \in Nat /\ n <= MaxProduct
    BY <1>1
  <2>4. T \subseteq Nat /\ T # {}
    <3>1. \A n \in S : MaxProduct - n \in Nat
      BY <1>1, <2>3
    <3>2. QED
      BY <3>1
  <2> HIDE DEF R, T
  <2>5. PICK k \in T : \A j \in T : <<j, k>> \notin R
    BY <2>1, <2>4, WFMin
  <2>6. PICK m \in S : k = MaxProduct - m
    BY <2>5 DEF T
  <2>7. ASSUME NEW n \in S PROVE m >= n
    <3>1. MaxProduct - n \in T /\ MaxProduct - n \in Nat /\ k \in Nat
      BY <2>4, <2>5 DEF T
    <3>2. ~(MaxProduct - n < k)
      BY <2>2, <2>5, <3>1
    <3>3. m \in Nat /\ n \in Nat
      BY <2>3
    <3>4. QED
      BY <1>1, <2>6, <3>1, <3>2, <3>3
  <2>8. QED
    BY <2>7
<1>3. QED
  BY <1>2 DEF Max

(* What a list of one item demands of a product is a number.               *)
LEMMA DemandOfOne ==
    ASSUME NEW lines \in LineLists, NEW p
    PROVE  DB!Demand(lines, p) \in Nat
<1>1. PICK a \in Products, q \in 1..MaxQty : lines = <<[product |-> a, qty |-> q]>>
  BY DEF LineLists
<1>2. /\ DOMAIN lines = {1} /\ lines[1].product = a /\ lines[1].qty = q
      /\ q \in Nat
  BY <1>1, ScreensAssumption DEF ScreensAssumption
<1>3. ASSUME NEW S PROVE DB!Cardinality(S) = Cardinality(S)
  BY Zenon DEF Cardinality, DB!Cardinality
<1>4. IsFiniteSet(DB!Units(lines, p))
  <2>1. CASE a = p
    <3>1. DB!Units(lines, p) = {1} \X (1..q)
      BY <1>2, <2>1 DEF DB!Units
    <3>2. IsFiniteSet({1})
      BY FS_Singleton, Zenon
    <3>3. IsFiniteSet(1..q)
      BY <1>2, FS_Interval, 1 \in Int, q \in Int, Zenon
    <3>4. QED
      BY <3>1, <3>2, <3>3, FS_Product, Zenon
  <2>2. CASE a # p
    <3>1. DB!Units(lines, p) = {}
      BY <1>2, <2>2 DEF DB!Units
    <3>2. QED
      BY <3>1, FS_EmptySet
  <2>3. QED
    BY <2>1, <2>2
<1>5. QED
  BY <1>3, <1>4, FS_CardinalityType DEF DB!Demand

(* A new order: what it takes is there.                                    *)
LEMMA PlaceOrderStore ==
    ASSUME StoreInv, NEW o \in OrderIds, NEW lines \in LineLists, DB!PlaceOrder(o, lines)
    PROVE  StoreInv'
<1>1. ASSUME NEW p \in Products
      PROVE  stock'[p] \in 0..MaxInt \cup {Absent} /\ (stock[p] # Absent => stock'[p] # Absent)
  <2>1. stock[p] \in 0..MaxInt \cup {Absent}
    BY DEF StoreInv, StoreTypes
  <2>2. stock'[p] = IF p \in DB!Ordered(lines) THEN stock[p] - DB!Demand(lines, p) ELSE stock[p]
    BY DEF DB!PlaceOrder
  <2>3. CASE p \in DB!Ordered(lines)
    <3>1. stock[p] # Absent /\ DB!Demand(lines, p) <= stock[p]
      BY <2>3 DEF DB!PlaceOrder, DB!Exists
    <3>2. DB!Demand(lines, p) \in Nat
      BY DemandOfOne
    <3>3. stock'[p] \in 0..MaxInt
      BY <2>1, <2>2, <2>3, <3>1, <3>2, ScreensAssumption DEF ScreensAssumption
    <3>4. QED
      BY <3>3, ScreensAssumption DEF ScreensAssumption
  <2>4. CASE p \notin DB!Ordered(lines)
    BY <2>1, <2>2, <2>4
  <2>5. QED
    BY <2>3, <2>4
<1>2. stock' = [p \in Products |-> stock'[p]]
  BY DEF DB!PlaceOrder
<1>3. orders' = [orders EXCEPT ![o] = [status |-> "PENDING", lines |-> lines]]
      /\ unused' = unused \ {o}
  BY DEF DB!PlaceOrder
<1>4. StoreTypes'
  <2>1. stock' \in [Products -> 0..MaxInt \cup {Absent}]
    BY <1>1, <1>2
  <2>2. [status |-> "PENDING", lines |-> lines] \in OrderRow
    BY DEF OrderRow
  <2>3. QED
    BY <1>3, <2>1, <2>2 DEF StoreInv, StoreTypes
<1>5. ASSUME NEW n \in OrderIds, orders'[n] # Absent, NEW p \in DB!Ordered(orders'[n].lines)
      PROVE  p \in Products /\ stock'[p] # Absent
  <2>1. CASE n = o
    <3>1. p \in DB!Ordered(lines)
      BY <1>3, <1>5, <2>1 DEF StoreInv, StoreTypes
    <3>2. stock[p] # Absent
      BY <3>1 DEF DB!PlaceOrder, DB!Exists
    <3>3. p \in Products
      <4>1. PICK i \in DOMAIN lines : p = lines[i].product
        BY <3>1 DEF DB!Ordered
      <4>2. QED
        BY <4>1 DEF LineLists
    <3>4. QED
      BY <1>1, <3>2, <3>3
  <2>2. CASE n # o
    <3>1. orders'[n] = orders[n]
      BY <1>3, <2>2 DEF StoreInv, StoreTypes
    <3>2. QED
      BY <1>1, <1>5, <3>1 DEF StoreInv, ItemsExist
  <2>3. QED
    BY <2>1, <2>2
<1>6. QED
  BY <1>4, <1>5 DEF StoreInv, ItemsExist, DB!Ordered

(* Items that go back to stock fit into the column.                        *)
LEMMA GiveBackStore ==
    ASSUME StoreInv, NEW o \in OrderIds, orders[o] # Absent, DB!GiveBack(o)
    PROVE  /\ stock' \in [Products -> 0..MaxInt \cup {Absent}]
           /\ \A p \in Products : stock[p] # Absent => stock'[p] # Absent
<1>1. PICK lines \in LineLists : lines = orders[o].lines
  BY DEF StoreInv, StoreTypes, OrderRow
<1>2. ASSUME NEW p \in Products
      PROVE  stock'[p] \in 0..MaxInt \cup {Absent} /\ (stock[p] # Absent => stock'[p] # Absent)
  <2>1. stock[p] \in 0..MaxInt \cup {Absent}
    BY DEF StoreInv, StoreTypes
  <2>2. stock'[p] = IF p \in DB!Ordered(lines) THEN stock[p] + DB!Demand(lines, p) ELSE stock[p]
    BY <1>1 DEF DB!GiveBack
  <2>3. CASE p \in DB!Ordered(lines)
    <3>1. stock[p] # Absent
      BY <1>1, <2>3 DEF StoreInv, ItemsExist
    <3>2. DB!Demand(lines, p) \in Nat
      BY DemandOfOne
    <3>3. stock[p] + DB!Demand(lines, p) <= MaxInt
      BY <1>1, <2>3 DEF DB!GiveBack
    <3>4. stock'[p] \in 0..MaxInt
      BY <2>1, <2>2, <2>3, <3>1, <3>2, <3>3, ScreensAssumption DEF ScreensAssumption
    <3>5. QED
      BY <3>4, ScreensAssumption DEF ScreensAssumption
  <2>4. CASE p \notin DB!Ordered(lines)
    BY <2>1, <2>2, <2>4
  <2>5. QED
    BY <2>3, <2>4
<1>3. stock' = [p \in Products |-> stock'[p]]
  BY DEF DB!GiveBack
<1>4. QED
  BY <1>2, <1>3

(* Stock that exists stays, and orders keep their items: items exist.      *)
LEMMA OrdersRewritten ==
    ASSUME StoreInv, stock' \in [Products -> 0..MaxInt \cup {Absent}],
           \A p \in Products : stock[p] # Absent => stock'[p] # Absent,
           orders' \in [OrderIds -> OrderRow \cup {Absent}],
           \A o \in OrderIds : orders'[o] # Absent =>
               orders[o] # Absent /\ orders'[o].lines = orders[o].lines,
           unused' = unused
    PROVE  StoreInv'
<1>1. ASSUME NEW n \in OrderIds, orders'[n] # Absent, NEW p \in DB!Ordered(orders'[n].lines)
      PROVE  p \in Products /\ stock'[p] # Absent
  BY <1>1 DEF StoreInv, ItemsExist
<1>2. QED
  BY <1>1 DEF StoreInv, StoreTypes, ItemsExist, DB!Ordered

(* A status, a cancellation.                                               *)
LEMMA StatusStore ==
    ASSUME StoreInv, NEW o \in OrderIds, NEW status \in {"PENDING", "PAID", "SHIPPED"},
           DB!SetStatus(o, status) \/ DB!CancelOrder(o)
    PROVE  StoreInv'
<1>1. PICK new \in {"PENDING", "PAID", "SHIPPED", "CANCELLED"} :
         /\ orders' = [orders EXCEPT ![o].status = new]
         /\ orders[o] # Absent /\ unused' = unused
         /\ UNCHANGED stock \/ DB!GiveBack(o)
  BY DEF DB!SetStatus, DB!CancelOrder, DB!Outstanding
<1>2. /\ stock' \in [Products -> 0..MaxInt \cup {Absent}]
      /\ \A p \in Products : stock[p] # Absent => stock'[p] # Absent
  <2>1. CASE UNCHANGED stock
    BY <2>1 DEF StoreInv, StoreTypes
  <2>2. CASE DB!GiveBack(o)
    BY <1>1, <2>2, GiveBackStore
  <2>3. QED
    BY <1>1, <2>1, <2>2
<1>3. orders \in [OrderIds -> OrderRow \cup {Absent}] /\ orders[o] \in OrderRow
  BY <1>1 DEF StoreInv, StoreTypes
<1>4. /\ [orders[o] EXCEPT !.status = new] \in OrderRow
      /\ [orders[o] EXCEPT !.status = new].lines = orders[o].lines
  BY <1>3 DEF OrderRow
<1>5. /\ orders'[o] = [orders[o] EXCEPT !.status = new]
      /\ \A n \in OrderIds : n # o => orders'[n] = orders[n]
      /\ DOMAIN orders' = OrderIds /\ orders' = [n \in OrderIds |-> orders'[n]]
  BY <1>1, <1>3
<1>6. orders' \in [OrderIds -> OrderRow \cup {Absent}]
  BY <1>3, <1>4, <1>5
<1>7. \A n \in OrderIds : orders'[n] # Absent =>
               orders[n] # Absent /\ orders'[n].lines = orders[n].lines
  BY <1>1, <1>4, <1>5
<1>8. QED
  BY <1>1, <1>2, <1>6, <1>7, OrdersRewritten

(* A deletion of an order.                                                 *)
LEMMA DeleteOrderStore ==
    ASSUME StoreInv, NEW o \in OrderIds, DB!DeleteOrder(o)
    PROVE  StoreInv'
<1>1. /\ orders' = [orders EXCEPT ![o] = Absent]
      /\ orders[o] # Absent /\ unused' = unused
      /\ UNCHANGED stock \/ DB!GiveBack(o)
  BY DEF DB!DeleteOrder
<1>2. /\ stock' \in [Products -> 0..MaxInt \cup {Absent}]
      /\ \A p \in Products : stock[p] # Absent => stock'[p] # Absent
  <2>1. CASE UNCHANGED stock
    BY <2>1 DEF StoreInv, StoreTypes
  <2>2. CASE DB!GiveBack(o)
    BY <1>1, <2>2, GiveBackStore
  <2>3. QED
    BY <1>1, <2>1, <2>2
<1>3. orders' \in [OrderIds -> OrderRow \cup {Absent}]
  BY <1>1 DEF StoreInv, StoreTypes
<1>4. \A n \in OrderIds : orders'[n] # Absent =>
               orders[n] # Absent /\ orders'[n].lines = orders[n].lines
  BY <1>1 DEF StoreInv, StoreTypes
<1>5. QED
  BY <1>1, <1>2, <1>3, <1>4, OrdersRewritten

(* The stock of one product is set, to a number ...                        *)
LEMMA StockSet ==
    ASSUME StoreInv, NEW p \in Products, NEW n \in 0..MaxInt, DB!NewStockOf(p, n)
    PROVE  StoreInv'
<1>1. stock' = [stock EXCEPT ![p] = n] /\ orders' = orders /\ unused' = unused
  BY DEF DB!NewStockOf
<1>2. n # Absent
  BY ScreensAssumption DEF ScreensAssumption
<1>3. /\ stock' \in [Products -> 0..MaxInt \cup {Absent}]
      /\ \A q \in Products : stock[q] # Absent => stock'[q] # Absent
  BY <1>1, <1>2 DEF StoreInv, StoreTypes
<1>4. orders' \in [OrderIds -> OrderRow \cup {Absent}]
  BY <1>1 DEF StoreInv, StoreTypes
<1>5. QED
  BY <1>1, <1>3, <1>4, OrdersRewritten

(* ... or the product is deleted, which no order lists.                    *)
LEMMA DeleteProductStore ==
    ASSUME StoreInv, NEW p \in Products, DB!DeleteProduct(p)
    PROVE  StoreInv'
<1>1. stock' = [stock EXCEPT ![p] = Absent] /\ orders' = orders /\ unused' = unused
  BY DEF DB!DeleteProduct, DB!NewStockOf
<1>2. StoreTypes'
  BY <1>1 DEF StoreInv, StoreTypes
<1>3. ASSUME NEW n \in OrderIds, orders[n] # Absent, NEW q \in DB!Ordered(orders[n].lines)
      PROVE  q \in Products /\ stock'[q] # Absent
  <2>1. q \in Products /\ stock[q] # Absent
    BY <1>3 DEF StoreInv, ItemsExist
  <2>2. q # p
    BY <1>3 DEF DB!DeleteProduct
  <2>3. QED
    BY <1>1, <2>1, <2>2 DEF StoreInv, StoreTypes
<1>4. ItemsExist'
  BY <1>1, <1>3 DEF ItemsExist, DB!Ordered
<1>5. QED
  BY <1>2, <1>4 DEF StoreInv

-----------------------------------------------------------------------------
Reports == [own : 0..MaxCommits, loads : SUBSET ScreenNames, failed : SUBSET ScreenNames,
            cut : BOOLEAN]

(* Every variable holds values of its type.                                *)
WindowTypes ==
    /\ view \in [Clients -> Contents \cup {NoView}]
    /\ shown \in [Clients -> [ScreenNames -> Contents]]
    /\ picked = [c \in Clients |-> picked[c]]
    /\ loads \in [Clients -> Seq(ScreenNames)]
    /\ last \in [Clients -> Reports]

Types ==
    /\ StoreInv /\ WindowTypes
    /\ nextProduct \in 1..MaxProduct + 1
    /\ version \in 0..MaxCommits
    /\ failures \in 0..MaxFailures

(* Each application has a window of its own.                               *)
OthersKept(c) ==
    \A d \in Clients \ {c} :
        /\ view'[d] = view[d] /\ shown'[d] = shown[d] /\ picked'[d] = picked[d]
        /\ loads'[d] = loads[d] /\ last'[d] = last[d]

(* A handler that succeeded, whatever it did: it has committed, its view is*)
(* closed, and these screens are to be loaded again.                       *)
Succeeds(c) ==
    /\ StoreInv' /\ nextProduct' \in 1..MaxProduct + 1
    /\ \E screens \in Seq(ScreenNames) : Succeed(c, screens)
    /\ UNCHANGED picked \/ picked' = [picked EXCEPT ![c] = Nothing]

HandlerCall(c) ==
    \/ CreateOrder(c) \/ CreateProduct(c) \/ AddProductStock(c)
    \/ DeleteProduct(c) \/ UpdateOrderStatus(c) \/ DeleteOrder(c)

-----------------------------------------------------------------------------
(* The dictionary of the form leads from labels to products that have them.*)
LEMMA LabelsLead ==
    ASSUME NEW tables, NEW label \in DOMAIN ProductMap(tables)
    PROVE  /\ ProductMap(tables)[label] \in Products
           /\ tables.stock[ProductMap(tables)[label]] # Absent
           /\ Label(tables, ProductMap(tables)[label]) = label
<1> DEFINE listed == {p \in Products : tables.stock[p] # Absent}
           S == {p \in listed : Label(tables, p) = label}
<1>1. ProductMap(tables) =
        [l \in {Label(tables, p) : p \in listed} |-> Max({p \in listed : Label(tables, p) = l})]
  BY DEF ProductMap
<1>2. label \in {Label(tables, p) : p \in listed}
  BY <1>1
<1>3. ProductMap(tables)[label] = Max(S)
  BY <1>1, <1>2
<1>4. S \in SUBSET (0..MaxProduct) /\ S # {}
  BY <1>2, ScreensAssumption DEF Products, ScreensAssumption
<1>5. Max(S) \in S
  BY <1>4, LargestProduct
<1>6. QED
  BY <1>3, <1>5

(* The lists orders are created with.                                      *)
LEMMA OneLine ==
    ASSUME NEW p \in Products, NEW q \in 1..MaxQty
    PROVE  <<[product |-> p, qty |-> q]>> \in LineLists
  BY DEF LineLists

(* Whatever a handler does to the store, the store stays well typed, and   *)
(* its items exist.                                                        *)
LEMMA HandlerSucceeds ==
    ASSUME Types, NEW c \in Clients, HandlerCall(c)
    PROVE  Succeeds(c)
<1>1. StoreInv /\ nextProduct \in 1..MaxProduct + 1 /\ MaxProduct \in Nat
  BY ScreensAssumption DEF Types, ScreensAssumption
<1>2. ASSUME UNCHANGED <<stock, orders, unused>> PROVE StoreInv'
  BY <1>1, <1>2 DEF StoreInv, StoreTypes, ItemsExist, DB!Ordered
<1>3. /\ <<"products", "form">> \in Seq(ScreenNames)
      /\ <<"report">> \in Seq(ScreenNames)
      /\ <<"report", "products", "form">> \in Seq(ScreenNames)
  BY DEF ScreenNames
<1>4. CASE CreateOrder(c)
  <2>1. PICK o \in unused, q \in 1..MaxQty :
          DB!PlaceOrder(o, <<[product |-> ProductMap(shown[c].form)[picked[c]], qty |-> q]>>)
    BY <1>4 DEF CreateOrder
  <2>2. ProductMap(shown[c].form)[picked[c]] \in Products
    BY <1>4, LabelsLead DEF CreateOrder
  <2>3. o \in OrderIds
    BY <1>1 DEF StoreInv, StoreTypes
  <2>4. StoreInv'
    BY <1>1, <2>1, <2>2, <2>3, OneLine, PlaceOrderStore
  <2>5. QED
    BY <1>1, <1>3, <1>4, <2>4 DEF CreateOrder, Succeeds
<1>5. CASE CreateProduct(c)
  <2>1. PICK n \in NewStock : DB!SaveProduct(nextProduct, n)
    BY <1>5 DEF CreateProduct
  <2>2. n \in 0..MaxInt /\ nextProduct \in Products
    BY <1>5, ScreensAssumption DEF CreateProduct, ScreensAssumption
  <2>3. StoreInv'
    BY <1>1, <2>1, <2>2, StockSet DEF DB!SaveProduct
  <2>4. nextProduct' \in 1..MaxProduct + 1
    <3>1. nextProduct' = nextProduct + 1
      BY <1>5 DEF CreateProduct
    <3>2. QED
      BY <1>1, <2>2, <3>1 DEF Products
  <2>5. QED
    BY <1>3, <1>5, <2>3, <2>4 DEF CreateProduct, Succeeds
<1>6. CASE AddProductStock(c)
  <2>1. PICK p \in Listed(c), q \in 1..MaxQty :
          IF DB!Exists(p) THEN DB!AddStock(p, q) ELSE UNCHANGED <<stock, orders, unused>>
    BY <1>6 DEF AddProductStock
  <2>2. StoreInv'
    <3>1. CASE DB!Exists(p)
      <4>1. p \in Products /\ stock[p] \in 0..MaxInt /\ q \in Nat /\ MaxInt \in Nat
        BY <1>1, <3>1, ScreensAssumption
           DEF Listed, DB!Exists, StoreInv, StoreTypes, ScreensAssumption
      <4>2. stock[p] + q <= MaxInt /\ DB!NewStockOf(p, stock[p] + q)
        BY <2>1, <3>1 DEF DB!AddStock
      <4>3. stock[p] + q \in 0..MaxInt
        BY <4>1, <4>2
      <4>4. QED
        BY <1>1, <4>1, <4>2, <4>3, StockSet
    <3>2. CASE ~DB!Exists(p)
      BY <1>2, <2>1, <3>2
    <3>3. QED
      BY <3>1, <3>2
  <2>3. QED
    BY <1>1, <1>3, <1>6, <2>2 DEF AddProductStock, Succeeds
<1>7. CASE DeleteProduct(c)
  <2>1. PICK p \in Listed(c) : DB!DeleteProduct(p)
    BY <1>7 DEF DeleteProduct
  <2>2. StoreInv'
    BY <1>1, <2>1, DeleteProductStore DEF Listed
  <2>3. QED
    BY <1>1, <1>3, <1>7, <2>2 DEF DeleteProduct, Succeeds
<1>8. CASE UpdateOrderStatus(c)
  <2>1. PICK o \in Reported(c) :
          \/ \E status \in NewStatuses : DB!SetStatus(o, status)
          \/ DB!CancelOrder(o)
          \/ UNCHANGED <<stock, orders, unused>>
    BY <1>8 DEF UpdateOrderStatus
  <2>2. o \in OrderIds
    BY DEF Reported
  <2>3. StoreInv'
    <3>1. CASE \E status \in NewStatuses : DB!SetStatus(o, status)
      <4>1. PICK status \in {"PENDING", "PAID", "SHIPPED"} : DB!SetStatus(o, status)
        BY <3>1, ScreensAssumption DEF ScreensAssumption
      <4>2. QED
        BY <1>1, <2>2, <4>1, StatusStore
    <3>2. CASE DB!CancelOrder(o)
      BY <1>1, <2>2, <3>2, StatusStore
    <3>3. CASE UNCHANGED <<stock, orders, unused>>
      BY <1>2, <3>3
    <3>4. QED
      BY <2>1, <3>1, <3>2, <3>3
  <2>4. QED
    BY <1>1, <1>3, <1>8, <2>3 DEF UpdateOrderStatus, Succeeds
<1>9. CASE DeleteOrder(c)
  <2>1. PICK o \in Reported(c) :
          IF orders[o] = Absent THEN UNCHANGED <<stock, orders, unused>>
                                ELSE DB!DeleteOrder(o)
    BY <1>9 DEF DeleteOrder
  <2>2. o \in OrderIds
    BY DEF Reported
  <2>3. StoreInv'
    BY <1>1, <1>2, <2>1, <2>2, DeleteOrderStore
  <2>4. QED
    BY <1>1, <1>3, <1>9, <2>3 DEF DeleteOrder, Succeeds
<1>10. QED
  BY <1>4, <1>5, <1>6, <1>7, <1>8, <1>9 DEF HandlerCall

-----------------------------------------------------------------------------
(* What the tables show, and what a SELECT reads, is a state of them.      *)
LEMMA ReadContents ==
    ASSUME Types, NEW c \in Clients
    PROVE  /\ Tables \in Contents /\ ReadView(c) \in Contents
           /\ Tables.version = version
           /\ ReadView(c) # NoView
           /\ view[c] # NoView => ReadView(c) = view[c]
           /\ view[c] = NoView => ReadView(c) = Tables
<1>1. Tables \in Contents /\ Tables.version = version
  BY DEF Types, StoreInv, StoreTypes, Tables, Contents, OrderRow
<1>2. view[c] \in Contents \cup {NoView}
  BY DEF Types, WindowTypes
<1>3. QED
  BY <1>1, <1>2, MarksAssumption DEF ReadView, MarksAssumption

(* An empty screen, and a handler with nothing to reload.                  *)
LEMMA BlankContents == Blank \in Contents /\ Blank.version = 0
<1>1. 0 \in 0..MaxCommits
  BY ScreensAssumption DEF ScreensAssumption
<1>2. QED
  BY <1>1 DEF Blank, Contents

LEMMA NoReportType == NoReport \in Reports /\ NoReport.own = 0 /\ NoReport.loads = {}
<1>1. 0 \in 0..MaxCommits
  BY ScreensAssumption DEF ScreensAssumption
<1>2. QED
  BY <1>1 DEF NoReport, Reports

(* The first screen still to be loaded, and the rest.                      *)
LEMMA FirstLoad ==
    ASSUME NEW list \in Seq(ScreenNames), list # <<>>
    PROVE  /\ Head(list) \in ScreenNames /\ Tail(list) \in Seq(ScreenNames)
           /\ {list[i] : i \in DOMAIN list} =
                 {Head(list)} \cup {Tail(list)[i] : i \in DOMAIN Tail(list)}
<1>1. /\ Head(list) = list[1] /\ 1 \in DOMAIN list /\ Len(list) \in Nat /\ Len(list) >= 1
      /\ DOMAIN list = 1..Len(list) /\ list[1] \in ScreenNames
  OBVIOUS
<1>2. /\ Tail(list) \in Seq(ScreenNames) /\ DOMAIN Tail(list) = 1..(Len(list) - 1)
      /\ \A i \in 1..(Len(list) - 1) : Tail(list)[i] = list[i + 1]
  OBVIOUS
<1>3. ASSUME NEW i \in DOMAIN list
      PROVE  list[i] = Head(list) \/ \E j \in DOMAIN Tail(list) : Tail(list)[j] = list[i]
  <2>1. CASE i = 1
    BY <1>1, <2>1
  <2>2. CASE i # 1
    <3>1. i - 1 \in 1..(Len(list) - 1) /\ (i - 1) + 1 = i
      BY <1>1, <2>2
    <3>2. QED
      BY <1>2, <3>1
  <2>3. QED
    BY <2>1, <2>2
<1>4. ASSUME NEW j \in DOMAIN Tail(list)
      PROVE  \E i \in DOMAIN list : list[i] = Tail(list)[j]
  <2>1. j + 1 \in 1..Len(list)
    BY <1>1, <1>2
  <2>2. QED
    BY <1>1, <1>2, <2>1
<1>5. QED
  BY <1>1, <1>2, <1>3, <1>4

Action(c) ==
    \/ Load(c) \/ LoadFails(c) \/ Pick(c) \/ Refused(c) \/ Disconnect(c)
    \/ (\E s \in Buttons : Refresh(c, s)) \/ HandlerCall(c)

(* An action of c does nothing to the windows of others.                   *)
LEMMA ActionOthers ==
    ASSUME Types, NEW c \in Clients, Action(c)
    PROVE  OthersKept(c)
<1> USE DEF Types, WindowTypes, OthersKept
<1>1. CASE Load(c)
  BY <1>1 DEF Load
<1>2. CASE LoadFails(c)
  BY <1>2 DEF LoadFails
<1>3. CASE Pick(c)
  BY <1>3 DEF Pick
<1>4. CASE Refused(c)
  BY <1>4 DEF Refused
<1>5. CASE Disconnect(c)
  BY <1>5 DEF Disconnect
<1>6. CASE \E s \in Buttons : Refresh(c, s)
  BY <1>6 DEF Refresh, Report
<1>7. CASE HandlerCall(c)
  <2>1. Succeeds(c)
    BY <1>7, HandlerSucceeds
  <2>2. QED
    BY <2>1 DEF Succeeds, Succeed, Report
<1>8. QED
  BY <1>1, <1>2, <1>3, <1>4, <1>5, <1>6, <1>7 DEF Action

(* The types are kept.                                                     *)
LEMMA ActionTypes ==
    ASSUME Types, NEW c \in Clients, Action(c)
    PROVE  Types'
<1>0. ASSUME UNCHANGED <<store, failures>>
      PROVE  /\ StoreInv' /\ (nextProduct \in 1..MaxProduct + 1)'
             /\ (version \in 0..MaxCommits)' /\ (failures \in 0..MaxFailures)'
  BY <1>0 DEF store, Types, StoreInv, StoreTypes, ItemsExist, DB!Ordered
<1>1. CASE Load(c)
  <2>1. /\ loads[c] \in Seq(ScreenNames) /\ loads[c] # <<>>
        /\ UNCHANGED <<store, picked, last, failures>>
        /\ view' = [view EXCEPT ![c] = ReadView(c)]
        /\ shown' = [shown EXCEPT ![c][Head(loads[c])] = ReadView(c)]
        /\ loads' = [loads EXCEPT ![c] = Tail(loads[c])]
    BY <1>1 DEF Load, Types, WindowTypes
  <2>2. ReadView(c) \in Contents
    BY ReadContents
  <2>3. Head(loads[c]) \in ScreenNames /\ Tail(loads[c]) \in Seq(ScreenNames)
    BY <2>1, FirstLoad
  <2>4. WindowTypes'
    BY <2>1, <2>2, <2>3 DEF Types, WindowTypes
  <2>5. QED
    BY <1>0, <2>1, <2>4 DEF Types
<1>2. CASE LoadFails(c)
  <2> DEFINE first == Head(loads[c])
             after == IF first = "form" THEN shown[c][first] ELSE Blank
             report == [last[c] EXCEPT !.failed = last[c].failed \cup {first}]
  <2>1. /\ loads[c] \in Seq(ScreenNames) /\ loads[c] # <<>>
        /\ UNCHANGED <<store, picked>>
        /\ failures < MaxFailures /\ failures' = failures + 1
        /\ shown' = [shown EXCEPT ![c][first] = after]
        /\ loads' = [loads EXCEPT ![c] = Tail(loads[c])]
    BY <1>2 DEF LoadFails, Types, WindowTypes
  <2>2. PICK new \in {view[c], ReadView(c)} : view' = [view EXCEPT ![c] = new]
    BY <1>2 DEF LoadFails
  <2>3. new \in Contents \cup {NoView}
    BY ReadContents DEF Types, WindowTypes
  <2>4. first \in ScreenNames /\ Tail(loads[c]) \in Seq(ScreenNames)
    BY <2>1, FirstLoad
  <2>5. after \in Contents
    BY <2>4, BlankContents DEF Types, WindowTypes
  <2>6. report \in Reports
    BY <2>4 DEF Types, WindowTypes, Reports
  <2>7. last' = [last EXCEPT ![c] = report]
    BY <1>2 DEF LoadFails, Types, WindowTypes
  <2> HIDE DEF first, after, report
  <2>8. WindowTypes'
    BY <2>1, <2>2, <2>3, <2>4, <2>5, <2>6, <2>7 DEF Types, WindowTypes
  <2>9. failures' \in 0..MaxFailures
    BY <2>1, ScreensAssumption DEF Types, ScreensAssumption
  <2>10. StoreInv' /\ (nextProduct \in 1..MaxProduct + 1)' /\ (version \in 0..MaxCommits)'
    BY <2>1 DEF store, Types, StoreInv, StoreTypes, ItemsExist, DB!Ordered
  <2>11. QED
    BY <2>8, <2>9, <2>10 DEF Types
<1>3. CASE Pick(c)
  <2>1. PICK label : picked' = [picked EXCEPT ![c] = label]
    BY <1>3 DEF Pick
  <2>2. UNCHANGED <<store, view, shown, loads, last, failures>>
    BY <1>3 DEF Pick
  <2>3. WindowTypes'
    BY <2>1, <2>2 DEF Types, WindowTypes
  <2>4. QED
    BY <1>0, <2>2, <2>3 DEF Types
<1>4. CASE Refused(c)
  <2>1. PICK after \in {NoView, ReadView(c)} : view' = [view EXCEPT ![c] = after]
    BY <1>4 DEF Refused
  <2>2. /\ last' = [last EXCEPT ![c] = NoReport]
        /\ UNCHANGED <<store, shown, picked, loads, failures>>
    BY <1>4 DEF Refused
  <2>3. after \in Contents \cup {NoView}
    BY ReadContents
  <2>4. WindowTypes'
    BY <2>1, <2>2, <2>3, NoReportType DEF Types, WindowTypes
  <2>5. QED
    BY <1>0, <2>2, <2>4 DEF Types
<1>5. CASE Disconnect(c)
  <2>1. /\ view' = [view EXCEPT ![c] = NoView]
        /\ last' = [last EXCEPT ![c].cut = last[c].cut \/ loads[c] # <<>>]
        /\ UNCHANGED <<store, shown, picked, loads, failures>>
    BY <1>5 DEF Disconnect, Types, WindowTypes
  <2>2. last[c] \in Reports
    BY DEF Types, WindowTypes
  <2>3. (last[c].cut \/ loads[c] # <<>>) \in BOOLEAN
    OBVIOUS
  <2>4. [last[c] EXCEPT !.cut = last[c].cut \/ loads[c] # <<>>] \in Reports
    BY <2>2, <2>3 DEF Reports
  <2>5. last' = [last EXCEPT ![c] = [last[c] EXCEPT !.cut = last[c].cut \/ loads[c] # <<>>]]
    BY <2>1 DEF Types, WindowTypes
  <2>6. last' \in [Clients -> Reports]
    BY <2>4, <2>5 DEF Types, WindowTypes
  <2>7. WindowTypes'
    BY <2>1, <2>6 DEF Types, WindowTypes
  <2>8. QED
    BY <1>0, <2>1, <2>7 DEF Types
<1>6. CASE \E s \in Buttons : Refresh(c, s)
  <2>1. PICK s \in ScreenNames : Refresh(c, s)
    BY <1>6, ScreensAssumption DEF ScreensAssumption
  <2>2. /\ loads' = [loads EXCEPT ![c] = <<s>>]
        /\ UNCHANGED <<store, view, shown, picked, failures>>
        /\ last' = [last EXCEPT ![c] = [own |-> 0, failed |-> {}, cut |-> FALSE,
                                        loads |-> {<<s>>[i] : i \in DOMAIN <<s>>}]]
    BY <2>1 DEF Refresh, Report
  <2>3. <<s>> \in Seq(ScreenNames) /\ {<<s>>[i] : i \in DOMAIN <<s>>} \subseteq ScreenNames
    OBVIOUS
  <2>4. 0 \in 0..MaxCommits
    BY ScreensAssumption DEF ScreensAssumption
  <2>5. [own |-> 0, failed |-> {}, cut |-> FALSE,
         loads |-> {<<s>>[i] : i \in DOMAIN <<s>>}] \in Reports
    BY <2>3, <2>4 DEF Reports
  <2>6. WindowTypes'
    BY <2>2, <2>3, <2>5 DEF Types, WindowTypes
  <2>7. QED
    BY <1>0, <2>2, <2>6 DEF Types
<1>7. CASE HandlerCall(c)
  <2>1. Succeeds(c)
    BY <1>7, HandlerSucceeds
  <2>2. PICK screens \in Seq(ScreenNames) : Succeed(c, screens)
    BY <2>1 DEF Succeeds
  <2>3. /\ version < MaxCommits /\ version' = version + 1
        /\ view' = [view EXCEPT ![c] = NoView] /\ shown' = shown /\ failures' = failures
        /\ loads' = [loads EXCEPT ![c] = screens]
        /\ last' = [last EXCEPT ![c] = [own |-> version', failed |-> {}, cut |-> FALSE,
                                        loads |-> {screens[i] : i \in DOMAIN screens}]]
    BY <2>2 DEF Succeed, Report
  <2>4. version' \in 0..MaxCommits
    BY <2>3, ScreensAssumption DEF Types, ScreensAssumption
  <2>5. {screens[i] : i \in DOMAIN screens} \subseteq ScreenNames
    OBVIOUS
  <2>6. [own |-> version', failed |-> {}, cut |-> FALSE,
         loads |-> {screens[i] : i \in DOMAIN screens}] \in Reports
    BY <2>4, <2>5 DEF Reports
  <2>7. picked' = [d \in Clients |-> picked'[d]]
    BY <2>1 DEF Succeeds, Types, WindowTypes
  <2>8. WindowTypes'
    BY <2>3, <2>6, <2>7 DEF Types, WindowTypes
  <2>9. QED
    BY <2>1, <2>3, <2>4, <2>8 DEF Types, Succeeds
<1>8. QED
  BY <1>1, <1>2, <1>3, <1>4, <1>5, <1>6, <1>7 DEF Action

-----------------------------------------------------------------------------
(* The screens the running handler has not loaded yet, those it is done    *)
(* with, and those of them whose reload succeeded.                         *)
Pending(c) == {loads[c][i] : i \in DOMAIN loads[c]}

Done(c) == last[c].loads \ Pending(c)

Loaded(c) == Done(c) \ last[c].failed

(* What a handler has loaded so far agrees, and as long as it has not done *)
(* all, it is what the open read view shows.                               *)
LoadedAgree(c) ==
    ~last[c].cut =>
        /\ \A s, t \in Loaded(c) : shown[c][s] = shown[c][t]
        /\ loads[c] # <<>> => \A s \in Loaded(c) : view[c] = shown[c][s]

(* Screen s shows what the handler has committed itself, or its reload has *)
(* failed: an empty list, or the labels of before.                         *)
ShowsOwn(c, s) ==
    \/ shown[c][s].version >= last[c].own
    \/ s \in last[c].failed /\ (s = "form" \/ shown[c][s] = Blank)

(* So do all it is done with, and the view it goes on with is no older.    *)
OwnWorkSeen(c) ==
    /\ last[c].own <= version
    /\ \A s \in Done(c) : ShowsOwn(c, s)
    /\ loads[c] # <<>> /\ view[c] # NoView => view[c].version >= last[c].own

(* No screen shows anything newer than the open view, nor the view anything*)
(* newer than the tables.                                                  *)
ViewNewest(c) ==
    \A s \in ScreenNames :
        /\ shown[c][s].version <= version
        /\ view[c] # NoView => /\ shown[c][s].version <= view[c].version
                               /\ view[c].version <= version

WindowOf(c) == LoadedAgree(c) /\ OwnWorkSeen(c) /\ ViewNewest(c)

WindowInv == \A c \in Clients : WindowOf(c)

(* The versions are numbers, the read view's is the newest shown.          *)
LEMMA Versions ==
    ASSUME Types, NEW c \in Clients, WindowOf(c)
    PROVE  /\ version \in Int /\ last[c].own \in Int /\ ReadView(c).version \in Int
           /\ \A s \in ScreenNames : shown[c][s].version \in Int
                                     /\ shown[c][s].version <= ReadView(c).version
           /\ view[c] # NoView => view[c].version \in Int
           /\ ReadView(c).version <= version
           /\ loads[c] # <<>> => last[c].own <= ReadView(c).version
<1>1. /\ version \in Int /\ last[c].own \in Int
      /\ \A s \in ScreenNames : shown[c][s].version \in Int
      /\ view[c] # NoView => view[c].version \in Int
  BY DEF Types, WindowTypes, Reports, Contents
<1>2. ReadView(c).version \in Int
  BY ReadContents DEF Contents
<1>3. CASE view[c] = NoView
  <2>1. ReadView(c).version = version
    BY <1>3, ReadContents
  <2>2. QED
    BY <1>1, <1>2, <2>1 DEF WindowOf, OwnWorkSeen, ViewNewest
<1>4. CASE view[c] # NoView
  <2>1. ReadView(c) = view[c]
    BY <1>4, ReadContents
  <2>2. "form" \in ScreenNames
    BY DEF ScreenNames
  <2>3. QED
    BY <1>1, <1>2, <1>4, <2>1, <2>2 DEF WindowOf, OwnWorkSeen, ViewNewest
<1>5. QED
  BY <1>3, <1>4

-----------------------------------------------------------------------------
(* A window nothing happens to, while the store goes on.                   *)
LEMMA QuietWindow ==
    ASSUME Types, Types', NEW d \in Clients, version' >= version, WindowOf(d),
           view'[d] = view[d], shown'[d] = shown[d], loads'[d] = loads[d],
           last'[d] = last[d]
    PROVE  WindowOf(d)'
<1>1. Loaded(d)' = Loaded(d) /\ Done(d)' = Done(d)
  BY DEF Loaded, Done, Pending
<1>2. LoadedAgree(d)'
  BY <1>1 DEF WindowOf, LoadedAgree
<1>3. version \in Int /\ version' \in Int
  BY DEF Types
<1>4. OwnWorkSeen(d)'
  <2>1. last[d].own <= version'
    BY <1>3, Versions DEF WindowOf, OwnWorkSeen
  <2>2. QED
    BY <1>1, <2>1 DEF WindowOf, OwnWorkSeen, ShowsOwn
<1>5. ViewNewest(d)'
  BY <1>3, Versions DEF WindowOf, ViewNewest
<1>6. QED
  BY <1>2, <1>4, <1>5 DEF WindowOf

(* A reload, whether or not it fails: what is done, and the view after it. *)
LEMMA NextLoad ==
    ASSUME Types, NEW c \in Clients, loads[c] # <<>>, loads'[c] = Tail(loads[c]),
           last'[c].loads = last[c].loads
    PROVE  /\ Head(loads[c]) \in ScreenNames
           /\ Done(c)' \subseteq Done(c) \cup {Head(loads[c])}
           /\ Done(c) \subseteq ScreenNames
<1>1. loads[c] \in Seq(ScreenNames) /\ last[c] \in Reports
  BY DEF Types, WindowTypes
<1>2. Pending(c) = {Head(loads[c])} \cup Pending(c)' /\ Head(loads[c]) \in ScreenNames
  BY <1>1, FirstLoad DEF Pending
<1>3. QED
  BY <1>1, <1>2 DEF Done, Reports

(* What is loaded and not to be loaded again is what the view shows.       *)
LEMMA LoadedIsView ==
    ASSUME Types, NEW c \in Clients, WindowOf(c), loads[c] # <<>>, ~last[c].cut,
           NEW s \in Loaded(c)
    PROVE  view[c] # NoView /\ view[c] = shown[c][s] /\ ReadView(c) = view[c]
<1>1. view[c] = shown[c][s]
  BY DEF WindowOf, LoadedAgree
<1>2. s \in ScreenNames
  BY DEF Loaded, Done, Types, WindowTypes, Reports
<1>3. view[c] # NoView
  BY <1>1, <1>2, MarksAssumption DEF Types, WindowTypes, MarksAssumption
<1>4. QED
  BY <1>1, <1>3, ReadContents

(* A reload: the next screen shows the view, and so do those before.       *)
LEMMA LoadWindow ==
    ASSUME Types, NEW c \in Clients, WindowOf(c), Load(c)
    PROVE  WindowOf(c)'
<1> DEFINE first == Head(loads[c])
<1>1. /\ loads[c] # <<>> /\ view'[c] = ReadView(c) /\ loads'[c] = Tail(loads[c])
      /\ last' = last /\ version' = version
      /\ shown' = [shown EXCEPT ![c][Head(loads[c])] = ReadView(c)]
  BY DEF Load, Types, WindowTypes, store
<1>2. /\ first \in ScreenNames /\ Done(c)' \subseteq Done(c) \cup {first}
      /\ Done(c) \subseteq ScreenNames
  BY <1>1, NextLoad
<1>3. /\ shown'[c][first] = ReadView(c)
      /\ \A s \in ScreenNames : s # first => shown'[c][s] = shown[c][s]
  BY <1>1, <1>2 DEF Types, WindowTypes
<1> HIDE DEF first
<1>4. LoadedAgree(c)'
  <2>1. ASSUME ~last[c].cut, NEW s \in Loaded(c)' PROVE shown'[c][s] = ReadView(c)
    <3>1. CASE s = first
      BY <1>3, <3>1
    <3>2. CASE s # first
      <4>1. s \in Loaded(c) /\ s \in ScreenNames
        BY <1>1, <1>2, <3>2 DEF Loaded
      <4>2. ReadView(c) = shown[c][s]
        BY <1>1, <2>1, <4>1, LoadedIsView
      <4>3. QED
        BY <1>3, <3>2, <4>1, <4>2
    <3>3. QED
      BY <3>1, <3>2
  <2>2. QED
    BY <1>1, <2>1 DEF LoadedAgree
<1>5. OwnWorkSeen(c)'
  <2>1. last[c].own <= version /\ last[c].own <= ReadView(c).version
        /\ last[c].own \in Int /\ ReadView(c).version \in Int
    BY <1>1, Versions DEF WindowOf, OwnWorkSeen
  <2>2. ASSUME NEW s \in Done(c)' PROVE ShowsOwn(c, s)'
    <3>1. CASE s = first
      BY <1>1, <1>3, <2>1, <3>1 DEF ShowsOwn
    <3>2. CASE s # first
      <4>1. s \in Done(c) /\ s \in ScreenNames
        BY <1>2, <3>2
      <4>2. shown'[c][s] = shown[c][s]
        BY <1>3, <3>2, <4>1
      <4>3. ShowsOwn(c, s)
        BY <4>1 DEF WindowOf, OwnWorkSeen
      <4>4. QED
        BY <1>1, <4>2, <4>3 DEF ShowsOwn
    <3>3. QED
      BY <3>1, <3>2
  <2>3. QED
    BY <1>1, <2>1, <2>2 DEF OwnWorkSeen
<1>6. ViewNewest(c)'
  <2>1. ASSUME NEW s \in ScreenNames
        PROVE  shown'[c][s].version <= ReadView(c).version
               /\ shown'[c][s].version <= version /\ ReadView(c).version <= version
    <3>1. shown'[c][s] = ReadView(c) \/ shown'[c][s] = shown[c][s]
      BY <1>3
    <3>2. QED
      BY <3>1, Versions
  <2>2. QED
    BY <1>1, <2>1 DEF ViewNewest
<1>7. QED
  BY <1>4, <1>5, <1>6 DEF WindowOf

(* A reload that fails: an empty list, or the labels of before; the view is*)
(* as good as it was.                                                      *)
LEMMA LoadFailsWindow ==
    ASSUME Types, NEW c \in Clients, WindowOf(c), LoadFails(c)
    PROVE  WindowOf(c)'
<1> DEFINE first == Head(loads[c])
           after == IF first = "form" THEN shown[c][first] ELSE Blank
<1>1. /\ loads[c] # <<>> /\ loads'[c] = Tail(loads[c]) /\ version' = version
      /\ last'[c] = [last[c] EXCEPT !.failed = last[c].failed \cup {first}]
      /\ shown' = [shown EXCEPT ![c][first] = after]
  BY DEF LoadFails, Types, WindowTypes, store
<1>2. /\ last'[c].own = last[c].own /\ last'[c].loads = last[c].loads
      /\ last'[c].cut = last[c].cut /\ last'[c].failed = last[c].failed \cup {first}
  BY <1>1 DEF Types, WindowTypes, Reports
<1>3. PICK new \in {view[c], ReadView(c)} : view'[c] = new
  BY DEF LoadFails, Types, WindowTypes
<1>4. /\ first \in ScreenNames /\ Done(c)' \subseteq Done(c) \cup {first}
      /\ Done(c) \subseteq ScreenNames
  BY <1>1, <1>2, NextLoad
<1>5. /\ shown'[c][first] = after
      /\ \A s \in ScreenNames : s # first => shown'[c][s] = shown[c][s]
  BY <1>1, <1>4 DEF Types, WindowTypes
<1>6. new = NoView \/ new = ReadView(c)
  BY <1>3, ReadContents
<1>7. after = shown[c][first] \/ after = Blank
  OBVIOUS
<1>8. first = "form" \/ after = Blank
  OBVIOUS
<1> HIDE DEF first, after
<1>9. LoadedAgree(c)'
  <2>1. ASSUME ~last[c].cut, NEW s \in Loaded(c)'
        PROVE  view'[c] = shown'[c][s]
    <3>1. s \in Loaded(c) /\ s # first /\ s \in ScreenNames
      BY <1>2, <1>4 DEF Loaded
    <3>2. view[c] = shown[c][s] /\ new = view[c]
      BY <1>1, <1>3, <2>1, <3>1, LoadedIsView
    <3>3. QED
      BY <1>3, <1>5, <3>1, <3>2
  <2>2. QED
    BY <1>2, <2>1 DEF LoadedAgree
<1>10. OwnWorkSeen(c)'
  <2>1. last[c].own <= version /\ last[c].own <= ReadView(c).version
    BY <1>1, Versions DEF WindowOf, OwnWorkSeen
  <2>2. ASSUME NEW s \in Done(c)' PROVE ShowsOwn(c, s)'
    <3>1. CASE s = first
      BY <1>2, <1>5, <1>8, <3>1 DEF ShowsOwn
    <3>2. CASE s # first
      <4>1. s \in Done(c) /\ s \in ScreenNames
        BY <1>4, <3>2
      <4>2. shown'[c][s] = shown[c][s]
        BY <1>5, <3>2, <4>1
      <4>3. ShowsOwn(c, s)
        BY <4>1 DEF WindowOf, OwnWorkSeen
      <4>4. QED
        BY <1>2, <4>2, <4>3 DEF ShowsOwn
    <3>3. QED
      BY <3>1, <3>2
  <2>3. view'[c] # NoView => view'[c].version >= last[c].own
    <3>1. ReadView(c).version \in Int /\ last[c].own \in Int
      BY Versions
    <3>2. QED
      BY <1>3, <1>6, <2>1, <3>1
  <2>4. QED
    BY <1>1, <1>2, <2>1, <2>2, <2>3 DEF OwnWorkSeen
<1>11. ViewNewest(c)'
  <2>1. ASSUME NEW s \in ScreenNames
        PROVE  /\ shown'[c][s].version <= ReadView(c).version
               /\ shown'[c][s].version <= version /\ ReadView(c).version <= version
    <3>1. shown'[c][s] = shown[c][s] \/ shown'[c][s] = Blank
      BY <1>5, <1>7
    <3>2. /\ 0 <= ReadView(c).version /\ 0 <= version
      BY ReadContents DEF Types, Contents
    <3>3. QED
      BY <3>1, <3>2, Versions, BlankContents
  <2>2. QED
    BY <1>1, <1>3, <1>6, <2>1 DEF ViewNewest
<1>12. QED
  BY <1>9, <1>10, <1>11 DEF WindowOf

(* A selection touches no screen.                                          *)
LEMMA PickWindow ==
    ASSUME Types, NEW c \in Clients, WindowOf(c), Pick(c)
    PROVE  WindowOf(c)'
<1>1. UNCHANGED <<store, view, shown, loads, last>>
  BY DEF Pick
<1>2. QED
  BY <1>1 DEF store, WindowOf, LoadedAgree, OwnWorkSeen, ShowsOwn, ViewNewest, Loaded,
              Done, Pending

(* A handler that raised has nothing to reload.                            *)
LEMMA RefusedWindow ==
    ASSUME Types, NEW c \in Clients, WindowOf(c), Refused(c)
    PROVE  WindowOf(c)'
<1>1. /\ last'[c] = NoReport /\ UNCHANGED <<shown, loads>> /\ loads[c] = <<>>
      /\ version' = version
  BY DEF Refused, Types, WindowTypes, store
<1>2. Done(c)' = {} /\ Loaded(c)' = {}
  BY <1>1, NoReportType DEF Loaded, Done
<1>3. LoadedAgree(c)'
  BY <1>1, <1>2 DEF LoadedAgree
<1>4. OwnWorkSeen(c)'
  <2>1. version \in Nat
    BY ScreensAssumption DEF Types, ScreensAssumption
  <2>2. QED
    BY <1>1, <1>2, <2>1, NoReportType DEF OwnWorkSeen
<1>5. ViewNewest(c)'
  <2>1. view'[c] = NoView \/ view'[c] = ReadView(c)
    BY DEF Refused, Types, WindowTypes
  <2>2. QED
    BY <1>1, <2>1, Versions DEF ViewNewest
<1>6. QED
  BY <1>3, <1>4, <1>5 DEF WindowOf

(* A lost connection takes the view away.                                  *)
LEMMA DisconnectWindow ==
    ASSUME Types, NEW c \in Clients, WindowOf(c), Disconnect(c)
    PROVE  WindowOf(c)'
<1>1. /\ view'[c] = NoView /\ UNCHANGED <<store, shown, loads>>
      /\ last'[c] = [last[c] EXCEPT !.cut = last[c].cut \/ loads[c] # <<>>]
  BY DEF Disconnect, Types, WindowTypes
<1>2. last[c] \in Reports
  BY DEF Types, WindowTypes
<1>3. /\ last'[c].loads = last[c].loads /\ last'[c].failed = last[c].failed
      /\ last'[c].own = last[c].own
      /\ last'[c].cut = (last[c].cut \/ loads[c] # <<>>)
  BY <1>1, <1>2 DEF Reports
<1>4. Done(c)' = Done(c) /\ Loaded(c)' = Loaded(c)
  BY <1>1, <1>3 DEF Loaded, Done, Pending
<1>5. LoadedAgree(c)'
  BY <1>1, <1>3, <1>4 DEF WindowOf, LoadedAgree
<1>6. OwnWorkSeen(c)'
  BY <1>1, <1>3, <1>4 DEF WindowOf, OwnWorkSeen, ShowsOwn, store
<1>7. ViewNewest(c)'
  BY <1>1 DEF WindowOf, ViewNewest, store
<1>8. QED
  BY <1>5, <1>6, <1>7 DEF WindowOf

(* A Refresh button: one screen, in whatever view is open.                 *)
LEMMA RefreshWindow ==
    ASSUME Types, NEW c \in Clients, WindowOf(c), NEW s \in Buttons, Refresh(c, s)
    PROVE  WindowOf(c)'
<1>1. /\ loads'[c] = <<s>> /\ UNCHANGED <<store, view, shown>>
      /\ last'[c].own = 0 /\ last'[c].loads = {<<s>>[i] : i \in DOMAIN <<s>>}
  BY DEF Refresh, Report, Types, WindowTypes
<1>2. Done(c)' = {} /\ Loaded(c)' = {}
  BY <1>1 DEF Loaded, Done, Pending
<1>3. LoadedAgree(c)'
  BY <1>1, <1>2 DEF LoadedAgree
<1>4. OwnWorkSeen(c)'
  <2>1. version \in Nat /\ (view[c] # NoView => view[c].version \in Nat)
    BY ScreensAssumption DEF Types, WindowTypes, Contents, ScreensAssumption
  <2>2. QED
    BY <1>1, <1>2, <2>1 DEF OwnWorkSeen, store
<1>5. ViewNewest(c)'
  BY <1>1 DEF WindowOf, ViewNewest, store
<1>6. QED
  BY <1>3, <1>4, <1>5 DEF WindowOf

(* A handler that succeeded: nothing is loaded yet, and no view is open.   *)
LEMMA SuccessWindow ==
    ASSUME Types, NEW c \in Clients, WindowOf(c), Succeeds(c)
    PROVE  WindowOf(c)'
<1>1. PICK screens \in Seq(ScreenNames) : Succeed(c, screens)
  BY DEF Succeeds
<1>2. /\ view'[c] = NoView /\ loads'[c] = screens /\ shown' = shown
      /\ last'[c].own = version' /\ last'[c].loads = {screens[i] : i \in DOMAIN screens}
      /\ version' = version + 1
  BY <1>1 DEF Succeed, Report, Types, WindowTypes
<1>3. Done(c)' = {} /\ Loaded(c)' = {}
  BY <1>2 DEF Loaded, Done, Pending
<1>4. LoadedAgree(c)'
  BY <1>3 DEF LoadedAgree
<1>5. version \in Int
  BY DEF Types
<1>6. OwnWorkSeen(c)'
  BY <1>2, <1>3, <1>5 DEF OwnWorkSeen
<1>7. ViewNewest(c)'
  <2>1. ASSUME NEW s \in ScreenNames PROVE shown[c][s].version <= version + 1
    BY <1>5, Versions DEF WindowOf, ViewNewest
  <2>2. QED
    BY <1>2, <2>1 DEF ViewNewest
<1>8. QED
  BY <1>4, <1>6, <1>7 DEF WindowOf

-----------------------------------------------------------------------------
Inv == Types /\ WindowInv

(* The invariant is kept.                                                  *)
LEMMA StepInv == Inv /\ [Next]_vars => Inv'
<1> SUFFICES ASSUME Types, WindowInv, [Next]_vars PROVE Types' /\ WindowInv'
  BY DEF Inv
<1>1. CASE UNCHANGED vars
  <2>1. Types'
    BY <1>1 DEF vars, store, Types, StoreInv, StoreTypes, ItemsExist, WindowTypes,
                DB!Ordered
  <2>2. WindowInv'
    BY <1>1 DEF vars, store, WindowInv, WindowOf, LoadedAgree, OwnWorkSeen, ShowsOwn,
                ViewNewest, Loaded, Done, Pending
  <2>3. QED
    BY <2>1, <2>2
<1>2. CASE Next
  <2>1. PICK c \in Clients : Action(c)
    BY <1>2 DEF Next, Action, HandlerCall
  <2>2. Types' /\ OthersKept(c)
    BY <2>1, ActionTypes, ActionOthers
  <2>3. version' >= version
    <3>1. version' = version \/ version' = version + 1
      <4>1. CASE HandlerCall(c)
        BY <4>1, HandlerSucceeds DEF Succeeds, Succeed
      <4>2. CASE Action(c) /\ ~HandlerCall(c)
        BY <4>2 DEF Action, Load, LoadFails, Pick, Refused, Disconnect, Refresh, store
      <4>3. QED
        BY <2>1, <4>1, <4>2
    <3>2. version \in Int
      BY DEF Types
    <3>3. QED
      BY <3>1, <3>2
  <2>4. WindowOf(c)'
    <3>1. WindowOf(c)
      BY DEF WindowInv
    <3>2. CASE Load(c)
      BY <3>1, <3>2, LoadWindow
    <3>3. CASE LoadFails(c)
      BY <3>1, <3>3, LoadFailsWindow
    <3>4. CASE Pick(c)
      BY <3>1, <3>4, PickWindow
    <3>5. CASE Refused(c)
      BY <3>1, <3>5, RefusedWindow
    <3>6. CASE Disconnect(c)
      BY <3>1, <3>6, DisconnectWindow
    <3>7. CASE \E s \in Buttons : Refresh(c, s)
      BY <3>1, <3>7, RefreshWindow
    <3>8. CASE HandlerCall(c)
      BY <3>1, <3>8, HandlerSucceeds, SuccessWindow
    <3>9. QED
      BY <2>1, <3>2, <3>3, <3>4, <3>5, <3>6, <3>7, <3>8 DEF Action
  <2>5. ASSUME NEW d \in Clients, d # c
        PROVE  WindowOf(d)'
    <3>1. WindowOf(d)
      BY DEF WindowInv
    <3>2. /\ view'[d] = view[d] /\ shown'[d] = shown[d]
          /\ loads'[d] = loads[d] /\ last'[d] = last[d]
      BY <2>2, <2>5 DEF OthersKept
    <3>3. QED
      BY <2>2, <2>3, <3>1, <3>2, QuietWindow
  <2>6. QED
    BY <2>2, <2>4, <2>5 DEF WindowInv
<1>3. QED
  BY <1>1, <1>2

(* It holds at the start.                                                  *)
LEMMA InitInv == Init => Inv
<1> SUFFICES ASSUME Init PROVE Inv
  OBVIOUS
<1>1. stock = InitialStock /\ orders = [o \in OrderIds |-> Absent] /\ unused = OrderIds
  BY DEF Init, DB!Init
<1>2. StoreInv
  BY <1>1, ScreensAssumption DEF StoreInv, StoreTypes, ItemsExist, ScreensAssumption
<1>3. nextProduct \in 1..MaxProduct + 1
  <2> DEFINE S == {0} \cup {p \in Products : InitialStock[p] # Absent}
  <2>1. MaxProduct \in Nat
    BY ScreensAssumption DEF ScreensAssumption
  <2>2. S \in SUBSET (0..MaxProduct) /\ S # {}
    BY <2>1 DEF Products
  <2>3. nextProduct = 1 + Max(S)
    BY DEF Init
  <2> HIDE DEF S
  <2>4. Max(S) \in S
    BY <2>2, LargestProduct
  <2>5. Max(S) \in 0..MaxProduct
    BY <2>2, <2>4
  <2>6. QED
    BY <2>1, <2>3, <2>5
<1>4. version = 0 /\ 0 \in 0..MaxCommits /\ failures \in 0..MaxFailures
  BY ScreensAssumption DEF Init, ScreensAssumption
<1>5. WindowTypes
  <2>1. <<"form", "products">> \in Seq(ScreenNames)
    BY DEF ScreenNames
  <2>2. QED
    BY <2>1, BlankContents, NoReportType DEF Init, WindowTypes
<1>6. ASSUME NEW c \in Clients
      PROVE  WindowOf(c)
  <2>1. /\ last[c] = NoReport /\ view[c] = NoView
        /\ \A s \in ScreenNames : shown[c][s] = Blank
    BY DEF Init
  <2>2. Done(c) = {} /\ Loaded(c) = {} /\ last[c].own = 0
    BY <2>1, NoReportType DEF Loaded, Done
  <2>3. LoadedAgree(c)
    BY <2>1, <2>2 DEF LoadedAgree
  <2>4. OwnWorkSeen(c)
    BY <1>4, <2>1, <2>2 DEF OwnWorkSeen
  <2>5. ViewNewest(c)
    BY <1>4, <2>1, BlankContents DEF ViewNewest
  <2>6. QED
    BY <2>3, <2>4, <2>5 DEF WindowOf
<1>7. QED
  BY <1>2, <1>3, <1>4, <1>5, <1>6 DEF Inv, Types, WindowInv

-----------------------------------------------------------------------------
(* No stock is negative and every screen shows a state of the tables, for  *)
(* any number of applications, products and commits.                       *)
THEOREM WindowTypesHold == Spec => []TypeOK
<1>1. Inv => TypeOK
  BY DEF Inv, Types, StoreInv, StoreTypes, WindowTypes, TypeOK, Tables, Contents, OrderRow
<1>2. QED
  BY <1>1, InitInv, StepInv, PTL DEF Spec

(* The screens a handler has loaded again show one state of the database   *)
(* (window.py 387-389), whatever other applications commit in between and  *)
(* whichever of the reloads fail.                                          *)
THEOREM ReloadsAgree == Spec => []ScreensAgree
<1>1. Inv => ScreensAgree
  <2> SUFFICES ASSUME Inv, NEW c \in Clients, loads[c] = <<>>, ~last[c].cut,
                      NEW s \in last[c].loads \ last[c].failed,
                      NEW t \in last[c].loads \ last[c].failed
               PROVE  shown[c][s] = shown[c][t]
    BY DEF ScreensAgree
  <2>1. Pending(c) = {}
    BY DEF Pending
  <2>2. QED
    BY <2>1 DEF Inv, WindowInv, WindowOf, LoadedAgree, Loaded, Done
<1>2. QED
  BY <1>1, InitInv, StepInv, PTL DEF Spec

(* After "Success" a list shows what the handler did itself, or nothing if *)
(* its reload failed, never what was there before; the form shows it unless*)
(* its reload failed; whatever old read view was open.                     *)
THEOREM ReloadsShowOwnWork == Spec => []OwnWorkShown
<1>1. Inv => OwnWorkShown
  <2> SUFFICES ASSUME Inv, NEW c \in Clients, loads[c] = <<>>, NEW s \in last[c].loads
               PROVE  ShowsOwn(c, s)
    BY DEF OwnWorkShown, ShowsOwn
  <2>1. Pending(c) = {}
    BY DEF Pending
  <2>2. QED
    BY <2>1 DEF Inv, WindowInv, WindowOf, OwnWorkSeen, Done
<1>2. QED
  BY <1>1, InitInv, StepInv, PTL DEF Spec

(* No reload takes a window back behind what any of its screens shows,     *)
(* whatever views are open, lost or closed before it.                      *)
THEOREM ReloadsNeverGoBack == Spec => NeverShowsOlder
<1> DEFINE Forward == \A c \in Clients :
              loads[c] # <<>> /\ loads'[c] = Tail(loads[c])
                  /\ Head(loads[c]) \notin last'[c].failed =>
                 \A s \in ScreenNames :
                    shown'[c][Head(loads[c])].version >= shown[c][s].version
<1>1. Inv /\ Next => Forward
  <2> SUFFICES ASSUME Inv, Next, NEW c \in Clients, loads[c] # <<>>,
                      loads'[c] = Tail(loads[c]), Head(loads[c]) \notin last'[c].failed,
                      NEW s \in ScreenNames
               PROVE  shown'[c][Head(loads[c])].version >= shown[c][s].version
    OBVIOUS
  <2>1. Types /\ WindowOf(c)
    BY DEF Inv, WindowInv
  <2>2. loads[c] \in Seq(ScreenNames)
    BY <2>1 DEF Types, WindowTypes
  <2>3. Tail(loads[c]) # loads[c]
    <3>1. Len(loads[c]) \in Nat /\ Len(loads[c]) >= 1
      BY <2>2
    <3>2. Len(Tail(loads[c])) = Len(loads[c]) - 1
      BY <2>2
    <3>3. Len(Tail(loads[c])) # Len(loads[c])
      BY <3>1, <3>2
    <3>4. QED
      BY <3>3, Zenon
  <2>4. PICK d \in Clients : Action(d)
    BY DEF Next, Action, HandlerCall
  <2>5. d = c
    BY <2>1, <2>3, <2>4, ActionOthers DEF OthersKept
  <2>6. Load(c)
    <3>1. ~LoadFails(c)
      BY <2>1 DEF LoadFails, Types, WindowTypes, Reports
    <3>2. ~(Pick(c) \/ Refused(c) \/ Disconnect(c) \/ \E b \in Buttons : Refresh(c, b))
      BY <2>3 DEF Pick, Refused, Disconnect, Refresh
    <3>3. ~HandlerCall(c)
      BY DEF HandlerCall, CreateOrder, CreateProduct, AddProductStock, DeleteProduct,
             UpdateOrderStatus, DeleteOrder, Handler
    <3>4. QED
      BY <2>4, <2>5, <3>1, <3>2, <3>3 DEF Action
  <2>7. shown'[c][Head(loads[c])] = ReadView(c)
    BY <2>1, <2>2, <2>6, FirstLoad DEF Load, Types, WindowTypes
  <2>8. QED
    BY <2>1, <2>7, Versions
<1>2. Inv /\ [Next]_vars => [Forward]_vars
  BY <1>1
<1>3. [][Forward]_vars => NeverShowsOlder
  BY DEF NeverShowsOlder
<1> HIDE DEF Forward
<1>4. QED
  BY <1>2, <1>3, InitInv, StepInv, PTL DEF Spec
=============================================================================
