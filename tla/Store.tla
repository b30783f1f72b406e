-------------------------------- MODULE Store --------------------------------
(***************************************************************************)
(* What the shop's methods promise, each as one atomic step on the tables: *)
(* an order takes its items from stock when it is placed, cancelling it or *)
(* deleting it gives them back once, and a cancelled order stays cancelled.*)
(***************************************************************************)
EXTENDS Integers, Sequences, FiniteSets

CONSTANTS Products, LineLists, InitialStock, NewStock, OrderIds, MaxInt, MaxQty,
          Absent

VARIABLES
    stock,      \* [Products -> Nat or Absent]: products.stock_quantity
    orders,     \* [OrderIds -> [status, lines] or Absent]
    unused      \* ids no order has had yet

store == <<stock, orders, unused>>

(* The units of p in an item list, each told apart by its item.            *)
Units(lines, p) ==
    UNION {{i} \X (1..lines[i].qty) : i \in {j \in DOMAIN lines : lines[j].product = p}}

Demand(lines, p) == Cardinality(Units(lines, p))

Ordered(lines) == {lines[i].product : i \in DOMAIN lines}

Exists(p) == stock[p] # Absent

Init ==
    /\ stock = InitialStock
    /\ orders = [o \in OrderIds |-> Absent]
    /\ unused = OrderIds

PlaceOrder(o, lines) ==
    /\ o \in unused
    /\ \A i \in DOMAIN lines : lines[i].qty > 0
    /\ \A p \in Ordered(lines) : Exists(p) /\ Demand(lines, p) <= stock[p]
    /\ orders' = [orders EXCEPT ![o] = [status |-> "PENDING", lines |-> lines]]
    /\ stock' = [p \in Products |-> IF p \in Ordered(lines)
                                      THEN stock[p] - Demand(lines, p) ELSE stock[p]]
    /\ unused' = unused \ {o}

Outstanding(o) == orders[o] # Absent /\ orders[o].status # "CANCELLED"

(* The items of o go back to stock, if the column can hold the sum.        *)
GiveBack(o) ==
    LET lines == orders[o].lines IN
    /\ \A p \in Ordered(lines) : stock[p] + Demand(lines, p) <= MaxInt
    /\ stock' = [p \in Products |-> IF p \in Ordered(lines)
                                      THEN stock[p] + Demand(lines, p) ELSE stock[p]]

SetStatus(o, status) ==
    /\ Outstanding(o)
    /\ status # "CANCELLED"
    /\ orders' = [orders EXCEPT ![o].status = status]
    /\ UNCHANGED <<stock, unused>>

CancelOrder(o) ==
    /\ Outstanding(o)
    /\ GiveBack(o)
    /\ orders' = [orders EXCEPT ![o].status = "CANCELLED"]
    /\ UNCHANGED unused

DeleteOrder(o) ==
    /\ orders[o] # Absent
    /\ IF Outstanding(o) THEN GiveBack(o) ELSE UNCHANGED stock
    /\ orders' = [orders EXCEPT ![o] = Absent]
    /\ UNCHANGED unused

NewStockOf(p, n) ==
    /\ stock' = [stock EXCEPT ![p] = n]
    /\ UNCHANGED <<orders, unused>>

SaveProduct(p, n) == ~Exists(p) /\ NewStockOf(p, n)

AddStock(p, q) == Exists(p) /\ stock[p] + q <= MaxInt /\ NewStockOf(p, stock[p] + q)

(* A product is kept while any order, cancelled or not, lists it.          *)
DeleteProduct(p) ==
    /\ Exists(p)
    /\ \A o \in OrderIds : orders[o] # Absent => p \notin Ordered(orders[o].lines)
    /\ NewStockOf(p, Absent)

Next ==
    \/ \E o \in OrderIds, lines \in LineLists : PlaceOrder(o, lines)
    \/ \E o \in OrderIds : CancelOrder(o) \/ DeleteOrder(o)
    \/ \E o \in OrderIds, status \in {"PENDING", "PAID", "SHIPPED"} : SetStatus(o, status)
    \/ \E p \in Products, n \in NewStock : SaveProduct(p, n)
    \/ \E p \in Products, q \in 1..MaxQty : AddStock(p, q)
    \/ \E p \in Products : DeleteProduct(p)

Spec == Init /\ [][Next]_store
=============================================================================
