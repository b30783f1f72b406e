------------------------------- MODULE Screens -------------------------------
(***************************************************************************)
(* The window over the atomic store: what the order form, the product list *)
(* and the report of each running application show, what its user picks    *)
(* there, and how the handlers reload them.  A handler runs one method of  *)
(* Store and then its reloads; other applications commit in between.       *)
(***************************************************************************)
EXTENDS Naturals, Sequences, FiniteSetsExt

CONSTANTS
    Clients,        \* running applications
    MaxProduct,     \* bound: the product ids AUTO_INCREMENT hands out
    NameOf,         \* [1..MaxProduct -> names], not necessarily different
    InitialStock,   \* [1..MaxProduct -> Nat or Absent]
    NewStock,       \* the stocks new products are saved with
    OrderIds,       \* bound: ids for orders
    NewStatuses,    \* the statuses users set orders to, CANCELLED aside
    MaxInt,         \* the largest value of an INT column
    MaxQty,         \* bound: the largest quantity users enter
    MaxCommits,     \* bound: the number of successful methods
    MaxFailures,    \* bound: the number of reloads that fail
    Handlers,       \* the handlers the users of this instance call
    Buttons,        \* the screens they press the Refresh button of
    Absent,         \* a row that does not exist
    NoView,         \* no read view is open
    Nothing         \* nothing is selected in the combo box

Products == 1..MaxProduct

ScreenNames == {"form", "products", "report"}

ASSUME ScreensAssumption ==
    /\ MaxProduct \in Nat /\ MaxInt \in Nat /\ MaxQty \in Nat
    /\ MaxCommits \in Nat /\ MaxFailures \in Nat
    /\ InitialStock \in [Products -> 0..MaxInt \cup {Absent}] /\ Absent \notin 0..MaxInt
    /\ NewStock \subseteq 0..MaxInt
    /\ NewStatuses \subseteq {"PENDING", "PAID", "SHIPPED"}
    /\ Buttons \subseteq ScreenNames

VARIABLES
    stock, orders, unused,  \* see Store: the committed tables
    nextProduct,    \* AUTO_INCREMENT counter of products
    version,        \* history: the number of commits so far
    view,           \* [Clients -> the read view of its transaction, or NoView]
    shown,          \* [Clients -> [screen -> the tables it was loaded from]]
    picked,         \* [Clients -> the label in the product combo box]
    loads,          \* [Clients -> the reloads its handler still has to do]
    last,           \* [Clients -> what the last handler reported]
    failures        \* bound: the reloads that have failed so far

LineLists == {<<[product |-> p, qty |-> q]>> : p \in Products, q \in 1..MaxQty}

DB == INSTANCE Store

store == <<stock, orders, unused, nextProduct, version>>
vars  == <<store, view, shown, picked, loads, last, failures>>

Tables == [stock |-> stock, orders |-> orders, version |-> version]

(* What an empty screen shows.                                             *)
Blank  == [stock |-> [p \in Products |-> Absent],
           orders |-> [o \in OrderIds |-> Absent], version |-> 0]

(* own: the version it committed itself.  cut: the connection died since.  *)
NoReport == [own |-> 0, loads |-> {}, failed |-> {}, cut |-> FALSE]

(* __init__ and the setup methods load the form and the product list.      *)
Init ==
    /\ DB!Init
    /\ nextProduct = 1 + Max({0} \cup {p \in Products : InitialStock[p] # Absent})
    /\ version = 0
    /\ view = [c \in Clients |-> NoView]
    /\ shown = [c \in Clients |-> [s \in ScreenNames |-> Blank]]
    /\ picked = [c \in Clients |-> Nothing]
    /\ loads = [c \in Clients |-> <<"form", "products">>]
    /\ last = [c \in Clients |-> NoReport]
    /\ failures = 0

-----------------------------------------------------------------------------
(* load_products, load_report, refresh_dropdowns: SELECTs of the open read *)
(* view, or of a new one, which stays open.                                *)
ReadView(c) == IF view[c] = NoView THEN Tables ELSE view[c]

(* Faulty: each of them begins with connection.rollback().                 *)
Faulty_Load(c) ==
    /\ loads[c] # <<>>
    /\ view' = [view EXCEPT ![c] = Tables]
    /\ shown' = [shown EXCEPT ![c][Head(loads[c])] = Tables]
    /\ loads' = [loads EXCEPT ![c] = Tail(@)]
    /\ UNCHANGED <<store, picked, last, failures>>

(* Faulty: the order form is read over a connection of its own.            *)
Faulty_LoadAside(c) ==
    /\ loads[c] # <<>>
    /\ LET aside == Head(loads[c]) = "form" IN
       /\ view' = [view EXCEPT ![c] = IF aside THEN @ ELSE ReadView(c)]
       /\ shown' = [shown EXCEPT ![c][Head(loads[c])] =
                        IF aside THEN Tables ELSE ReadView(c)]
    /\ loads' = [loads EXCEPT ![c] = Tail(@)]
    /\ UNCHANGED <<store, picked, last, failures>>

Load(c) ==
    /\ loads[c] # <<>>
    /\ view' = [view EXCEPT ![c] = ReadView(c)]
    /\ shown' = [shown EXCEPT ![c][Head(loads[c])] = ReadView(c)]
    /\ loads' = [loads EXCEPT ![c] = Tail(@)]
    /\ UNCHANGED <<store, picked, last, failures>>

(* A reload that fails, at get_connection() or at any call up to fetchall().*)
(* By then the product list and the report are empty, whether or not an    *)
(* error box says why; the order form swallows the error and keeps its     *)
(* labels.  The handler goes on.  A SELECT that was answered has opened the *)
(* view; the loss of a view with its connection is Disconnect.             *)
LoadFails(c) ==
    /\ loads[c] # <<>>
    /\ failures < MaxFailures
    /\ failures' = failures + 1
    /\ \E after \in {view[c], ReadView(c)} : view' = [view EXCEPT ![c] = after]
    /\ shown' = [shown EXCEPT ![c][Head(loads[c])] =
                    IF Head(loads[c]) = "form" THEN @ ELSE Blank]
    /\ loads' = [loads EXCEPT ![c] = Tail(@)]
    /\ last' = [last EXCEPT ![c].failed = @ \cup {Head(loads[c])}]
    /\ UNCHANGED <<store, picked>>

Report(c, own, screens) ==
    last' = [last EXCEPT ![c] = [own |-> own, failed |-> {}, cut |-> FALSE,
                                 loads |-> {screens[i] : i \in DOMAIN screens}]]

(* "Refresh Data", "Refresh Stock" and "Refresh".                          *)
Refresh(c, s) ==
    /\ loads[c] = <<>>
    /\ loads' = [loads EXCEPT ![c] = <<s>>]
    /\ UNCHANGED <<store, view, shown, picked, failures>>
    /\ Report(c, 0, <<s>>)

(* The label "name (Stock: n)" of a product, and the dictionary from labels*)
(* to ids: of two products with one label the later one wins.              *)
Label(tables, p) == <<NameOf[p], tables.stock[p]>>

ProductMap(tables) ==
    LET listed == {p \in Products : tables.stock[p] # Absent} IN
    [label \in {Label(tables, p) : p \in listed} |->
        Max({p \in listed : Label(tables, p) = label})]

(* The user selects an entry of the combo box.  Later refreshes replace the*)
(* entries and the dictionary, not the selection.                          *)
Pick(c) ==
    /\ "create_order" \in Handlers
    /\ loads[c] = <<>>
    /\ \E label \in DOMAIN ProductMap(shown[c].form) :
          picked' = [picked EXCEPT ![c] = label]
    /\ UNCHANGED <<store, view, shown, loads, last, failures>>

-----------------------------------------------------------------------------
(* Faulty: the method returns without commit(), its read view goes on.     *)
Faulty_Succeed(c, screens) ==
    /\ version < MaxCommits
    /\ version' = version + 1
    /\ loads' = [loads EXCEPT ![c] = screens]
    /\ Report(c, version', screens)
    /\ UNCHANGED <<view, shown, failures>>

(* The method has committed, which ends its read view; after the message   *)
(* box the handler reloads these screens.                                  *)
Succeed(c, screens) ==
    /\ version < MaxCommits
    /\ version' = version + 1
    /\ view' = [view EXCEPT ![c] = NoView]
    /\ loads' = [loads EXCEPT ![c] = screens]
    /\ Report(c, version', screens)
    /\ UNCHANGED <<shown, failures>>

Handler(c, op) == op \in Handlers /\ loads[c] = <<>>

(* A handler raised, for its own reasons or because a statement failed: the*)
(* error is shown, and no screen is loaded again.  Order and Product roll  *)
(* back; Category.save and Customer.save keep their read view open, and a  *)
(* refused form may not even have opened one.                              *)
Refused(c) ==
    /\ Handlers # {} /\ loads[c] = <<>>
    /\ \E after \in {NoView, ReadView(c)} : view' = [view EXCEPT ![c] = after]
    /\ last' = [last EXCEPT ![c] = NoReport]
    /\ UNCHANGED <<store, shown, picked, loads, failures>>

(* Faulty: the stock is looked up in the label.                            *)
Faulty_CreateOrder(c) ==
    /\ Handler(c, "create_order")
    /\ picked[c] \in DOMAIN ProductMap(shown[c].form)
    /\ LET p == ProductMap(shown[c].form)[picked[c]] IN
       \E o \in unused, q \in 1..MaxQty :
          /\ q <= picked[c][2] /\ stock[p] # Absent
          /\ stock' = [stock EXCEPT ![p] = @ - q]
          /\ orders' = [orders EXCEPT ![o] = [status |-> "PENDING",
                                     lines |-> <<[product |-> p, qty |-> q]>>]]
          /\ unused' = unused \ {o}
    /\ Succeed(c, <<"products", "form">>)
    /\ picked' = [picked EXCEPT ![c] = Nothing]
    /\ UNCHANGED nextProduct

(* create_order: a label that is not in the dictionary any more has id     *)
(* None, which save_transaction refuses; so has an empty selection.        *)
CreateOrder(c) ==
    /\ Handler(c, "create_order")
    /\ picked[c] \in DOMAIN ProductMap(shown[c].form)
    /\ \E o \in unused, q \in 1..MaxQty :
          DB!PlaceOrder(o, <<[product |-> ProductMap(shown[c].form)[picked[c]],
                              qty |-> q]>>)
    /\ Succeed(c, <<"products", "form">>)
    /\ picked' = [picked EXCEPT ![c] = Nothing]
    /\ UNCHANGED nextProduct

(* create_product, with a valid form.                                      *)
CreateProduct(c) ==
    /\ Handler(c, "create_product")
    /\ nextProduct \in Products
    /\ \E n \in NewStock : DB!SaveProduct(nextProduct, n)
    /\ nextProduct' = nextProduct + 1
    /\ Succeed(c, <<"products", "form">>)
    /\ UNCHANGED picked

Listed(c) == {p \in Products : shown[c].products.stock[p] # Absent}

(* add_product_stock: an UPDATE of a row that is gone changes nothing and  *)
(* succeeds as well.                                                       *)
AddProductStock(c) ==
    /\ Handler(c, "add_product_stock")
    /\ \E p \in Listed(c), q \in 1..MaxQty :
          IF DB!Exists(p) THEN DB!AddStock(p, q)
                          ELSE UNCHANGED <<stock, orders, unused>>
    /\ Succeed(c, <<"products", "form">>)
    /\ UNCHANGED <<nextProduct, picked>>

DeleteProduct(c) ==
    /\ Handler(c, "delete_product")
    /\ \E p \in Listed(c) : DB!DeleteProduct(p)
    /\ Succeed(c, <<"products", "form">>)
    /\ UNCHANGED <<nextProduct, picked>>

Reported(c) == {o \in OrderIds : shown[c].report.orders[o] # Absent}

(* update_order_status reloads the report only.  CANCELLED again is not an *)
(* error.                                                                  *)
UpdateOrderStatus(c) ==
    /\ Handler(c, "update_order_status")
    /\ \E o \in Reported(c) :
          \/ \E status \in NewStatuses : DB!SetStatus(o, status)
          \/ DB!CancelOrder(o)
          \/ /\ orders[o] # Absent /\ ~DB!Outstanding(o)
             /\ UNCHANGED <<stock, orders, unused>>
    /\ Succeed(c, <<"report">>)
    /\ UNCHANGED <<nextProduct, picked>>

(* delete_order: an order that is gone is "deleted" again.                 *)
DeleteOrder(c) ==
    /\ Handler(c, "delete_order")
    /\ \E o \in Reported(c) :
          IF orders[o] = Absent THEN UNCHANGED <<stock, orders, unused>>
                                ELSE DB!DeleteOrder(o)
    /\ Succeed(c, <<"report", "products", "form">>)
    /\ UNCHANGED <<nextProduct, picked>>

(* The connection dies, perhaps between two reloads; get_connection() opens*)
(* a new one for the next call.                                            *)
Disconnect(c) ==
    /\ view[c] # NoView
    /\ view' = [view EXCEPT ![c] = NoView]
    /\ last' = [last EXCEPT ![c].cut = @ \/ loads[c] # <<>>]
    /\ UNCHANGED <<store, shown, picked, loads, failures>>

Next ==
    \E c \in Clients :
        \/ Load(c) \/ LoadFails(c) \/ Pick(c) \/ Refused(c) \/ Disconnect(c)
        \/ \E s \in Buttons : Refresh(c, s)
        \/ CreateOrder(c) \/ CreateProduct(c) \/ AddProductStock(c)
        \/ DeleteProduct(c) \/ UpdateOrderStatus(c) \/ DeleteOrder(c)

Spec == Init /\ [][Next]_vars

-----------------------------------------------------------------------------
Contents ==
    [stock : [Products -> 0..MaxInt \cup {Absent}],
     orders : [OrderIds -> [status : {"PENDING", "PAID", "SHIPPED", "CANCELLED"},
                            lines : LineLists] \cup {Absent}],
     version : 0..MaxCommits]

(* The mark differs from what it stands beside.                            *)
ASSUME MarksAssumption == NoView \notin Contents

(* Every variable holds values of its type: no stock is negative, and every*)
(* screen shows a state of the tables.                                     *)
TypeOK ==
    /\ Tables \in Contents
    /\ unused \subseteq OrderIds
    /\ nextProduct \in 1..MaxProduct + 1
    /\ failures \in 0..MaxFailures
    /\ \A c \in Clients :
          /\ view[c] \in Contents \cup {NoView}
          /\ \A s \in ScreenNames : shown[c][s] \in Contents
          /\ loads[c] \in Seq(ScreenNames)

(* What a handler has loaded again agrees: the report, the product list and*)
(* the order form show one state of the database (window.py 387-389),      *)
(* although other applications commit between the three SELECTs, and       *)
(* although some of them fail, unless the connection broke between them.   *)
ScreensAgree ==
    \A c \in Clients : loads[c] = <<>> /\ ~last[c].cut =>
        \A s, t \in last[c].loads \ last[c].failed : shown[c][s] = shown[c][t]

(* After "Success" the product list and the report show at least what the  *)
(* handler itself did, or nothing at all if their reload failed; the order *)
(* form, which hides a failure, shows it unless its reload failed; whatever*)
(* old read view was open when the handler was called, and whatever rows   *)
(* were on the screens.                                                    *)
OwnWorkShown ==
    \A c \in Clients : loads[c] = <<>> =>
        \A s \in last[c].loads :
            \/ shown[c][s].version >= last[c].own
            \/ s \in last[c].failed /\ (s = "form" \/ shown[c][s] = Blank)

(* A window never goes back: what a reload brings is no older than what any*)
(* screen of that window shows already, although Refresh reads in whatever *)
(* view is open (window.py 400, 442), methods close views, connections are *)
(* lost and some reloads fail.                                             *)
NeverShowsOlder ==
    [][\A c \in Clients :
          loads[c] # <<>> /\ loads'[c] = Tail(loads[c])
              /\ Head(loads[c]) \notin last'[c].failed =>
             \A s \in ScreenNames :
                shown'[c][Head(loads[c])].version >= shown[c][s].version]_vars
=============================================================================
