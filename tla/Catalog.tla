------------------------------- MODULE Catalog -------------------------------
(***************************************************************************)
(* Categories, customers and new products: Category.save, Customer.save    *)
(* and the INSERT of Product.save, called by create_product,               *)
(* create_customer and import_json of several running applications.        *)
(* Neither save rolls back first, and neither rolls back when it fails.    *)
(***************************************************************************)
EXTENDS Naturals, Sequences, FiniteSets

CONSTANTS
    Clients,    \* running applications connected to one database
    Names,      \* category names, as their places in the unique index
    Emails,     \* e-mail addresses, as their places in the unique index
    Forms,      \* what users type for a new product
    Files,      \* the JSON files they import: sequences of forms
    MaxItems,   \* bound: the products and customers all calls try to save
    Ops,        \* the handlers the clients of this instance call
    Empty,      \* an input that validation refuses
    Absent,     \* a row that does not exist
    NoView      \* no read view is open

(* defect: a price or stock that is missing, negative or not a number, or  *)
(* an empty product name.                                                  *)
Form == [category : Names \cup {Empty}, defect : {"none", "number", "name"}]

(* A new customer: Empty stands for anything Customer.validate refuses.    *)
Person == [email : Emails \cup {Empty}]

ASSUME CatalogAssumption ==
    /\ Names \subseteq Nat /\ Emails \subseteq Nat
    /\ Forms \subseteq Form /\ Files \subseteq Seq(Form)
    /\ MaxItems \in Nat
    /\ Empty \notin Names \cup Emails
    /\ Absent \notin Nat

Cat(n)  == <<"categories", n>>
Cust(e) == <<"customers", e>>
Prod(k) == <<"products", k>>
Ids     == 1..MaxItems

CatRows  == {Cat(n) : n \in Names}
CustRows == {Cust(e) : e \in Emails}
ProdRows == {Prod(k) : k \in Ids}
Rows     == CatRows \cup CustRows \cup ProdRows

(* The two marks are not what a row, or a whole read view, may be.         *)
ProductRow == [category : Nat, asked : Names]

ASSUME MarksAssumption ==
    /\ Absent \notin ProductRow
    /\ NoView \notin [Rows -> Nat \cup ProductRow \cup {Absent}]

VARIABLES
    newest, committed, view, written, xlock, slock,     \* see InnoDB
    pc,         \* [Clients -> label]: the statement the client sends next
    job,        \* [Clients -> arguments and locals of the running handler]
    nextId,     \* AUTO_INCREMENT counters of categories and products
    items,      \* bound: the items all calls have tried to save
    report      \* [Clients -> the last message box]

INSTANCE InnoDB

engine == <<newest, committed, view, written, xlock, slock>>
vars == <<engine, pc, job, nextId, items, report>>

(* op: the handler.  given: its input.  left: the items still to be saved. *)
(* category: category_id.  row: the row lastrowid names.  saved: the rows  *)
(* the handler believes to have saved.  errors: why others were not.       *)
NoJob == [op |-> "none", given |-> <<>>, left |-> <<>>, category |-> Absent,
          row |-> Absent, saved |-> {}, errors |-> {}]

Init ==
    /\ EngineInit([r \in Rows |-> Absent])
    /\ pc = [c \in Clients |-> "idle"]
    /\ job = [c \in Clients |-> NoJob]
    /\ nextId = [categories |-> 1, products |-> 1]
    /\ items = 0
    /\ report = [c \in Clients |-> NoJob]

Goto(c, label) == pc' = [pc EXCEPT ![c] = label]
This(c) == Head(job[c].left)

-----------------------------------------------------------------------------
(* A handler is called with a list of items: one for a form, any number    *)
(* for a file.                                                             *)
Call(c, op, input) ==
    /\ op \in Ops
    /\ pc[c] = "idle"
    /\ items + Len(input) <= MaxItems
    /\ items' = items + Len(input)
    /\ job' = [job EXCEPT ![c] = [NoJob EXCEPT !.op = op, !.given = input,
                                               !.left = input]]
    /\ Goto(c, "item")
    /\ UNCHANGED <<engine, nextId, report>>

CreateProduct(c)  == \E form \in Forms : Call(c, "create_product", <<form>>)
CreateCustomer(c) == \E person \in Person : Call(c, "create_customer", <<person>>)
ImportJson(c)     == \E file \in Files : Call(c, "import_json", file)

(* The item under way is done: rows are saved with it, or an exception came*)
(* up.  import_json goes on whatever it was (except: continue).            *)
EndItem(c, rows, errors) ==
    /\ job' = [job EXCEPT ![c].left = Tail(@), ![c].saved = @ \cup rows,
                          ![c].errors = @ \cup errors,
                          ![c].category = Absent, ![c].row = Absent]
    /\ Goto(c, "item")

Saved(c, r)    == EndItem(c, {r}, {})
Raises(c, why) == EndItem(c, {}, {why})

(* An exception leaves save: nothing is rolled back.                       *)
Fail(c, why) ==
    /\ Raises(c, why)
    /\ UNCHANGED <<engine, nextId>>

(* Refused before any statement is sent: by Customer.validate, by the      *)
(* check for an empty category, or, in import_json only, for its numbers.  *)
RefusedAtOnce(c) ==
    IF job[c].op = "create_customer" THEN This(c).email = Empty
    ELSE \/ This(c).category = Empty
         \/ job[c].op = "import_json" /\ This(c).defect = "number"

BeginItem(c) ==
    /\ pc[c] = "item" /\ job[c].left # <<>>
    /\ IF RefusedAtOnce(c) THEN Fail(c, "invalid")
       ELSE /\ Goto(c, IF job[c].op = "create_customer" THEN "insert_customer"
                                                        ELSE "find_category")
            /\ UNCHANGED <<engine, job, nextId>>
    /\ UNCHANGED <<items, report>>

(* The message box; after a success, and after every import, the screens   *)
(* are loaded again, which leaves a read view open.                        *)
EndCall(c) ==
    /\ pc[c] = "item" /\ job[c].left = <<>>
    /\ report' = [report EXCEPT ![c] = job[c]]
    /\ job' = [job EXCEPT ![c] = NoJob]
    /\ Goto(c, "idle")
    /\ IF job[c].saved # {} \/ job[c].op = "import_json" THEN OpenView(c)
                                                         ELSE UNCHANGED engine
    /\ UNCHANGED <<nextId, items>>

-----------------------------------------------------------------------------
(* The keys a refused INSERT of the existing key r leaves share-locked: r  *)
(* and the gap in front of it, where no other connection can insert.       *)
NextKey(r) ==
    {r} \cup {q \in Rows : /\ q[1] = r[1] /\ q[2] < r[2]
                           /\ \A x \in Rows : x[1] = r[1] /\ x[2] \in q[2]..(r[2] - 1)
                                                => newest[x] = Absent}

(* c's read view is older than the committed row r.                        *)
Hidden(c, r) == view[c] # NoView /\ view[c][r] = Absent /\ committed[r] # Absent

(* Error 1062, once the connection that inserted r has ended.              *)
DuplicateKey(c, r) ==
    /\ newest[r] # Absent
    /\ MayShare(c, r)
    /\ slock' = [slock EXCEPT ![c] = @ \cup NextKey(r)]
    /\ Raises(c, IF Hidden(c, r) THEN "hidden" ELSE "duplicate")
    /\ UNCHANGED <<newest, committed, view, written, xlock, nextId>>

(* An INSERT of a new row under the unique key r.                          *)
InsertRow(c, r, value, parents) ==
    /\ newest[r] = Absent
    /\ Write(c, r, value, parents)

(* The statement c sends next inserts this key, if it inserts a unique one.*)
KeyOf(c) ==
    CASE pc[c] = "insert_category" -> {Cat(This(c).category)}
      [] pc[c] = "insert_customer" -> {Cust(This(c).email)}
      [] OTHER                     -> {}

Waits(c) == \E r \in KeyOf(c) : IF newest[r] = Absent THEN ~MayWrite(c, r)
                                                      ELSE ~MayShare(c, r)

(* Faulty: the statement is sent again for ever.                           *)
Faulty_LockError(c) ==
    /\ Waits(c)
    /\ UNCHANGED vars

(* The lock wait times out, which undoes the statement only, or the        *)
(* transaction is chosen to end a deadlock.                                *)
LockError(c) ==
    /\ Waits(c)
    /\ \/ UNCHANGED engine
       \/ Rollback(c)
    /\ Raises(c, "lock")
    /\ UNCHANGED <<nextId, items, report>>

-----------------------------------------------------------------------------
(* Faulty: the SELECT has no WHERE, so any category will do.               *)
Faulty_FindCategory(c) ==
    /\ pc[c] = "find_category"
    /\ OpenView(c)
    /\ \/ /\ \E r \in CatRows : /\ Seen(c, r) # Absent
                                /\ job' = [job EXCEPT ![c].category = Seen(c, r)]
          /\ Goto(c, "commit_category")
       \/ /\ \A r \in CatRows : Seen(c, r) = Absent
          /\ Goto(c, "insert_category")
          /\ UNCHANGED job
    /\ UNCHANGED <<nextId, items, report>>

(* Category.save: SELECT category_id, in the view that happens to be open. *)
FindCategory(c) ==
    LET found == Seen(c, Cat(This(c).category)) IN
    /\ pc[c] = "find_category"
    /\ OpenView(c)
    /\ job' = [job EXCEPT ![c].category = found]
    /\ Goto(c, IF found # Absent THEN "commit_category" ELSE "insert_category")
    /\ UNCHANGED <<nextId, items, report>>

(* Faulty: lastrowid is not taken over, category_id stays None.            *)
Faulty_InsertCategory(c) ==
    LET r == Cat(This(c).category) IN
    /\ pc[c] = "insert_category"
    /\ \/ /\ InsertRow(c, r, nextId.categories, {})
          /\ nextId' = [nextId EXCEPT !.categories = @ + 1]
          /\ Goto(c, "commit_category")
          /\ UNCHANGED job
       \/ DuplicateKey(c, r)
    /\ UNCHANGED <<items, report>>

(* INSERT INTO categories; cursor.lastrowid.                               *)
InsertCategory(c) ==
    LET r == Cat(This(c).category) IN
    /\ pc[c] = "insert_category"
    /\ \/ /\ InsertRow(c, r, nextId.categories, {})
          /\ job' = [job EXCEPT ![c].category = nextId.categories]
          /\ nextId' = [nextId EXCEPT !.categories = @ + 1]
          /\ Goto(c, "commit_category")
       \/ DuplicateKey(c, r)
    /\ UNCHANGED <<items, report>>

(* What follows Category.save: Product() and its validate().               *)
CheckForm(c) ==
    IF This(c).defect = "none" THEN Goto(c, "insert_product") /\ UNCHANGED job
                               ELSE Raises(c, "invalid")

(* Faulty: save ends without commit(), and Product.save's rollback undoes  *)
(* the category.                                                           *)
Faulty_CommitCategory(c) ==
    /\ pc[c] = "commit_category"
    /\ Rollback(c)
    /\ CheckForm(c)
    /\ UNCHANGED <<nextId, items, report>>

(* connection.commit() in Category.save, before the rest of the form is    *)
(* looked at; Product.save's rollback() then finds nothing to undo.        *)
CommitCategory(c) ==
    /\ pc[c] = "commit_category"
    /\ Commit(c)
    /\ CheckForm(c)
    /\ UNCHANGED <<nextId, items, report>>

(* INSERT INTO products, whose foreign key locks the category it names;    *)
(* self.product_id = cursor.lastrowid.                                     *)
InsertProduct(c) ==
    LET r       == Prod(nextId.products)
        parents == {q \in CatRows : newest[q] = job[c].category}
    IN
    /\ pc[c] = "insert_product"
    /\ IF parents = {} THEN Fail(c, "no category")
       ELSE /\ InsertRow(c, r, [category |-> job[c].category,
                                asked |-> This(c).category], parents)
            /\ nextId' = [nextId EXCEPT !.products = @ + 1]
            /\ job' = [job EXCEPT ![c].row = r]
            /\ Goto(c, "commit_row")
    /\ UNCHANGED <<items, report>>

(* Customer.save: INSERT INTO customers.                                   *)
InsertCustomer(c) ==
    LET r == Cust(This(c).email) IN
    /\ pc[c] = "insert_customer"
    /\ \/ /\ InsertRow(c, r, This(c).email, {})
          /\ job' = [job EXCEPT ![c].row = r]
          /\ Goto(c, "commit_row")
          /\ UNCHANGED nextId
       \/ DuplicateKey(c, r)
    /\ UNCHANGED <<items, report>>

(* Faulty: save returns without commit().                                  *)
Faulty_CommitRow(c) ==
    /\ pc[c] = "commit_row"
    /\ Saved(c, job[c].row)
    /\ UNCHANGED <<engine, nextId, items, report>>

(* connection.commit() in Product.save and Customer.save.                  *)
CommitRow(c) ==
    /\ pc[c] = "commit_row"
    /\ Commit(c)
    /\ Saved(c, job[c].row)
    /\ UNCHANGED <<nextId, items, report>>

-----------------------------------------------------------------------------
(* The COMMIT is done, its reply is lost: save raises.                     *)
CommitReplyLost(c) ==
    /\ pc[c] \in {"commit_category", "commit_row"}
    /\ Commit(c)
    /\ Raises(c, "lost")
    /\ UNCHANGED <<nextId, items, report>>

(* The connection is lost: the server rolls back, save raises.             *)
Disconnect(c) ==
    /\ Rollback(c)
    /\ CASE pc[c] = "idle" -> InTransaction(c) /\ UNCHANGED <<pc, job>>
         [] pc[c] = "item" -> InTransaction(c) /\ UNCHANGED <<pc, job>>
         [] OTHER          -> Raises(c, "lost")
    /\ UNCHANGED <<nextId, items, report>>

(* load_products, load_report, refresh_dropdowns: SELECTs that stay open.  *)
Browse(c) ==
    /\ "browse" \in Ops
    /\ pc[c] = "idle" /\ view[c] = NoView
    /\ OpenView(c)
    /\ UNCHANGED <<pc, job, nextId, items, report>>

(* An order method of the same application: its rollback() ends whatever   *)
(* transaction was open.                                                   *)
OtherMethod(c) ==
    /\ "order" \in Ops
    /\ pc[c] = "idle" /\ InTransaction(c)
    /\ Rollback(c)
    /\ UNCHANGED <<pc, job, nextId, items, report>>

Proceed(c) ==
    \/ BeginItem(c) \/ FindCategory(c) \/ InsertCategory(c) \/ CommitCategory(c)
    \/ InsertProduct(c) \/ InsertCustomer(c) \/ CommitRow(c)
    \/ LockError(c) \/ EndCall(c)

Next ==
    \E c \in Clients : \/ CreateProduct(c) \/ CreateCustomer(c) \/ ImportJson(c)
                       \/ Browse(c) \/ OtherMethod(c)
                       \/ Proceed(c)
                       \/ CommitReplyLost(c) \/ Disconnect(c)

Spec == Init /\ [][Next]_vars

(* A handler that was called goes on; nobody has to call one.              *)
Fairness == \A c \in Clients : WF_vars(Proceed(c))
FairSpec == Spec /\ Fairness

-----------------------------------------------------------------------------
Labels == {"idle", "item", "find_category", "insert_category", "commit_category",
           "insert_product", "insert_customer", "commit_row"}

Items == Seq(Form) \cup Seq(Person)

Job == [op : {"none", "create_product", "create_customer", "import_json"},
        given : Items, left : Items, category : Ids \cup {Absent},
        row : Rows \cup {Absent}, saved : SUBSET Rows,
        errors : SUBSET {"invalid", "hidden", "duplicate", "lock", "no category", "lost"}]

ValuesOf(r) ==
    CASE r[1] = "categories" -> Ids \cup {Absent}
      [] r[1] = "customers"  -> Emails \cup {Absent}
      [] r[1] = "products"   -> [category : Ids, asked : Names] \cup {Absent}

IsContents(tables) ==
    /\ tables = [r \in Rows |-> tables[r]]
    /\ \A r \in Rows : tables[r] \in ValuesOf(r)

(* Every variable holds values of its type; the AUTO_INCREMENT counters    *)
(* stay within the bound.                                                  *)
TypeOK ==
    /\ IsContents(newest) /\ IsContents(committed)
    /\ view = [c \in Clients |-> view[c]]
    /\ \A c \in Clients : view[c] = NoView \/ IsContents(view[c])
    /\ written \in [Clients -> SUBSET Rows]
    /\ xlock \in [Clients -> SUBSET Rows]
    /\ slock \in [Clients -> SUBSET Rows]
    /\ pc \in [Clients -> Labels]
    /\ job \in [Clients -> Job]
    /\ report \in [Clients -> Job]
    /\ nextId \in [categories : 1..MaxItems + 1, products : 1..MaxItems + 1]
    /\ items \in 0..MaxItems

-----------------------------------------------------------------------------
(* Every product is in a category that exists and has the name its form or *)
(* file gave (window.py 268-272, 501-505), however the saves of several    *)
(* applications interleave and whichever of them fail.                     *)
ProductsCategorised ==
    \A k \in Ids : committed[Prod(k)] # Absent =>
        committed[Cat(committed[Prod(k)].asked)] = committed[Prod(k)].category

(* "Product Added!", "Customer Added!" and the count of "Imported ... valid*)
(* items." are true: what they report is committed.                        *)
ReportsAreTrue ==
    \A c \in Clients : \A r \in report[c].saved : committed[r] # Absent

Valid(form) == form.category # Empty /\ form.defect = "none"

Reported(c, op) == report'[c] # report[c] /\ report'[c].op = op

(* Every valid item the handler was given is saved when it reports.        *)
AllValidSaved(c) ==
    LET given == report'[c].given IN
    Cardinality(report'[c].saved)
        = Cardinality({i \in DOMAIN given : Valid(given[i])})

(* create_product and import_json save every valid item: the category      *)
(* "with the same name exists" and is retrieved, or is created             *)
(* (category.py, lines 15 and 16), and "invalid" items alone are skipped   *)
(* (README.md, line 211), whatever was refused or left half done before.   *)
(* The exceptions: a lost connection, a lock, and a category that another  *)
(* application committed after the read view was opened.                   *)
ValidItemsSaved ==
    [][\A c \in Clients :
          Reported(c, "create_product") \/ Reported(c, "import_json")
             => \/ AllValidSaved(c)
                \/ report'[c].errors \cap {"hidden", "lock", "lost"} # {}]_vars

(* Every handler comes to its message box, also when an idle application   *)
(* holds the lock of a refused INSERT for as long as its user likes.       *)
EveryCallReturns == \A c \in Clients : pc[c] # "idle" ~> pc[c] = "idle"
=============================================================================
