---------------------------- MODULE CatalogProofs ----------------------------
(***************************************************************************)
(* What holds of Catalog for any number of applications, categories,       *)
(* e-mail addresses, forms and files, whichever statements and connections *)
(* fail.                                                                   *)
(***************************************************************************)
EXTENDS Catalog, FiniteSetTheorems, TLAPS

EngineTypes ==
    /\ IsContents(newest) /\ IsContents(committed)
    /\ view = [c \in Clients |-> view[c]]
    /\ \A c \in Clients : view[c] = NoView \/ IsContents(view[c])
    /\ written \in [Clients -> SUBSET Rows]
    /\ xlock \in [Clients -> SUBSET Rows]
    /\ slock \in [Clients -> SUBSET Rows]

(* The AUTO_INCREMENT counters get their bound from Counted, below.        *)
JobTypes ==
    /\ pc \in [Clients -> Labels]
    /\ job \in [Clients -> Job]
    /\ report \in [Clients -> Job]
    /\ nextId \in [categories : Nat \ {0}, products : Nat \ {0}]
    /\ items \in 0..MaxItems

Types == EngineTypes /\ JobTypes

-----------------------------------------------------------------------------
(* What the label of client c says about its handler and the item under    *)
(* way.                                                                    *)
FormOps == {"create_product", "import_json"}
FormLabels == {"find_category", "insert_category", "commit_category", "insert_product"}

Ready(c) ==
    /\ pc[c] = "idle" => job[c] = NoJob
    /\ pc[c] # "idle" => job[c].op # "none"
    /\ job[c].op = "create_customer" => job[c].left \in Seq(Person)
    /\ job[c].op \in FormOps => job[c].left \in Seq(Form)
    /\ pc[c] \notin {"idle", "item"} => job[c].left # <<>>
    /\ pc[c] = "insert_customer" => job[c].op = "create_customer" /\ This(c).email \in Emails
    /\ pc[c] \in FormLabels => job[c].op \in FormOps /\ This(c).category \in Names
    /\ pc[c] \in {"commit_category", "insert_product"} => job[c].category \in Ids
    /\ pc[c] = "commit_row" => job[c].row \in Rows

AllReady == \A c \in Clients : Ready(c)

(* The items that may still take an id of a table: item i of c's list, from*)
(* the end, and the item under way at certain labels only.                 *)
Todo(labels) ==
    {x \in Clients \X (Nat \ {0}) :
        /\ x[2] <= Len(job[x[1]].left)
        /\ x[2] = Len(job[x[1]].left) => pc[x[1]] \in labels}

BeforeCategory == {"item", "find_category", "insert_category"}
BeforeProduct == {"item", "find_category", "insert_category", "commit_category",
                  "insert_product"}

(* Every id handed out was for an item, and there are enough left.         *)
Counted ==
    /\ IsFiniteSet(Todo(BeforeCategory)) /\ IsFiniteSet(Todo(BeforeProduct))
    /\ nextId.categories - 1 + Cardinality(Todo(BeforeCategory)) <= items
    /\ nextId.products - 1 + Cardinality(Todo(BeforeProduct)) <= items

Inv1 == Types /\ AllReady /\ Counted

-----------------------------------------------------------------------------
(* The rows of the three tables, and what each of them holds.              *)
LEMMA RowsAndValues ==
    /\ \A n \in Names : Cat(n) \in Rows /\ ValuesOf(Cat(n)) = Ids \cup {Absent}
    /\ \A e \in Emails : Cust(e) \in Rows /\ ValuesOf(Cust(e)) = Emails \cup {Absent}
    /\ \A k \in Ids : /\ Prod(k) \in Rows
                      /\ ValuesOf(Prod(k)) = [category : Ids, asked : Names] \cup {Absent}
  BY DEF Rows, CatRows, CustRows, ProdRows, Cat, Cust, Prod, ValuesOf

(* A value some row takes is not the mark of a missing row.                *)
LEMMA Present ==
    /\ Absent \notin Ids /\ Absent \notin Emails /\ Absent \notin Names
    /\ Absent \notin [category : Ids, asked : Names]
<1>1. Ids \subseteq Nat
  BY DEF Ids
<1>2. [category : Ids, asked : Names] \subseteq [category : Nat, asked : Names]
  BY <1>1
<1>3. QED
  BY <1>1, <1>2, CatalogAssumption, MarksAssumption
     DEF CatalogAssumption, MarksAssumption, ProductRow

(* What a step of client c does to the engine: rows that are there are     *)
(* never changed, every new row has a value, and the only new products are *)
(* those of Product.save.                                                  *)
Entry(c) == [category |-> job[c].category, asked |-> This(c).category]

EngineStep(c) ==
    \/ UNCHANGED engine \/ OpenView(c) \/ Commit(c) \/ Rollback(c)
    \/ \E r \in Rows : \E v \in ValuesOf(r) \ {Absent}, parents \in SUBSET Rows :
          /\ newest[r] = Absent /\ Write(c, r, v, parents)
          /\ r \in ProdRows => pc[c] = "insert_product" /\ v = Entry(c)
    \/ \E locks \in SUBSET Rows :
          /\ slock' = [slock EXCEPT ![c] = @ \cup locks]
          /\ UNCHANGED <<newest, committed, view, written, xlock>>

(* A step of the engine keeps its types.                                   *)
LEMMA EngineStepTypes ==
    ASSUME EngineTypes, NEW c \in Clients, EngineStep(c)
    PROVE  EngineTypes'
<1> USE DEF EngineTypes, IsContents
<1>1. CASE UNCHANGED engine
  BY <1>1 DEF engine
<1>2. CASE OpenView(c)
  BY <1>2 DEF OpenView, ReadView
<1>3. CASE Commit(c)
  BY <1>3 DEF Commit, EndTransaction
<1>4. CASE Rollback(c)
  BY <1>4 DEF Rollback, EndTransaction
<1>5. ASSUME NEW r \in Rows, NEW v \in ValuesOf(r) \ {Absent}, NEW parents \in SUBSET Rows,
             Write(c, r, v, parents)
      PROVE  EngineTypes'
  BY <1>5 DEF Write
<1>6. ASSUME NEW locks \in SUBSET Rows,
             slock' = [slock EXCEPT ![c] = @ \cup locks],
             UNCHANGED <<newest, committed, view, written, xlock>>
      PROVE  EngineTypes'
  BY <1>6
<1>7. QED
  BY <1>1, <1>2, <1>3, <1>4, <1>5, <1>6 DEF EngineStep

-----------------------------------------------------------------------------
(* The first item of a list that is not done.                              *)
LEMMA FirstItem ==
    ASSUME NEW S, NEW q \in Seq(S), q # <<>>
    PROVE  /\ Head(q) \in S /\ Head(q) = q[1] /\ Tail(q) \in Seq(S)
           /\ Len(q) \in Nat \ {0} /\ Len(Tail(q)) = Len(q) - 1
           /\ \A i \in 1..Len(Tail(q)) : Tail(q)[i] = q[i + 1]
  OBVIOUS

(* The lists of a job have a length, whatever they hold.                   *)
LEMMA Lists ==
    ASSUME NEW j \in Job
    PROVE  /\ Len(j.left) \in Nat /\ Len(j.given) \in Nat
           /\ j.left # <<>> => /\ Len(j.left) \in Nat \ {0}
                               /\ Tail(j.left) \in Items /\ Tail(j.left) # j.left
                               /\ Len(Tail(j.left)) = Len(j.left) - 1
           /\ j.left = <<>> => Len(j.left) = 0
<1>1. ASSUME NEW S, NEW q \in Seq(S)
      PROVE  /\ Len(q) \in Nat
             /\ q # <<>> => /\ Len(q) \in Nat \ {0} /\ Tail(q) \in Seq(S)
                            /\ Tail(q) # q /\ Len(Tail(q)) = Len(q) - 1
             /\ q = <<>> => Len(q) = 0
  BY <1>1, FirstItem
<1>2. /\ j.left \in Seq(Form) \/ j.left \in Seq(Person)
      /\ j.given \in Seq(Form) \/ j.given \in Seq(Person)
  BY DEF Job, Items
<1>3. CASE j.left \in Seq(Form)
  BY <1>1, <1>2, <1>3 DEF Items
<1>4. CASE j.left \in Seq(Person)
  BY <1>1, <1>2, <1>4 DEF Items
<1>5. QED
  BY <1>2, <1>3, <1>4

(* An item that is not done has not used up its ids.                       *)
LEMMA IdsLeft ==
    ASSUME Types, Counted, NEW c \in Clients, job[c].left # <<>>
    PROVE  /\ pc[c] \in BeforeCategory => nextId.categories \in Ids
           /\ pc[c] \in BeforeProduct => nextId.products \in Ids
<1>1. Len(job[c].left) \in Nat \ {0}
  BY Lists DEF Types, JobTypes
<1>2. ASSUME NEW labels, pc[c] \in labels, IsFiniteSet(Todo(labels))
      PROVE  Cardinality(Todo(labels)) \in Nat \ {0}
  <2>1. <<c, Len(job[c].left)>> \in Todo(labels)
    BY <1>1, <1>2 DEF Todo
  <2>2. QED
    BY <1>2, <2>1, FS_EmptySet, FS_CardinalityType
<1>3. items <= MaxItems /\ items \in Nat /\ MaxItems \in Nat
  BY CatalogAssumption DEF Types, JobTypes, CatalogAssumption
<1>4. pc[c] \in BeforeCategory => nextId.categories \in Ids
  <2>1. SUFFICES ASSUME pc[c] \in BeforeCategory PROVE nextId.categories \in Ids
    OBVIOUS
  <2>2. PICK n : n = Cardinality(Todo(BeforeCategory))
    OBVIOUS
  <2>3. n \in Nat \ {0} /\ nextId.categories - 1 + n <= items
    BY <1>2, <2>1, <2>2 DEF Counted
  <2>4. nextId.categories \in Nat \ {0}
    BY DEF Types, JobTypes
  <2>5. QED
    BY <1>3, <2>3, <2>4 DEF Ids
<1>5. pc[c] \in BeforeProduct => nextId.products \in Ids
  <2>1. SUFFICES ASSUME pc[c] \in BeforeProduct PROVE nextId.products \in Ids
    OBVIOUS
  <2>2. PICK n : n = Cardinality(Todo(BeforeProduct))
    OBVIOUS
  <2>3. n \in Nat \ {0} /\ nextId.products - 1 + n <= items
    BY <1>2, <2>1, <2>2 DEF Counted
  <2>4. nextId.products \in Nat \ {0}
    BY DEF Types, JobTypes
  <2>5. QED
    BY <1>3, <2>3, <2>4 DEF Ids
<1>6. QED
  BY <1>4, <1>5

(* A SELECT returns what some row of the table may hold.                   *)
LEMMA SeenValue ==
    ASSUME EngineTypes, NEW c \in Clients, NEW r \in Rows
    PROVE  Seen(c, r) \in ValuesOf(r)
  BY DEF EngineTypes, IsContents, Seen, ReadView

(* Every action is a step of the engine.                                   *)
Refusing(c) == LockError(c) \/ CommitReplyLost(c) \/ Disconnect(c)

Statement(c) ==
    \/ FindCategory(c) \/ InsertCategory(c) \/ CommitCategory(c)
    \/ InsertProduct(c) \/ InsertCustomer(c) \/ CommitRow(c)

Calling(c) == CreateProduct(c) \/ CreateCustomer(c) \/ ImportJson(c)

LEMMA ActionEngineStep ==
    ASSUME Inv1, NEW c \in Clients,
           \/ Calling(c) \/ Browse(c) \/ OtherMethod(c) \/ BeginItem(c) \/ EndCall(c)
           \/ Statement(c) \/ Refusing(c)
    PROVE  EngineStep(c)
<1> USE DEF EngineStep
<1> Ready(c)
  BY DEF Inv1, AllReady
<1>1. CASE Calling(c) \/ Browse(c) \/ OtherMethod(c) \/ BeginItem(c) \/ EndCall(c)
  BY <1>1 DEF Calling, CreateProduct, CreateCustomer, ImportJson, Call, Browse, OtherMethod,
              BeginItem, EndCall, Fail
<1>2. CASE Refusing(c)
  BY <1>2 DEF Refusing, LockError, CommitReplyLost, Disconnect
<1>3. CASE FindCategory(c) \/ CommitCategory(c) \/ CommitRow(c)
  BY <1>3 DEF FindCategory, CommitCategory, CommitRow
<1>4. ASSUME NEW r \in Rows, DuplicateKey(c, r) PROVE EngineStep(c)
  <2>1. NextKey(r) \in SUBSET Rows
    BY DEF NextKey
  <2>2. QED
    BY <1>4, <2>1 DEF DuplicateKey
<1>5. ASSUME NEW r \in Rows, NEW v \in ValuesOf(r) \ {Absent}, NEW parents \in SUBSET Rows,
             InsertRow(c, r, v, parents),
             r \in ProdRows => pc[c] = "insert_product" /\ v = Entry(c)
      PROVE  EngineStep(c)
  BY <1>5 DEF InsertRow
<1>6. CASE InsertCategory(c)
  <2> DEFINE r == Cat(This(c).category)
  <2>1. /\ r \in Rows /\ nextId.categories \in ValuesOf(r) \ {Absent} /\ r \notin ProdRows
    <3>1. job[c].left # <<>> /\ This(c).category \in Names /\ pc[c] \in BeforeCategory
      BY <1>6 DEF InsertCategory, Ready, FormLabels, BeforeCategory
    <3>2. nextId.categories \in Ids
      BY <3>1, IdsLeft DEF Inv1
    <3>3. r \notin ProdRows
      BY DEF Cat, ProdRows, Prod
    <3>4. QED
      BY <3>1, <3>2, <3>3, RowsAndValues, Present
  <2>2. CASE InsertRow(c, r, nextId.categories, {})
    BY <2>1, <2>2, <1>5
  <2>3. CASE DuplicateKey(c, r)
    BY <2>1, <2>3, <1>4
  <2>4. QED
    BY <1>6, <2>2, <2>3 DEF InsertCategory
<1>7. CASE InsertProduct(c)
  <2> DEFINE r == Prod(nextId.products)
             v == Entry(c)
             parents == {q \in CatRows : newest[q] = job[c].category}
  <2>1. /\ r \in Rows /\ v \in ValuesOf(r) \ {Absent} /\ parents \in SUBSET Rows
    <3>1. /\ job[c].left # <<>> /\ This(c).category \in Names /\ job[c].category \in Ids
          /\ pc[c] \in BeforeProduct
      BY <1>7 DEF InsertProduct, Ready, FormLabels, BeforeProduct
    <3>2. nextId.products \in Ids
      BY <3>1, IdsLeft DEF Inv1
    <3>3. v \in [category : Ids, asked : Names]
      BY <3>1 DEF Entry
    <3>4. QED
      BY <3>2, <3>3, RowsAndValues, Present DEF Rows
  <2>2. CASE InsertRow(c, r, v, parents)
    BY <1>7, <2>1, <2>2, <1>5 DEF InsertProduct
  <2>3. QED
    BY <1>7, <2>2 DEF InsertProduct, Fail, Entry
<1>8. CASE InsertCustomer(c)
  <2> DEFINE r == Cust(This(c).email)
  <2>1. r \in Rows /\ This(c).email \in ValuesOf(r) \ {Absent}
    BY <1>8, RowsAndValues, Present DEF InsertCustomer, Ready
  <2> r \notin ProdRows
    BY DEF Cust, ProdRows, Prod
  <2>2. CASE InsertRow(c, r, This(c).email, {})
    BY <2>1, <2>2, <1>5
  <2>3. CASE DuplicateKey(c, r)
    BY <2>1, <2>3, <1>4
  <2>4. QED
    BY <1>8, <2>2, <2>3 DEF InsertCustomer
<1>9. QED
  BY <1>1, <1>2, <1>3, <1>6, <1>7, <1>8 DEF Statement

-----------------------------------------------------------------------------
Errors == {"invalid", "hidden", "duplicate", "lock", "no category", "lost"}

(* A step of client c that calls no handler goes on in its list or ends it.*)
Advances(c) ==
    \/ /\ job'[c].left = job[c].left
       /\ pc'[c] \in BeforeCategory => pc[c] \in BeforeCategory
       /\ pc'[c] \in BeforeProduct => pc[c] \in BeforeProduct
    \/ job[c].left # <<>> /\ job'[c].left = Tail(job[c].left)
    \/ job'[c].left = <<>>

(* No other client is concerned.                                           *)
Alone(c) ==
    \A d \in Clients \ {c} : pc'[d] = pc[d] /\ job'[d] = job[d] /\ report'[d] = report[d]

(* The end of an item.                                                     *)
LEMMA EndItemJob ==
    ASSUME JobTypes, NEW c \in Clients, Ready(c), job[c].left # <<>>, job[c].op # "none",
           NEW rows \in SUBSET Rows, NEW errors \in SUBSET Errors, EndItem(c, rows, errors),
           UNCHANGED <<report, nextId, items>>
    PROVE  JobTypes' /\ Ready(c)' /\ Alone(c) /\ Advances(c)
<1> DEFINE j == job'[c]
<1>1. /\ j.op = job[c].op /\ j.given = job[c].given /\ j.left = Tail(job[c].left)
      /\ j.category = Absent /\ j.row = Absent
      /\ j.saved = job[c].saved \cup rows /\ j.errors = job[c].errors \cup errors
      /\ j \in Job /\ job' = [job EXCEPT ![c] = j]
  <2>1. job[c] \in Job /\ Tail(job[c].left) \in Items
    BY Lists DEF JobTypes
  <2>2. /\ job[c].saved \cup rows \in SUBSET Rows
        /\ job[c].errors \cup errors \in SUBSET Errors
    BY <2>1 DEF Job, Errors
  <2>3. QED
    BY <2>1, <2>2 DEF EndItem, JobTypes, Job, Errors
<1>2. pc' = [pc EXCEPT ![c] = "item"] /\ "item" \in Labels
  BY DEF EndItem, Goto, Labels
<1>3. JobTypes'
  BY <1>1, <1>2 DEF JobTypes
<1>4. Ready(c)'
  <2>1. pc'[c] = "item"
    BY <1>2 DEF JobTypes
  <2>2. job[c].op = "create_customer" => j.left \in Seq(Person)
    BY <1>1, FirstItem DEF Ready
  <2>3. job[c].op \in FormOps => j.left \in Seq(Form)
    BY <1>1, FirstItem DEF Ready
  <2>4. QED
    BY <1>1, <2>1, <2>2, <2>3 DEF Ready, FormLabels
<1>5. Alone(c)
  BY <1>1, <1>2 DEF Alone, JobTypes
<1>6. Advances(c)
  BY <1>1 DEF Advances
<1>7. QED
  BY <1>3, <1>4, <1>5, <1>6

(* The next statement of the same item: its label, and what the handler has*)
(* found out for it.                                                       *)
LEMMA MoveJob ==
    ASSUME JobTypes, NEW c \in Clients, NEW label \in Labels, NEW j \in Job,
           j.left = job[c].left,
           Goto(c, label), job' = [job EXCEPT ![c] = j], report' = report,
           nextId' \in [categories : Nat \ {0}, products : Nat \ {0}], items' = items
    PROVE  JobTypes' /\ Alone(c) /\ pc'[c] = label /\ job'[c] = j
  BY DEF JobTypes, Goto, Alone

(* A handler is called with a list.                                        *)
Starts(c) ==
    /\ job[c].left = <<>> /\ pc'[c] = "item"
    /\ Len(job'[c].left) \in Nat
    /\ items' = items + Len(job'[c].left) /\ nextId' = nextId

(* What a handler is called with.                                          *)
LEMMA CallJob ==
    ASSUME JobTypes, NEW c \in Clients, Ready(c), Calling(c)
    PROVE  JobTypes' /\ Ready(c)' /\ Alone(c) /\ Starts(c)
<1>1. ASSUME NEW op \in {"create_product", "create_customer", "import_json"}, NEW input,
             op = "create_customer" => input \in Seq(Person),
             op \in FormOps => input \in Seq(Form),
             Call(c, op, input)
      PROVE  JobTypes' /\ Ready(c)' /\ Alone(c) /\ Starts(c)
  <2> DEFINE j == [NoJob EXCEPT !.op = op, !.given = input, !.left = input]
  <2>1. input \in Items /\ Len(input) \in Nat
    BY <1>1 DEF Items, FormOps
  <2>2. /\ j.op = op /\ j.left = input
        /\ j \in Job
    BY <2>1 DEF NoJob, Job
  <2>3. /\ pc[c] = "idle" /\ job' = [job EXCEPT ![c] = j]
        /\ pc' = [pc EXCEPT ![c] = "item"] /\ "item" \in Labels
        /\ items + Len(input) <= MaxItems /\ items' = items + Len(input)
        /\ UNCHANGED <<nextId, report>>
    BY <1>1 DEF Call, Goto, Labels
  <2> HIDE DEF j
  <2>4. JobTypes'
    BY <2>1, <2>2, <2>3, CatalogAssumption DEF JobTypes, CatalogAssumption
  <2>5. Ready(c)'
    <3>1. job'[c] = j /\ pc'[c] = "item"
      BY <2>3 DEF JobTypes
    <3>2. QED
      BY <1>1, <2>2, <3>1 DEF Ready, FormLabels
  <2>6. Alone(c)
    BY <2>3 DEF Alone, JobTypes
  <2>7. Starts(c)
    <3>1. job[c].left = <<>>
      BY <2>3 DEF Ready, NoJob
    <3>2. QED
      BY <2>1, <2>2, <2>3, <3>1 DEF Starts, JobTypes
  <2>8. QED
    BY <2>4, <2>5, <2>6, <2>7
<1>2. CASE CreateProduct(c)
  <2>1. \A form \in Forms : <<form>> \in Seq(Form)
    BY CatalogAssumption DEF CatalogAssumption
  <2>2. QED
    BY <1>1, <1>2, <2>1 DEF CreateProduct, FormOps
<1>3. CASE CreateCustomer(c)
  <2>1. \A person \in Person : <<person>> \in Seq(Person)
    OBVIOUS
  <2>2. QED
    BY <1>1, <1>3, <2>1 DEF CreateCustomer, FormOps
<1>4. CASE ImportJson(c)
  <2>1. \A file \in Files : file \in Seq(Form)
    BY CatalogAssumption DEF CatalogAssumption
  <2>2. QED
    BY <1>1, <1>4, <2>1 DEF ImportJson, FormOps
<1>5. QED
  BY <1>2, <1>3, <1>4 DEF Calling

(* A step that hands out no id.                                            *)
Quiet(c) ==
    /\ JobTypes' /\ Ready(c)' /\ Alone(c) /\ Advances(c)
    /\ UNCHANGED <<nextId, items>>

(* An exception, or the end of a save.                                     *)
LEMMA EndQuiet ==
    ASSUME JobTypes, NEW c \in Clients, Ready(c), job[c].left # <<>>, job[c].op # "none",
           UNCHANGED <<report, nextId, items>>,
           \/ \E why \in Errors : Raises(c, why)
           \/ \E r \in Rows : Saved(c, r)
    PROVE  Quiet(c)
<1>1. ASSUME NEW why \in Errors, Raises(c, why) PROVE Quiet(c)
  <2>1. {why} \in SUBSET Errors /\ {} \in SUBSET Rows /\ EndItem(c, {}, {why})
    BY <1>1 DEF Raises
  <2>2. QED
    BY <2>1, EndItemJob DEF Quiet
<1>2. ASSUME NEW r \in Rows, Saved(c, r) PROVE Quiet(c)
  <2>1. {r} \in SUBSET Rows /\ {} \in SUBSET Errors /\ EndItem(c, {r}, {})
    BY <1>2 DEF Saved
  <2>2. QED
    BY <2>1, EndItemJob DEF Quiet
<1>3. QED
  BY <1>1, <1>2

(* The screens, and the errors of lock waits, replies and connections.     *)
LEMMA RefusedQuiet ==
    ASSUME JobTypes, NEW c \in Clients, Ready(c),
           Browse(c) \/ OtherMethod(c) \/ Refusing(c)
    PROVE  Quiet(c)
<1>1. CASE UNCHANGED <<pc, job, report, nextId, items>>
  <2>1. JobTypes' /\ Alone(c) /\ Advances(c)
    BY <1>1 DEF JobTypes, Alone, Advances
  <2>2. Ready(c)'
    BY <1>1 DEF Ready, This
  <2>3. QED
    BY <1>1, <2>1, <2>2 DEF Quiet
<1>2. CASE Browse(c) \/ OtherMethod(c)
  BY <1>1, <1>2 DEF Browse, OtherMethod
<1>3. pc[c] \notin {"idle", "item"} => job[c].left # <<>> /\ job[c].op # "none"
  BY DEF Ready
<1>4. CASE LockError(c)
  <2>1. pc[c] \notin {"idle", "item"}
    BY <1>4 DEF LockError, Waits, KeyOf
  <2>2. QED
    BY <1>3, <1>4, <2>1, EndQuiet DEF LockError, Errors
<1>5. CASE CommitReplyLost(c)
  BY <1>3, <1>5, EndQuiet DEF CommitReplyLost, Errors
<1>6. CASE Disconnect(c)
  <2>1. CASE pc[c] \in {"idle", "item"}
    BY <1>1, <1>6, <2>1 DEF Disconnect
  <2>2. CASE pc[c] \notin {"idle", "item"}
    <3>1. Raises(c, "lost") /\ UNCHANGED <<report, nextId, items>>
      BY <1>6, <2>2 DEF Disconnect
    <3>2. QED
      BY <1>3, <2>2, <3>1, EndQuiet DEF Errors
  <2>3. QED
    BY <2>1, <2>2
<1>7. QED
  BY <1>2, <1>4, <1>5, <1>6 DEF Refusing

(* BeginItem and EndCall.                                                  *)
LEMMA ItemQuiet ==
    ASSUME JobTypes, NEW c \in Clients, Ready(c), BeginItem(c) \/ EndCall(c)
    PROVE  Quiet(c)
<1> USE DEF Quiet
<1>1. CASE BeginItem(c) /\ RefusedAtOnce(c)
  <2>1. job[c].left # <<>> /\ job[c].op # "none" /\ Raises(c, "invalid")
        /\ UNCHANGED <<report, nextId, items>>
    BY <1>1 DEF BeginItem, Fail, Ready
  <2>2. QED
    BY <2>1, EndQuiet DEF Errors
<1>2. CASE BeginItem(c) /\ ~RefusedAtOnce(c)
  <2> DEFINE label == IF job[c].op = "create_customer" THEN "insert_customer"
                                                       ELSE "find_category"
  <2>1. /\ label \in Labels /\ job[c] \in Job /\ Goto(c, label) /\ pc[c] = "item"
        /\ job' = job /\ UNCHANGED <<report, nextId, items>> /\ job[c].left # <<>>
        /\ job' = [job EXCEPT ![c] = job[c]]
    BY <1>2 DEF BeginItem, Labels, JobTypes
  <2>2. JobTypes' /\ Alone(c) /\ pc'[c] = label /\ job'[c] = job[c]
    <3>1. nextId' \in [categories : Nat \ {0}, products : Nat \ {0}]
      BY <2>1 DEF JobTypes
    <3> HIDE DEF label
    <3>2. QED
      BY <2>1, <3>1, MoveJob
  <2>3. Ready(c)'
    <3>1. CASE job[c].op = "create_customer"
      <4>1. This(c) \in Person /\ This(c).email # Empty
        BY <1>2, <2>1, <3>1, FirstItem DEF RefusedAtOnce, Ready, This
      <4>2. This(c).email \in Emails
        BY <4>1 DEF Person
      <4>3. QED
        BY <2>1, <2>2, <3>1, <4>2 DEF Ready, This, FormLabels
    <3>2. CASE job[c].op # "create_customer"
      <4>1. job[c].op \in FormOps
        BY <2>1, <3>2 DEF Ready, FormOps, Job
      <4>2. This(c) \in Form /\ This(c).category # Empty
        BY <1>2, <2>1, <3>2, <4>1, FirstItem DEF RefusedAtOnce, Ready, This
      <4>3. This(c).category \in Names
        BY <4>2 DEF Form
      <4>4. QED
        BY <2>1, <2>2, <3>2, <4>1, <4>3 DEF Ready, This, FormLabels
    <3>3. QED
      BY <3>1, <3>2
  <2>4. Advances(c)
    BY <2>1, <2>2 DEF Advances, BeforeCategory, BeforeProduct
  <2>5. QED
    BY <2>1, <2>2, <2>3, <2>4
<1>3. CASE EndCall(c)
  <2>1. /\ NoJob \in Job /\ job' = [job EXCEPT ![c] = NoJob]
        /\ pc' = [pc EXCEPT ![c] = "idle"] /\ "idle" \in Labels
        /\ report' = [report EXCEPT ![c] = job[c]] /\ UNCHANGED <<nextId, items>>
    BY <1>3 DEF EndCall, Goto, Labels, NoJob, Job, Items
  <2>2. JobTypes' /\ Alone(c) /\ job'[c] = NoJob /\ pc'[c] = "idle"
    BY <2>1 DEF JobTypes, Alone
  <2>3. Ready(c)'
    BY <2>2 DEF Ready, NoJob, FormOps, FormLabels
  <2>4. Advances(c)
    BY <2>2 DEF Advances, NoJob
  <2>5. QED
    BY <2>1, <2>2, <2>3, <2>4
<1>4. QED
  BY <1>1, <1>2, <1>3

(* The statements of Category.save, and the form after it.                 *)
LEMMA CategoryQuiet ==
    ASSUME Types, NEW c \in Clients, Ready(c), FindCategory(c) \/ CommitCategory(c)
    PROVE  Quiet(c)
<1> USE DEF Quiet
<1>0. /\ job[c].left # <<>> /\ job[c].op \in FormOps /\ This(c).category \in Names
      /\ job[c] \in Job /\ UNCHANGED <<report, nextId, items>>
      /\ nextId' \in [categories : Nat \ {0}, products : Nat \ {0}]
  BY DEF FindCategory, CommitCategory, Ready, FormLabels, Types, JobTypes
<1>1. CASE FindCategory(c)
  <2> DEFINE found == Seen(c, Cat(This(c).category))
             label == IF found # Absent THEN "commit_category" ELSE "insert_category"
             j == [job[c] EXCEPT !.category = found]
  <2>1. found \in Ids \cup {Absent}
    BY <1>0, SeenValue, RowsAndValues DEF Types
  <2>2. /\ Goto(c, label) /\ job' = [job EXCEPT ![c].category = found]
        /\ pc[c] = "find_category"
    BY <1>1 DEF FindCategory
  <2> HIDE DEF found
  <2>3. /\ j \in Job /\ j.left = job[c].left /\ j.op = job[c].op /\ j.category = found
        /\ label \in Labels
    BY <1>0, <2>1 DEF Job, Labels
  <2>4. job' = [job EXCEPT ![c] = j]
    BY <2>2 DEF Types, JobTypes
  <2> HIDE DEF j
  <2>5. JobTypes' /\ Alone(c) /\ pc'[c] = label /\ job'[c] = j
    <3> HIDE DEF label
    <3>1. JobTypes /\ Goto(c, label) /\ report' = report /\ items' = items
      BY <1>0, <2>2 DEF Types
    <3>2. QED
      BY <1>0, <2>3, <2>4, <3>1, MoveJob
  <2>6. Ready(c)'
    BY <1>0, <2>1, <2>3, <2>5 DEF Ready, This, FormLabels, FormOps
  <2>7. Advances(c)
    BY <2>2, <2>3, <2>5 DEF Advances, BeforeCategory, BeforeProduct
  <2>8. QED
    BY <1>0, <2>5, <2>6, <2>7
<1>2. CASE CommitCategory(c) /\ This(c).defect # "none"
  <2>1. Raises(c, "invalid")
    BY <1>2 DEF CommitCategory, CheckForm
  <2>2. QED
    BY <1>0, <2>1, EndQuiet DEF Errors, Types, FormOps
<1>3. CASE CommitCategory(c) /\ This(c).defect = "none"
  <2>1. /\ Goto(c, "insert_product") /\ job' = job /\ pc[c] = "commit_category"
        /\ "insert_product" \in Labels /\ job' = [job EXCEPT ![c] = job[c]]
    BY <1>3 DEF CommitCategory, CheckForm, Labels, Types, JobTypes
  <2>2. JobTypes' /\ Alone(c) /\ pc'[c] = "insert_product" /\ job'[c] = job[c]
    BY <1>0, <2>1, MoveJob DEF Types
  <2>3. Ready(c)'
    BY <1>0, <2>1, <2>2 DEF Ready, This, FormLabels, FormOps
  <2>4. Advances(c)
    BY <2>1, <2>2 DEF Advances, BeforeCategory, BeforeProduct
  <2>5. QED
    BY <1>0, <2>2, <2>3, <2>4
<1>4. QED
  BY <1>1, <1>2, <1>3

(* The end of Product.save and Customer.save, and what it inserted.        *)
LEMMA RowQuiet ==
    ASSUME Types, NEW c \in Clients, Ready(c), CommitRow(c) \/ InsertCustomer(c)
    PROVE  Quiet(c)
<1> USE DEF Quiet
<1>0. /\ job[c].left # <<>> /\ job[c].op # "none" /\ job[c] \in Job
      /\ UNCHANGED <<report, items>>
  BY DEF CommitRow, InsertCustomer, Ready, Types, JobTypes
<1>1. CASE CommitRow(c)
  BY <1>0, <1>1, EndQuiet DEF CommitRow, Ready, Types
<1>2. ASSUME NEW r, pc[c] = "insert_customer", DuplicateKey(c, r) PROVE Quiet(c)
  BY <1>0, <1>2, EndQuiet DEF DuplicateKey, Errors, Types
<1>3. ASSUME NEW r \in Rows, pc[c] = "insert_customer", job' = [job EXCEPT ![c].row = r],
             Goto(c, "commit_row"), UNCHANGED nextId
      PROVE  Quiet(c)
  <2> DEFINE j == [job[c] EXCEPT !.row = r]
  <2>1. /\ j \in Job /\ j.left = job[c].left /\ j.op = job[c].op /\ j.row = r
        /\ "commit_row" \in Labels
    BY <1>0 DEF Job, Labels
  <2>2. job' = [job EXCEPT ![c] = j]
    BY <1>3 DEF Types, JobTypes
  <2> HIDE DEF j
  <2>3. JobTypes' /\ Alone(c) /\ pc'[c] = "commit_row" /\ job'[c] = j
    <3>1. nextId' \in [categories : Nat \ {0}, products : Nat \ {0}]
      BY <1>3 DEF Types, JobTypes
    <3>2. JobTypes /\ Goto(c, "commit_row") /\ report' = report /\ items' = items
      BY <1>0, <1>3 DEF Types
    <3>3. QED
      BY <2>1, <2>2, <3>1, <3>2, MoveJob
  <2>4. Ready(c)'
    BY <1>0, <1>3, <2>1, <2>3 DEF Ready, FormLabels, FormOps
  <2>5. Advances(c)
    BY <2>1, <2>3 DEF Advances, BeforeCategory, BeforeProduct
  <2>6. QED
    BY <1>0, <1>3, <2>3, <2>4, <2>5
<1>4. CASE InsertCustomer(c)
  <2>1. Cust(This(c).email) \in Rows
    BY <1>4, RowsAndValues DEF InsertCustomer, Ready
  <2>2. QED
    BY <1>2, <1>3, <1>4, <2>1 DEF InsertCustomer
<1>5. QED
  BY <1>1, <1>4

(* A step that hands out an id for the item under way, which needs no other*)
(* of that table.                                                          *)
HandsOut(c) ==
    /\ JobTypes' /\ Ready(c)' /\ Alone(c) /\ Advances(c) /\ items' = items
    /\ job[c].left # <<>> /\ job'[c].left = job[c].left
    /\ \/ /\ nextId' = [nextId EXCEPT !.categories = @ + 1]
          /\ pc[c] \in BeforeCategory /\ pc'[c] \notin BeforeCategory
       \/ /\ nextId' = [nextId EXCEPT !.products = @ + 1]
          /\ pc[c] \in BeforeProduct /\ pc'[c] \notin BeforeProduct

(* INSERT INTO categories.                                                 *)
LEMMA CategoryHandsOut ==
    ASSUME Inv1, NEW c \in Clients, InsertCategory(c)
    PROVE  HandsOut(c) \/ Quiet(c)
<1>0. /\ job[c].left # <<>> /\ job[c].op \in FormOps /\ This(c).category \in Names
      /\ job[c] \in Job /\ UNCHANGED <<report, items>> /\ JobTypes /\ Ready(c)
      /\ pc[c] = "insert_category" /\ pc[c] \in BeforeCategory
  BY DEF InsertCategory, Inv1, AllReady, Ready, FormLabels, Types, JobTypes, BeforeCategory
<1>1. CASE DuplicateKey(c, Cat(This(c).category))
  BY <1>0, <1>1, EndQuiet DEF DuplicateKey, Errors, FormOps
<1>2. CASE ~DuplicateKey(c, Cat(This(c).category))
  <2> DEFINE j == [job[c] EXCEPT !.category = nextId.categories]
  <2>1. nextId.categories \in Ids
    BY <1>0, IdsLeft DEF Inv1
  <2>2. /\ Goto(c, "commit_category") /\ nextId' = [nextId EXCEPT !.categories = @ + 1]
        /\ job' = [job EXCEPT ![c].category = nextId.categories]
    BY <1>2 DEF InsertCategory
  <2>3. /\ j \in Job /\ j.left = job[c].left /\ j.op = job[c].op
        /\ j.category \in Ids /\ "commit_category" \in Labels
    BY <1>0, <2>1 DEF Job, Labels
  <2>4. job' = [job EXCEPT ![c] = j]
    BY <1>0, <2>2 DEF JobTypes
  <2> HIDE DEF j
  <2>5. nextId' \in [categories : Nat \ {0}, products : Nat \ {0}]
    BY <1>0, <2>2 DEF JobTypes
  <2>6. JobTypes' /\ Alone(c) /\ pc'[c] = "commit_category" /\ job'[c] = j
    <3>1. JobTypes /\ Goto(c, "commit_category") /\ report' = report /\ items' = items
      BY <1>0, <2>2
    <3>2. QED
      BY <2>3, <2>4, <2>5, <3>1, MoveJob
  <2>7. Ready(c)'
    BY <1>0, <2>3, <2>6 DEF Ready, This, FormLabels, FormOps
  <2>8. Advances(c)
    BY <1>0, <2>3, <2>6 DEF Advances, BeforeCategory, BeforeProduct
  <2>9. QED
    BY <1>0, <2>2, <2>3, <2>6, <2>7, <2>8 DEF HandsOut, BeforeCategory
<1>3. QED
  BY <1>1, <1>2

(* INSERT INTO products.                                                   *)
LEMMA ProductHandsOut ==
    ASSUME Inv1, NEW c \in Clients, InsertProduct(c)
    PROVE  HandsOut(c) \/ Quiet(c)
<1>0. /\ job[c].left # <<>> /\ job[c].op \in FormOps
      /\ job[c] \in Job /\ UNCHANGED <<report, items>> /\ JobTypes /\ Ready(c)
      /\ pc[c] = "insert_product" /\ pc[c] \in BeforeProduct
  BY DEF InsertProduct, Inv1, AllReady, Ready, FormLabels, Types, JobTypes, BeforeProduct
<1>1. CASE Fail(c, "no category")
  BY <1>0, <1>1, EndQuiet DEF Fail, Errors, FormOps
<1>2. CASE ~Fail(c, "no category")
  <2> DEFINE r == Prod(nextId.products)
             j == [job[c] EXCEPT !.row = r]
  <2>1. nextId.products \in Ids /\ r \in Rows
    BY <1>0, IdsLeft, RowsAndValues DEF Inv1
  <2>2. /\ Goto(c, "commit_row") /\ nextId' = [nextId EXCEPT !.products = @ + 1]
        /\ job' = [job EXCEPT ![c].row = r]
    BY <1>2 DEF InsertProduct
  <2> HIDE DEF r
  <2>3. /\ j \in Job /\ j.left = job[c].left /\ j.op = job[c].op
        /\ j.row \in Rows /\ "commit_row" \in Labels
    BY <1>0, <2>1 DEF Job, Labels
  <2>4. job' = [job EXCEPT ![c] = j]
    BY <1>0, <2>2 DEF JobTypes
  <2> HIDE DEF j
  <2>5. nextId' \in [categories : Nat \ {0}, products : Nat \ {0}]
    BY <1>0, <2>2 DEF JobTypes
  <2>6. JobTypes' /\ Alone(c) /\ pc'[c] = "commit_row" /\ job'[c] = j
    <3>1. JobTypes /\ Goto(c, "commit_row") /\ report' = report /\ items' = items
      BY <1>0, <2>2
    <3>2. QED
      BY <2>3, <2>4, <2>5, <3>1, MoveJob
  <2>7. Ready(c)'
    BY <1>0, <2>3, <2>6 DEF Ready, This, FormLabels, FormOps
  <2>8. Advances(c)
    BY <1>0, <2>3, <2>6 DEF Advances, BeforeCategory, BeforeProduct
  <2>9. QED
    BY <1>0, <2>2, <2>3, <2>6, <2>7, <2>8 DEF HandsOut, BeforeProduct
<1>3. QED
  BY <1>1, <1>2

Action(c) ==
    \/ Calling(c) \/ Browse(c) \/ OtherMethod(c) \/ BeginItem(c) \/ EndCall(c)
    \/ Statement(c) \/ Refusing(c)

JobStep(c) ==
    \/ Quiet(c)
    \/ HandsOut(c)
    \/ JobTypes' /\ Ready(c)' /\ Alone(c) /\ Starts(c)

(* Every action does one of the three things to the handlers.              *)
LEMMA ActionJobStep ==
    ASSUME Inv1, NEW c \in Clients, Action(c)
    PROVE  JobStep(c)
<1> Types /\ JobTypes /\ Ready(c)
  BY DEF Inv1, AllReady, Types
<1> QED
  BY CallJob, RefusedQuiet, ItemQuiet, CategoryQuiet, RowQuiet, CategoryHandsOut,
     ProductHandsOut DEF Action, Statement, JobStep

-----------------------------------------------------------------------------
(* A step that calls no handler leaves no more items to do.                *)
LEMMA TodoShrinks ==
    ASSUME JobTypes, JobTypes', NEW c \in Clients, Alone(c), Advances(c),
           NEW labels \in {BeforeCategory, BeforeProduct}
    PROVE  /\ Todo(labels)' \subseteq Todo(labels)
           /\ job'[c].left = job[c].left /\ pc'[c] \notin labels
                => <<c, Len(job[c].left)>> \notin Todo(labels)'
<1> job[c] \in Job
  BY DEF JobTypes
<1>1. ASSUME NEW x \in Todo(labels)' PROVE x \in Todo(labels)
  <2>1. PICK d \in Clients, i \in Nat \ {0} :
          /\ x = <<d, i>> /\ i <= Len(job'[d].left)
          /\ i = Len(job'[d].left) => pc'[d] \in labels
    BY <1>1 DEF Todo
  <2>2. CASE d # c
    BY <2>1, <2>2 DEF Alone, Todo
  <2>3. CASE d = c /\ job'[c].left = job[c].left
    <3>1. CASE /\ pc'[c] \in BeforeCategory => pc[c] \in BeforeCategory
               /\ pc'[c] \in BeforeProduct => pc[c] \in BeforeProduct
      BY <2>1, <2>3, <3>1 DEF Todo
    <3>2. CASE job[c].left # <<>> /\ job'[c].left = Tail(job[c].left)
      BY <2>3, <3>2, Lists
    <3>3. CASE job'[c].left = <<>>
      BY <2>1, <2>3, <3>3
    <3>4. QED
      BY <3>1, <3>2, <3>3 DEF Advances
  <2>4. CASE d = c /\ job[c].left # <<>> /\ job'[c].left = Tail(job[c].left)
    <3>1. i < Len(job[c].left)
      BY <2>1, <2>4, Lists
    <3>2. QED
      BY <2>1, <2>4, <3>1, Lists DEF Todo
  <2>5. CASE d = c /\ job'[c].left = <<>>
    BY <2>1, <2>5
  <2>6. QED
    BY <2>2, <2>3, <2>4, <2>5 DEF Advances
<1>2. ASSUME job'[c].left = job[c].left, pc'[c] \notin labels
      PROVE  <<c, Len(job[c].left)>> \notin Todo(labels)'
  BY <1>2 DEF Todo
<1>3. QED
  BY <1>1, <1>2

(* Fewer elements, and at least one less when one of them has gone.        *)
LEMMA FewerElements ==
    ASSUME NEW S, IsFiniteSet(S), NEW T \in SUBSET S
    PROVE  /\ IsFiniteSet(T) /\ Cardinality(T) \in Nat /\ Cardinality(S) \in Nat
           /\ Cardinality(T) <= Cardinality(S)
           /\ (\E x \in S : x \notin T) => Cardinality(T) + 1 <= Cardinality(S)
<1>1. /\ IsFiniteSet(T) /\ Cardinality(T) <= Cardinality(S)
      /\ Cardinality(S) = Cardinality(T) => S = T
  BY FS_Subset
<1>2. Cardinality(T) \in Nat /\ Cardinality(S) \in Nat
  BY <1>1, FS_CardinalityType
<1>3. QED
  BY <1>1, <1>2

(* A handler called with n items has n more to do.                         *)
LEMMA TodoGrows ==
    ASSUME JobTypes, JobTypes', NEW c \in Clients, Alone(c), Starts(c),
           NEW labels \in {BeforeCategory, BeforeProduct}, IsFiniteSet(Todo(labels)),
           NEW n, n = Len(job'[c].left)
    PROVE  /\ n \in Nat /\ IsFiniteSet(Todo(labels)')
           /\ Cardinality(Todo(labels)') = Cardinality(Todo(labels)) + n
<1> DEFINE new == {c} \X (1..n)
<1>1. n \in Nat /\ Len(job[c].left) = 0
  BY Lists DEF Starts, JobTypes
<1>2. IsFiniteSet(new) /\ Cardinality(new) = n
  <2>1. IsFiniteSet({c}) /\ Cardinality({c}) = 1
    BY FS_Singleton
  <2>2. IsFiniteSet(1..n) /\ Cardinality(1..n) = n
    <3>1. /\ IsFiniteSet(1..n)
          /\ Cardinality(1..n) = IF 1 > n THEN 0 ELSE n - 1 + 1
      <4>1. 1 \in Int /\ n \in Int
        BY <1>1
      <4>2. QED
        BY <4>1, FS_Interval, Zenon
    <3>2. QED
      BY <1>1, <3>1
  <2>3. /\ IsFiniteSet({c} \X (1..n))
        /\ Cardinality({c} \X (1..n)) = Cardinality({c}) * Cardinality(1..n)
    BY <2>1, <2>2, FS_Product
  <2>4. QED
    BY <1>1, <2>1, <2>2, <2>3
<1>3. Todo(labels)' = Todo(labels) \cup new
  <2>1. ASSUME NEW x \in Todo(labels)' PROVE x \in Todo(labels) \cup new
    <3>1. PICK d \in Clients, i \in Nat \ {0} :
            /\ x = <<d, i>> /\ i <= Len(job'[d].left)
            /\ i = Len(job'[d].left) => pc'[d] \in labels
      BY <2>1 DEF Todo
    <3>2. CASE d # c
      BY <3>1, <3>2 DEF Alone, Todo
    <3>3. CASE d = c
      BY <3>1, <3>3, <1>1
    <3>4. QED
      BY <3>2, <3>3
  <2>2. ASSUME NEW x \in Todo(labels) PROVE x \in Todo(labels)'
    <3>1. PICK d \in Clients, i \in Nat \ {0} :
            /\ x = <<d, i>> /\ i <= Len(job[d].left)
            /\ i = Len(job[d].left) => pc[d] \in labels
      BY <2>2 DEF Todo
    <3>2. d # c
      BY <1>1, <3>1
    <3>3. QED
      BY <3>1, <3>2 DEF Alone, Todo
  <2>3. ASSUME NEW x \in new PROVE x \in Todo(labels)'
    <3>1. PICK i \in 1..n : x = <<c, i>>
      OBVIOUS
    <3>2. i \in Nat \ {0} /\ i <= Len(job'[c].left) /\ pc'[c] \in labels
      BY <1>1 DEF BeforeCategory, BeforeProduct, Starts
    <3>3. QED
      BY <3>1, <3>2 DEF Todo
  <2>4. QED
    BY <2>1, <2>2, <2>3
<1>4. Todo(labels) \cap new = {}
  <2>1. ASSUME NEW x \in Todo(labels), x \in new PROVE FALSE
    <3>1. PICK i \in 1..n : x = <<c, i>>
      BY <2>1
    <3>2. i <= 0
      BY <1>1, <2>1, <3>1 DEF Todo
    <3>3. QED
      BY <3>2
  <2>2. QED
    BY <2>1
<1> HIDE DEF new
<1>5. /\ IsFiniteSet(Todo(labels) \cup new)
      /\ Cardinality(Todo(labels) \cup new)
           = Cardinality(Todo(labels)) + Cardinality(new)
             - Cardinality(Todo(labels) \cap new)
  BY <1>2, FS_Union
<1>6. Cardinality({}) = 0 /\ Cardinality(Todo(labels)) \in Nat
  BY FS_EmptySet, FS_CardinalityType
<1>7. Cardinality(Todo(labels) \cup new) = Cardinality(Todo(labels)) + n
  <2>1. /\ Cardinality(Todo(labels) \cap new) = 0
        /\ Cardinality(new) = n
    BY <1>2, <1>4, <1>6
  <2>2. QED
    BY <1>1, <1>5, <1>6, <2>1
<1>8. QED
  BY <1>1, <1>3, <1>5, <1>7, Zenon

(* Ids are counted against items, whatever the handlers do.                *)
LEMMA JobStepCounted ==
    ASSUME Inv1, NEW c \in Clients, JobStep(c)
    PROVE  Counted'
<1> DEFINE C == Todo(BeforeCategory)
           P == Todo(BeforeProduct)
<1>0. /\ JobTypes /\ JobTypes' /\ Alone(c)
      /\ nextId.categories \in Nat /\ nextId.products \in Nat /\ items \in Nat
      /\ nextId \in [categories : Nat \ {0}, products : Nat \ {0}]
      /\ job[c] \in Job
  BY DEF Inv1, Types, JobTypes, JobStep, Quiet, HandsOut
<1>1. /\ IsFiniteSet(C) /\ IsFiniteSet(P)
      /\ nextId.categories - 1 + Cardinality(C) <= items
      /\ nextId.products - 1 + Cardinality(P) <= items
  BY DEF Inv1, Counted
<1>2. Cardinality(C) \in Nat /\ Cardinality(P) \in Nat
  BY <1>1, FS_CardinalityType
<1>3. CASE Starts(c)
  <2>1. PICK n : n = Len(job'[c].left)
    OBVIOUS
  <2>2. /\ n \in Nat /\ IsFiniteSet(C') /\ IsFiniteSet(P')
        /\ Cardinality(C') = Cardinality(C) + n /\ Cardinality(P') = Cardinality(P) + n
    BY <1>0, <1>1, <1>3, <2>1, TodoGrows
  <2>3. nextId' = nextId /\ items' = items + n
    BY <1>3, <2>1 DEF Starts
  <2> HIDE DEF C, P
  <2>4. /\ nextId'.categories - 1 + Cardinality(C') <= items'
        /\ nextId'.products - 1 + Cardinality(P') <= items'
    BY <1>0, <1>1, <1>2, <2>2, <2>3
  <2>5. QED
    BY <2>2, <2>4 DEF Counted, C, P
<1>4. CASE Advances(c) /\ items' = items
  <2>1. C' \subseteq C /\ P' \subseteq P
    BY <1>0, <1>4, TodoShrinks
  <2>2. /\ IsFiniteSet(C') /\ Cardinality(C') \in Nat /\ Cardinality(C') <= Cardinality(C)
        /\ (\E x \in C : x \notin C') => Cardinality(C') + 1 <= Cardinality(C)
    <3> HIDE DEF C
    <3>1. QED
      BY <1>1, <2>1, FewerElements
  <2>3. /\ IsFiniteSet(P') /\ Cardinality(P') \in Nat /\ Cardinality(P') <= Cardinality(P)
        /\ (\E x \in P : x \notin P') => Cardinality(P') + 1 <= Cardinality(P)
    <3> HIDE DEF P
    <3>1. QED
      BY <1>1, <2>1, FewerElements
  <2>4. /\ nextId'.categories - 1 + Cardinality(C') <= items'
        /\ nextId'.products - 1 + Cardinality(P') <= items'
    <3>1. CASE nextId' = nextId
      <4> HIDE DEF C, P
      <4> QED
        BY <1>0, <1>1, <1>2, <1>4, <2>2, <2>3, <3>1
    <3>2. CASE /\ nextId' = [nextId EXCEPT !.categories = @ + 1] /\ job[c].left # <<>>
               /\ job'[c].left = job[c].left
               /\ pc[c] \in BeforeCategory /\ pc'[c] \notin BeforeCategory
      <4>1. <<c, Len(job[c].left)>> \notin C'
        BY <1>0, <1>4, <3>2, TodoShrinks
      <4>2. <<c, Len(job[c].left)>> \in C
        BY <1>0, <3>2, Lists DEF Todo
      <4>3. /\ nextId'.categories = nextId.categories + 1
            /\ nextId'.products = nextId.products
        BY <1>0, <3>2
      <4> HIDE DEF C, P
      <4>4. Cardinality(C') + 1 <= Cardinality(C)
        BY <2>2, <4>1, <4>2
      <4>5. QED
        BY <1>0, <1>1, <1>2, <1>4, <2>2, <2>3, <4>3, <4>4
    <3>3. CASE /\ nextId' = [nextId EXCEPT !.products = @ + 1] /\ job[c].left # <<>>
               /\ job'[c].left = job[c].left
               /\ pc[c] \in BeforeProduct /\ pc'[c] \notin BeforeProduct
      <4>1. <<c, Len(job[c].left)>> \notin P'
        BY <1>0, <1>4, <3>3, TodoShrinks
      <4>2. <<c, Len(job[c].left)>> \in P
        BY <1>0, <3>3, Lists DEF Todo
      <4>3. /\ nextId'.products = nextId.products + 1
            /\ nextId'.categories = nextId.categories
        BY <1>0, <3>3
      <4> HIDE DEF C, P
      <4>4. Cardinality(P') + 1 <= Cardinality(P)
        BY <2>3, <4>1, <4>2
      <4>5. QED
        BY <1>0, <1>1, <1>2, <1>4, <2>2, <2>3, <4>3, <4>4
    <3>4. nextId' = nextId \/ HandsOut(c)
      BY <1>4, <1>3 DEF JobStep, Quiet, Starts
    <3>5. QED
      BY <3>1, <3>2, <3>3, <3>4 DEF HandsOut
  <2>5. QED
    BY <2>2, <2>3, <2>4 DEF Counted
<1>5. QED
  BY <1>3, <1>4 DEF JobStep, Quiet, HandsOut

-----------------------------------------------------------------------------
(* At first nobody does anything.                                          *)
LEMMA InitInv1 == Init => Inv1
<1> SUFFICES ASSUME Init PROVE Inv1
  OBVIOUS
<1>1. \A r \in Rows : Absent \in ValuesOf(r)
  BY DEF Rows, CatRows, CustRows, ProdRows, Cat, Cust, Prod, ValuesOf
<1>2. EngineTypes
  BY <1>1 DEF Init, EngineInit, EngineTypes, IsContents
<1>3. NoJob \in Job
  BY DEF NoJob, Job, Items
<1>4. JobTypes
  BY <1>3, CatalogAssumption DEF Init, JobTypes, Labels, CatalogAssumption
<1>5. AllReady
  BY DEF Init, AllReady, Ready, NoJob, FormOps, FormLabels
<1>6. Counted
  <2>1. ASSUME NEW labels PROVE Todo(labels) = {}
    BY DEF Init, NoJob, Todo
  <2>2. QED
    BY <2>1, FS_EmptySet DEF Init, Counted
<1>7. QED
  BY <1>2, <1>4, <1>5, <1>6 DEF Inv1, Types

(* And every step keeps the types and the counts.                          *)
LEMMA StepInv1 == Inv1 /\ [Next]_vars => Inv1'
<1> SUFFICES ASSUME Inv1, [Next]_vars PROVE Inv1'
  OBVIOUS
<1>1. ASSUME NEW c \in Clients, Action(c) PROVE Inv1'
  <2>1. EngineTypes'
    BY <1>1, ActionEngineStep, EngineStepTypes DEF Action, Inv1, Types
  <2>2. JobStep(c)
    BY <1>1, ActionJobStep
  <2>3. AllReady'
    <3>1. \A d \in Clients \ {c} : Ready(d)'
      BY <2>2 DEF JobStep, Quiet, HandsOut, Alone, Inv1, AllReady, Ready, This
    <3>2. QED
      BY <2>2, <3>1 DEF JobStep, Quiet, HandsOut, AllReady
  <2>4. QED
    BY <2>1, <2>2, <2>3, JobStepCounted DEF Inv1, Types, JobStep, Quiet, HandsOut
<1>2. CASE UNCHANGED vars
  <2>1. Types' /\ AllReady'
    BY <1>2 DEF Inv1, Types, EngineTypes, IsContents, JobTypes, AllReady, Ready, This, vars,
                engine
  <2>2. Counted'
    BY <1>2 DEF Inv1, Counted, Todo, vars
  <2>3. QED
    BY <2>1, <2>2 DEF Inv1
<1>3. QED
  BY <1>1, <1>2 DEF Next, Proceed, Action, Statement, Refusing, Calling

(* Every variable holds values of its type, and the AUTO_INCREMENT counters*)
(* stay within the items the handlers were called with.                    *)
THEOREM CatalogTypes == Spec => []TypeOK
<1>1. Inv1 => TypeOK
  <2> SUFFICES ASSUME Inv1 PROVE TypeOK
    OBVIOUS
  <2>1. /\ nextId.categories - 1 + Cardinality(Todo(BeforeCategory)) <= items
        /\ nextId.products - 1 + Cardinality(Todo(BeforeProduct)) <= items
        /\ Cardinality(Todo(BeforeCategory)) \in Nat
        /\ Cardinality(Todo(BeforeProduct)) \in Nat
    BY FS_CardinalityType DEF Inv1, Counted
  <2>2. nextId \in [categories : 1..MaxItems + 1, products : 1..MaxItems + 1]
    <3>1. /\ nextId \in [categories : Nat \ {0}, products : Nat \ {0}]
          /\ items \in Nat /\ MaxItems \in Nat /\ items <= MaxItems
      BY CatalogAssumption DEF Inv1, Types, JobTypes, CatalogAssumption
    <3>2. nextId.categories <= MaxItems + 1 /\ nextId.products <= MaxItems + 1
      BY <2>1, <3>1
    <3>3. QED
      BY <3>1, <3>2
  <2>3. QED
    BY <2>2 DEF TypeOK, Inv1, Types, EngineTypes, JobTypes
<1>2. QED
  BY <1>1, InitInv1, StepInv1, PTL DEF Spec

-----------------------------------------------------------------------------
(* What the engine promises: changed rows are there and locked by their    *)
(* author alone, a row nobody is changing has one version, a committed row *)
(* is the newest, and an open read view shows no row that is not committed.*)
Locked ==
    /\ \A c \in Clients : \A r \in written[c] : r \in xlock[c] /\ newest[r] # Absent
    /\ \A c, d \in Clients : c # d => xlock[c] \cap xlock[d] = {}
    /\ \A r \in Rows : newest[r] = committed[r] \/ \E c \in Clients : r \in written[c]

Kept == \A r \in Rows : committed[r] # Absent => newest[r] = committed[r]

ViewsTrue ==
    \A c \in Clients : view[c] # NoView =>
        \A r \in Rows : view[c][r] # Absent => view[c][r] = committed[r]

EngineInv == Locked /\ Kept /\ ViewsTrue

(* Nothing committed is lost, and no client disturbs what another wrote.   *)
Undisturbed(c) ==
    /\ \A r \in Rows : committed[r] # Absent => committed'[r] = committed[r]
    /\ \A d \in Clients \ {c} :
          /\ written'[d] = written[d] /\ view'[d] = view[d]
          /\ \A r \in written[d] : newest'[r] = newest[r]

(* An INSERT keeps what the engine promises.                               *)
LEMMA WriteKeeps ==
    ASSUME EngineTypes, EngineInv, NEW c \in Clients, NEW r \in Rows, NEW v, v # Absent,
           NEW parents \in SUBSET Rows, newest[r] = Absent, Write(c, r, v, parents)
    PROVE  /\ EngineInv' /\ Undisturbed(c)
           /\ r \in written'[c] /\ newest'[r] = v
           /\ \A q \in Rows \ {r} : newest'[q] = newest[q]
<1> USE DEF EngineTypes, IsContents, EngineInv, Write, MayWrite
<1>0. /\ \A d \in Clients : r \notin written[d]
      /\ written' = [written EXCEPT ![c] = @ \cup {r}] /\ UNCHANGED <<committed, view>>
      /\ \A q \in Rows \ {r} : newest'[q] = newest[q]
      /\ newest'[r] = v
  BY DEF Locked
<1>1. (\A d \in Clients : \A q \in written[d] : q \in xlock[d] /\ newest[q] # Absent)'
  <2> SUFFICES ASSUME NEW d \in Clients, NEW q \in written'[d]
               PROVE  q \in xlock'[d] /\ newest'[q] # Absent
    OBVIOUS
  <2>1. CASE q \in written[d]
    <3>1. q \in Rows \ {r} /\ q \in xlock[d] /\ newest[q] # Absent
      BY <1>0, <2>1 DEF Locked
    <3>2. xlock' = [xlock EXCEPT ![c] = @ \cup {r}]
      OBVIOUS
    <3>3. QED
      BY <1>0, <3>1, <3>2
  <2>2. CASE d = c /\ q = r
    BY <1>0, <2>2
  <2>3. QED
    BY <1>0, <2>1, <2>2
<1>2. (\A b, d \in Clients : b # d => xlock[b] \cap xlock[d] = {})'
  BY DEF Locked
<1>3. (\A q \in Rows : newest[q] = committed[q] \/ \E d \in Clients : q \in written[d])'
  BY DEF Locked
<1>4. Kept'
  BY DEF Kept
<1>5. ViewsTrue'
  BY DEF ViewsTrue
<1>6. Undisturbed(c)
  BY <1>0 DEF Undisturbed
<1>7. r \in written'[c] /\ newest'[r] = v /\ \A q \in Rows \ {r} : newest'[q] = newest[q]
  OBVIOUS
<1>8. QED
  BY <1>1, <1>2, <1>3, <1>4, <1>5, <1>6, <1>7 DEF Locked

(* COMMIT publishes what its client wrote.                                 *)
LEMMA CommitKeeps ==
    ASSUME EngineTypes, EngineInv, NEW c \in Clients, Commit(c)
    PROVE  /\ EngineInv' /\ Undisturbed(c)
           /\ \A r \in written[c] : committed'[r] = newest[r]
<1> USE DEF EngineTypes, IsContents, EngineInv, Commit, EndTransaction
<1>1. (\A d \in Clients : \A q \in written[d] : q \in xlock[d] /\ newest[q] # Absent)'
  BY DEF Locked
<1>2. (\A b, d \in Clients : b # d => xlock[b] \cap xlock[d] = {})'
  BY DEF Locked
<1>3. (\A q \in Rows : newest[q] = committed[q] \/ \E d \in Clients : q \in written[d])'
  BY DEF Locked
<1>4. Kept'
  BY DEF Kept
<1>5. Undisturbed(c)
  BY DEF Undisturbed, Kept
<1>6. ViewsTrue'
  BY <1>5 DEF ViewsTrue, Undisturbed
<1>7. \A r \in written[c] : committed'[r] = newest[r]
  OBVIOUS
<1>8. QED
  BY <1>1, <1>2, <1>3, <1>4, <1>5, <1>6, <1>7 DEF Locked

(* ROLLBACK takes back what its client wrote, and nothing else.            *)
LEMMA RollbackKeeps ==
    ASSUME EngineTypes, EngineInv, NEW c \in Clients, Rollback(c)
    PROVE  /\ EngineInv' /\ Undisturbed(c)
           /\ \A r \in Rows : newest'[r] # Absent => newest'[r] = newest[r]
<1> USE DEF EngineTypes, IsContents, EngineInv, Rollback, EndTransaction
<1>1. (\A d \in Clients : \A q \in written[d] : q \in xlock[d] /\ newest[q] # Absent)'
  BY DEF Locked
<1>2. (\A b, d \in Clients : b # d => xlock[b] \cap xlock[d] = {})'
  BY DEF Locked
<1>3. (\A q \in Rows : newest[q] = committed[q] \/ \E d \in Clients : q \in written[d])'
  BY DEF Locked
<1>4. Kept'
  BY DEF Kept
<1>5. Undisturbed(c)
  BY DEF Undisturbed, Locked
<1>6. ViewsTrue'
  BY DEF ViewsTrue
<1>7. \A r \in Rows : newest'[r] # Absent => newest'[r] = newest[r]
  BY DEF Kept
<1>8. QED
  BY <1>1, <1>2, <1>3, <1>4, <1>5, <1>6, <1>7 DEF Locked

(* A SELECT and a share lock change nothing of it.                         *)
LEMMA ReadKeeps ==
    ASSUME EngineTypes, EngineInv, NEW c \in Clients,
           \/ OpenView(c)
           \/ UNCHANGED <<newest, committed, view, written, xlock>>
    PROVE  EngineInv' /\ Undisturbed(c) /\ newest' = newest
<1>1. UNCHANGED <<newest, committed, written, xlock>>
  BY DEF OpenView
<1>2. Locked' /\ Kept'
  BY <1>1 DEF EngineInv, Locked, Kept
<1>3. ViewsTrue'
  BY DEF EngineTypes, EngineInv, ViewsTrue, OpenView, ReadView
<1>4. Undisturbed(c)
  BY DEF EngineTypes, Undisturbed, OpenView
<1>5. QED
  BY <1>1, <1>2, <1>3, <1>4 DEF EngineInv

(* So every step of the engine keeps its promises.                         *)
LEMMA EngineStepKeeps ==
    ASSUME EngineTypes, EngineInv, NEW c \in Clients, EngineStep(c)
    PROVE  EngineInv' /\ Undisturbed(c)
<1>1. CASE UNCHANGED engine
  BY <1>1, ReadKeeps DEF engine
<1>2. CASE OpenView(c) \/ Commit(c) \/ Rollback(c)
  BY <1>2, ReadKeeps, CommitKeeps, RollbackKeeps
<1>3. ASSUME NEW r \in Rows, NEW v \in ValuesOf(r) \ {Absent}, NEW parents \in SUBSET Rows,
             newest[r] = Absent, Write(c, r, v, parents)
      PROVE  EngineInv' /\ Undisturbed(c)
  BY <1>3, WriteKeeps
<1>4. CASE UNCHANGED <<newest, committed, view, written, xlock>>
  BY <1>4, ReadKeeps
<1>5. QED
  BY <1>1, <1>2, <1>3, <1>4 DEF EngineStep

-----------------------------------------------------------------------------
(* A product names a category that is committed already, under the name its*)
(* form asked for: also before the product is.                             *)
Categorised ==
    \A k \in Ids : newest[Prod(k)] # Absent =>
        committed[Cat(newest[Prod(k)].asked)] = newest[Prod(k)].category

(* What client c knows of the category and of the row it has written.      *)
CategoryOf(c) == Cat(This(c).category)

Found(c) ==
    /\ pc[c] = "insert_category" => /\ CategoryOf(c) \notin written[c] /\ view[c] # NoView
                                    /\ view[c][CategoryOf(c)] = Absent
    /\ pc[c] = "commit_category" => \/ committed[CategoryOf(c)] = job[c].category
                                    \/ /\ CategoryOf(c) \in written[c]
                                       /\ newest[CategoryOf(c)] = job[c].category
    /\ pc[c] = "insert_product" => committed[CategoryOf(c)] = job[c].category
    /\ pc[c] = "commit_row" => job[c].row \in written[c]

SavedTrue(c) ==
    /\ \A r \in job[c].saved : committed[r] # Absent
    /\ \A r \in report[c].saved : committed[r] # Absent

Inv2 ==
    /\ Inv1 /\ EngineInv /\ Categorised
    /\ \A c \in Clients : Found(c) /\ SavedTrue(c)

(* What a row of the products holds.                                       *)
LEMMA ProductValue ==
    ASSUME EngineTypes, NEW k \in Ids, newest[Prod(k)] # Absent
    PROVE  /\ Prod(k) \in Rows
           /\ newest[Prod(k)].asked \in Names /\ newest[Prod(k)].category \in Ids
           /\ newest[Prod(k)].category # Absent
           /\ Cat(newest[Prod(k)].asked) \in Rows
<1>1. Prod(k) \in Rows /\ newest[Prod(k)] \in [category : Ids, asked : Names] \cup {Absent}
  BY RowsAndValues DEF EngineTypes, IsContents
<1>2. newest[Prod(k)] \in [category : Ids, asked : Names]
  BY <1>1
<1>3. newest[Prod(k)].asked \in Names /\ newest[Prod(k)].category \in Ids
  BY <1>2
<1>4. QED
  BY <1>1, <1>3, RowsAndValues, Present

(* The foreign keys stay true, in newest too.                              *)
LEMMA StepCategorised ==
    ASSUME EngineTypes, EngineInv, Categorised, NEW c \in Clients, EngineStep(c), Ready(c),
           Found(c)
    PROVE  Categorised'
<1>1. EngineInv' /\ Undisturbed(c)
  BY EngineStepKeeps
<1>2. ASSUME NEW k \in Ids, newest[Prod(k)] # Absent, newest'[Prod(k)] = newest[Prod(k)]
      PROVE  committed'[Cat(newest'[Prod(k)].asked)] = newest'[Prod(k)].category
  BY <1>1, <1>2, ProductValue DEF Categorised, Undisturbed
<1>3. CASE \A r \in Rows : newest'[r] # Absent => newest'[r] = newest[r]
  BY <1>2, <1>3, RowsAndValues DEF Categorised
<1>4. ASSUME NEW r \in Rows, NEW v \in ValuesOf(r) \ {Absent}, NEW parents \in SUBSET Rows,
             newest[r] = Absent, Write(c, r, v, parents),
             r \in ProdRows => pc[c] = "insert_product" /\ v = Entry(c)
      PROVE  Categorised'
  <2>1. /\ newest'[r] = v /\ \A q \in Rows \ {r} : newest'[q] = newest[q]
    BY <1>4, WriteKeeps
  <2> SUFFICES ASSUME NEW k \in Ids, newest'[Prod(k)] # Absent
               PROVE  committed'[Cat(newest'[Prod(k)].asked)] = newest'[Prod(k)].category
    BY DEF Categorised
  <2>2. CASE Prod(k) # r
    BY <1>2, <2>1, <2>2, RowsAndValues
  <2>3. CASE Prod(k) = r
    <3>1. pc[c] = "insert_product" /\ newest'[Prod(k)] = Entry(c)
      BY <1>4, <2>1, <2>3 DEF ProdRows
    <3>2. /\ committed[CategoryOf(c)] = job[c].category /\ job[c].category \in Ids
          /\ CategoryOf(c) \in Rows
      BY <3>1, RowsAndValues DEF Found, Ready, CategoryOf, FormLabels
    <3>3. committed'[CategoryOf(c)] = job[c].category
      BY <1>1, <3>2, Present DEF Undisturbed
    <3>4. QED
      BY <3>1, <3>3 DEF Entry, CategoryOf
  <2>4. QED
    BY <2>2, <2>3
<1>5. CASE UNCHANGED engine \/ OpenView(c) \/ UNCHANGED <<newest, committed, view, written, xlock>>
  BY <1>3, <1>5 DEF engine, OpenView
<1>6. CASE Commit(c) \/ Rollback(c)
  BY <1>3, <1>6, RollbackKeeps DEF Commit
<1>7. QED
  BY <1>4, <1>5, <1>6 DEF EngineStep

(* Another client's step does not take away what this one knows.           *)
LEMMA OthersFound ==
    ASSUME Types, EngineInv, NEW c \in Clients, Undisturbed(c), Alone(c),
           NEW d \in Clients \ {c}, Ready(d), Found(d), SavedTrue(d)
    PROVE  Found(d)' /\ SavedTrue(d)'
<1>1. /\ pc'[d] = pc[d] /\ job'[d] = job[d] /\ report'[d] = report[d]
      /\ written'[d] = written[d] /\ view'[d] = view[d]
      /\ \A r \in written[d] : newest'[r] = newest[r]
      /\ \A r \in Rows : committed[r] # Absent => committed'[r] = committed[r]
  BY DEF Alone, Undisturbed
<1>2. CategoryOf(d)' = CategoryOf(d)
  BY <1>1 DEF CategoryOf, This
<1>3. pc[d] \in FormLabels => CategoryOf(d) \in Rows
  BY RowsAndValues DEF Ready, CategoryOf
<1>4. pc[d] \in {"commit_category", "insert_product"} => job[d].category # Absent
  BY Present DEF Ready
<1>5. Found(d)'
  BY <1>1, <1>2, <1>3, <1>4 DEF Found, FormLabels
<1>6. job[d].saved \subseteq Rows /\ report[d].saved \subseteq Rows
  BY DEF Types, JobTypes, Job
<1>7. SavedTrue(d)'
  BY <1>1, <1>6 DEF SavedTrue
<1>8. QED
  BY <1>5, <1>7

(* What the messages say stays true.                                       *)
LEMMA SavedKept ==
    ASSUME Types, NEW c \in Clients, Undisturbed(c), SavedTrue(c),
           \A r \in job'[c].saved : r \in job[c].saved \/ committed'[r] # Absent,
           report'[c].saved = report[c].saved \/ report'[c].saved = job[c].saved
    PROVE  SavedTrue(c)'
<1>1. job[c].saved \subseteq Rows /\ report[c].saved \subseteq Rows
  BY DEF Types, JobTypes, Job
<1>2. \A r \in Rows : committed[r] # Absent => committed'[r] # Absent
  BY DEF Undisturbed
<1>3. QED
  BY <1>1, <1>2 DEF SavedTrue

(* The end of an item, or of a handler, and what goes before a statement   *)
(* that needs nothing to be found.                                         *)
LEMMA EasyFound ==
    ASSUME Types, NEW c \in Clients, Undisturbed(c), SavedTrue(c),
           \/ /\ \E why \in Errors : Raises(c, why)
              /\ UNCHANGED report
           \/ \E r \in Rows : Saved(c, r) /\ committed'[r] # Absent /\ UNCHANGED report
           \/ Calling(c) \/ BeginItem(c) \/ EndCall(c)
    PROVE  Found(c)' /\ SavedTrue(c)'
<1>0. pc'[c] \in {"item", "idle", "find_category", "insert_customer"} => Found(c)'
  BY DEF Found
<1> USE DEF Goto, Types, JobTypes
<1>1. ASSUME NEW rows, NEW errors, EndItem(c, rows, errors), UNCHANGED report,
             \A r \in rows : committed'[r] # Absent
      PROVE  Found(c)' /\ SavedTrue(c)'
  <2>1. job'[c].saved = job[c].saved \cup rows /\ pc'[c] = "item"
    <3>1. PICK new : new = [job[c] EXCEPT !.left = Tail(@), !.saved = @ \cup rows,
                                          !.errors = @ \cup errors,
                                          !.category = Absent, !.row = Absent]
      OBVIOUS
    <3>2. job' = [job EXCEPT ![c] = new] /\ pc' = [pc EXCEPT ![c] = "item"]
      BY <1>1, <3>1 DEF EndItem
    <3>3. job[c] \in Job /\ job'[c] = new /\ pc'[c] = "item"
      BY <3>2
    <3>4. new.saved = job[c].saved \cup rows
      BY <3>1, <3>3 DEF Job
    <3>5. QED
      BY <3>3, <3>4
  <2>2. QED
    BY <1>0, <1>1, <2>1, SavedKept
<1>2. CASE \E why \in Errors : Raises(c, why) /\ UNCHANGED report
  BY <1>1, <1>2 DEF Raises
<1>3. CASE \E r \in Rows : Saved(c, r) /\ committed'[r] # Absent /\ UNCHANGED report
  BY <1>1, <1>3 DEF Saved
<1>4. CASE Calling(c)
  <2>1. job'[c].saved = {} /\ pc'[c] = "item" /\ UNCHANGED report
    BY <1>4 DEF Calling, CreateProduct, CreateCustomer, ImportJson, Call, NoJob
  <2>2. QED
    BY <1>0, <2>1, SavedKept
<1>5. CASE BeginItem(c) /\ RefusedAtOnce(c)
  BY <1>2, <1>5 DEF BeginItem, Fail, Errors
<1>6. CASE BeginItem(c) /\ ~RefusedAtOnce(c)
  <2>1. job'[c].saved = job[c].saved /\ pc'[c] \in {"find_category", "insert_customer"}
        /\ UNCHANGED report
    BY <1>6 DEF BeginItem
  <2>2. QED
    BY <1>0, <2>1, SavedKept
<1>7. CASE EndCall(c)
  <2>1. job'[c].saved = {} /\ pc'[c] = "idle" /\ report'[c].saved = job[c].saved
    BY <1>7 DEF EndCall, NoJob
  <2>2. QED
    BY <1>0, <2>1, SavedKept
<1>8. QED
  BY <1>2, <1>3, <1>4, <1>5, <1>6, <1>7

(* The statement is refused, or the transaction ends early.                *)
LEMMA RefusedFound ==
    ASSUME Types, NEW c \in Clients, Ready(c), Found(c), SavedTrue(c), Undisturbed(c),
           Browse(c) \/ OtherMethod(c) \/ Refusing(c)
    PROVE  Found(c)' /\ SavedTrue(c)'
<1>1. CASE UNCHANGED <<pc, job, report>> /\ pc[c] \in {"idle", "item"}
  <2>1. Found(c)'
    BY <1>1 DEF Found
  <2>2. SavedTrue(c)'
    BY <1>1, SavedKept
  <2>3. QED
    BY <2>1, <2>2
<1>2. CASE Browse(c) \/ OtherMethod(c)
  BY <1>1, <1>2 DEF Browse, OtherMethod
<1>3. CASE LockError(c) \/ CommitReplyLost(c)
  <2>1. (\E why \in Errors : Raises(c, why)) /\ UNCHANGED report
    BY <1>3 DEF LockError, CommitReplyLost, Errors
  <2>2. QED
    BY <2>1, EasyFound
<1>4. CASE Disconnect(c) /\ pc[c] \in {"idle", "item"}
  BY <1>1, <1>4 DEF Disconnect
<1>5. CASE Disconnect(c) /\ pc[c] \notin {"idle", "item"}
  <2>1. (\E why \in Errors : Raises(c, why)) /\ UNCHANGED report
    BY <1>5 DEF Disconnect, Errors
  <2>2. QED
    BY <2>1, EasyFound
<1>6. QED
  BY <1>2, <1>3, <1>4, <1>5 DEF Refusing

(* Category.save: the category there is, or the one it inserts.            *)
LEMMA CategoryFound ==
    ASSUME Inv2, NEW c \in Clients, Undisturbed(c),
           FindCategory(c) \/ InsertCategory(c)
    PROVE  Found(c)' /\ SavedTrue(c)'
<1>0. /\ Types /\ Ready(c) /\ Found(c) /\ SavedTrue(c) /\ This(c).category \in Names
      /\ CategoryOf(c) \in Rows /\ job[c] \in Job
  BY RowsAndValues DEF Inv2, Inv1, AllReady, Ready, FormLabels, FindCategory, InsertCategory,
                       CategoryOf, Types, JobTypes
<1>1. CASE FindCategory(c)
  <2> DEFINE found == Seen(c, CategoryOf(c))
  <2>1. /\ pc' = [pc EXCEPT ![c] = IF found # Absent THEN "commit_category"
                                                     ELSE "insert_category"]
        /\ job' = [job EXCEPT ![c].category = found]
        /\ view' = [view EXCEPT ![c] = ReadView(c)]
        /\ UNCHANGED <<newest, committed, written, report>>
    BY <1>1 DEF FindCategory, CategoryOf, Goto, OpenView
  <2>2. /\ pc'[c] = IF found # Absent THEN "commit_category" ELSE "insert_category"
        /\ job'[c].category = found /\ job'[c].left = job[c].left
        /\ job'[c].saved = job[c].saved
        /\ view'[c] = ReadView(c)
    BY <2>1, <1>0 DEF Types, JobTypes, EngineTypes, Job
  <2>3. CategoryOf(c)' = CategoryOf(c)
    BY <2>2 DEF CategoryOf, This
  <2>4. SavedTrue(c)'
    BY <1>0, <2>1, <2>2, SavedKept
  <2>5. ReadView(c) # NoView
    <3>1. committed # NoView
      <4>1. committed \in [Rows -> Nat \cup ProductRow \cup {Absent}]
        <5>1. \A r \in Rows : ValuesOf(r) \subseteq Nat \cup ProductRow \cup {Absent}
          <6>1. Ids \subseteq Nat /\ Emails \subseteq Nat
            BY CatalogAssumption DEF Ids, CatalogAssumption
          <6>2. [category : Ids, asked : Names] \subseteq ProductRow
            BY <6>1 DEF ProductRow
          <6>3. QED
            BY <6>1, <6>2 DEF Rows, CatRows, CustRows, ProdRows, Cat, Cust, Prod, ValuesOf
        <5>2. QED
          BY <1>0, <5>1 DEF Types, EngineTypes, IsContents
      <4>2. QED
        BY <4>1, MarksAssumption DEF MarksAssumption
    <3>2. QED
      BY <3>1 DEF ReadView
  <2>6. found # Absent => \/ committed[CategoryOf(c)] = found
                          \/ /\ CategoryOf(c) \in written[c]
                             /\ newest[CategoryOf(c)] = found
    BY <1>0 DEF Seen, ReadView, Inv2, EngineInv, ViewsTrue
  <2>7. found = Absent => /\ CategoryOf(c) \notin written[c]
                          /\ ReadView(c)[CategoryOf(c)] = Absent
    BY <1>0 DEF Seen, Inv2, EngineInv, Locked
  <2> HIDE DEF found
  <2>8. Found(c)'
    BY <2>1, <2>2, <2>3, <2>5, <2>6, <2>7 DEF Found
  <2>9. QED
    BY <2>4, <2>8
<1>2. CASE InsertCategory(c) /\ DuplicateKey(c, CategoryOf(c))
  <2>1. (\E why \in Errors : Raises(c, why)) /\ UNCHANGED report
    BY <1>2 DEF InsertCategory, DuplicateKey, Errors
  <2>2. QED
    BY <1>0, <2>1, EasyFound
<1>3. CASE InsertCategory(c) /\ ~DuplicateKey(c, CategoryOf(c))
  <2>1. /\ newest[CategoryOf(c)] = Absent
        /\ Write(c, CategoryOf(c), nextId.categories, {})
        /\ job' = [job EXCEPT ![c].category = nextId.categories]
        /\ pc' = [pc EXCEPT ![c] = "commit_category"]
        /\ UNCHANGED report
    BY <1>3 DEF InsertCategory, CategoryOf, InsertRow, Goto
  <2>2. /\ pc'[c] = "commit_category"
        /\ job'[c].category = nextId.categories /\ job'[c].left = job[c].left
        /\ job'[c].saved = job[c].saved
    BY <2>1, <1>0 DEF Types, JobTypes, Job
  <2>3. CategoryOf(c)' = CategoryOf(c)
    BY <2>2 DEF CategoryOf, This
  <2>4. nextId.categories \in Ids
    <3>1. job[c].left # <<>> /\ pc[c] \in BeforeCategory
      BY <1>0, <1>3 DEF Ready, InsertCategory, BeforeCategory
    <3>2. QED
      BY <3>1, IdsLeft DEF Inv2, Inv1
  <2>5. CategoryOf(c) \in written'[c] /\ newest'[CategoryOf(c)] = nextId.categories
    <3>1. /\ EngineTypes /\ EngineInv /\ CategoryOf(c) \in Rows
          /\ nextId.categories # Absent /\ {} \in SUBSET Rows
          /\ newest[CategoryOf(c)] = Absent
          /\ Write(c, CategoryOf(c), nextId.categories, {})
      BY <1>0, <2>1, <2>4, Present DEF Inv2, Types
    <3>2. QED
      BY <3>1, WriteKeeps
  <2>6. Found(c)'
    BY <2>2, <2>3, <2>5 DEF Found
  <2>7. SavedTrue(c)'
    BY <1>0, <2>1, <2>2, SavedKept
  <2>8. QED
    BY <2>6, <2>7
<1>4. QED
  BY <1>1, <1>2, <1>3

(* Its commit, which makes the category one that Product may name.         *)
LEMMA CommitFound ==
    ASSUME Inv2, NEW c \in Clients, Undisturbed(c),
           CommitCategory(c) \/ CommitRow(c)
    PROVE  Found(c)' /\ SavedTrue(c)'
<1>0. /\ Types /\ EngineInv /\ Ready(c) /\ Found(c) /\ SavedTrue(c) /\ job[c] \in Job
      /\ UNCHANGED report /\ Commit(c)
      /\ \A r \in written[c] : r \in Rows /\ committed'[r] = newest[r] /\ newest[r] # Absent
  <2>1. Types /\ EngineInv /\ Ready(c) /\ Found(c) /\ SavedTrue(c) /\ Commit(c) /\ UNCHANGED report
    BY DEF Inv2, Inv1, AllReady, CommitCategory, CommitRow
  <2>2. \A r \in written[c] : committed'[r] = newest[r]
    BY <2>1, CommitKeeps DEF Types
  <2>3. \A r \in written[c] : r \in Rows /\ newest[r] # Absent
    BY <2>1 DEF EngineInv, Locked, Types, EngineTypes
  <2>4. QED
    BY <2>1, <2>2, <2>3 DEF Types, JobTypes
<1>1. CASE CommitRow(c)
  <2>1. /\ job[c].row \in Rows /\ Saved(c, job[c].row)
        /\ committed'[job[c].row] # Absent
    BY <1>0, <1>1 DEF CommitRow, Ready, Found
  <2>2. QED
    BY <1>0, <2>1, EasyFound
<1>2. CASE CommitCategory(c) /\ This(c).defect # "none"
  <2>1. \E why \in Errors : Raises(c, why)
    BY <1>2 DEF CommitCategory, CheckForm, Errors
  <2>2. QED
    BY <1>0, <2>1, EasyFound
<1>3. CASE CommitCategory(c) /\ This(c).defect = "none"
  <2>1. /\ pc'[c] = "insert_product" /\ job' = job /\ pc[c] = "commit_category"
    BY <1>0, <1>3 DEF CommitCategory, CheckForm, Goto, Types, JobTypes
  <2>2. CategoryOf(c) \in Rows /\ job[c].category # Absent /\ CategoryOf(c)' = CategoryOf(c)
    BY <1>0, <2>1, RowsAndValues, Present DEF Ready, FormLabels, CategoryOf, This
  <2>3. committed'[CategoryOf(c)] = job[c].category
    BY <1>0, <2>1, <2>2 DEF Found, Undisturbed
  <2>4. Found(c)'
    BY <2>1, <2>2, <2>3 DEF Found
  <2>5. SavedTrue(c)'
    BY <1>0, <2>1, SavedKept
  <2>6. QED
    BY <2>4, <2>5
<1>4. QED
  BY <1>1, <1>2, <1>3

(* INSERT INTO products, INSERT INTO customers.                            *)
LEMMA RowFound ==
    ASSUME Inv2, NEW c \in Clients, Undisturbed(c),
           InsertProduct(c) \/ InsertCustomer(c)
    PROVE  Found(c)' /\ SavedTrue(c)'
<1>0. /\ Types /\ EngineTypes /\ EngineInv /\ Ready(c) /\ Found(c) /\ SavedTrue(c)
      /\ job[c] \in Job /\ job[c].left # <<>> /\ UNCHANGED report
  BY DEF Inv2, Inv1, AllReady, Ready, Types, JobTypes, InsertProduct, InsertCustomer
<1>1. ASSUME NEW r \in Rows, NEW v, v # Absent, NEW parents \in SUBSET Rows,
             InsertRow(c, r, v, parents), job' = [job EXCEPT ![c].row = r],
             Goto(c, "commit_row")
      PROVE  Found(c)' /\ SavedTrue(c)'
  <2>1. /\ pc'[c] = "commit_row" /\ job'[c].row = r /\ job'[c].saved = job[c].saved
    BY <1>0, <1>1 DEF Goto, Types, JobTypes, Job
  <2>2. r \in written'[c]
    <3>1. newest[r] = Absent /\ Write(c, r, v, parents)
      BY <1>1 DEF InsertRow
    <3>2. QED
      BY <1>0, <1>1, <3>1, WriteKeeps
  <2>3. Found(c)'
    BY <2>1, <2>2 DEF Found
  <2>4. SavedTrue(c)'
    BY <1>0, <2>1, SavedKept
  <2>5. QED
    BY <2>3, <2>4
<1>2. CASE \E why \in Errors : Raises(c, why)
  BY <1>0, <1>2, EasyFound
<1>3. CASE InsertProduct(c)
  <2> DEFINE r == Prod(nextId.products)
             v == [category |-> job[c].category, asked |-> This(c).category]
             parents == {q \in CatRows : newest[q] = job[c].category}
  <2>1. r \in Rows /\ v # Absent /\ parents \in SUBSET Rows
    <3>1. pc[c] \in BeforeProduct /\ This(c).category \in Names /\ job[c].category \in Ids
      BY <1>0, <1>3 DEF InsertProduct, Ready, FormLabels, BeforeProduct
    <3>2. nextId.products \in Ids
      BY <1>0, <3>1, IdsLeft DEF Inv2, Inv1
    <3>3. v \in [category : Ids, asked : Names]
      BY <3>1
    <3>4. QED
      BY <3>2, <3>3, RowsAndValues, Present DEF Rows
  <2>2. \/ \E why \in Errors : Raises(c, why)
        \/ /\ InsertRow(c, r, v, parents) /\ job' = [job EXCEPT ![c].row = r]
           /\ Goto(c, "commit_row")
    BY <1>3 DEF InsertProduct, Fail, Errors
  <2> HIDE DEF r, v, parents
  <2>3. QED
    BY <1>1, <1>2, <2>1, <2>2
<1>4. CASE InsertCustomer(c)
  <2>1. Cust(This(c).email) \in Rows /\ This(c).email # Absent /\ {} \in SUBSET Rows
    BY <1>0, <1>4, RowsAndValues, Present DEF InsertCustomer, Ready
  <2>2. \/ \E why \in Errors : Raises(c, why)
        \/ /\ InsertRow(c, Cust(This(c).email), This(c).email, {})
           /\ job' = [job EXCEPT ![c].row = Cust(This(c).email)]
           /\ Goto(c, "commit_row")
    BY <1>4 DEF InsertCustomer, DuplicateKey, Errors
  <2>3. QED
    BY <1>1, <1>2, <2>1, <2>2
<1>5. QED
  BY <1>3, <1>4

-----------------------------------------------------------------------------
(* At first there is nothing to be found.                                  *)
LEMMA InitInv2 == Init => Inv2
<1> SUFFICES ASSUME Init PROVE Inv2
  OBVIOUS
<1>1. Inv1
  BY InitInv1
<1>2. EngineInv
  BY DEF Init, EngineInit, EngineInv, Locked, Kept, ViewsTrue
<1>3. Categorised
  BY RowsAndValues DEF Init, EngineInit, Categorised
<1>4. \A c \in Clients : Found(c) /\ SavedTrue(c)
  BY DEF Init, NoJob, Found, SavedTrue
<1>5. QED
  BY <1>1, <1>2, <1>3, <1>4 DEF Inv2

(* And every step keeps what was.                                          *)
LEMMA StepInv2 == Inv2 /\ [Next]_vars => Inv2'
<1> SUFFICES ASSUME Inv2, [Next]_vars PROVE Inv2'
  OBVIOUS
<1>1. Inv1'
  BY StepInv1 DEF Inv2
<1>2. ASSUME NEW c \in Clients, Action(c) PROVE Inv2'
  <2>1. Inv1 /\ EngineTypes /\ EngineInv /\ Categorised /\ Types /\ Ready(c) /\ Found(c)
        /\ SavedTrue(c)
    BY DEF Inv2, Inv1, Types, AllReady
  <2>2. EngineStep(c)
    BY <1>2, <2>1, ActionEngineStep DEF Action
  <2>3. EngineInv' /\ Undisturbed(c)
    BY <2>1, <2>2, EngineStepKeeps
  <2>4. Categorised'
    BY <2>1, <2>2, StepCategorised
  <2>5. Alone(c)
    BY <1>2, <2>1, ActionJobStep DEF JobStep, Quiet, HandsOut
  <2>6. \A d \in Clients \ {c} : Found(d)' /\ SavedTrue(d)'
    BY <2>1, <2>3, <2>5, OthersFound DEF Inv2, Inv1, AllReady
  <2>7. Found(c)' /\ SavedTrue(c)'
    BY <1>2, <2>1, <2>3, EasyFound, RefusedFound, CategoryFound, CommitFound, RowFound
       DEF Action, Statement
  <2>8. QED
    BY <1>1, <2>3, <2>4, <2>6, <2>7 DEF Inv2
<1>3. CASE UNCHANGED vars
  <2>1. EngineInv' /\ Categorised'
    BY <1>3 DEF Inv2, EngineInv, Locked, Kept, ViewsTrue, Categorised, vars, engine
  <2>2. \A c \in Clients : Found(c)' /\ SavedTrue(c)'
    BY <1>3 DEF Inv2, Found, CategoryOf, This, SavedTrue, vars, engine
  <2>3. QED
    BY <1>1, <2>1, <2>2 DEF Inv2
<1>4. QED
  BY <1>2, <1>3 DEF Next, Proceed, Action, Statement, Refusing, Calling

(* Every product is in a category that exists and has the name its form or *)
(* file gave: the category is committed before a product names it.         *)
THEOREM ProductsAreCategorised == Spec => []ProductsCategorised
<1>1. Inv2 => ProductsCategorised
  BY RowsAndValues DEF Inv2, EngineInv, Kept, Categorised, ProductsCategorised
<1>2. QED
  BY <1>1, InitInv2, StepInv2, PTL DEF Spec

(* What the message boxes say was saved is committed, and stays committed. *)
THEOREM ReportsHold == Spec => []ReportsAreTrue
<1>1. Inv2 => ReportsAreTrue
  BY DEF Inv2, SavedTrue, ReportsAreTrue
<1>2. QED
  BY <1>1, InitInv2, StepInv2, PTL DEF Spec

-----------------------------------------------------------------------------
(* How far the handler of job j has come in its list, and the valid items  *)
(* so far.                                                                 *)
Handled(j) == Len(j.given) - Len(j.left)

ValidDone(j) == {i \in 1..Handled(j) : Valid(j.given[i])}

Follows(j) ==
    /\ j.given \in Seq(Form) /\ j.left \in Seq(Form) /\ Handled(j) \in Nat
    /\ \A i \in 1..Len(j.left) : j.left[i] = j.given[Handled(j) + i]

(* The ids of products handed out so far.                                  *)
Numbered(r) == \E k \in Ids : r = Prod(k) /\ k < nextId.products

Excuses == {"hidden", "lock", "lost"}

Accounted(j) == Cardinality(j.saved) = Cardinality(ValidDone(j))

(* A handler of forms has saved exactly the valid ones it is done with,    *)
(* unless it has an excuse; every product it saved has an id of its own.   *)
Sound(c) ==
    job[c].op \in FormOps =>
        /\ Follows(job[c])
        /\ IsFiniteSet(job[c].saved) /\ \A r \in job[c].saved : Numbered(r)
        /\ pc[c] = "insert_product" => This(c).defect = "none"
        /\ pc[c] = "commit_row" => /\ Valid(This(c))
                                   /\ job[c].row \notin job[c].saved /\ Numbered(job[c].row)
        /\ job[c].errors \cap Excuses = {} => Accounted(job[c])

Inv3 == Inv2 /\ \A c \in Clients : Sound(c)

(* One more item is done.                                                  *)
LEMMA ItemDone ==
    ASSUME NEW j, Follows(j), j.left # <<>>,
           NEW k, k.given = j.given, k.left = Tail(j.left)
    PROVE  /\ Follows(k) /\ IsFiniteSet(ValidDone(j))
           /\ Handled(j) + 1 \notin ValidDone(j)
           /\ ~Valid(Head(j.left)) => ValidDone(k) = ValidDone(j)
           /\ Valid(Head(j.left)) => ValidDone(k) = ValidDone(j) \cup {Handled(j) + 1}
<1>1. /\ Len(j.given) \in Nat /\ Len(j.left) \in Nat \ {0} /\ Handled(j) \in Nat
      /\ Len(k.left) = Len(j.left) - 1 /\ Handled(k) = Handled(j) + 1
      /\ k.left \in Seq(Form) /\ j.given \in Seq(Form)
  <2>1. /\ j.left \in Seq(Form) /\ j.given \in Seq(Form) /\ Handled(j) \in Nat
    BY DEF Follows
  <2>2. /\ Len(j.left) \in Nat \ {0} /\ Len(Tail(j.left)) = Len(j.left) - 1
        /\ Tail(j.left) \in Seq(Form) /\ Len(j.given) \in Nat
    BY <2>1, FirstItem
  <2>3. Handled(k) = Handled(j) + 1
    <3>1. Len(k.left) = Len(j.left) - 1 /\ Len(k.given) = Len(j.given)
      BY <2>2, Zenon
    <3>2. ASSUME NEW g \in Nat, NEW n \in Nat \ {0} PROVE g - (n - 1) = (g - n) + 1
      OBVIOUS
    <3>3. QED
      BY <2>2, <3>1, <3>2, Zenon DEF Handled
  <2>4. QED
    BY <2>1, <2>2, <2>3
<1>2. ASSUME NEW i \in 1..Len(k.left) PROVE k.left[i] = k.given[Handled(k) + i]
  <2>1. k.left[i] = j.left[i + 1] /\ i + 1 \in 1..Len(j.left)
    BY <1>1, FirstItem DEF Follows
  <2>2. j.left[i + 1] = j.given[Handled(j) + (i + 1)]
    BY <2>1 DEF Follows
  <2>3. Handled(j) + (i + 1) = Handled(k) + i
    BY <1>1
  <2>4. QED
    BY <2>1, <2>2, <2>3
<1>3. Follows(k)
  BY <1>1, <1>2 DEF Follows
<1>4. Head(j.left) = j.given[Handled(j) + 1]
  <2>1. Head(j.left) = j.left[1] /\ 1 \in 1..Len(j.left)
    BY <1>1, FirstItem DEF Follows
  <2>2. QED
    BY <2>1 DEF Follows
<1>5. IsFiniteSet(ValidDone(j))
  <2>1. IsFiniteSet(1..Handled(j))
    <3>1. 1 \in Int /\ Handled(j) \in Int
      BY <1>1
    <3>2. QED
      BY <3>1, FS_Interval, Zenon
  <2>2. QED
    BY <2>1, FS_Subset DEF ValidDone
<1>6. PICK h \in Nat : h = Handled(j)
  BY <1>1
<1>7. /\ ValidDone(j) = {i \in 1..h : Valid(j.given[i])}
      /\ ValidDone(k) = {i \in 1..(h + 1) : Valid(j.given[i])}
      /\ Head(j.left) = j.given[h + 1]
  BY <1>1, <1>4, <1>6 DEF ValidDone
<1>8. 1..(h + 1) = (1..h) \cup {h + 1} /\ h + 1 \notin 1..h
  OBVIOUS
<1>9. Handled(j) + 1 \notin ValidDone(j)
  BY <1>6, <1>7, <1>8
<1>10. ~Valid(Head(j.left)) => ValidDone(k) = ValidDone(j)
  BY <1>7, <1>8
<1>11. Valid(Head(j.left)) => ValidDone(k) = ValidDone(j) \cup {h + 1}
  BY <1>7, <1>8
<1>12. QED
  BY <1>3, <1>5, <1>6, <1>9, <1>10, <1>11

(* What the end of an item leaves of the job.                              *)
LEMMA EndItemFields ==
    ASSUME JobTypes, NEW c \in Clients, NEW rows, NEW errors, EndItem(c, rows, errors)
    PROVE  /\ job'[c].op = job[c].op /\ job'[c].given = job[c].given
           /\ job'[c].left = Tail(job[c].left)
           /\ job'[c].saved = job[c].saved \cup rows
           /\ job'[c].errors = job[c].errors \cup errors
           /\ pc'[c] = "item"
<1>1. job[c] \in Job
  BY DEF JobTypes
<1>2. pc'[c] = "item"
  BY DEF EndItem, Goto, JobTypes
<1>3. QED
  BY <1>1, <1>2 DEF EndItem, JobTypes, Job

(* The item came to nothing: rightly, or with an excuse.                   *)
LEMMA RaisesSound ==
    ASSUME Types, NEW c \in Clients, Sound(c), job[c].left # <<>>,
           nextId.products <= nextId'.products,
           nextId' \in [categories : Nat \ {0}, products : Nat \ {0}],
           NEW why \in Errors, Raises(c, why),
           why \in Excuses \/ (job[c].op \in FormOps => ~Valid(This(c)))
    PROVE  Sound(c)'
<1> SUFFICES ASSUME job'[c].op \in FormOps PROVE Sound(c)'
  BY DEF Sound
<1>1. /\ job'[c].op = job[c].op /\ job'[c].given = job[c].given
      /\ job'[c].left = Tail(job[c].left)
      /\ job'[c].saved = job[c].saved /\ job'[c].errors = job[c].errors \cup {why}
      /\ pc'[c] = "item"
  <2>1. EndItem(c, {}, {why}) /\ JobTypes
    BY DEF Raises, Types
  <2>2. job[c].saved \cup {} = job[c].saved
    OBVIOUS
  <2>3. QED
    BY <2>1, <2>2, EndItemFields
<1>2. /\ Follows(job[c])
      /\ IsFiniteSet(job[c].saved) /\ \A r \in job[c].saved : Numbered(r)
      /\ job[c].errors \cap Excuses = {} => Accounted(job[c])
  BY <1>1 DEF Sound
<1>3. PICK j : j = job[c]
  OBVIOUS
<1>4. PICK k : k = job'[c]
  OBVIOUS
<1>5. /\ Follows(k)
      /\ ~Valid(Head(j.left)) => ValidDone(k) = ValidDone(j)
  BY <1>1, <1>2, <1>3, <1>4, ItemDone
<1>6. \A r \in job'[c].saved : Numbered(r)'
  BY <1>1, <1>2 DEF Numbered, Ids, Types, JobTypes
<1>7. job'[c].errors \cap Excuses = {} => Accounted(k)
  BY <1>1, <1>2, <1>3, <1>4, <1>5 DEF Accounted, This
<1>8. QED
  BY <1>1, <1>2, <1>4, <1>5, <1>6, <1>7 DEF Sound

(* The item is saved.                                                      *)
LEMMA SavedSound ==
    ASSUME Types, NEW c \in Clients, Sound(c), job[c].left # <<>>, pc[c] = "commit_row",
           nextId' = nextId, Saved(c, job[c].row)
    PROVE  Sound(c)'
<1> SUFFICES ASSUME job'[c].op \in FormOps PROVE Sound(c)'
  BY DEF Sound
<1>0. PICK row : row = job[c].row
  OBVIOUS
<1>1. /\ job'[c].op = job[c].op /\ job'[c].given = job[c].given
      /\ job'[c].left = Tail(job[c].left)
      /\ job'[c].saved = job[c].saved \cup {row}
      /\ job'[c].errors = job[c].errors
      /\ pc'[c] = "item"
  <2>1. EndItem(c, {row}, {}) /\ JobTypes
    BY <1>0 DEF Saved, Types
  <2>2. job[c].errors \cup {} = job[c].errors
    OBVIOUS
  <2>3. QED
    BY <2>1, <2>2, EndItemFields
<1>2. /\ Follows(job[c])
      /\ IsFiniteSet(job[c].saved) /\ \A r \in job[c].saved : Numbered(r)
      /\ job[c].errors \cap Excuses = {} => Accounted(job[c])
      /\ Valid(This(c)) /\ row \notin job[c].saved /\ Numbered(row)
  BY <1>0, <1>1 DEF Sound
<1>3. PICK j : j = job[c]
  OBVIOUS
<1>4. PICK k : k = job'[c]
  OBVIOUS
<1>5. /\ Follows(k) /\ IsFiniteSet(ValidDone(j)) /\ Handled(j) + 1 \notin ValidDone(j)
      /\ ValidDone(k) = ValidDone(j) \cup {Handled(j) + 1}
  <2>1. /\ Follows(j) /\ j.left # <<>> /\ k.given = j.given /\ k.left = Tail(j.left)
        /\ Valid(Head(j.left))
    BY <1>1, <1>2, <1>3, <1>4 DEF This
  <2>2. QED
    BY <2>1, ItemDone
<1>6. \A r \in job'[c].saved : Numbered(r)'
  BY <1>1, <1>2 DEF Numbered
<1>7. IsFiniteSet(k.saved) /\ Cardinality(k.saved) = Cardinality(j.saved) + 1
  <2>1. IsFiniteSet(j.saved) /\ row \notin j.saved /\ k.saved = j.saved \cup {row}
    BY <1>1, <1>2, <1>3, <1>4
  <2>2. QED
    BY <2>1, FS_AddElement
<1>8. Cardinality(ValidDone(k)) = Cardinality(ValidDone(j)) + 1
  BY <1>5, FS_AddElement
<1>9. job'[c].errors \cap Excuses = {} => Accounted(k)
  BY <1>1, <1>2, <1>3, <1>7, <1>8 DEF Accounted
<1>10. QED
  BY <1>1, <1>4, <1>5, <1>6, <1>7, <1>9 DEF Sound

(* The next statement of the same item.                                    *)
LEMMA MoveSound ==
    ASSUME Types, NEW c \in Clients, Sound(c),
           nextId.products <= nextId'.products,
           nextId' \in [categories : Nat \ {0}, products : Nat \ {0}],
           job'[c].op = job[c].op, job'[c].given = job[c].given, job'[c].left = job[c].left,
           job'[c].saved = job[c].saved, job'[c].errors = job[c].errors,
           pc'[c] = "insert_product" /\ job[c].op \in FormOps => This(c).defect = "none",
           pc'[c] = "commit_row" /\ job[c].op \in FormOps =>
               /\ Valid(This(c)) /\ job'[c].row \notin job[c].saved
               /\ \E k \in Ids : job'[c].row = Prod(k) /\ k < nextId'.products
    PROVE  Sound(c)'
<1> SUFFICES ASSUME job'[c].op \in FormOps PROVE Sound(c)'
  BY DEF Sound
<1>1. /\ Follows(job[c])
      /\ IsFiniteSet(job[c].saved) /\ \A r \in job[c].saved : Numbered(r)
      /\ job[c].errors \cap Excuses = {} => Accounted(job[c])
  BY DEF Sound
<1>2. PICK k : k = job'[c]
  OBVIOUS
<1>3. Follows(k) /\ (k.errors \cap Excuses = {} => Accounted(k))
  BY <1>1, <1>2 DEF Follows, Handled, Accounted, ValidDone
<1>4. \A r \in job'[c].saved : Numbered(r)'
  BY <1>1 DEF Numbered, Ids, Types, JobTypes
<1>5. This(c)' = This(c)
  BY DEF This
<1>6. pc'[c] = "commit_row" => /\ Valid(This(c)) /\ job'[c].row \notin job[c].saved
                               /\ Numbered(job[c].row)'
  BY DEF Numbered
<1>7. QED
  BY <1>1, <1>2, <1>3, <1>4, <1>5, <1>6 DEF Sound

(* A handler starts with its whole list.                                   *)
LEMMA CallSound ==
    ASSUME Types, NEW c \in Clients, Calling(c)
    PROVE  Sound(c)'
<1>1. ASSUME NEW op, NEW input, Call(c, op, input), op \in FormOps => input \in Seq(Form)
      PROVE  Sound(c)'
  <2>1. /\ job'[c].op = op /\ job'[c].given = input /\ job'[c].left = input
        /\ job'[c].saved = {} /\ pc'[c] = "item"
    BY <1>1 DEF Call, Goto, NoJob, Types, JobTypes
  <2> SUFFICES ASSUME op \in FormOps PROVE Sound(c)'
    BY <2>1 DEF Sound
  <2>2. input \in Seq(Form) /\ Len(input) \in Nat
    BY <1>1
  <2>3. PICK k : k = job'[c]
    OBVIOUS
  <2>4. Handled(k) = 0
    BY <2>1, <2>2, <2>3 DEF Handled
  <2>5. Follows(k)
    <3>1. \A i \in 1..Len(k.left) : k.left[i] = k.given[Handled(k) + i]
      BY <2>1, <2>2, <2>3, <2>4
    <3>2. QED
      BY <2>1, <2>2, <2>3, <2>4, <3>1 DEF Follows
  <2>6. Accounted(k)
    <3>1. ValidDone(k) = {}
      BY <2>4 DEF ValidDone
    <3>2. QED
      BY <2>1, <2>3, <3>1 DEF Accounted
  <2>7. QED
    BY <2>1, <2>3, <2>5, <2>6, FS_EmptySet DEF Sound
<1>2. CASE CreateProduct(c)
  <2>1. \A form \in Forms : <<form>> \in Seq(Form)
    BY CatalogAssumption DEF CatalogAssumption
  <2>2. QED
    BY <1>1, <1>2, <2>1 DEF CreateProduct
<1>3. CASE CreateCustomer(c)
  BY <1>1, <1>3 DEF CreateCustomer, FormOps
<1>4. CASE ImportJson(c)
  <2>1. \A file \in Files : file \in Seq(Form)
    BY CatalogAssumption DEF CatalogAssumption
  <2>2. QED
    BY <1>1, <1>4, <2>1 DEF ImportJson
<1>5. QED
  BY <1>2, <1>3, <1>4 DEF Calling

(* Category.save is refused only what another application hides, and the   *)
(* category Product.save names is always there.                            *)
LEMMA OnlyHidden ==
    ASSUME Inv2, NEW c \in Clients
    PROVE  /\ pc[c] = "insert_category" /\ newest[CategoryOf(c)] # Absent
                /\ MayShare(c, CategoryOf(c))
              => Hidden(c, CategoryOf(c))
           /\ pc[c] = "insert_product" => CategoryOf(c) \in CatRows
                                          /\ newest[CategoryOf(c)] = job[c].category
<1>1. Ready(c) /\ Found(c) /\ EngineInv /\ EngineTypes
  BY DEF Inv2, Inv1, AllReady, Types
<1>2. pc[c] \in FormLabels => CategoryOf(c) \in CatRows /\ CategoryOf(c) \in Rows
  BY <1>1, RowsAndValues DEF Ready, CategoryOf, CatRows
<1>3. ASSUME pc[c] = "insert_category", newest[CategoryOf(c)] # Absent,
             MayShare(c, CategoryOf(c))
      PROVE  Hidden(c, CategoryOf(c))
  <2>1. CategoryOf(c) \in Rows /\ CategoryOf(c) \notin written[c] /\ view[c] # NoView
        /\ view[c][CategoryOf(c)] = Absent
    BY <1>1, <1>2, <1>3 DEF Found, FormLabels
  <2>2. \A d \in Clients : CategoryOf(c) \notin written[d]
    BY <1>1, <1>3, <2>1 DEF MayShare, EngineInv, Locked
  <2>3. committed[CategoryOf(c)] # Absent
    BY <1>1, <1>3, <2>1, <2>2 DEF EngineInv, Locked
  <2>4. QED
    BY <2>1, <2>3 DEF Hidden
<1>4. ASSUME pc[c] = "insert_product"
      PROVE  CategoryOf(c) \in CatRows /\ newest[CategoryOf(c)] = job[c].category
  <2>1. /\ CategoryOf(c) \in CatRows /\ CategoryOf(c) \in Rows
        /\ committed[CategoryOf(c)] = job[c].category /\ job[c].category # Absent
    BY <1>1, <1>2, <1>4, Present DEF Found, FormLabels, Ready
  <2>2. QED
    BY <1>1, <2>1 DEF EngineInv, Kept
<1>5. QED
  BY <1>3, <1>4

(* The screens, the errors, and the items refused at once.                 *)
LEMMA RefusedSound ==
    ASSUME Types, NEW c \in Clients, Ready(c), Sound(c),
           Browse(c) \/ OtherMethod(c) \/ Refusing(c) \/ BeginItem(c) \/ EndCall(c)
    PROVE  Sound(c)'
<1>0. nextId' = nextId /\ nextId.products <= nextId'.products
      /\ nextId' \in [categories : Nat \ {0}, products : Nat \ {0}]
  BY DEF Browse, OtherMethod, Refusing, LockError, CommitReplyLost, Disconnect, BeginItem, EndCall,
         Fail, Types, JobTypes
<1>1. CASE UNCHANGED <<pc, job>> /\ pc[c] \in {"idle", "item"}
  BY <1>0, <1>1, MoveSound
<1>2. CASE Browse(c) \/ OtherMethod(c)
  BY <1>1, <1>2 DEF Browse, OtherMethod
<1>3. CASE pc[c] \notin {"idle", "item"} /\ \E why \in {"lock", "lost"} : Raises(c, why)
  <2>1. job[c].left # <<>>
    BY <1>3 DEF Ready
  <2>2. QED
    BY <1>0, <1>3, <2>1, RaisesSound DEF Errors, Excuses
<1>4. CASE LockError(c)
  <2>1. pc[c] \notin {"idle", "item"}
    BY <1>4 DEF LockError, Waits, KeyOf
  <2>2. QED
    BY <1>3, <1>4, <2>1 DEF LockError
<1>5. CASE CommitReplyLost(c)
  BY <1>3, <1>5 DEF CommitReplyLost
<1>6. CASE Disconnect(c)
  BY <1>1, <1>3, <1>6 DEF Disconnect
<1>7. CASE BeginItem(c) /\ RefusedAtOnce(c)
  <2>1. job[c].left # <<>> /\ Raises(c, "invalid")
    BY <1>7 DEF BeginItem, Fail
  <2>2. job[c].op \in FormOps => ~Valid(This(c))
    BY <1>7 DEF RefusedAtOnce, FormOps, Valid
  <2>3. QED
    BY <1>0, <2>1, <2>2, RaisesSound DEF Errors
<1>8. CASE BeginItem(c) /\ ~RefusedAtOnce(c)
  <2>1. job' = job /\ pc'[c] \in {"insert_customer", "find_category"}
    BY <1>8 DEF BeginItem, Goto, Types, JobTypes
  <2>2. QED
    BY <1>0, <2>1, MoveSound
<1>9. CASE EndCall(c)
  <2>1. job'[c].op = "none"
    BY <1>9 DEF EndCall, NoJob, Types, JobTypes
  <2>2. QED
    BY <2>1 DEF Sound, FormOps
<1>10. QED
  BY <1>2, <1>4, <1>5, <1>6, <1>7, <1>8, <1>9 DEF Refusing

(* The statements of Category.save.                                        *)
LEMMA CategorySound ==
    ASSUME Inv2, NEW c \in Clients, Sound(c),
           FindCategory(c) \/ InsertCategory(c) \/ CommitCategory(c)
    PROVE  Sound(c)'
<1>0. /\ Types /\ Ready(c) /\ job[c] \in Job /\ job[c].left # <<>> /\ job[c].op \in FormOps
      /\ nextId.products <= nextId'.products
      /\ nextId' \in [categories : Nat \ {0}, products : Nat \ {0}]
  <2>1. Types /\ Ready(c) /\ job[c] \in Job /\ job[c].left # <<>> /\ job[c].op \in FormOps
    BY DEF Inv2, Inv1, AllReady, Ready, FormLabels, FindCategory, InsertCategory,
           CommitCategory, Types, JobTypes
  <2>2. nextId' = nextId \/ nextId' = [nextId EXCEPT !.categories = @ + 1]
    BY DEF FindCategory, InsertCategory, DuplicateKey, CommitCategory
  <2>3. QED
    BY <2>1, <2>2 DEF Types, JobTypes
<1>1. ASSUME NEW id, job' = [job EXCEPT ![c].category = id],
             pc'[c] \in {"commit_category", "insert_category"}
      PROVE  Sound(c)'
  <2>1. /\ job'[c].op = job[c].op /\ job'[c].given = job[c].given
        /\ job'[c].left = job[c].left /\ job'[c].saved = job[c].saved
        /\ job'[c].errors = job[c].errors
    BY <1>0, <1>1 DEF Types, JobTypes, Job
  <2>2. QED
    BY <1>0, <1>1, <2>1, MoveSound
<1>2. CASE FindCategory(c)
  BY <1>0, <1>1, <1>2 DEF FindCategory, Goto, Types, JobTypes
<1>3. CASE InsertCategory(c) /\ DuplicateKey(c, CategoryOf(c))
  <2>1. Raises(c, "hidden")
    BY <1>3, OnlyHidden DEF InsertCategory, DuplicateKey
  <2>2. QED
    BY <1>0, <2>1, RaisesSound DEF Errors, Excuses
<1>4. CASE InsertCategory(c) /\ ~DuplicateKey(c, CategoryOf(c))
  BY <1>0, <1>1, <1>4 DEF InsertCategory, CategoryOf, Goto, Types, JobTypes
<1>5. CASE CommitCategory(c) /\ This(c).defect # "none"
  <2>1. Raises(c, "invalid") /\ ~Valid(This(c))
    BY <1>5 DEF CommitCategory, CheckForm, Valid
  <2>2. QED
    BY <1>0, <2>1, RaisesSound DEF Errors
<1>6. CASE CommitCategory(c) /\ This(c).defect = "none"
  <2>1. pc'[c] = "insert_product" /\ job' = job
    BY <1>0, <1>6 DEF CommitCategory, CheckForm, Goto, Types, JobTypes
  <2>2. QED
    BY <1>0, <1>6, <2>1, MoveSound
<1>7. QED
  BY <1>2, <1>3, <1>4, <1>5, <1>6

(* The statements of Product.save and Customer.save.                       *)
LEMMA RowSound ==
    ASSUME Inv2, NEW c \in Clients, Sound(c),
           InsertProduct(c) \/ InsertCustomer(c) \/ CommitRow(c)
    PROVE  Sound(c)'
<1>0. /\ Types /\ Inv1 /\ Ready(c) /\ job[c] \in Job /\ job[c].left # <<>>
  BY DEF Inv2, Inv1, AllReady, Ready, FormLabels, InsertProduct, InsertCustomer, CommitRow,
         Types, JobTypes
<1>1. CASE CommitRow(c)
  BY <1>0, <1>1, SavedSound DEF CommitRow
<1>2. CASE InsertCustomer(c)
  <2>1. job[c].op = "create_customer"
    BY <1>0, <1>2 DEF InsertCustomer, Ready
  <2>2. job'[c].op = job[c].op
    <3>1. CASE job' = [job EXCEPT ![c].row = Cust(This(c).email)]
      BY <1>0, <3>1 DEF Types, JobTypes
    <3>2. CASE \E why \in Errors : EndItem(c, {}, {why})
      BY <1>0, <3>2, EndItemFields DEF Types
    <3>3. QED
      BY <1>2, <3>1, <3>2 DEF InsertCustomer, DuplicateKey, Raises, Errors
  <2>3. QED
    BY <2>1, <2>2 DEF Sound, FormOps
<1>3. CASE InsertProduct(c)
  <2> DEFINE r == Prod(nextId.products)
  <2>1. {q \in CatRows : newest[q] = job[c].category} # {}
    BY <1>3, OnlyHidden DEF InsertProduct
  <2>2. /\ nextId' = [nextId EXCEPT !.products = @ + 1]
        /\ job' = [job EXCEPT ![c].row = r] /\ Goto(c, "commit_row")
    BY <1>3, <2>1 DEF InsertProduct
  <2>3. /\ job[c].op \in FormOps /\ This(c).category \in Names /\ pc[c] = "insert_product"
        /\ pc[c] \in BeforeProduct
    BY <1>0, <1>3 DEF InsertProduct, Ready, FormLabels, BeforeProduct
  <2>4. /\ This(c).category # Empty /\ This(c).defect = "none"
        /\ \A q \in job[c].saved : Numbered(q)
    BY <2>3, CatalogAssumption DEF Sound, CatalogAssumption
  <2>5. nextId.products \in Ids
    BY <1>0, <2>3, IdsLeft DEF Inv1
  <2>6. /\ nextId.products \in Nat /\ nextId'.products = nextId.products + 1
        /\ nextId' \in [categories : Nat \ {0}, products : Nat \ {0}]
    BY <1>0, <2>2 DEF Types, JobTypes
  <2>7. r \notin job[c].saved
    BY <2>4, <2>6 DEF Numbered, Prod, Ids
  <2>8. /\ job'[c].op = job[c].op /\ job'[c].given = job[c].given
        /\ job'[c].left = job[c].left /\ job'[c].saved = job[c].saved
        /\ job'[c].errors = job[c].errors /\ job'[c].row = r /\ pc'[c] = "commit_row"
    BY <1>0, <2>2 DEF Goto, Types, JobTypes, Job
  <2>9. \E k \in Ids : job'[c].row = Prod(k) /\ k < nextId'.products
    BY <2>5, <2>6, <2>8
  <2>10. Valid(This(c))
    BY <2>4 DEF Valid
  <2> HIDE DEF r
  <2>11. nextId.products <= nextId'.products
    BY <2>6
  <2>12. QED
    BY <1>0, <2>6, <2>7, <2>8, <2>9, <2>10, <2>11, MoveSound
<1>4. QED
  BY <1>1, <1>2, <1>3

(* At first no handler has been called.                                    *)
LEMMA InitInv3 == Init => Inv3
<1>1. Init => \A c \in Clients : Sound(c)
  BY DEF Init, NoJob, Sound, FormOps
<1>2. QED
  BY <1>1, InitInv2 DEF Inv3

(* And no step breaks the account of any.                                  *)
LEMMA StepInv3 == Inv3 /\ [Next]_vars => Inv3'
<1> SUFFICES ASSUME Inv3, [Next]_vars PROVE Inv3'
  OBVIOUS
<1>1. Inv2'
  BY StepInv2 DEF Inv3
<1>2. ASSUME NEW c \in Clients, Action(c) PROVE Inv3'
  <2>1. Inv1 /\ Inv2 /\ Types /\ Ready(c) /\ Sound(c)
    BY DEF Inv3, Inv2, Inv1, AllReady
  <2>2. Sound(c)'
    BY <1>2, <2>1, CallSound, RefusedSound, CategorySound, RowSound DEF Action, Statement
  <2>3. Alone(c) /\ nextId.products <= nextId'.products
    BY <1>2, <2>1, ActionJobStep DEF JobStep, Quiet, HandsOut, Starts, Types, JobTypes
  <2>4. nextId.products \in Nat /\ nextId'.products \in Nat
    BY <1>1, <2>1 DEF Inv2, Inv1, Types, JobTypes
  <2>5. \A r : Numbered(r) => Numbered(r)'
    BY <2>3, <2>4 DEF Numbered, Ids
  <2>6. ASSUME NEW d \in Clients \ {c} PROVE Sound(d)'
    <3>1. /\ Sound(d) /\ job'[d] = job[d] /\ pc'[d] = pc[d] /\ This(d)' = This(d)
      BY <2>3 DEF Alone, Inv3, This
    <3>2. Follows(job'[d]) = Follows(job[d]) /\ Accounted(job'[d]) = Accounted(job[d])
      BY <3>1
    <3>3. QED
      BY <2>5, <3>1, <3>2 DEF Sound
  <2>7. QED
    BY <1>1, <2>2, <2>6 DEF Inv3
<1>3. CASE UNCHANGED vars
  BY <1>1, <1>3 DEF Inv3, Sound, Numbered, This, vars
<1>4. QED
  BY <1>2, <1>3 DEF Next, Proceed, Action, Statement, Refusing, Calling

(* When a list is done, the valid items so far are those of the list.      *)
LEMMA AllDone ==
    ASSUME NEW j, Follows(j), j.left = <<>>
    PROVE  ValidDone(j) = {i \in DOMAIN j.given : Valid(j.given[i])}
<1>1. j.given \in Seq(Form) /\ Len(j.left) = 0
  BY DEF Follows
<1>2. Handled(j) = Len(j.given) /\ DOMAIN j.given = 1..Len(j.given)
  BY <1>1 DEF Handled
<1>3. QED
  BY <1>2 DEF ValidDone

(* create_product and import_json save every valid item they are given,    *)
(* unless a connection is lost, a lock gets in the way or another          *)
(* application's category is hidden: what an earlier call left half done   *)
(* is never the reason.                                                    *)
THEOREM ValidItemsAreSaved == Spec => ValidItemsSaved
<1>1. ASSUME Inv3, Next, NEW c \in Clients,
             Reported(c, "create_product") \/ Reported(c, "import_json")
      PROVE  AllValidSaved(c) \/ report'[c].errors \cap {"hidden", "lock", "lost"} # {}
  <2>1. PICK d \in Clients : Action(d)
    BY <1>1 DEF Next, Proceed, Action, Statement, Refusing, Calling
  <2>2. Types /\ report'[c] # report[c] /\ report'[c].op \in FormOps
    BY <1>1 DEF Reported, FormOps, Inv3, Inv2, Inv1
  <2>3. EndCall(d)
    BY <2>1, <2>2 DEF Action, Calling, CreateProduct, CreateCustomer, ImportJson, Call, Browse,
       OtherMethod, BeginItem, Statement, FindCategory, InsertCategory, CommitCategory,
       InsertProduct, InsertCustomer, CommitRow, Refusing, LockError, CommitReplyLost, Disconnect
  <2>4. d = c /\ report'[c] = job[c] /\ job[c].left = <<>>
    BY <2>2, <2>3 DEF EndCall, Types, JobTypes
  <2>5. PICK j : j = job[c]
    OBVIOUS
  <2>6. Follows(j) /\ (j.errors \cap Excuses = {} => Accounted(j))
    BY <1>1, <2>2, <2>4, <2>5 DEF Inv3, Sound
  <2>7. ValidDone(j) = {i \in DOMAIN j.given : Valid(j.given[i])}
    BY <2>4, <2>5, <2>6, AllDone
  <2>8. QED
    BY <2>4, <2>5, <2>6, <2>7 DEF AllValidSaved, Accounted, Excuses
<1>2. Inv3 /\ [Next]_vars =>
        [\A c \in Clients :
            Reported(c, "create_product") \/ Reported(c, "import_json")
               => \/ AllValidSaved(c)
                  \/ report'[c].errors \cap {"hidden", "lock", "lost"} # {}]_vars
  BY <1>1
<1>3. QED
  BY <1>2, InitInv3, StepInv3, PTL DEF Spec, ValidItemsSaved
=============================================================================
