# A TLA+ model of the Store Manager (DatabaseProject)

The repository is a desktop shop manager: a Tkinter window over four Active
Record classes, one MySQL connection per running program, and the vendored MySQL
Connector/Python under it. This directory holds TLA+ modules translated from the
source, TLC instances that check them, and proofs that TLAPS checks. Paths are
relative to the repository; `connector/` stands for
`lib/mysql_connector_python-9.5.0/lib/mysql/connector/`.

## 1. Inventory

| Component | State it keeps | Operations | Talks to |
|---|---|---|---|
| `src/models/order.py` | rows of `orders`, `order_items`, stock in `products` | `save_transaction`, `update_status`, `delete_transaction` | connection (SQL) |
| `src/models/product.py` | rows of `products` | `save`, `add_stock`, `delete_product` | connection |
| `src/models/category.py`, `customer.py` | rows of `categories`, `customers` | `save` | connection |
| `src/database/connection.py` | the singleton connection, and through it a server session (read view, locks, uncommitted rows) | `get_connection`, `initialize_database` | connector, `sql/schema.sql` |
| `sql/schema.sql` | tables, keys, two views, seed rows | run once, at the first start | |
| `src/ui/window.py` | label-to-id maps of the order form, the rows the screens show | the handlers of buttons, reloads, `import_json`, `export_csv` | the classes above; SELECTs of its own |
| `connector/connection.py`, `cursor.py` | unread result, `in_transaction`, each cursor's row read ahead | commands, fetches, ping, reconnect | packets |
| `connector/pooling.py` | a queue of connections, a configuration version | connect, get, close, add, configure | connections |
| `connector/network.py` | packet numbers, packets already decompressed | send, receive, plain and compressed | socket |

One program is single-threaded and runs one method at a time, but nothing keeps
two programs from using one database; each method is a series of SQL statements,
so methods of two programs interleave statement by statement. That, and what a
crash, a lost connection or a lock wait leaves behind, is where this code is
hard:

- decisions are made on a REPEATABLE READ snapshot, without `FOR UPDATE`, and
  applied to the newest rows (`order.py` 53-67, 95-111, 136-143);
- the screens' SELECTs leave a transaction open (autocommit is off), and only
  some methods begin with `rollback()`;
- `Category.save`, `Customer.save` and `Product.save` end without `rollback()` when
  they fail;
- foreign keys lock parent rows in share mode before an `UPDATE` wants them
  exclusively, and orders lock their products in any order;
- a handler reloads up to three screens with separate SELECTs, and the form finds
  products by labels that need not be unique;
- `initialize_database` takes one table for the whole schema, while each CREATE
  commits by itself;
- the connector shares one stream of packets among cursors: an answer left unread,
  timed out or cut in two is what the next command finds.

What makes the parts correct: an order exists whole or not at all; stock is
never negative, and every unit supplied is in stock or in a live order; no item
names a missing product, and no product a wrong category; what the window
reports is committed; no method hangs, and none leaves locks behind; a
connection has one user at a time, and what it reads is the answer to what it
asked. `PROJECT.json` lists the hazards, each at its line, with the properties
that would catch it.

## 2. Modules

```
InnoDB (the server's engine, external)
  ^ INSTANCE                                       ^ INSTANCE
Shop (tables, sessions, prologue, epilogue)       Catalog (categories, customers,
  ^ EXTENDS              ^ EXTENDS                  ^      products, import)
OrderRecord              ProductRecord            CatalogProofs
        ^ EXTENDS          ^ EXTENDS
       StoreSQL --INSTANCE--> Store               SchemaInit (first start)
        ^                       ^ INSTANCE          ^
       StoreSQLProofs         Screens (window)    SchemaInitProofs
        ^                       ^
       StoreSQLAtomicProofs   ScreensProofs

Connector (one connection)   Pool (connections)   Packets (network brokers)
  ^ EXTENDS                    ^                    ^
AppSession                   PoolProofs           PacketsProofs
  ^ EXTENDS
ConnectorProofs (both)
```

Every checked module has an `MC...` module beside it with the values of its
instances; `SchemaInit` needs none. Definitions named `Faulty_...` are plausible
bugs of the definition that follows them. Nothing uses them; each breaks a
property when it takes the place of that definition.

**InnoDB** is the server as the application uses it: newest and committed row
versions, a read view per connection fixed by its first SELECT, UPDATE/INSERT/
DELETE on the newest version under an exclusive row lock, share locks of foreign
key checks, COMMIT and ROLLBACK. Left out: gap locks, whose only effect in these
methods is one more wait that may end in an error, and syntax errors. The isolation
level is MySQL's default, which the code never changes.

**Shop, OrderRecord, ProductRecord, StoreSQL** are the transactional core, one
action per SQL statement with the tests that follow it. `pc` is the statement a
client sends next, `job` the arguments and locals of the running method.

| Label | Statement | Source |
|---|---|---|
| `save_customer`, `save_header` | customer lookup; INSERT orders | order.py 39-44 |
| `save_read`, `save_line`, `save_stock` | read price and stock, checks; INSERT item; absolute UPDATE | order.py 46-67 |
| `status_read`, `status_write` | read status, reactivation check; UPDATE orders | order.py 95-104 |
| `items_read`, `restock` | read items; relative UPDATE per item (both methods) | order.py 106-111, 139-143 |
| `delete_read`, `delete_lines`, `delete_header` | read status; two DELETEs | order.py 136-146 |
| `insert_product`, `add_stock`, `delete_product` | INSERT; relative UPDATE; DELETE and rowcount | product.py 44-46, 64-65, 81-83 |
| `commit`, `raise` | COMMIT; except branch | order.py 69-75, 113-118, 148-153 |

`CallAfterRollback` is the `get_connection(); rollback(); start_transaction()`
prologue, `HandleError` the except branch, `CommitReplyLost` a commit whose answer never
arrives, `Disconnect` a connection that dies within a method (the server rolls back),
`PrologueFails` one that dies between two methods or in the prologue: the `except: pass` of
order.py 31-34 hides the failed `rollback()`, but the server has rolled back all the same, and the
next call raises before a statement is sent. Only a lost link makes that `rollback()` fail:
`AppSession` runs the same prologue call by call (`AppNeverRefused`). `Browse` is any
SELECT of a screen, `LockError` the answer 1205 or 1213 to a statement that waits.
Three history variables say what no column does: `supplied` (units ever delivered),
`listed` (rows committed at some time, which a stale screen may offer), `placed`
(the list an order was created from). `Refused` folds the validation of an item
into its read. `Product.save` has no except branch: after validation it can only
fail by a refused INSERT, which leaves its fresh transaction empty, or by a lost
connection. `DELETE FROM orders` also cascades to items (schema.sql 38), which by then
are deleted and locked. `Serial = TRUE` forbids two programs' methods to overlap (their
open read views still do). **Store** is the abstract shop, every method one atomic
step; `StoreSQL` maps its committed rows to it.

**Catalog** has `create_product`, `create_customer` and `import_json` (`window.py`
258-309, 477-520) down to the statements of `Category.save`, `Customer.save` and the
INSERT of `Product.save`. `BeginItem`/`EndItem` walk the list of items (`except: continue`
skips what raised), `FindCategory` reads in whatever view is open, `InsertCategory` and
`InsertCustomer` meet the unique indexes (`DuplicateKey`), wait for an uncommitted
key (`Waits`) and lock what they collide with until somebody ends the transaction.
`report` is the last message box. `OtherMethod` is any method of `order.py` or
`product.py` that begins with `rollback()`.

**Screens** puts the window over `Store`: a handler runs one atomic method and queues
its reloads (`loads`), each reload (`Load`) is a SELECT in the open read view, other
programs commit in between. A reload may fail (`LoadFails`): the product list and the
report are emptied before their SELECT and stay empty, the order form keeps its old labels
and shows no error. `picked` is the label selected in the order form; `ProductMap` is the
dictionary `refresh_dropdowns` builds, in which the later of two equal labels wins.

**SchemaInit** is `initialize_database` with any number of programs starting at
once: the check of the products table, the nine commands of `schema.sql`
(CREATE commits at once; the two `INSERT IGNORE` wait for `commit()` and for each
other's keys), and a `Stop` at any point.

**Connector** is one pure-Python connection with unbuffered cursors: `requests` and
`wire` are what travels, `unread` is `_unread_result`, `inTrans` the status flag of the
last packet that had one, `cursors[k].ahead` is `_nextrow`. A method call is split at the
network: `Send`/`Execute`/`Commit`... transmit, `Receive` takes the answer, `Lost` and
`TimeOut` are its two other ends; `FetchOne` and `FetchAll` read rows, `RowsTimeOut` is a read
timeout among them, which clears `unread_result` (`StopReading`); `Ping`,
`Reconnect`, `GetConnection` follow `is_connected()` (`connection.py` 46 of the
application calls them). The server answers one command after the other; `Break` cuts the
link anywhere. **AppSession** runs every method and screen of the application as the
sequence of these calls it makes (`ScriptsOf`), with its `try`, `except` and
`finally` (`Issue`, `Except`, `Object`, `Return`).

**Pool** is `connect(pool_size=n)` with threads: `handle[t]` is the connection in a
thread's `PooledMySQLConnection`, `pc` the steps of `get_connection()` and `close()`
between which other threads run (`CloseBegin`, `Reset`, `AddConnection`, `Forget`), a
second `close()` included, while `SetConfig`, `ServerStops`, `ServerStarts` and
`Expires` happen at any time.

**Packets** is `network.py`. A byte is a record that says what it belongs to, and
`zlib.compress` makes one byte that holds its argument. `PreparePackets` cuts a
payload, `PlainPackets` and `CompressedPackets` are the two `send()`s; `Recv`, `RecvInto`
(one `recv_into()`, of one byte or all there are), `PlainHeader`, `PlainBody`,
`OuterHeaderRead`, `OuterBodyRead`, `Split`, `Enqueue` and `Dequeue` the two `recv()`s. The
server takes packets apart as the protocol says, checks their numbers, and sends
answers whose compressed packets it cuts anywhere (`Pieces`). `sending`, `owed`,
`kind` and `last` are history.

## 3. Runs

| Run | Question | Shown |
|---|---|---|
| `Serial` | do methods that do not overlap implement `Store`, whatever views are open, whichever statement fails, whichever reply is lost? | `MethodsAreAtomic`, `StockAccounted`, `TypeOK` hold |
| `Overlap` | what survives when all methods interleave? | `OrdersWhole`, `NoDanglingLines` hold |
| `Waiting` | what of orders that lock two products in opposite order? | `StockInRange`, `IdleHoldsNoLocks` and, with fairness, `EveryCallReturns` hold |
| `Schema` | three programs started and killed anywhere on an empty server | `ImportedIsComplete`, `TypeOK` and, with fairness, `StartsUp` hold |
| `Catalog` | saves of products, customers and files with the same names in two programs, old views, refused items, lost replies | `ProductsCategorised`, `ReportsAreTrue`, `ValidItemsSaved`, `EveryCallReturns` hold |
| `Screens` | what do two windows show while both change the store and reloads fail? | `ScreensAgree`, `OwnWorkShown`, `NeverShowsOlder` hold |
| `Connector` | two cursors, any order of calls, a link that breaks anywhere, read timeouts | `InStep`, `StartPublishesNothing`, `FetchesAllRows` hold |
| `AppSession` | can the connector refuse the application, or keep half a method? | `AppNeverRefused`, `KeepsConnection`, `NoWritesLeft`, `MethodsReturn` hold |
| `Pool` | three threads, connections closed twice, a server that restarts, expiring sessions, a changing configuration | `ExclusiveUse`, `Conserved`, `CleanHandover` hold |
| `Packets` | do both sides put together what the other one cut? | `ServerGetsAll`, `PacketsWhole`, `RecvReturns` hold |
| `LostUpdate` | overlapping orders of one product | `StockAccounted` **violated** |
| `SchemaHalfMade` | a first start killed half way | `ReadyIsComplete` **violated** |

`StockAccounted` holds in `Serial` and fails in `LostUpdate`, so it takes two overlapping
methods to lose a unit: `order.py` 66 writes `stock - quantity` of an old snapshot. The
README (lines 20, 26) promises stock accuracy. `ReadyIsComplete` is what
`connection.py` line 69 says of `initialize_database`.

Several properties have an exception, which is a behaviour of the code that the
property would otherwise forbid; section 5 lists them. `ValidItemsSaved` excepts a lost
connection, a lock, and a category another program committed after the view was
opened; `ScreensAgree` a connection lost between two reloads, and a screen whose reload failed;
`OwnWorkShown` such a screen too, where a list must then be empty; `FetchesAllRows` another
cursor in use on the connection; `InStep`, `FetchesAllRows` and `StartPublishesNothing` a
method that has timed out; `ServerGetsAll` a compressed send that ends with an empty
packet; `PacketsWhole` and `RecvReturns` a packet torn by a timeout or cut in a hard
place.

**Bounds.** Two programs are enough for every pairwise race; locks, views and jobs
are per program. In the store: two products make lock cycles; lists include one
product twice (the second read must see the first write), an invalid item after a
valid one (a rollback of real work), and two lists in opposite order. Two order
ids let one order be placed while another is changed; with one id in `Overlap` both
programs meet on the same order. `MaxInt` is 2 or 3, so that a restock can overflow
the column. `Catalog` has two names, two addresses and three items (`MaxItems`): a file
of a refused item and a valid one beside another program's form with the same
category. `Screens` has a product to begin with and one that is created, all of
one name (`OneName`), since the schema does not make names differ; two
successful methods (`MaxCommits`): one whose effect the other program must or need
not see; and one reload that fails (`MaxFailures`), the first, the second or the last of a
handler. `Connector` sends five commands (`MaxCommands`), enough for a timeout, a
reconnection and a result on the new session; two rows (`MaxRows`) have a first and
a last one, and one read ahead. `AppSession` has room
for three methods in a row (`Longest` is the commands of the longest one).
`Pool` has three threads for one or two connections, so that the pool is exhausted, a
connection more than the pool holds can be made, and two configurations
(`MaxVersion`). `Packets` scales the constants of the protocol down: 8 for
2^24 - 1, 4 for 256, headers of 3; the lengths sent lie around every threshold (no
compression, compression, one packet, `MaxPayload - Header`, exact multiples), the
answers are one packet, two, a full one, and an empty one after a full one. Two payloads (`MaxExchanges`) make a
session go on after the first, and with a file of two chunks the numbers wrap; an
answer comes in up to three compressed packets (`MaxPieces`), so that a packet can go on
past the next one.
`SYMMETRY` is used in safety runs only. Where the bound on calls or commands stops
a behaviour, `CHECK_DEADLOCK FALSE` says so; in the other runs an idle program can
always go on.

**Fairness.** `WF_vars(Proceed(c))` in the store, `Catalog` and `SchemaInit`: once
called, a method's next statement is sent and answered, because the method runs on
the GUI thread to its end and InnoDB answers a waiting statement with a lock or an
error. Calling a method, losing a connection or a reply are not fair.
`FairAppSpec`: the running method goes on (its next call, the packet that has
arrived, or the discovery that the link is down) and the server answers; the
link need not break. `FairSpec` of `Packets`: a `recv()` that has what it needs goes on.
The timeout is not fair, so `RecvReturns` does not rest on it.

## 4. Proofs

For every value of the constants, from the assumptions named in the modules alone
(`ShopAssumption`, `StoreAssumption`, `ScreensAssumption`, ...). They say that the
bounds are numbers, that the tables at the start have their types, and that the marks
for "no row", "no view", "nothing selected" are none of the values they stand beside.
`PROJECT.json` lists the theorems with the properties they state: every invariant of a
passing run is one of them. Hardly any of these properties is inductive as it stands; what
each is strengthened by is said below, and TLC agrees with the strengthened invariants on
the instances of the runs (except that of `PacketsProofs`, which quantifies over sequences
of any length).

**`StoreSQLProofs`** (any number of programs, products, orders and item lists, whether
methods overlap or not).

- `TypesHold` and `StockStaysInRange`: a committed stock stays in `0..MaxInt`. Type
  correctness alone is not inductive: that `DeductStock` writes no negative number needs
  the relation between the locals and the statement, `JobReady`: at `save_line` and
  `save_stock` the stock read is at least the quantity of the line, lists are not
  empty inside the loops, ids and statuses are set when used. The invariant is
  `Inv1 == EngineTypes /\ AppTypes /\ JobsReady`.
- `IdleNeverBlocks`: idle programs hold no locks. Three lemmas say what
  statements, endings and the remaining calls do to sessions, their own and others'.
- `ReferencesHold`, no dangling items. Every action is one of a few steps of the
  engine (`EngineStep`), so that the rest is said of those. `Locked` is what the engine
  gives: a changed row is locked by its author alone, and a row nobody is changing has
  one version. `ReferencesKept` strengthens the property in two ways: the newest version has
  the product of every reference, committed or not, and a reference that is not
  committed has its product locked in share mode by the transaction that wrote it.
  Without the second, a ROLLBACK could take away a product that an order about to be
  committed refers to.
- `OrdersStayWhole`. `Work` says how far each method is at each label: a save owns an order
  that is on no screen, and what it has inserted and what is still to come are the list
  it was given (`HalfSaved`); a status goes to a header that is there in both versions; a
  deletion leaves rows that are `Gone` for its COMMIT, changed by itself or by another
  before it. `UnusedIds` and `ItemsAfterOrder` say why no other application can touch the
  items of an order that is half saved.

**`StoreSQLAtomicProofs`** adds what holds only while methods do not overlap; `Serial` is
the hypothesis of both theorems; `LostUpdate` shows that stock does not add up without it.

- `SerialMethodsAreAtomic`, `Serial => (Spec => MethodsAreAtomic)`: the refinement of `Store`.
  `SerialInv` compares the newest tables with the committed ones, label by label (`Done`): a
  save has taken from stock what its lines so far demand (`Took`, `Halfway`), each line after
  it found enough of its product; a cancellation or a deletion has given back the items
  it has passed (`Gave`, `Returning`); what was read to decide is the committed value,
  since no other method runs (`Alone`) and the view was opened by this method or shows the
  same (`Reads`). At COMMIT the newest tables become the committed ones, so the comparison is
  a step of `Store`; every other action leaves the store as it is. `CommittedListed` and
  `FreshProducts` say that the ids a method gets are new to the store.
- `SerialStockAccounted`: stock plus the units in live orders are the units supplied. It is an
  invariant of commits alone: an order that comes to the live ones adds to `Sold` what it
  demands, one that leaves subtracts it, and `Took` and `Gave` are the same numbers. What
  a list demands is the number of its units (`Units`, a set, each unit told apart by its
  item), not a sum along the list: a sum needs an induction of its own, the size of a
  finite union does not.

**`SchemaInitProofs`** (any number of starts, killed anywhere): `SchemaTypes` and
`ImportTellsTheTruth`. The strengthening is `NoGap`: what a running import has passed is
committed or in its own transaction.

**`CatalogProofs`** (any number of programs, names, addresses, and any items in a file):
`CatalogTypes`, `ProductsAreCategorised`, `ReportsHold` and the action property
`ValidItemsAreSaved`. `Inv1` is types, what a method has set when it is at a label, and
`Counted`: the ids handed out and the items that may still take one are together no
more than the items given, which bounds the counters. `Inv2` adds the engine's facts about locks and versions (`EngineInv`)
and, label by label, where the category of a product comes from: it was committed before
a product names it, or the same transaction has written it (`Categorised`, `Found`,
`SavedTrue`). `Inv3` adds `Sound`: unless a method met an excuse (a hidden row, a lock, a lost
connection), it has saved as many products as it is done with valid items, each under
an id of its own. `OnlyHidden` says that the INSERT of a category is refused as a duplicate
only because of a row the read view did not show, and that of a product never for
want of its category.

**`ScreensProofs`** (any number of windows, products, orders, commits, failed reloads, any
names): `WindowTypesHold`, `ReloadsAgree`, `ReloadsShowOwnWork` and the action property
`ReloadsNeverGoBack` (`NeverShowsOlder`). Types are inductive only
with `ItemsExist`: a cancellation adds to the stock of the products of the order, which must
still be numbers; `DeleteProduct` asks for it. `LoadedAgree`: the screens that a handler has
loaded so far, without a failure, show the open read view; `OwnWorkSeen`: neither they nor
the view are older than the handler's own commit, which closed the view of before;
`ViewNewest`: no screen of a window shows a later state than its open view, and none one
later than what is committed, which is why a new view cannot take a screen back.

**`ConnectorProofs`**, first of one connection (any number of cursors and commands, results of
any length):
`ConnectorTypes`, `StaysInStep`, `StartsCommitNothing` and the action property `FetchesHold`.
`Inv2` adds `Steady`: while the link is up, what is on its way is the one command of the
waiting method, its answer, or the rest of a result that `unread_result` announces; and a
transaction that holds rows is known to the client (`Noticed`). `Inv3` adds `Ordered`: the
rows a cursor has got, the one it has read ahead and those on the wire are together
all rows of its result, in order.

Then of the application on it (every sequence of methods): `NeverRefused`, `ConnectionKept`, `RowsEnded`, and
`AppUsesConnector`: every behaviour of `AppSession` is one of `Connector`, so all of the above
holds for the application. The calls of every method are a path through one relation
between calls (`After`); `Kept` says which call to come ends the transaction that holds
rows, `Calm` that only a SELECT leaves rows unread and that the next call fetches them
all, `Busy` that a method waits for the answer to its own command. Only
`get_connection()` brings a lost link up again, and it is the first call of a method.

**`PoolProofs`** (any number of threads and connections, any pool sizes): `PoolTypes`,
`OneOwner` (`ExclusiveUse`), `NothingLost` (`Conserved`), `CleanSessions` (`CleanHandover`, if
sessions are reset). The invariant has four parts. `Places`: the step a thread is at
decides whether it has a handle, and `close()` works on that handle, although it holds
a copy of the connection while others run. `Owners`: the queue has no connection
twice, no two threads have the same, and every connection made is in the queue or
with a thread; without the last part the fresh connection of a second `close()`
might be one in use. `Enough`: connections are made, never unmade. `Sessions`: a
connection may be queued with its borrower's transaction when its reset was
refused, but then it has unread rows, so `is_connected()` fails and it is opened anew
before it is handed out; and a session labelled with the latest configuration was
opened with it.

**`PacketsProofs`** (payloads, answers and chunks of any length, any sizes of packets and
headers): `PacketTypes`, `ServerGetsEverything` (`ServerGetsAll`) and `PacketsComeWhole`
(`PacketsWhole`). The invariant has two halves, one for each direction.

- `ServerHalf`. What the server has read and not taken, and what is on its way to it, are
  the packets of the payload that are still to be taken, one after the other (`Exchange`
  says which), and after them only junk, if the last compressed packet was an empty one.
  The packets on their way are numbered without a gap, from the number the server
  expects to the latest of the client (`Chained`, `NumbersInv`), modulo `Numbers`, and
  through a `LOCAL INFILE` in both directions (`DataNumbers`). The lemmas under it say that
  cutting a payload into packets (`PreparePackets`) or packets into compressed ones and
  joining the pieces again gives back the bytes.
- `ClientHalf`. For the plain broker, the header and bytes read so far and those that come
  are the packets owed, and `recv()` is in the first of them. For the compressed one
  there is an `Answer`: bytes, the packets they are, the places where these end, and
  the places where the compressed packets cut them, of which neither need be a
  multiple of the other. `Wire` and `Splitting` say where in it the client is, that is
  what it has decompressed and what is still on its way; `Aligned`, which holds unless a
  cut was hard, that it knows so too: what is queued are the next packets owed, and
  what is left to split begins where the last queued one ends. `Soft` is the condition
  on the cuts that the code needs: a compressed packet that ends within a packet ends
  after its length bytes, and the next one brings the rest. It is where the proof fails for
  the hard cuts of section 5.

`FlattenSeq`, which joins sequences, is a recursive function of the community modules.
What is needed of it (that it is a sequence, and what one more element in front or
behind does) follows without an induction theorem from the least number for which it
would fail (`LeastElement`, from the well-foundedness of `<` on the naturals).

**Only model-checked**: liveness (`EveryCallReturns`, `StartsUp`, `MethodsReturn`,
`RecvReturns`), which rests on fairness and ENABLED.

## 5. What the code does that no property forbids

Each of these is a behaviour of a model here, at the line it comes from; the properties
leave room for it, or it is outside the bounds of a passing run.

- Two programs that cancel, delete or set to PAID the same order decide from old
  statuses: items are returned twice, or a cancelled order comes back
  (`order.py` 101, 106, 138). `Overlap` runs these races (without PAID, for its
  size), and what it checks holds in spite of them; stock need not add up there.
- `Category.save` looks for its name in an old view; it misses a category committed
  since, and the INSERT fails, again at every retry in that view (`category.py` 25).
- `import_json` skips every item whose save raised, for whatever reason (`window.py` 507).
- Two products with the same name and stock share a label; the order goes to the
  later one (`window.py` 210). `products.name` is not unique, and importing a file twice
  makes such products; `Screens` has them, and no property says which one is ordered.
- A reload that fails leaves its list empty, after an error box or, without a connection, without
  one (`window.py` 397-401, 414-415, 439-443, 449-450); that of the order form is swallowed, and
  old labels stay (214-215), although the message box before it said "Success".
- Refresh reads in the view the last SELECT opened and shows old rows until a method
  ends it (`window.py` 400).
- `add_stock` of a product that another program deleted reports success (`product.py` 66).
- A cursor that executed a statement earlier fetches the rows of another cursor's
  (`connector/cursor.py` 735).
- `in_transaction` is what the last OK or EOF packet said; after a deadlock error the server
  has rolled back, and it still says TRUE (`connector/connection.py` 574).
- A read timeout leaves its answer on the way, or the rows that were not read
  (`connector/connection.py` 839-841), and the next command takes them for its
  own (`connector/_decorating.py` 87), where line 75 and `connector/errors.py` 135 say that the
  connection is closed. The application sets no read timeout.
- `reconnect()` keeps `unread_result` of the old session, so the new one is refused
  (`connector/abstracts.py` 1671); a pooled connection in that state goes back to the
  queue and fails every borrower (`connector/pooling.py` 665).
- A pooled connection closed twice puts one more connection into the pool, and a
  later `close()` finds the queue full (`connector/pooling.py` 412).
- A compressed send whose packets fill whole compressed packets ends with one of
  length 0, which to the server means "not compressed" although it holds bytes of zlib
  (`connector/network.py` 344, against lines 97-98: "the caller of `send` can provide
  payloads of arbitrary length").
- `_recv_compressed_pkt` reads one further compressed packet when a packet is
  incomplete: a packet that goes on past it, or whose length bytes are split, is taken
  apart wrongly (`connector/network.py` 383-409). A timeout in the middle of a packet
  loses the bytes read (176, 244). A session is not followed further after either.

## 6. Not modelled

- `main.py`, `models/base.py`, widgets, CSV writing, `settings.ini`: no state of
  their own, or pure I/O.
- The sums of `view_order_summary` and money in general: they affect no state.
- The UPDATE branches of `Product.save`, `Category.save` and `Customer.save`, which no screen
  calls, have no statement in `Catalog`; as calls of the connector they are those of
  `AppSession`.
- Of the connector: the C extension variant (`*_cext.py`), which `connect()` prefers where
  the compiled extension is installed (`connector/pooling.py` 314-323). The repository has
  the Python sources alone, with which the application runs on the pure Python
  connection, and that is the one modelled; of the other, all that can be said from here is
  what holds of the store and the screens, where the connector is only its statements.
- Of the connector too: the asyncio variant (`aio/`); prepared, buffered and dictionary
  cursors, `callproc`, several result sets; character set and error tables;
  authentication plugins, TLS and the opening of sockets; failover; Django; telemetry;
  `_remove_connections`, which serves tests. The application uses none of them. They are most of
  the repository's lines, so the share of all lines the modules stand for is small,
  while of the application itself (about a thousand lines) the larger part is modelled.
