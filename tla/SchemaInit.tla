------------------------------ MODULE SchemaInit ------------------------------
(***************************************************************************)
(* DatabaseConnection.initialize_database: every start of the application  *)
(* creates the database, looks for the products table, and, only if it is  *)
(* missing, runs sql/schema.sql one command after the other.  CREATE       *)
(* commits on its own (external: MySQL), the two INSERT IGNORE commands    *)
(* wait for commit().  Applications may start at the same time, and may be *)
(* stopped between two statements.                                         *)
(***************************************************************************)
EXTENDS Naturals, Sequences

CONSTANT Apps   \* the applications that may be started

(* Faulty: the items are created before the orders.                        *)
Faulty_Commands == <<"categories", "customers", "products", "order_items", "orders",
                     "view_order_summary", "view_stock_status",
                     "seed_category", "seed_customer">>

(* sql/schema.sql, command by command.                                     *)
Commands == <<"categories", "customers", "products", "orders", "order_items",
              "view_order_summary", "view_stock_status",
              "seed_category", "seed_customer">>

Everything == {Commands[i] : i \in DOMAIN Commands}
Seeds == {"seed_category", "seed_customer"}

(* What a command refers to must exist when it is run.                     *)
Needs(x) ==
    CASE x = "products"           -> {"categories"}
      [] x = "orders"             -> {"customers"}
      [] x = "order_items"        -> {"orders", "products"}
      [] x = "view_order_summary" -> {"orders", "customers", "order_items"}
      [] x = "view_stock_status"  -> {"products", "categories"}
      [] x = "seed_category"      -> {"categories"}
      [] x = "seed_customer"      -> {"customers"}
      [] OTHER                    -> {}

VARIABLES
    created,    \* the tables, views and rows that are committed
    inserted,   \* [Apps -> SUBSET Seeds]: rows not committed yet
    pc,         \* [Apps -> where the application is in its start]
    next        \* [Apps -> index of the command it runs next]

vars == <<created, inserted, pc, next>>

Init ==
    /\ created = {}
    /\ inserted = [a \in Apps |-> {}]
    /\ pc = [a \in Apps |-> "closed"]
    /\ next = [a \in Apps |-> 1]

Goto(a, label) == pc' = [pc EXCEPT ![a] = label]

-----------------------------------------------------------------------------
(* connect, CREATE DATABASE IF NOT EXISTS                                  *)
Start(a) ==
    /\ pc[a] = "closed"
    /\ Goto(a, "check")
    /\ UNCHANGED <<created, inserted, next>>

(* Faulty: the commands are counted from zero.                             *)
Faulty_CheckTables(a) ==
    /\ pc[a] = "check"
    /\ Goto(a, IF "products" \in created THEN "ready" ELSE "import")
    /\ next' = [next EXCEPT ![a] = 0]
    /\ UNCHANGED <<created, inserted>>

(* SHOW TABLES LIKE 'products': "Database ready." or the import.           *)
CheckTables(a) ==
    /\ pc[a] = "check"
    /\ Goto(a, IF "products" \in created THEN "ready" ELSE "import")
    /\ next' = [next EXCEPT ![a] = 1]
    /\ UNCHANGED <<created, inserted>>

Command(a) == Commands[next[a]]

Advance(a) ==
    /\ next' = [next EXCEPT ![a] = @ + 1]
    /\ Goto(a, IF next[a] = Len(Commands) THEN "commit" ELSE "import")

(* CREATE TABLE IF NOT EXISTS, CREATE OR REPLACE VIEW: commits at once,    *)
(* with whatever the connection had inserted before.                       *)
CreateObject(a) ==
    /\ pc[a] = "import"
    /\ Command(a) \notin Seeds
    /\ Needs(Command(a)) \subseteq created
    /\ created' = created \cup inserted[a] \cup {Command(a)}
    /\ inserted' = [inserted EXCEPT ![a] = {}]
    /\ Advance(a)

Holders(x) == {a \in Apps : x \in inserted[a]}

(* INSERT IGNORE: waits for another connection that inserts the same key,  *)
(* and leaves a committed row alone.                                       *)
InsertSeed(a) ==
    /\ pc[a] = "import"
    /\ Command(a) \in Seeds
    /\ Needs(Command(a)) \subseteq created
    /\ Holders(Command(a)) \subseteq {a}
    /\ inserted' = [inserted EXCEPT ![a] = @ \cup ({Command(a)} \ created)]
    /\ UNCHANGED created
    /\ Advance(a)

(* Faulty: the import ends without commit().                               *)
Faulty_CommitImport(a) ==
    /\ pc[a] = "commit"
    /\ inserted' = [inserted EXCEPT ![a] = {}]
    /\ Goto(a, "imported")
    /\ UNCHANGED <<created, next>>

CommitImport(a) ==
    /\ pc[a] = "commit"
    /\ created' = created \cup inserted[a]
    /\ inserted' = [inserted EXCEPT ![a] = {}]
    /\ Goto(a, "imported")
    /\ UNCHANGED next

(* The application ends and its connection with it: the server forgets the *)
(* rows it had not committed.  After its start the user closes it; before, *)
(* it crashed or a statement failed, which closes the window as well.      *)
Stop(a) ==
    /\ pc[a] # "closed"
    /\ Goto(a, "closed")
    /\ inserted' = [inserted EXCEPT ![a] = {}]
    /\ UNCHANGED <<created, next>>

Proceed(a) == CheckTables(a) \/ CreateObject(a) \/ InsertSeed(a) \/ CommitImport(a)

Next == \E a \in Apps : Start(a) \/ Proceed(a) \/ Stop(a)

Spec == Init /\ [][Next]_vars

(* A start that has begun sends its next statement sooner or later.        *)
Fairness == \A a \in Apps : WF_vars(Proceed(a))
FairSpec == Spec /\ Fairness

-----------------------------------------------------------------------------
TypeOK ==
    /\ created \subseteq Everything
    /\ inserted \in [Apps -> SUBSET Seeds]
    /\ pc \in [Apps -> {"closed", "check", "import", "commit", "ready", "imported"}]
    /\ next \in [Apps -> 1..Len(Commands) + 1]

Complete == created = Everything

(* "Schema imported successfully." is true, even if several applications   *)
(* import at once and some of them die: every table, view and seed row is  *)
(* then there and committed.                                               *)
ImportedIsComplete == \A a \in Apps : pc[a] = "imported" => Complete

(* "Database ready." is true (initialize_database "checks if database is   *)
(* already initialized"): an application that skips the import finds all   *)
(* that the import makes.                                                  *)
ReadyIsComplete == \A a \in Apps : pc[a] = "ready" => Complete

(* A start that is not cut short opens the application: imports never block*)
(* one another for good, whoever of them is killed half-way.               *)
StartsUp == \A a \in Apps : pc[a] = "check" ~> pc[a] \in {"ready", "imported", "closed"}
=============================================================================
