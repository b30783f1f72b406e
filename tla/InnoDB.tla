------------------------------- MODULE InnoDB -------------------------------
(***************************************************************************)
(* The storage engine behind the application, as far as its statements can *)
(* tell: InnoDB at its default isolation level, REPEATABLE READ, with      *)
(* autocommit off (the connector's default).  It is external code: the     *)
(* application only sends SQL to it.                                       *)
(*                                                                         *)
(*  - A row is changed in place (newest); readers of other connections     *)
(*    keep getting the committed version.                                  *)
(*  - The first SELECT of a transaction fixes a read view, and every later *)
(*    SELECT of that transaction is answered from it, except for rows the  *)
(*    transaction itself has changed.                                      *)
(*  - UPDATE, INSERT and DELETE never use the view: they act on the newest *)
(*    version, under an exclusive row lock held until COMMIT or ROLLBACK.  *)
(*  - A foreign key check share-locks the rows it looks up.                *)
(*  - An UPDATE that leaves the row as it was locks it but creates no new  *)
(*    version, so a later SELECT still gets the version of the view.       *)
(***************************************************************************)
CONSTANTS
    Clients,    \* the connections, one per running application
    Rows,       \* the row identities of all tables
    NoView      \* no read view is open

VARIABLES
    newest,     \* [Rows -> value]: the latest version, committed or not
    committed,  \* [Rows -> value]: the latest committed version
    view,       \* [Clients -> read view, a copy of committed, or NoView]
    written,    \* [Clients -> SUBSET Rows]: rows the open transaction changed
    xlock,      \* [Clients -> SUBSET Rows]: rows locked exclusively
    slock       \* [Clients -> SUBSET Rows]: rows locked in share mode

EngineInit(contents) ==
    /\ newest = contents
    /\ committed = contents
    /\ view = [c \in Clients |-> NoView]
    /\ written = [c \in Clients |-> {}]
    /\ xlock = [c \in Clients |-> {}]
    /\ slock = [c \in Clients |-> {}]

-----------------------------------------------------------------------------
(* A transaction is open once it has read, changed or locked something.    *)
InTransaction(c) == view[c] # NoView \/ xlock[c] # {} \/ slock[c] # {}

MayShare(c, r) == \A d \in Clients \ {c} : r \notin xlock[d]
MayWrite(c, r) == \A d \in Clients \ {c} : r \notin xlock[d] \cup slock[d]

ReadView(c) == IF view[c] = NoView THEN committed ELSE view[c]

(* The version of row r a SELECT of c returns.                             *)
Seen(c, r) == IF r \in written[c] THEN newest[r] ELSE ReadView(c)[r]

-----------------------------------------------------------------------------
(* SELECT: fixes the read view if the transaction has none yet.            *)
OpenView(c) ==
    /\ view' = [view EXCEPT ![c] = ReadView(c)]
    /\ UNCHANGED <<newest, committed, written, xlock, slock>>

(* INSERT, UPDATE or DELETE of row r, now v, that looks up the rows parents *)
(* for its foreign keys.  It waits while another transaction locks r or    *)
(* one of them.                                                            *)
Write(c, r, v, parents) ==
    /\ MayWrite(c, r)
    /\ \A q \in parents : MayShare(c, q)
    /\ newest' = [newest EXCEPT ![r] = v]
    /\ written' = [written EXCEPT ![c] = IF v = newest[r] THEN @ ELSE @ \cup {r}]
    /\ xlock' = [xlock EXCEPT ![c] = @ \cup {r}]
    /\ slock' = [slock EXCEPT ![c] = @ \cup parents]
    /\ UNCHANGED <<committed, view>>

EndTransaction(c) ==
    /\ view' = [view EXCEPT ![c] = NoView]
    /\ written' = [written EXCEPT ![c] = {}]
    /\ xlock' = [xlock EXCEPT ![c] = {}]
    /\ slock' = [slock EXCEPT ![c] = {}]

Commit(c) ==
    /\ committed' = [r \in Rows |-> IF r \in written[c] THEN newest[r]
                                                        ELSE committed[r]]
    /\ newest' = newest
    /\ EndTransaction(c)

Rollback(c) ==
    /\ newest' = [r \in Rows |-> IF r \in written[c] THEN committed[r]
                                                     ELSE newest[r]]
    /\ committed' = committed
    /\ EndTransaction(c)
=============================================================================
