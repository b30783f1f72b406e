--------------------------- MODULE SchemaInitProofs ---------------------------
(***************************************************************************)
(* For any number of applications, killed at any point: a start that says  *)
(* "Schema imported successfully." is right.                               *)
(***************************************************************************)
EXTENDS SchemaInit, TLAPS

(* An import that is under way has left no gap: what it has run so far is  *)
(* committed, or waits for its own commit().                               *)
NoGap ==
    \A a \in Apps : pc[a] \in {"import", "commit"} =>
        \A i \in 1..Len(Commands) :
            i < next[a] => Commands[i] \in created \cup inserted[a]

Bounds ==
    \A a \in Apps : /\ pc[a] = "import" => next[a] <= Len(Commands)
                    /\ pc[a] = "commit" => next[a] = Len(Commands) + 1

IInv == TypeOK /\ NoGap /\ Bounds /\ ImportedIsComplete

-----------------------------------------------------------------------------
(* schema.sql has nine commands.                                           *)
LEMMA NineCommands ==
    /\ Len(Commands) = 9
    /\ DOMAIN Commands = 1..9
    /\ \A i \in 1..9 : Commands[i] \in Everything
    /\ \A x \in Everything : \E i \in 1..9 : x = Commands[i]
    /\ Seeds \subseteq Everything
<1>1. DOMAIN Commands = 1..9 /\ Len(Commands) = 9
  BY DEF Commands
<1>2. Commands[8] = "seed_category" /\ Commands[9] = "seed_customer"
  BY DEF Commands
<1>3. QED
  BY <1>1, <1>2 DEF Everything, Seeds

(* The empty server satisfies the invariant: no start is under way.        *)
LEMMA InitInv == Init => IInv
  BY NineCommands DEF Init, IInv, TypeOK, NoGap, Bounds, ImportedIsComplete

(* Every step of an application, its crash included, keeps the invariant.  *)
LEMMA StepInv == IInv /\ [Next]_vars => IInv'
<1> SUFFICES ASSUME IInv, [Next]_vars PROVE IInv'
  OBVIOUS
<1> USE NineCommands DEF IInv, TypeOK
<1>1. ASSUME NEW a \in Apps, Start(a) PROVE IInv'
  BY <1>1 DEF Start, Goto, NoGap, Bounds, ImportedIsComplete, Complete
<1>2. ASSUME NEW a \in Apps, CheckTables(a) PROVE IInv'
  BY <1>2 DEF CheckTables, Goto, NoGap, Bounds, ImportedIsComplete, Complete
<1>3. ASSUME NEW a \in Apps, CreateObject(a) PROVE IInv'
  <2>1. /\ next[a] \in 1..9
        /\ pc' = [pc EXCEPT ![a] = IF next[a] = 9 THEN "commit" ELSE "import"]
        /\ next' = [next EXCEPT ![a] = next[a] + 1]
        /\ created' = created \cup inserted[a] \cup {Commands[next[a]]}
        /\ inserted' = [inserted EXCEPT ![a] = {}]
    BY <1>3 DEF CreateObject, Advance, Command, Goto, Bounds
  <2>2. TypeOK'
    BY <2>1
  <2>3. NoGap'
    BY <2>1, <1>3 DEF NoGap, CreateObject
  <2>4. Bounds'
    BY <2>1 DEF Bounds
  <2>5. ImportedIsComplete'
    BY <2>1, <2>2 DEF ImportedIsComplete, Complete
  <2>6. QED
    BY <2>2, <2>3, <2>4, <2>5
<1>4. ASSUME NEW a \in Apps, InsertSeed(a) PROVE IInv'
  <2>1. /\ next[a] \in 1..9
        /\ Commands[next[a]] \in Seeds
        /\ pc' = [pc EXCEPT ![a] = IF next[a] = 9 THEN "commit" ELSE "import"]
        /\ next' = [next EXCEPT ![a] = next[a] + 1]
        /\ inserted' = [inserted EXCEPT
                           ![a] = inserted[a] \cup ({Commands[next[a]]} \ created)]
        /\ created' = created
    BY <1>4 DEF InsertSeed, Advance, Command, Goto, Bounds
  <2>2. TypeOK'
    BY <2>1
  <2>3. NoGap'
    BY <2>1, <1>4 DEF NoGap, InsertSeed
  <2>4. Bounds'
    BY <2>1 DEF Bounds
  <2>5. ImportedIsComplete'
    BY <2>1 DEF ImportedIsComplete, Complete
  <2>6. QED
    BY <2>2, <2>3, <2>4, <2>5
<1>5. ASSUME NEW a \in Apps, CommitImport(a) PROVE IInv'
  <2>1. /\ pc[a] = "commit"
        /\ pc' = [pc EXCEPT ![a] = "imported"]
        /\ created' = created \cup inserted[a]
        /\ inserted' = [inserted EXCEPT ![a] = {}]
        /\ next' = next
    BY <1>5 DEF CommitImport, Goto
  <2>2. TypeOK'
    BY <2>1
  <2>3. created' = Everything
    <3>1. \A i \in 1..9 : Commands[i] \in created'
      BY <2>1 DEF NoGap, Bounds
    <3>2. QED
      BY <3>1, <2>2
  <2>4. NoGap' /\ Bounds'
    BY <2>1 DEF NoGap, Bounds
  <2>5. QED
    BY <2>2, <2>3, <2>4 DEF ImportedIsComplete, Complete
<1>6. ASSUME NEW a \in Apps, Stop(a) PROVE IInv'
  BY <1>6 DEF Stop, Goto, NoGap, Bounds, ImportedIsComplete, Complete
<1>7. CASE UNCHANGED vars
  BY <1>7 DEF vars, NoGap, Bounds, ImportedIsComplete, Complete
<1>8. QED
  BY <1>1, <1>2, <1>3, <1>4, <1>5, <1>6, <1>7 DEF Next, Proceed

(* The variables keep their types, so next never leaves schema.sql.        *)
THEOREM SchemaTypes == Spec => []TypeOK
<1>1. IInv => TypeOK
  BY DEF IInv
<1>2. QED
  BY <1>1, InitInv, StepInv, PTL DEF Spec

(* "Schema imported successfully." (connection.py, line 102) is printed    *)
(* only when every table, view and seed row exists and is committed.       *)
THEOREM ImportTellsTheTruth == Spec => []ImportedIsComplete
<1>1. IInv => ImportedIsComplete
  BY DEF IInv
<1>2. QED
  BY <1>1, InitInv, StepInv, PTL DEF Spec
=============================================================================
