---------------------------- MODULE ImportLedger ----------------------------
(***************************************************************************)
(* What the CSV import promises to whoever reads the database: an import   *)
(* takes effect in one step or not at all, a file counts once, and the     *)
(* first import to name an item or a snapshot decides what is stored.      *)
(* How transactions, locks and failures bring this about is in CsvImport.  *)
(***************************************************************************)
EXTENDS Naturals

CONSTANTS
  Imports,   \* import requests, each of which makes at most one job
  Files,     \* files, one for each checksum
  Lines,     \* Lines[f]: the lines of a file, each with key, name and at
  Rows,      \* Rows[f]: the numbers of its valid lines
  Keys, Times,
  None

VARIABLES
  items,      \* [Keys -> the stored name, or None]
  snapshots,  \* [Keys \X Times -> the import it comes from, or None]
  jobs        \* [Imports -> [status, file, of], or None]

vars == <<items, snapshots, jobs>>

Slot(f, n) == <<Lines[f][n].key, Lines[f][n].at>>

Init ==
  /\ items = [k \in Keys |-> None]
  /\ snapshots = [s \in Keys \X Times |-> None]
  /\ jobs = [i \in Imports |-> None]

Job(status, f, of) == [status |-> status, file |-> f, of |-> of]

CompletedBefore(f) ==
  {j \in Imports : jobs[j] # None /\ jobs[j].status = "completed"
                                  /\ jobs[j].file = f}

(* The rows that introduce an item: the first of a file with its key. *)
Introducing(f, k) ==
  {n \in Rows[f] :
     /\ Lines[f][n].key = k
     /\ \A m \in Rows[f] : m < n => Lines[f][m].key # k}

Complete(i, f) ==
  /\ jobs[i] = None
  /\ CompletedBefore(f) = {}
  /\ jobs' = [jobs EXCEPT ![i] = Job("completed", f, None)]
  /\ items' = [k \in Keys |->
       IF items[k] # None \/ Introducing(f, k) = {} THEN items[k]
       ELSE Lines[f][CHOOSE n \in Introducing(f, k) : TRUE].name]
  /\ snapshots' = [s \in Keys \X Times |->
       IF snapshots[s] = None /\ \E n \in Rows[f] : Slot(f, n) = s
       THEN i ELSE snapshots[s]]

Duplicate(i, f) ==
  /\ jobs[i] = None
  /\ \E j \in CompletedBefore(f) :
       jobs' = [jobs EXCEPT ![i] = Job("duplicate", f, j)]
  /\ UNCHANGED <<items, snapshots>>

Fail(i, f) ==
  /\ jobs[i] = None
  /\ jobs' = [jobs EXCEPT ![i] = Job("failed", f, None)]
  /\ UNCHANGED <<items, snapshots>>

Next == \E i \in Imports, f \in Files :
          Complete(i, f) \/ Duplicate(i, f) \/ Fail(i, f)

Spec == Init /\ [][Next]_vars
=============================================================================
