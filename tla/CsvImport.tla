------------------------------ MODULE CsvImport ------------------------------
(***************************************************************************)
(* CSV imports (routers/imports.py, importers/csv_market_data.py,          *)
(* services/csv_import.py) that run at the same time against PostgreSQL:   *)
(* each in one READ COMMITTED transaction that takes an advisory lock on   *)
(* the file's checksum and then inserts items and snapshots row by row     *)
(* with ON CONFLICT DO NOTHING.                                            *)
(*                                                                         *)
(* Each statement is one action.  PostgreSQL is external and modelled by   *)
(* what the code relies on: an insert that meets an entry of an open       *)
(* transaction waits for its end, committed entries are visible to the     *)
(* next statement, a rollback takes back what the transaction inserted,    *)
(* locks last until the end of the transaction, and one transaction of a   *)
(* cycle that waits for itself is made to fail.                            *)
(***************************************************************************)
EXTENDS Naturals, Sequences, FiniteSets

CONSTANTS
  Imports,   \* import requests
  Files,     \* files, one for each checksum
  Lines,     \* Lines[f]: the data lines of a file
  Keys,      \* item keys
  Names,     \* item names and categories
  Times,     \* values of observed_at
  None

(* A cell: text and times are what they say unless blank or bad; a number  *)
(* is acceptable, blank, bad (not a number, or of the wrong sign), or one  *)
(* that the parser accepts and its column does not hold.                   *)
Missing == {"blank", "bad"}
Number  == {"ok", "unstorable"} \cup Missing

Line == [key : Keys \cup {"blank"}, name : Names \cup {"blank"},
         at : Times \cup Missing, ask : Number, bid : Number]

VARIABLES
  pc,         \* where each request is
  file,       \* what it uploads
  left,       \* the rows it has not finished
  warnings,   \* the warnings it has collected
  lock,       \* holders of the advisory locks, one lock for each checksum
  items,      \* the table items: who inserted a key, and with which name
  snapshots,  \* the table market_snapshots: who inserted an item and time
  jobs        \* the committed rows of import_jobs, by request

vars == <<pc, file, left, warnings, lock, items, snapshots, jobs>>

Slots == Keys \X Times

(* A transaction is open, and its inserts are nobody else's business. *)
Open == {"locking", "looking", "item", "snapshot"}

Issues == {"item_metadata_mismatch", "duplicate_snapshot_in_file",
           "duplicate_snapshot_existing"}

Item == [name : Names, by : Imports]

Statuses == {"completed", "duplicate", "failed"}

Job == [status : Statuses, file : Files, of : Imports \cup {None},
        rows : Nat, valid : Nat, invalid : Nat]

ASSUME CsvImportAssumption ==
  /\ Lines \in [Files -> Seq(Line)]
  /\ Missing \cap (Keys \cup Names \cup Times) = {}
  /\ None \notin Imports \cup Files \cup Names \cup Item \cup Job
  /\ None \notin [status : Statuses, file : Files, of : Imports \cup {None}]

ASSUME FinitelyMany == IsFiniteSet(Imports)

Init ==
  /\ pc = [i \in Imports |-> "idle"]
  /\ file = [i \in Imports |-> None]
  /\ left = [i \in Imports |-> {}]
  /\ warnings = [i \in Imports |-> {}]
  /\ lock = [f \in Files |-> None]
  /\ items = [k \in Keys |-> None]
  /\ snapshots = [s \in Slots |-> None]
  /\ jobs = [i \in Imports |-> None]

-----------------------------------------------------------------------------
(* parse_csv_market_data *)

(* The fields of a line that _parse_row reports, one issue each. *)
InvalidFields(line) ==
  {c \in {"key", "name", "at", "ask"} : line[c] \in Missing}
    \cup {c \in {"bid"} : line[c] = "bad"}

Valid(line) == InvalidFields(line) = {}

(* parsed.rows, by their line numbers, and len(parsed.errors) *)
Rows == [f \in Files |-> {n \in DOMAIN Lines[f] : Valid(Lines[f][n])}]

ErrorCount(f) ==
  Cardinality(UNION {{n} \X InvalidFields(Lines[f][n]) : n \in DOMAIN Lines[f]})

Row(i, n) == Lines[file[i]][n]
Slot(i, n) == <<Row(i, n).key, Row(i, n).at>>

(* The loop over parsed.rows has come to row n. *)
Current(i, n) == n \in left[i] /\ \A m \in left[i] : n <= m

(* Numbers that pass the parser and overflow their column, or round to     *)
(* zero in best_ask, which must be positive.                               *)
Storable(r) == r.ask # "unstorable" /\ r.bid # "unstorable"

-----------------------------------------------------------------------------
(* What a transaction sees *)

(* Wrong: a statement sees what has not been committed. *)
VisibleUncommitted(by, i) == TRUE

(* An entry inserted by "by" is visible to i. *)
Visible(by, i) == by = i \/ pc[by] \notin Open

(* _find_duplicate_job *)
Earlier(i) ==
  {j \in Imports : jobs[j] # None /\ jobs[j].status = "completed"
                                  /\ jobs[j].file = file[i]}

(* Wrong: the lock of the checksum is not waited for. *)
LockIgnored(i) == TRUE

LockFree(i) == lock[file[i]] = None

(* The request that i waits for, if it waits. *)
Blocker(i) ==
  {j \in Imports \ {i} :
     /\ pc[j] \in Open
     /\ \/ pc[i] = "locking" /\ lock[file[i]] = j
        \/ /\ pc[i] = "item"
           /\ \E n \in left[i] : /\ Current(i, n)
                                 /\ items[Row(i, n).key] # None
                                 /\ items[Row(i, n).key].by = j
        \/ /\ pc[i] = "snapshot"
           /\ \E n \in left[i] : Current(i, n) /\ snapshots[Slot(i, n)] = j}

(* i is one of a set of requests that wait for each other in a circle. *)
InCycle(i) == \E S \in SUBSET Imports : i \in S /\ UNION {Blocker(j) : j \in S} = S

(* Wrong: a lock of the session, which outlives its transaction. *)
ReleasedNever(i) == lock

(* The advisory locks after the transaction of i has ended. *)
Released(i) == [f \in Files |-> IF lock[f] = i THEN None ELSE lock[f]]

-----------------------------------------------------------------------------
(* Actions *)

(* POST /imports/csv with a file that has data lines: the transaction      *)
(* begins and asks for the advisory lock.                                  *)
Begin(i, f) ==
  /\ pc[i] = "idle"
  /\ Lines[f] # <<>>
  /\ pc' = [pc EXCEPT ![i] = "locking"]
  /\ file' = [file EXCEPT ![i] = f]
  /\ left' = [left EXCEPT ![i] = Rows[f]]
  /\ UNCHANGED <<warnings, lock, items, snapshots, jobs>>

(* CsvContractError: only a failed job is to be recorded. *)
Refuse(i, f) ==
  /\ pc[i] = "idle"
  /\ Lines[f] = <<>>
  /\ pc' = [pc EXCEPT ![i] = "failing"]
  /\ file' = [file EXCEPT ![i] = f]
  /\ UNCHANGED <<left, warnings, lock, items, snapshots, jobs>>

Lock(i) ==
  /\ pc[i] = "locking"
  /\ LockFree(i)
  /\ pc' = [pc EXCEPT ![i] = "looking"]
  /\ lock' = [lock EXCEPT ![file[i]] = i]
  /\ UNCHANGED <<file, left, warnings, items, snapshots, jobs>>

(* _create_duplicate_job *)
DuplicateOf(j) ==
  [status |-> "duplicate", file |-> jobs[j].file, of |-> j,
   rows |-> jobs[j].rows, valid |-> 0, invalid |-> 0]

(* It is recorded, and the transaction commits. *)
Duplicate(i) ==
  /\ pc[i] = "looking"
  /\ \E j \in Earlier(i) : jobs' = [jobs EXCEPT ![i] = DuplicateOf(j)]
  /\ pc' = [pc EXCEPT ![i] = "done"]
  /\ lock' = Released(i)
  /\ UNCHANGED <<file, left, warnings, items, snapshots>>

(* No completed job has this checksum: the job is inserted. *)
StartJob(i) ==
  /\ pc[i] = "looking"
  /\ Earlier(i) = {}
  /\ pc' = [pc EXCEPT ![i] = "item"]
  /\ UNCHANGED <<file, left, warnings, lock, items, snapshots, jobs>>

(* _get_or_create_item: the insert, or the item there is already. *)
GetItem(i, n) ==
  LET r == Row(i, n)
      old == items[r.key]
  IN
  /\ pc[i] = "item"
  /\ Current(i, n)
  /\ old # None => Visible(old.by, i)
  /\ items' = IF old = None
              THEN [items EXCEPT ![r.key] = [name |-> r.name, by |-> i]]
              ELSE items
  /\ warnings' = IF old # None /\ old.name # r.name
                 THEN [warnings EXCEPT ![i] = @ \cup
                         {<<n, "item_metadata_mismatch">>}]
                 ELSE warnings
  /\ pc' = [pc EXCEPT ![i] = "snapshot"]
  /\ UNCHANGED <<file, left, lock, snapshots, jobs>>

(* Wrong: the rows of the file itself are forgotten. *)
SeenNever(i, n) == FALSE

(* was_seen_in_file *)
SeenInFile(i, n) ==
  \E m \in Rows[file[i]] \ left[i] : Slot(i, m) = Slot(i, n)

(* _insert_snapshot, and the warnings of its row. *)
InsertSnapshot(i, n) ==
  LET slot == Slot(i, n)
      old == snapshots[slot]
  IN
  /\ pc[i] = "snapshot"
  /\ Current(i, n)
  /\ Storable(Row(i, n))
  /\ old # None => Visible(old, i)
  /\ snapshots' = IF old = None THEN [snapshots EXCEPT ![slot] = i]
                                ELSE snapshots
  /\ warnings' = [warnings EXCEPT ![i] = @ \cup
       IF SeenInFile(i, n) THEN {<<n, "duplicate_snapshot_in_file">>}
       ELSE IF old # None THEN {<<n, "duplicate_snapshot_existing">>}
       ELSE {}]
  /\ left' = [left EXCEPT ![i] = @ \ {n}]
  /\ pc' = [pc EXCEPT ![i] = "item"]
  /\ UNCHANGED <<file, lock, items, jobs>>

(* Every row is done: the job is completed and the transaction commits. *)
Complete(i) ==
  LET f == file[i] IN
  /\ pc[i] = "item"
  /\ left[i] = {}
  /\ jobs' = [jobs EXCEPT ![i] =
                [status |-> "completed", file |-> f, of |-> None,
                 rows |-> Len(Lines[f]), valid |-> Cardinality(Rows[f]),
                 invalid |-> ErrorCount(f)]]
  /\ pc' = [pc EXCEPT ![i] = "done"]
  /\ lock' = Released(i)
  /\ UNCHANGED <<file, left, warnings, items, snapshots>>

(* Wrong: items are inserted outside the transaction. *)
ItemsKept(i) == items

(* The table items without what i inserted. *)
ItemsWithout(i) ==
  [k \in Keys |-> IF items[k] # None /\ items[k].by = i THEN None ELSE items[k]]

(* SQLAlchemyError: the transaction is rolled back. *)
RollBack(i) ==
  /\ items' = ItemsWithout(i)
  /\ snapshots' = [s \in Slots |-> IF snapshots[s] = i THEN None ELSE snapshots[s]]
  /\ warnings' = [warnings EXCEPT ![i] = {}]
  /\ left' = [left EXCEPT ![i] = {}]
  /\ lock' = Released(i)
  /\ pc' = [pc EXCEPT ![i] = "failing"]
  /\ UNCHANGED <<file, jobs>>

(* The row holds a number that its column does not. *)
Overflow(i, n) ==
  pc[i] = "snapshot" /\ Current(i, n) /\ ~Storable(Row(i, n)) /\ RollBack(i)

(* PostgreSQL ends a deadlock. *)
BreakDeadlock(i) == pc[i] \in Open /\ InCycle(i) /\ RollBack(i)

(* The database fails for a reason of its own. *)
DatabaseError(i) == pc[i] \in Open /\ RollBack(i)

(* A failed job is recorded in a transaction of its own: the one for a     *)
(* database error counts every line as invalid, the one for a file that    *)
(* breaks the contract has no lines ...                                    *)
RecordFailure(i) ==
  /\ pc[i] = "failing"
  /\ jobs' = [jobs EXCEPT ![i] =
                [status |-> "failed", file |-> file[i], of |-> None,
                 rows |-> Len(Lines[file[i]]), valid |-> 0,
                 invalid |-> Len(Lines[file[i]])]]
  /\ pc' = [pc EXCEPT ![i] = "done"]
  /\ UNCHANGED <<file, left, warnings, lock, items, snapshots>>

(* ... unless the database fails again, and the request with it. *)
RecordFails(i) ==
  /\ pc[i] = "failing"
  /\ pc' = [pc EXCEPT ![i] = "error"]
  /\ UNCHANGED <<file, left, warnings, lock, items, snapshots, jobs>>

Step(i) ==
  \/ Lock(i) \/ Duplicate(i) \/ StartJob(i)
  \/ \E n \in left[i] :
       GetItem(i, n) \/ InsertSnapshot(i, n) \/ Overflow(i, n)
  \/ Complete(i)
  \/ BreakDeadlock(i)
  \/ RecordFailure(i) \/ RecordFails(i)

Next ==
  \E i \in Imports :
    \/ \E f \in Files : Begin(i, f) \/ Refuse(i, f)
    \/ Step(i)
    \/ DatabaseError(i)

Spec == Init /\ [][Next]_vars

(* The event loop goes on with a request whose statement has returned, and *)
(* the database answers every statement that need not wait.                *)
Fairness == \A i \in Imports : WF_vars(Step(i))

FairSpec == Spec /\ Fairness

-----------------------------------------------------------------------------
(* Properties *)

TypeOK ==
  /\ pc \in [Imports -> Open \cup {"idle", "failing", "done", "error"}]
  /\ file \in [Imports -> Files \cup {None}]
  /\ left \in [Imports -> SUBSET Nat]
  /\ warnings \in [Imports -> SUBSET (Nat \X Issues)]
  /\ lock \in [Files -> Imports \cup {None}]
  /\ items \in [Keys -> Item \cup {None}]
  /\ snapshots \in [Slots -> Imports \cup {None}]
  /\ jobs \in [Imports -> Job \cup {None}]

Completed(i) == jobs[i] # None /\ jobs[i].status = "completed"

(* A file is imported once, however many requests upload it together.      *)
OneImportPerFile ==
  \A i, j \in Imports :
    Completed(i) /\ Completed(j) /\ jobs[i].file = jobs[j].file => i = j

(* Once an import has completed, all its valid rows are in the database    *)
(* for good: what it found there and did not insert was not taken back.    *)
EveryRowStored ==
  \A i \in Imports : Completed(i) =>
    \A n \in Rows[file[i]] :
      LET item == items[Row(i, n).key]
          from == snapshots[Slot(i, n)]
      IN /\ item # None /\ pc[item.by] \notin Open
         /\ from # None /\ pc[from] \notin Open

(* The report of a completed import tells, for every row, the truth about  *)
(* what became of it, whatever was imported at the same time.              *)
ReportIsTrue ==
  \A i \in Imports : Completed(i) =>
    \A n \in Rows[file[i]] :
      LET again == \E m \in Rows[file[i]] : m < n /\ Slot(i, m) = Slot(i, n) IN
      /\ <<n, "item_metadata_mismatch">> \in warnings[i] <=>
           items[Row(i, n).key].name # Row(i, n).name
      /\ <<n, "duplicate_snapshot_in_file">> \in warnings[i] <=> again
      /\ <<n, "duplicate_snapshot_existing">> \in warnings[i] <=>
           ~again /\ snapshots[Slot(i, n)] # i

(* To its readers the database moves from import to import: each import    *)
(* takes effect in one step at its commit, or not at all.                  *)
Ledger == INSTANCE ImportLedger WITH
  items <- [k \in Keys |->
              IF items[k] # None /\ pc[items[k].by] \notin Open
              THEN items[k].name ELSE None],
  snapshots <- [s \in Slots |->
                  IF snapshots[s] # None /\ pc[snapshots[s]] \notin Open
                  THEN snapshots[s] ELSE None],
  jobs <- [i \in Imports |->
             IF jobs[i] = None THEN None
             ELSE [status |-> jobs[i].status, file |-> jobs[i].file,
                   of |-> jobs[i].of]]

ImplementsLedger == Ledger!Spec

(* Request i need not wait: its next statement meets nothing of an open    *)
(* transaction, its failure is to be recorded, or PostgreSQL finds it      *)
(* waiting in a circle.                                                    *)
GoesOn(i) ==
  \/ pc[i] \in {"looking", "failing"}
  \/ pc[i] = "locking" /\ LockFree(i)
  \/ pc[i] = "item" /\ left[i] = {}
  \/ \E n \in left[i] :
       /\ Current(i, n)
       /\ LET item == items[Row(i, n).key]
              from == snapshots[Slot(i, n)]
          IN  \/ pc[i] = "item" /\ (item # None => Visible(item.by, i))
              \/ pc[i] = "snapshot" /\ (from # None => Visible(from, i))
  \/ pc[i] \in Open /\ InCycle(i)

(* Imports never all stand still: whatever they have locked and inserted,  *)
(* one of those that have not ended can go on                              *)
(* (_import_parsed_csv, pg_advisory_xact_lock, ON CONFLICT DO NOTHING).    *)
NoStandstill ==
  (\E i \in Imports : pc[i] \in Open \cup {"failing"}) =>
    \E i \in Imports : GoesOn(i)

(* Every import ends, also when imports wait for each other in a circle.   *)
ImportEnds ==
  \A i \in Imports : pc[i] = "locking" ~> pc[i] \in {"done", "error"}
=============================================================================
