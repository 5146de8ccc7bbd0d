--------------------------- MODULE CsvImportProofs ---------------------------
(***************************************************************************)
(* Proofs about CsvImport for every set of requests, files and rows: a     *)
(* file is imported once, an import that has completed has stored all its  *)
(* valid rows for good and reports the truth about them, imports are       *)
(* atomic to those who read the database (ImportLedger), and they never    *)
(* all wait for each other without the database noticing it.               *)
(***************************************************************************)
EXTENDS CsvImport, FiniteSetTheorems, TLAPS

Locked  == {"looking", "item", "snapshot"}
Working == {"item", "snapshot"}

(* What an import finds stored, and need not fear to lose before it ends.  *)
Settled(by, i) == by = i \/ pc[by] = "done"

HasItem(i, n) ==
  /\ items[Row(i, n).key] # None
  /\ Settled(items[Row(i, n).key].by, i)

HasSnapshot(i, n) ==
  /\ snapshots[Slot(i, n)] # None
  /\ Settled(snapshots[Slot(i, n)], i)

Storing(i) == pc[i] \in Working \/ Completed(i)

Finished(i) == Rows[file[i]] \ left[i]

-----------------------------------------------------------------------------
(* The inductive invariant *)

(* The lock of a checksum is held by the import that looks at the jobs     *)
(* with it, so that the answer does not change while it works.             *)
LockInv ==
  /\ \A i \in Imports : pc[i] # "idle" => file[i] \in Files
  /\ \A i \in Imports : pc[i] \in Locked => lock[file[i]] = i
  /\ \A f \in Files : lock[f] # None =>
       file[lock[f]] = f /\ pc[lock[f]] \in Locked
  /\ \A i \in Imports : pc[i] \in Working => Earlier(i) = {}
  /\ \A i \in Imports : jobs[i] # None => pc[i] = "done" /\ jobs[i].file = file[i]
  /\ OneImportPerFile

(* What the rows that are finished have left behind, or found. *)
StoreInv ==
  /\ \A k \in Keys : items[k] # None => pc[items[k].by] \in Working \cup {"done"}
  /\ \A s \in Slots : snapshots[s] # None => pc[snapshots[s]] \in Working \cup {"done"}
  /\ \A i \in Imports : pc[i] \in Open => left[i] \subseteq Rows[file[i]]
  /\ \A i \in Imports : pc[i] \in {"locking", "looking"} => left[i] = Rows[file[i]]
  /\ \A i \in Imports : Completed(i) => left[i] = {}
  /\ \A i \in Imports : Storing(i) =>
       \A n \in Finished(i) : HasItem(i, n) /\ HasSnapshot(i, n)
  /\ \A i \in Imports : pc[i] = "snapshot" =>
       \A n \in left[i] : Current(i, n) => HasItem(i, n)

(* What an import has inserted comes from its file. *)
OriginInv ==
  /\ \A i \in Imports, k \in Keys :
       pc[i] \in Working /\ items[k] # None /\ items[k].by = i =>
         \E n \in Ledger!Introducing(file[i], k) :
           items[k].name = Lines[file[i]][n].name
  /\ \A i \in Imports, s \in Slots :
       pc[i] \in Working /\ snapshots[s] = i =>
         \E n \in Finished(i) : Slot(i, n) = s

(* The rows are taken in their order, and the warnings so far are true. *)
Mismatch(i, n) == items[Row(i, n).key].name # Row(i, n).name
Again(i, n) == \E m \in Rows[file[i]] : m < n /\ Slot(i, m) = Slot(i, n)

Warned(i, n, issue) == <<n, issue>> \in warnings[i]

ReportInv ==
  /\ \A i \in Imports : pc[i] \in Open =>
       \A m \in Finished(i), n \in left[i] : m < n
  /\ \A i \in Imports : pc[i] \in Open => \A n \in left[i] :
       /\ ~Warned(i, n, "duplicate_snapshot_in_file")
       /\ ~Warned(i, n, "duplicate_snapshot_existing")
       /\ Warned(i, n, "item_metadata_mismatch") =>
            pc[i] = "snapshot" /\ Current(i, n)
  /\ \A i \in Imports : pc[i] \in {"idle", "locking", "looking"} => warnings[i] = {}
  /\ \A i \in Imports : pc[i] = "snapshot" => \A n \in left[i] : Current(i, n) =>
       (Warned(i, n, "item_metadata_mismatch") <=> Mismatch(i, n))
  /\ \A i \in Imports : Storing(i) => \A n \in Finished(i) :
       /\ Warned(i, n, "item_metadata_mismatch") <=> Mismatch(i, n)
       /\ Warned(i, n, "duplicate_snapshot_in_file") <=> Again(i, n)
       /\ Warned(i, n, "duplicate_snapshot_existing") <=>
            ~Again(i, n) /\ snapshots[Slot(i, n)] # i

-----------------------------------------------------------------------------
(* Types *)

Act(i) ==
  \/ \E f \in Files : Begin(i, f) \/ Refuse(i, f)
  \/ Step(i)
  \/ DatabaseError(i)

(* A valid row has an item, a name and a time. *)
LEMMA RowTyped ==
  ASSUME NEW f \in Files, NEW n \in Rows[f]
  PROVE  /\ n \in Nat
         /\ Lines[f][n].key \in Keys
         /\ Lines[f][n].name \in Names
         /\ Lines[f][n].at \in Times
<1>1. Lines[f] \in Seq(Line) /\ n \in DOMAIN Lines[f] /\ Valid(Lines[f][n])
  BY CsvImportAssumption DEF Rows
<1>2. Lines[f][n] \in Line /\ n \in Nat
  BY <1>1
<1>3. /\ Lines[f][n]["key"] \notin Missing
      /\ Lines[f][n]["name"] \notin Missing
      /\ Lines[f][n]["at"] \notin Missing
  BY <1>1 DEF Valid, InvalidFields
<1> QED
  BY <1>2, <1>3 DEF Line, Missing

(* The counters of a job are numbers. *)
LEMMA CountsTyped ==
  ASSUME NEW f \in Files
  PROVE  /\ Len(Lines[f]) \in Nat
         /\ Cardinality(Rows[f]) \in Nat
         /\ ErrorCount(f) \in Nat
<1> DEFINE N == DOMAIN Lines[f]
           F == {"key", "name", "at", "ask", "bid"}
           Errors == UNION {{n} \X InvalidFields(Lines[f][n]) : n \in N}
<1>1. Lines[f] \in Seq(Line)
  BY CsvImportAssumption
<1>2. Len(Lines[f]) \in Nat /\ N = 1..Len(Lines[f])
  BY <1>1
<1>3. IsFiniteSet(N)
  BY <1>2, FS_Interval
<1>4. IsFiniteSet(Rows[f])
  BY <1>3, FS_Subset DEF Rows
<1>5. IsFiniteSet(F)
  <2>1. IsFiniteSet({"key"})
    BY FS_Singleton
  <2>2. IsFiniteSet({"key"} \cup {"name"})
    BY <2>1, FS_AddElement
  <2>3. IsFiniteSet({"key"} \cup {"name"} \cup {"at"})
    BY <2>2, FS_AddElement
  <2>4. IsFiniteSet({"key"} \cup {"name"} \cup {"at"} \cup {"ask"})
    BY <2>3, FS_AddElement
  <2>5. IsFiniteSet({"key"} \cup {"name"} \cup {"at"} \cup {"ask"} \cup {"bid"})
    BY <2>4, FS_AddElement
  <2>6. F = {"key"} \cup {"name"} \cup {"at"} \cup {"ask"} \cup {"bid"}
    OBVIOUS
  <2> QED
    BY <2>5, <2>6
<1>6. Errors \subseteq N \X F
  BY DEF InvalidFields
<1>7. IsFiniteSet(Errors)
  BY <1>3, <1>5, <1>6, FS_Product, FS_Subset
<1> QED
  BY <1>2, <1>4, <1>7, FS_CardinalityType DEF ErrorCount

(* The states of requests and tables are of their types. *)
LEMMA TypeStep ==
  ASSUME TypeOK, LockInv, StoreInv, NEW i \in Imports, Act(i)
  PROVE  TypeOK'
<1> USE DEF TypeOK
<1>1. ASSUME NEW f \in Files, Begin(i, f) \/ Refuse(i, f) PROVE TypeOK'
  <2>1. Rows[f] \subseteq Nat
    BY RowTyped
  <2> QED
    BY <1>1, <2>1 DEF Begin, Refuse, Open
<1>2. CASE Lock(i)
  <2>1. file[i] \in Files
    BY <1>2 DEF Lock, LockInv
  <2> QED
    BY <1>2, <2>1 DEF Lock, Open
<1>3. CASE Duplicate(i)
  <2>1. PICK j \in Earlier(i) : jobs' = [jobs EXCEPT ![i] = DuplicateOf(j)]
    BY <1>3 DEF Duplicate
  <2>2. DuplicateOf(j) \in Job
    BY <2>1 DEF Earlier, DuplicateOf, Job, Statuses
  <2> QED
    BY <1>3, <2>1, <2>2 DEF Duplicate, Released, Open
<1>4. CASE StartJob(i)
  BY <1>4 DEF StartJob, Open
<1>5. ASSUME NEW n \in left[i], GetItem(i, n) PROVE TypeOK'
  <2>1. file[i] \in Files /\ n \in Rows[file[i]]
    BY <1>5 DEF GetItem, LockInv, StoreInv, Open
  <2>2. Row(i, n).key \in Keys /\ Row(i, n).name \in Names /\ n \in Nat
    BY <2>1, RowTyped DEF Row
  <2>3. items' \in [Keys -> Item \cup {None}]
    BY <1>5, <2>2 DEF GetItem, Item
  <2>4. warnings' \in [Imports -> SUBSET (Nat \X Issues)]
    BY <1>5, <2>2 DEF GetItem, Issues
  <2> QED
    BY <1>5, <2>3, <2>4 DEF GetItem, Open
<1>6. ASSUME NEW n \in left[i], InsertSnapshot(i, n) PROVE TypeOK'
  <2>1. file[i] \in Files /\ n \in Rows[file[i]]
    BY <1>6 DEF InsertSnapshot, LockInv, StoreInv, Open
  <2>2. Slot(i, n) \in Slots /\ n \in Nat
    BY <2>1, RowTyped DEF Slot, Row, Slots
  <2>3. snapshots' \in [Slots -> Imports \cup {None}]
    BY <1>6, <2>2 DEF InsertSnapshot
  <2>4. warnings' \in [Imports -> SUBSET (Nat \X Issues)]
    BY <1>6, <2>2 DEF InsertSnapshot, Issues
  <2> QED
    BY <1>6, <2>3, <2>4 DEF InsertSnapshot, Open
<1>7. CASE Complete(i)
  <2>1. file[i] \in Files
    BY <1>7 DEF Complete, LockInv
  <2>2. [status |-> "completed", file |-> file[i], of |-> None,
         rows |-> Len(Lines[file[i]]), valid |-> Cardinality(Rows[file[i]]),
         invalid |-> ErrorCount(file[i])] \in Job
    BY <2>1, CountsTyped DEF Job, Statuses
  <2> QED
    BY <1>7, <2>2 DEF Complete, Released, Open
<1>8. ASSUME RollBack(i) PROVE TypeOK'
  <2>1. items' \in [Keys -> Item \cup {None}]
    BY <1>8 DEF RollBack, ItemsWithout
  <2> QED
    BY <1>8, <2>1 DEF RollBack, Released, Open
<1>9. CASE RecordFailure(i)
  <2>1. file[i] \in Files
    BY <1>9 DEF RecordFailure, LockInv
  <2>2. [status |-> "failed", file |-> file[i], of |-> None,
         rows |-> Len(Lines[file[i]]), valid |-> 0,
         invalid |-> Len(Lines[file[i]])] \in Job
    BY <2>1, CountsTyped DEF Job, Statuses
  <2> QED
    BY <1>9, <2>2 DEF RecordFailure, Open
<1>10. CASE RecordFails(i)
  BY <1>10 DEF RecordFails, Open
<1> QED
  BY <1>1, <1>2, <1>3, <1>4, <1>5, <1>6, <1>7, <1>8, <1>9, <1>10
  DEF Act, Step, Overflow, BreakDeadlock, DatabaseError

-----------------------------------------------------------------------------
(* What a step of one import leaves alone *)

(* Nothing of another import changes. *)
LEMMA OthersUnchanged ==
  ASSUME TypeOK, NEW i \in Imports, Act(i), NEW j \in Imports, j # i
  PROVE  /\ pc'[j] = pc[j]
         /\ file'[j] = file[j]
         /\ left'[j] = left[j]
         /\ warnings'[j] = warnings[j]
         /\ jobs'[j] = jobs[j]
<1> USE DEF TypeOK
<1>1. ASSUME RollBack(i)
      PROVE  /\ pc'[j] = pc[j]
             /\ file'[j] = file[j]
             /\ left'[j] = left[j]
             /\ warnings'[j] = warnings[j]
             /\ jobs'[j] = jobs[j]
  BY <1>1 DEF RollBack
<1> QED
  BY <1>1 DEF Act, Step, Begin, Refuse, Lock, Duplicate, StartJob, GetItem,
     InsertSnapshot, Complete, Overflow, BreakDeadlock, DatabaseError,
     RecordFailure, RecordFails

(* An import that is done stays so. *)
LEMMA DoneStays ==
  ASSUME TypeOK, NEW i \in Imports, Act(i), NEW j \in Imports, pc[j] = "done"
  PROVE  /\ i # j
         /\ pc'[j] = "done"
<1>1. i # j
  BY DEF Act, Step, Begin, Refuse, Lock, Duplicate, StartJob, GetItem,
     InsertSnapshot, Complete, Overflow, BreakDeadlock, DatabaseError,
     RecordFailure, RecordFails, Open
<1> QED
  BY <1>1, OthersUnchanged

(* The steps that change a table, or bring an import to where it has rows  *)
(* stored.                                                                 *)
LEMMA TableSteps ==
  ASSUME TypeOK, NEW i \in Imports, Act(i)
  PROVE  \/ \E n \in left[i] : GetItem(i, n) \/ InsertSnapshot(i, n)
         \/ pc[i] \in Open /\ RollBack(i)
         \/ UNCHANGED <<items, snapshots>>
  BY DEF Act, Step, Begin, Refuse, Lock, Duplicate, StartJob, Complete, Overflow,
     BreakDeadlock, DatabaseError, RecordFailure, RecordFails, Open

LEMMA StoringSteps ==
  ASSUME TypeOK, LockInv, NEW i \in Imports, Act(i), Storing(i)'
  PROVE  \/ StartJob(i)
         \/ \E n \in left[i] : GetItem(i, n) \/ InsertSnapshot(i, n)
         \/ Complete(i)
<1> USE DEF TypeOK, Storing, Completed, Working
<1>1. jobs[i] = None
  BY DoneStays DEF LockInv
<1>2. ASSUME NEW f \in Files, Begin(i, f) \/ Refuse(i, f) PROVE FALSE
  BY <1>1, <1>2 DEF Begin, Refuse
<1>3. CASE Lock(i)
  BY <1>1, <1>3 DEF Lock
<1>4. CASE Duplicate(i)
  <2>1. PICK j \in Earlier(i) : jobs'[i] = DuplicateOf(j)
    BY <1>4 DEF Duplicate
  <2> QED
    BY <1>4, <2>1 DEF Duplicate, DuplicateOf
<1>5. ASSUME RollBack(i) PROVE FALSE
  BY <1>1, <1>5 DEF RollBack
<1>6. CASE RecordFailure(i)
  BY <1>6 DEF RecordFailure
<1>7. CASE RecordFails(i)
  BY <1>1, <1>7 DEF RecordFails
<1> QED
  BY <1>2, <1>3, <1>4, <1>5, <1>6, <1>7
  DEF Act, Step, Overflow, BreakDeadlock, DatabaseError

(* A stored item or snapshot that an import counts on is not taken back.   *)
LEMMA ItemStays ==
  ASSUME TypeOK, LockInv, NEW i \in Imports, Act(i),
         NEW j \in Imports, Storing(j)', NEW k \in Keys,
         items[k] # None, Settled(items[k].by, j)
  PROVE  /\ items'[k] = items[k]
         /\ Settled(items[k].by, j)'
<1>1. items[k].by \in Imports
  BY CsvImportAssumption DEF TypeOK, Item
<1>2. ASSUME pc[i] \in Open, RollBack(i) PROVE items'[k] = items[k]
  <2>1. i # j
    <3>1. jobs[i] = None
      BY <1>2 DEF LockInv, Open
    <3> QED
      BY <1>2, <3>1 DEF RollBack, Storing, Completed, Working, TypeOK
  <2>2. items[k].by # i
    BY <1>2, <2>1 DEF Settled, Open
  <2> QED
    BY <1>2, <2>2 DEF RollBack, ItemsWithout
<1>3. ASSUME NEW n \in left[i], GetItem(i, n) \/ InsertSnapshot(i, n)
      PROVE  items'[k] = items[k]
  BY <1>3 DEF GetItem, InsertSnapshot, TypeOK
<1>4. items'[k] = items[k]
  BY <1>2, <1>3, TableSteps
<1> QED
  BY <1>1, <1>4, DoneStays DEF Settled

LEMMA SnapshotStays ==
  ASSUME TypeOK, LockInv, NEW i \in Imports, Act(i),
         NEW j \in Imports, Storing(j)', NEW s \in Slots,
         snapshots[s] # None, Settled(snapshots[s], j)
  PROVE  /\ snapshots'[s] = snapshots[s]
         /\ Settled(snapshots[s], j)'
<1>1. snapshots[s] \in Imports
  BY DEF TypeOK
<1>2. ASSUME pc[i] \in Open, RollBack(i) PROVE snapshots'[s] = snapshots[s]
  <2>1. i # j
    <3>1. jobs[i] = None
      BY <1>2 DEF LockInv, Open
    <3> QED
      BY <1>2, <3>1 DEF RollBack, Storing, Completed, Working, TypeOK
  <2>2. snapshots[s] # i
    BY <1>2, <2>1 DEF Settled, Open
  <2> QED
    BY <1>2, <2>2 DEF RollBack
<1>3. ASSUME NEW n \in left[i], GetItem(i, n) \/ InsertSnapshot(i, n)
      PROVE  snapshots'[s] = snapshots[s]
  BY <1>3 DEF GetItem, InsertSnapshot, TypeOK
<1>4. snapshots'[s] = snapshots[s]
  BY <1>2, <1>3, TableSteps
<1> QED
  BY <1>1, <1>4, DoneStays DEF Settled

-----------------------------------------------------------------------------
(* Locks and jobs *)

(* A step takes or releases no lock but that of its import, and an import  *)
(* has its lock exactly while it looks at the jobs and inserts.            *)
LEMMA LockStep ==
  ASSUME TypeOK, LockInv, NEW i \in Imports, Act(i)
  PROVE  /\ pc'[i] \in Locked => file'[i] = file[i] /\ lock'[file[i]] = i
         /\ \A f \in Files : lock'[f] # lock[f] =>
              \/ lock[f] = None /\ lock'[f] = i /\ file[i] = f
              \/ lock[f] = i /\ lock'[f] = None
         /\ \A f \in Files : lock'[f] = i => file'[i] = f /\ pc'[i] \in Locked
<1> USE CsvImportAssumption DEF TypeOK, Locked
<1>0. \A f \in Files : lock[f] = i => file[i] = f /\ pc[i] \in Locked
  BY DEF LockInv
<1>1. ASSUME NEW f \in Files, Begin(i, f) \/ Refuse(i, f)
      PROVE  pc'[i] \notin Locked /\ lock' = lock /\ pc[i] = "idle"
  BY <1>1 DEF Begin, Refuse
<1>2. CASE Lock(i)
  BY <1>2 DEF Lock, LockFree, LockInv
<1>3. ASSUME pc[i] \in Open, RollBack(i) PROVE pc'[i] \notin Locked /\ lock' = Released(i)
  BY <1>3 DEF RollBack
<1>4. CASE Duplicate(i) \/ Complete(i)
  BY <1>4 DEF Duplicate, Complete, Released
<1>5. CASE StartJob(i) \/ \E n \in left[i] : GetItem(i, n) \/ InsertSnapshot(i, n)
  <2>1. /\ pc[i] \in Locked /\ pc'[i] \in Locked
        /\ file'[i] = file[i] /\ lock' = lock
    BY <1>5 DEF StartJob, GetItem, InsertSnapshot
  <2> QED
    BY <1>0, <2>1 DEF LockInv
<1>6. CASE RecordFailure(i) \/ RecordFails(i)
  BY <1>0, <1>6 DEF RecordFailure, RecordFails
<1>7. CASE \E f \in Files : Begin(i, f) \/ Refuse(i, f)
  BY <1>0, <1>1, <1>7
<1>8. CASE pc[i] \in Open /\ RollBack(i)
  BY <1>3, <1>8 DEF Released
<1> QED
  BY <1>2, <1>4, <1>5, <1>6, <1>7, <1>8
  DEF Act, Step, Overflow, BreakDeadlock, DatabaseError, Open

(* Where a step leaves its import, and the job it commits. *)
LEMMA JobStep ==
  ASSUME TypeOK, LockInv, NEW i \in Imports, Act(i)
  PROVE  /\ pc'[i] # "idle" /\ file'[i] \in Files
         /\ jobs[i] = None
         /\ jobs'[i] # None => pc'[i] = "done" /\ jobs'[i].file = file'[i]
         /\ pc'[i] \in Working =>
              \/ pc[i] \in Working
              \/ pc[i] = "looking" /\ Earlier(i) = {}
         /\ Completed(i)' => pc[i] = "item" /\ file'[i] = file[i]
<1> USE CsvImportAssumption DEF TypeOK, Working
<1>1. jobs[i] = None
  BY DoneStays DEF LockInv
<1>2. CASE \E f \in Files : Begin(i, f) \/ Refuse(i, f)
  BY <1>1, <1>2 DEF Begin, Refuse, Completed
<1>3. CASE Lock(i)
  BY <1>1, <1>3 DEF Lock, LockInv, Completed
<1>4. CASE Duplicate(i)
  <2>1. PICK j \in Earlier(i) : jobs'[i] = DuplicateOf(j)
    BY <1>4 DEF Duplicate
  <2> QED
    BY <1>1, <1>4, <2>1 DEF Duplicate, DuplicateOf, LockInv, Completed, Earlier
<1>5. CASE StartJob(i)
  BY <1>1, <1>5 DEF StartJob, LockInv, Completed
<1>6. CASE \E n \in left[i] : GetItem(i, n) \/ InsertSnapshot(i, n)
  BY <1>1, <1>6 DEF GetItem, InsertSnapshot, LockInv, Completed
<1>7. CASE Complete(i)
  BY <1>1, <1>7 DEF Complete, LockInv, Completed
<1>8. CASE pc[i] \in Open /\ RollBack(i)
  BY <1>1, <1>8 DEF RollBack, LockInv, Completed, Open
<1>9. CASE RecordFailure(i)
  BY <1>1, <1>9 DEF RecordFailure, LockInv, Completed
<1>10. CASE RecordFails(i)
  BY <1>1, <1>10 DEF RecordFails, LockInv, Completed
<1> QED
  BY <1>2, <1>3, <1>4, <1>5, <1>6, <1>7, <1>8, <1>9, <1>10
  DEF Act, Step, Overflow, BreakDeadlock, DatabaseError

LEMMA LockInvStep ==
  ASSUME TypeOK, LockInv, NEW i \in Imports, Act(i)
  PROVE  LockInv'
<1>1. ASSUME NEW j \in Imports, pc'[j] # "idle" PROVE file'[j] \in Files
  BY <1>1, JobStep, OthersUnchanged DEF LockInv
<1>2. ASSUME NEW j \in Imports, pc'[j] \in Locked PROVE lock'[file'[j]] = j
  <2>1. CASE j = i
    BY <1>2, <2>1, LockStep
  <2>2. CASE j # i
    <3>1. pc[j] \in Locked /\ file'[j] = file[j] /\ lock[file[j]] = j
      BY <1>2, <2>2, OthersUnchanged DEF LockInv
    <3>2. file[j] \in Files /\ j # None
      BY <3>1, CsvImportAssumption DEF LockInv, Locked
    <3> QED
      BY <2>2, <3>1, <3>2, LockStep
  <2> QED
    BY <2>1, <2>2
<1>3. ASSUME NEW f \in Files, lock'[f] # None
      PROVE  file'[lock'[f]] = f /\ pc'[lock'[f]] \in Locked
  <2>1. CASE lock'[f] = i
    BY <2>1, LockStep
  <2>2. CASE lock'[f] # i
    <3>1. lock'[f] = lock[f] /\ lock[f] \in Imports
      BY <1>3, <2>2, LockStep DEF TypeOK
    <3>2. file[lock[f]] = f /\ pc[lock[f]] \in Locked
      BY <1>3, <3>1 DEF LockInv
    <3> QED
      BY <2>2, <3>1, <3>2, OthersUnchanged
  <2> QED
    BY <2>1, <2>2
<1>4. ASSUME NEW j \in Imports, jobs'[j] # None
      PROVE  pc'[j] = "done" /\ jobs'[j].file = file'[j]
  BY <1>4, JobStep, OthersUnchanged DEF LockInv
<1>5. ASSUME NEW j \in Imports, NEW m \in Imports,
             Completed(j)', pc'[m] \in Working, file'[m] = file'[j]
      PROVE  FALSE
  <2>1. pc'[j] = "done"
    BY <1>4, <1>5 DEF Completed
  <2>2. CASE j = i
    <3>1. pc[j] = "item" /\ file'[j] = file[j]
      BY <1>5, <2>2, JobStep
    <3>2. m # i /\ pc[m] \in Working /\ file[m] = file[j]
      BY <1>5, <2>1, <2>2, <3>1, OthersUnchanged DEF Working
    <3> QED
      BY <2>2, <3>1, <3>2 DEF LockInv, Locked, Working
  <2>3. CASE j # i
    <3>1. Completed(j) /\ file'[j] = file[j] /\ jobs[j].file = file[j]
      BY <1>5, <2>3, OthersUnchanged DEF Completed, LockInv
    <3>2. CASE m = i
      <4>1. file[m] = file[j] /\ Earlier(m) = {}
        BY <1>5, <3>1, <3>2, JobStep, LockStep DEF LockInv, Working, Locked
      <4> QED
        BY <3>1, <4>1 DEF Earlier, Completed
    <3>3. CASE m # i
      BY <1>5, <3>1, <3>3, OthersUnchanged DEF LockInv, Earlier, Completed
    <3> QED
      BY <3>2, <3>3
  <2> QED
    BY <2>2, <2>3
<1>6. ASSUME NEW j \in Imports, pc'[j] \in Working PROVE Earlier(j)' = {}
  BY <1>4, <1>5, <1>6 DEF Earlier, Completed
<1>7. ASSUME NEW j \in Imports, NEW m \in Imports,
             Completed(j)', Completed(m)', jobs'[j].file = jobs'[m].file, j = i
      PROVE  j = m
  <2> SUFFICES ASSUME j # m PROVE FALSE
    OBVIOUS
  <2>1. Completed(m) /\ jobs[m].file = file[m] /\ file'[m] = file[m]
    BY <1>7, OthersUnchanged DEF Completed, LockInv
  <2>2. pc[j] = "item" /\ file'[j] = file[j] /\ file'[j] = file'[m]
    BY <1>4, <1>7, JobStep DEF Completed
  <2>3. m \in Earlier(j)
    BY <2>1, <2>2 DEF Earlier, Completed
  <2> QED
    BY <2>2, <2>3 DEF LockInv, Working
<1>8. OneImportPerFile'
  <2>1. ASSUME NEW j \in Imports, NEW m \in Imports,
               Completed(j)', Completed(m)', jobs'[j].file = jobs'[m].file
        PROVE  j = m
    <3>1. CASE j # i /\ m # i
      BY <2>1, <3>1, OthersUnchanged DEF LockInv, OneImportPerFile, Completed
    <3> QED
      BY <1>7, <2>1, <3>1
  <2> QED
    BY <2>1 DEF OneImportPerFile
<1> QED
  BY <1>1, <1>2, <1>3, <1>4, <1>6, <1>8 DEF LockInv

-----------------------------------------------------------------------------
(* Items and snapshots *)

(* An import that works goes on with it, completes or is rolled back. *)
LEMMA WorkingSteps ==
  ASSUME TypeOK, NEW i \in Imports, Act(i), pc[i] \in Working
  PROVE  \/ pc'[i] \in Working
         \/ Complete(i) /\ pc'[i] = "done"
         \/ RollBack(i)
<1>1. CASE \E n \in left[i] : GetItem(i, n) \/ InsertSnapshot(i, n)
  <2>1. PICK n \in left[i] : GetItem(i, n) \/ InsertSnapshot(i, n)
    BY <1>1
  <2>2. pc' = [pc EXCEPT ![i] = "snapshot"] \/ pc' = [pc EXCEPT ![i] = "item"]
    BY <2>1 DEF GetItem, InsertSnapshot
  <2> QED
    BY <2>2 DEF TypeOK, Working
<1>2. CASE Complete(i)
  BY <1>2 DEF TypeOK, Complete
<1>3. CASE ~Complete(i) /\ ~\E n \in left[i] : GetItem(i, n) \/ InsertSnapshot(i, n)
  BY <1>3 DEF Act, Step, Begin, Refuse, Lock, Duplicate, StartJob, Overflow,
     BreakDeadlock, DatabaseError, RecordFailure, RecordFails, Working
<1> QED
  BY <1>1, <1>2, <1>3

(* Which rows an import has left after a step. *)
LEMMA LeftStep ==
  ASSUME TypeOK, LockInv, StoreInv, NEW i \in Imports, Act(i)
  PROVE  /\ pc'[i] \in Open => left'[i] \subseteq Rows[file'[i]]
         /\ pc'[i] \in {"locking", "looking"} => left'[i] = Rows[file'[i]]
         /\ Completed(i)' => left'[i] = {}
<1> USE DEF TypeOK, Open
<1>1. ASSUME NEW f \in Files, Begin(i, f) \/ Refuse(i, f)
      PROVE  pc'[i] \in Open => left'[i] = Rows[file'[i]]
  BY <1>1 DEF Begin, Refuse
<1>2. CASE Lock(i) \/ StartJob(i)
  BY <1>2, JobStep DEF Lock, StartJob, StoreInv
<1>3. CASE \E n \in left[i] : GetItem(i, n) \/ InsertSnapshot(i, n)
  <2>1. /\ file' = file /\ left'[i] \subseteq left[i] /\ jobs' = jobs
        /\ pc[i] \in Working /\ pc'[i] \in Working
    BY <1>3 DEF GetItem, InsertSnapshot, Working
  <2> QED
    BY <2>1, JobStep DEF StoreInv, Completed, Working
<1>4. CASE Complete(i)
  BY <1>4 DEF Complete
<1>5. CASE ~Storing(i)' /\ pc'[i] \notin {"locking", "looking"}
  BY <1>5 DEF Storing, Working
<1>6. CASE pc'[i] \in {"locking", "looking"}
  <2>1. ~Completed(i)'
    BY <1>6, JobStep DEF Completed
  <2>2. Lock(i) \/ \E f \in Files : Begin(i, f) \/ Refuse(i, f)
    BY <1>6 DEF Act, Step, Duplicate, StartJob, GetItem, InsertSnapshot,
       Complete, Overflow, BreakDeadlock, DatabaseError, RollBack,
       RecordFailure, RecordFails
  <2> QED
    BY <1>1, <1>2, <1>6, <2>1, <2>2
<1> QED
  BY <1>2, <1>3, <1>4, <1>5, <1>6, StoringSteps

(* The rows that an import had finished, and the one it finishes. *)
LEMMA FinishedStep ==
  ASSUME TypeOK, LockInv, StoreInv, NEW i \in Imports, Act(i), Storing(i)',
         NEW n \in Finished(i)'
  PROVE  /\ file'[i] = file[i] /\ file[i] \in Files
         /\ n \in Rows[file[i]]
         /\ \/ Storing(i) /\ n \in Finished(i)
            \/ InsertSnapshot(i, n) /\ n \in left[i]
<1> USE DEF TypeOK, Finished, Storing
<1>1. CASE StartJob(i)
  BY <1>1, JobStep DEF StartJob, StoreInv
<1>2. CASE \E m \in left[i] : GetItem(i, m)
  BY <1>2, JobStep DEF GetItem, Working
<1>3. CASE \E m \in left[i] : InsertSnapshot(i, m)
  <2>1. PICK m \in left[i] : InsertSnapshot(i, m)
    BY <1>3
  <2>2. /\ file' = file /\ left'[i] = left[i] \ {m} /\ pc[i] = "snapshot"
    BY <2>1 DEF InsertSnapshot
  <2> QED
    BY <2>1, <2>2, JobStep DEF Working
<1>4. CASE Complete(i)
  BY <1>4, JobStep DEF Complete, Working
<1> QED
  BY <1>1, <1>2, <1>3, <1>4, StoringSteps

LEMMA StoreInvStep ==
  ASSUME TypeOK, LockInv, StoreInv, NEW i \in Imports, Act(i)
  PROVE  StoreInv'
<1>1. ASSUME NEW k \in Keys, items'[k] # None
      PROVE  pc'[items'[k].by] \in Working \cup {"done"}
  <2>1. CASE items'[k] = items[k] /\ items[k].by # i
    <3>1. items[k].by \in Imports
      BY <1>1, <2>1 DEF TypeOK, Item
    <3> QED
      BY <1>1, <2>1, <3>1, OthersUnchanged DEF StoreInv
  <2>2. CASE items'[k] = items[k] /\ items[k].by = i
    <3>1. ~RollBack(i)
      BY <1>1, <2>2 DEF RollBack, ItemsWithout
    <3> QED
      BY <1>1, <2>2, <3>1, WorkingSteps, DoneStays DEF StoreInv
  <2>3. CASE items'[k] # items[k]
    <3>1. ASSUME RollBack(i) PROVE FALSE
      BY <1>1, <2>3, <3>1 DEF RollBack, ItemsWithout
    <3>2. PICK n \in left[i] : GetItem(i, n)
      BY <2>3, <3>1, TableSteps DEF InsertSnapshot
    <3>3. items'[k].by = i /\ pc'[i] = "snapshot"
      BY <2>3, <3>2 DEF GetItem, TypeOK
    <3> QED
      BY <3>3 DEF Working
  <2> QED
    BY <2>1, <2>2, <2>3
<1>2. ASSUME NEW s \in Slots, snapshots'[s] # None
      PROVE  pc'[snapshots'[s]] \in Working \cup {"done"}
  <2>1. CASE snapshots'[s] = snapshots[s] /\ snapshots[s] # i
    <3>1. snapshots[s] \in Imports
      BY <1>2, <2>1 DEF TypeOK
    <3> QED
      BY <1>2, <2>1, <3>1, OthersUnchanged DEF StoreInv
  <2>2. CASE snapshots'[s] = snapshots[s] /\ snapshots[s] = i
    <3>1. ~RollBack(i)
      BY <1>2, <2>2 DEF RollBack
    <3> QED
      BY <1>2, <2>2, <3>1, WorkingSteps, DoneStays DEF StoreInv
  <2>3. CASE snapshots'[s] # snapshots[s]
    <3>1. ASSUME RollBack(i) PROVE FALSE
      BY <1>2, <2>3, <3>1 DEF RollBack
    <3>2. PICK n \in left[i] : InsertSnapshot(i, n)
      BY <2>3, <3>1, TableSteps DEF GetItem
    <3>3. snapshots'[s] = i /\ pc'[i] = "item"
      BY <2>3, <3>2 DEF InsertSnapshot, TypeOK
    <3> QED
      BY <3>3 DEF Working
  <2> QED
    BY <2>1, <2>2, <2>3
<1>3. ASSUME NEW j \in Imports
      PROVE  /\ pc'[j] \in Open => left'[j] \subseteq Rows[file'[j]]
             /\ pc'[j] \in {"locking", "looking"} => left'[j] = Rows[file'[j]]
             /\ Completed(j)' => left'[j] = {}
  BY LeftStep, OthersUnchanged DEF StoreInv, Completed
<1>4. ASSUME NEW j \in Imports, Storing(j)', NEW n \in Finished(j)'
      PROVE  HasItem(j, n)' /\ HasSnapshot(j, n)'
  <2>1. /\ file'[j] = file[j] /\ file[j] \in Files
        /\ n \in Rows[file[j]]
        /\ \/ Storing(j) /\ n \in Finished(j)
           \/ InsertSnapshot(j, n) /\ n \in left[j] /\ j = i
    BY <1>4, FinishedStep, OthersUnchanged
    DEF Storing, Finished, Completed, LockInv, Working
  <2>2. /\ Row(j, n)' = Row(j, n) /\ Slot(j, n)' = Slot(j, n)
        /\ Row(j, n).key \in Keys /\ Slot(j, n) \in Slots
    BY <2>1, RowTyped DEF Row, Slot, Slots
  <2>3. HasItem(j, n)
    BY <2>1 DEF StoreInv, InsertSnapshot
  <2>4. HasItem(j, n)'
    BY <1>4, <2>2, <2>3, ItemStays DEF HasItem
  <2>5. CASE HasSnapshot(j, n)
    <3>1. /\ snapshots'[Slot(j, n)] = snapshots[Slot(j, n)]
          /\ Settled(snapshots[Slot(j, n)], j)'
      BY <1>4, <2>2, <2>5, SnapshotStays DEF HasSnapshot
    <3> QED
      BY <2>2, <2>4, <2>5, <3>1 DEF HasSnapshot
  <2>6. CASE ~HasSnapshot(j, n)
    <3>1. InsertSnapshot(i, n) /\ i = j
      BY <2>1, <2>6 DEF StoreInv
    <3>2. snapshots[Slot(j, n)] = None
      BY <2>6, <2>2, <3>1, CsvImportAssumption
      DEF InsertSnapshot, HasSnapshot, Visible, Settled, StoreInv, Working, Open
    <3>3. snapshots'[Slot(j, n)] = j /\ j # None
      BY <2>2, <3>1, <3>2, CsvImportAssumption DEF InsertSnapshot, TypeOK
    <3> QED
      BY <2>2, <2>4, <3>3 DEF HasSnapshot, Settled
  <2> QED
    BY <2>4, <2>5, <2>6
<1>5. ASSUME NEW j \in Imports, pc'[j] = "snapshot", NEW n \in left'[j], Current(j, n)'
      PROVE  HasItem(j, n)'
  <2>1. Storing(j)'
    BY <1>5 DEF Storing, Working
  <2>2. CASE j = i
    <3>1. PICK m \in left[i] : GetItem(i, m)
      BY <1>5, <2>1, <2>2, StoringSteps
      DEF StartJob, InsertSnapshot, Complete, TypeOK
    <3>2. /\ file' = file /\ left' = left /\ file[i] \in Files
          /\ m \in Rows[file[i]] /\ pc'[i] = "snapshot"
      BY <2>2, <3>1 DEF GetItem, LockInv, StoreInv, Open, TypeOK
    <3>3. m = n
      BY <1>5, <2>2, <3>1, <3>2 DEF GetItem, Current, TypeOK
    <3>4. Row(i, n)' = Row(i, n) /\ Row(i, n).key \in Keys
      BY <3>2, <3>3, RowTyped DEF Row
    <3>5. CASE items[Row(i, n).key] = None
      <4>1. items'[Row(i, n).key] = [name |-> Row(i, n).name, by |-> i]
        BY <3>1, <3>3, <3>4, <3>5 DEF GetItem, TypeOK
      <4>2. [name |-> Row(i, n).name, by |-> i] \in Item
        BY <3>2, <3>3, RowTyped DEF Item, Row
      <4> QED
        BY <2>2, <3>4, <4>1, <4>2, CsvImportAssumption DEF HasItem, Settled
    <3>6. CASE items[Row(i, n).key] # None
      <4>1. Settled(items[Row(i, n).key].by, i)
        BY <3>1, <3>3, <3>4, <3>6
        DEF GetItem, Visible, Settled, StoreInv, Working, Open
      <4> QED
        BY <2>1, <2>2, <3>4, <3>6, <4>1, ItemStays DEF HasItem
    <3> QED
      BY <3>5, <3>6
  <2>3. CASE j # i
    <3>1. /\ pc[j] = "snapshot" /\ n \in left[j] /\ Current(j, n)
          /\ file'[j] = file[j] /\ file[j] \in Files /\ n \in Rows[file[j]]
      BY <1>5, <2>3, OthersUnchanged DEF Current, LockInv, StoreInv, Open
    <3>2. HasItem(j, n) /\ Row(j, n)' = Row(j, n) /\ Row(j, n).key \in Keys
      BY <3>1, RowTyped DEF StoreInv, Row
    <3> QED
      BY <2>1, <3>2, ItemStays DEF HasItem
  <2> QED
    BY <2>2, <2>3
<1> QED
  BY <1>1, <1>2, <1>3, <1>4, <1>5 DEF StoreInv

(* An import that works has still its file, and keeps what it has finished. *)
LEMMA FinishedStays ==
  ASSUME TypeOK, LockInv, StoreInv, NEW i \in Imports, Act(i),
         NEW j \in Imports, pc[j] \in Working, pc'[j] \in Working
  PROVE  /\ file'[j] = file[j] /\ file[j] \in Files
         /\ Finished(j) \subseteq Finished(j)'
<1> USE DEF TypeOK, Finished
<1>1. CASE j # i
  BY <1>1, OthersUnchanged DEF LockInv, Working
<1>2. CASE j = i
  <2>1. file'[i] = file[i] /\ file[i] \in Files
    BY <1>2, LockStep, JobStep DEF Locked, Working
  <2>2. \E n \in left[i] : GetItem(i, n) \/ InsertSnapshot(i, n)
    BY <1>2, StoringSteps DEF Storing, StartJob, Complete, Working
  <2>3. left'[i] \subseteq left[i]
    BY <2>2 DEF GetItem, InsertSnapshot
  <2> QED
    BY <1>2, <2>1, <2>3
<1> QED
  BY <1>1, <1>2

LEMMA OriginInvStep ==
  ASSUME TypeOK, LockInv, StoreInv, OriginInv, NEW i \in Imports, Act(i)
  PROVE  OriginInv'
<1>1. ASSUME NEW j \in Imports, NEW k \in Keys,
             pc'[j] \in Working, items'[k] # None, items'[k].by = j
      PROVE  \E n \in Ledger!Introducing(file'[j], k) :
               items'[k].name = Lines[file'[j]][n].name
  <2>1. CASE items'[k] = items[k]
    <3>1. pc[j] \in Working
      BY <1>1, <2>1, DoneStays DEF StoreInv, Working
    <3> QED
      BY <1>1, <2>1, <3>1, FinishedStays DEF OriginInv
  <2>2. CASE items'[k] # items[k]
    <3>1. ~RollBack(i)
      BY <1>1, <2>2 DEF RollBack, ItemsWithout
    <3>2. PICK n \in left[i] : GetItem(i, n)
      BY <2>2, <3>1, TableSteps DEF InsertSnapshot
    <3>3. /\ items[k] = None /\ k = Row(i, n).key
          /\ items'[k] = [name |-> Row(i, n).name, by |-> i]
          /\ j = i /\ file' = file
      BY <1>1, <2>2, <3>2 DEF GetItem, TypeOK
    <3>4. file[i] \in Files /\ n \in Rows[file[i]] /\ pc[i] = "item"
      BY <3>2 DEF GetItem, LockInv, StoreInv, Open
    <3>5. ASSUME NEW m \in Rows[file[i]], m < n PROVE Row(i, m).key # k
      <4>1. m \in Nat /\ n \in Nat
        BY <3>4, RowTyped
      <4>2. m \in Finished(i)
        BY <3>2, <3>5, <4>1 DEF GetItem, Current, Finished
      <4> QED
        BY <3>3, <3>4, <4>2 DEF StoreInv, HasItem, Storing, Working
    <3>6. n \in Ledger!Introducing(file'[j], k)
      BY <3>3, <3>4, <3>5 DEF Ledger!Introducing, Row
    <3> QED
      BY <3>3, <3>6 DEF Row
  <2> QED
    BY <2>1, <2>2
<1>2. ASSUME NEW j \in Imports, NEW s \in Slots,
             pc'[j] \in Working, snapshots'[s] = j
      PROVE  \E n \in Finished(j)' : Slot(j, n)' = s
  <2>1. CASE snapshots'[s] = snapshots[s]
    <3>1. pc[j] \in Working /\ snapshots[s] = j
      BY <1>2, <2>1, DoneStays, CsvImportAssumption DEF StoreInv, Working
    <3>2. PICK n \in Finished(j) : Slot(j, n) = s
      BY <3>1 DEF OriginInv
    <3>3. n \in Finished(j)' /\ Slot(j, n)' = s
      BY <1>2, <3>1, <3>2, FinishedStays DEF Slot, Row
    <3> QED
      BY <3>3
  <2>2. CASE snapshots'[s] # snapshots[s]
    <3>1. ~RollBack(i)
      BY <1>2, <2>2, CsvImportAssumption DEF RollBack
    <3>2. PICK n \in left[i] : InsertSnapshot(i, n)
      BY <2>2, <3>1, TableSteps DEF GetItem
    <3>3. /\ s = Slot(i, n) /\ j = i /\ file' = file
          /\ left'[i] = left[i] \ {n}
      BY <1>2, <2>2, <3>2 DEF InsertSnapshot, TypeOK
    <3>4. n \in Rows[file[i]]
      BY <3>2 DEF InsertSnapshot, StoreInv, Open
    <3>5. n \in Finished(i)' /\ Slot(i, n)' = s
      BY <3>3, <3>4 DEF Finished, Slot, Row
    <3> QED
      BY <3>3, <3>5
  <2> QED
    BY <2>1, <2>2
<1> QED
  BY <1>1, <1>2 DEF OriginInv

-----------------------------------------------------------------------------
(* Atomicity *)

StoredItems ==
  [k \in Keys |-> IF items[k] # None /\ pc[items[k].by] \notin Open
                  THEN items[k].name ELSE None]

StoredSnapshots ==
  [s \in Slots |-> IF snapshots[s] # None /\ pc[snapshots[s]] \notin Open
                   THEN snapshots[s] ELSE None]

EndedJobs ==
  [i \in Imports |-> IF jobs[i] = None THEN None
                     ELSE [status |-> jobs[i].status, file |-> jobs[i].file,
                           of |-> jobs[i].of]]

(* Only the end of an import changes what the readers see. *)
LEMMA StoredUnchanged ==
  ASSUME TypeOK, LockInv, StoreInv, NEW i \in Imports, Act(i), ~Complete(i)
  PROVE  UNCHANGED <<StoredItems, StoredSnapshots>>
<1>1. ASSUME NEW k \in Keys PROVE StoredItems[k]' = StoredItems[k]
  <2>1. CASE items'[k] = items[k] /\ items[k] # None
    <3>1. items[k].by \in Imports
      BY <2>1 DEF TypeOK, Item
    <3>2. CASE items[k].by # i
      BY <2>1, <3>1, <3>2, OthersUnchanged DEF StoredItems
    <3>3. CASE items[k].by = i
      <4>1. pc[i] \in Working
        BY <2>1, <3>3, DoneStays DEF StoreInv
      <4>2. ~RollBack(i)
        BY <2>1, <3>3 DEF RollBack, ItemsWithout
      <4>3. pc'[i] \in Working
        BY <4>1, <4>2, WorkingSteps
      <4> QED
        BY <2>1, <3>3, <4>1, <4>3 DEF StoredItems, Working, Open
    <3> QED
      BY <3>2, <3>3
  <2>2. CASE items'[k] = items[k] /\ items[k] = None
    BY <2>2 DEF StoredItems
  <2>3. CASE items'[k] # items[k]
    <3>1. CASE pc[i] \in Open /\ RollBack(i)
      BY <2>3, <3>1 DEF RollBack, ItemsWithout, StoredItems
    <3>2. ASSUME NEW n \in left[i], GetItem(i, n)
          PROVE  StoredItems[k]' = StoredItems[k]
      <4>1. items[k] = None /\ items'[k].by = i /\ pc'[i] = "snapshot"
        BY <2>3, <3>2 DEF GetItem, TypeOK
      <4> QED
        BY <4>1 DEF StoredItems, Open
    <3> QED
      BY <2>3, <3>1, <3>2, TableSteps DEF InsertSnapshot
  <2> QED
    BY <2>1, <2>2, <2>3
<1>2. ASSUME NEW s \in Slots PROVE StoredSnapshots[s]' = StoredSnapshots[s]
  <2>1. CASE snapshots'[s] = snapshots[s] /\ snapshots[s] # None
    <3>1. snapshots[s] \in Imports
      BY <2>1 DEF TypeOK
    <3>2. CASE snapshots[s] # i
      BY <2>1, <3>1, <3>2, OthersUnchanged DEF StoredSnapshots
    <3>3. CASE snapshots[s] = i
      <4>1. pc[i] \in Working
        BY <2>1, <3>3, DoneStays DEF StoreInv
      <4>2. ~RollBack(i)
        BY <2>1, <3>3 DEF RollBack
      <4>3. pc'[i] \in Working
        BY <4>1, <4>2, WorkingSteps
      <4> QED
        BY <2>1, <3>3, <4>1, <4>3 DEF StoredSnapshots, Working, Open
    <3> QED
      BY <3>2, <3>3
  <2>2. CASE snapshots'[s] = snapshots[s] /\ snapshots[s] = None
    BY <2>2 DEF StoredSnapshots
  <2>3. CASE snapshots'[s] # snapshots[s]
    <3>1. CASE pc[i] \in Open /\ RollBack(i)
      BY <2>3, <3>1 DEF RollBack, StoredSnapshots
    <3>2. ASSUME NEW n \in left[i], InsertSnapshot(i, n)
          PROVE  StoredSnapshots[s]' = StoredSnapshots[s]
      <4>1. snapshots[s] = None /\ snapshots'[s] = i /\ pc'[i] = "item"
        BY <2>3, <3>2 DEF InsertSnapshot, TypeOK
      <4> QED
        BY <4>1 DEF StoredSnapshots, Open
    <3> QED
      BY <2>3, <3>1, <3>2, TableSteps DEF GetItem
  <2> QED
    BY <2>1, <2>2, <2>3
<1> QED
  BY <1>1, <1>2 DEF StoredItems, StoredSnapshots

(* An import that completes makes its items and snapshots visible, which   *)
(* are those that nobody had stored before it.                             *)
LEMMA CompletesAtomically ==
  ASSUME TypeOK, LockInv, StoreInv, OriginInv, NEW i \in Imports, Act(i), Complete(i)
  PROVE  Ledger!Complete(i, file[i])
<1> DEFINE f == file[i]
<1>1. /\ pc[i] = "item" /\ f \in Files /\ jobs[i] = None /\ Earlier(i) = {}
      /\ left[i] = {} /\ items' = items /\ snapshots' = snapshots
      /\ pc' = [pc EXCEPT ![i] = "done"] /\ file' = file
  BY JobStep DEF Complete, LockInv, Working
<1>2. \A n \in Rows[f] : HasItem(i, n) /\ HasSnapshot(i, n)
  BY <1>1 DEF StoreInv, Storing, Finished, Working
<1>3. EndedJobs[i] = None
  BY <1>1 DEF EndedJobs
<1>4. Ledger!CompletedBefore(f) = {}
  BY <1>1 DEF Ledger!CompletedBefore, Earlier
<1>5. EndedJobs' = [EndedJobs EXCEPT ![i] = Ledger!Job("completed", f, None)]
  <2>1. /\ jobs'[i].status = "completed" /\ jobs'[i].file = f
        /\ jobs'[i].of = None
        /\ \A j \in Imports \ {i} : jobs'[j] = jobs[j]
    BY DEF Complete, TypeOK
  <2>2. jobs'[i] \in Job
    <3>1. jobs'[i] = [status |-> "completed", file |-> f, of |-> None,
                      rows |-> Len(Lines[f]), valid |-> Cardinality(Rows[f]),
                      invalid |-> ErrorCount(f)]
      BY DEF Complete, TypeOK
    <3> QED
      BY <1>1, <3>1, CountsTyped DEF Job, Statuses
  <2>3. jobs'[i] # None
    BY <2>2, CsvImportAssumption
  <2> QED
    BY <2>1, <2>3 DEF EndedJobs, Ledger!Job
<1>6. ASSUME NEW k \in Keys
      PROVE  StoredItems'[k] =
               IF StoredItems[k] # None \/ Ledger!Introducing(f, k) = {}
               THEN StoredItems[k]
               ELSE Lines[f][CHOOSE n \in Ledger!Introducing(f, k) : TRUE].name
  <2> DEFINE I == Ledger!Introducing(f, k)
  <2>1. ASSUME NEW n \in I PROVE I = {n} /\ n \in Rows[f] /\ Row(i, n).key = k
    <3>1. I \subseteq Rows[f] /\ \A m \in I : m \in Nat
      BY <1>1, RowTyped DEF Ledger!Introducing
    <3> QED
      BY <2>1, <3>1 DEF Ledger!Introducing, Row
  <2>2. CASE items[k] = None
    BY <1>1, <1>2, <2>1, <2>2 DEF StoredItems, HasItem
  <2>3. CASE items[k] # None /\ items[k].by = i
    <3>1. PICK n \in I : items[k].name = Lines[f][n].name
      BY <1>1, <2>3 DEF OriginInv, Working
    <3>2. StoredItems[k] = None
      BY <1>1, <2>3 DEF StoredItems, Open
    <3>3. StoredItems'[k] = items[k].name
      BY <1>1, <2>3 DEF StoredItems, TypeOK, Open
    <3>4. (CHOOSE m \in I : TRUE) = n
      BY <2>1, <3>1
    <3> QED
      BY <3>1, <3>2, <3>3, <3>4
  <2>4. CASE items[k] # None /\ items[k].by # i
    <3>1. items[k].by \in Imports
      BY <2>4 DEF TypeOK, Item
    <3>2. StoredItems'[k] = StoredItems[k]
      BY <1>1, <2>4, <3>1 DEF StoredItems, TypeOK
    <3>3. ASSUME NEW n \in I PROVE StoredItems[k] # None
      <4>1. pc[items[k].by] = "done"
        BY <1>2, <2>1, <2>4, <3>3 DEF HasItem, Settled
      <4>2. items[k].name \in Names
        BY <2>4 DEF TypeOK, Item
      <4> QED
        BY <2>4, <4>1, <4>2, CsvImportAssumption DEF StoredItems, Open
    <3> QED
      BY <3>2, <3>3
  <2> QED
    BY <2>2, <2>3, <2>4
<1>7. ASSUME NEW s \in Slots
      PROVE  StoredSnapshots'[s] =
               IF StoredSnapshots[s] = None /\ \E n \in Rows[f] : Slot(i, n) = s
               THEN i ELSE StoredSnapshots[s]
  <2>1. CASE snapshots[s] = None
    BY <1>1, <1>2, <2>1 DEF StoredSnapshots, HasSnapshot
  <2>2. CASE snapshots[s] = i
    <3>1. \E n \in Rows[f] : Slot(i, n) = s
      BY <1>1, <2>2 DEF OriginInv, Working, Finished
    <3> QED
      BY <1>1, <2>2, <3>1, CsvImportAssumption DEF StoredSnapshots, TypeOK, Open
  <2>3. CASE snapshots[s] # None /\ snapshots[s] # i
    <3>1. snapshots[s] \in Imports
      BY <2>3 DEF TypeOK
    <3>2. StoredSnapshots'[s] = StoredSnapshots[s]
      BY <1>1, <2>3, <3>1 DEF StoredSnapshots, TypeOK
    <3>3. ASSUME NEW n \in Rows[f], Slot(i, n) = s PROVE StoredSnapshots[s] # None
      BY <1>2, <2>3, <3>1, <3>3 DEF HasSnapshot, Settled, StoredSnapshots, Open
    <3> QED
      BY <3>2, <3>3
  <2> QED
    BY <2>1, <2>2, <2>3
<1>8. \A n : Ledger!Slot(f, n) = Slot(i, n)
  BY DEF Ledger!Slot, Slot, Row
<1>9. /\ StoredItems' = [k \in Keys |->
           IF StoredItems[k] # None \/ Ledger!Introducing(f, k) = {}
           THEN StoredItems[k]
           ELSE Lines[f][CHOOSE n \in Ledger!Introducing(f, k) : TRUE].name]
      /\ StoredSnapshots' = [s \in Keys \X Times |->
           IF StoredSnapshots[s] = None /\ \E n \in Rows[f] : Ledger!Slot(f, n) = s
           THEN i ELSE StoredSnapshots[s]]
  <2>1. StoredItems' = [k \in Keys |-> StoredItems'[k]]
    BY DEF StoredItems
  <2>2. StoredSnapshots' = [s \in Slots |-> StoredSnapshots'[s]]
    BY DEF StoredSnapshots
  <2> QED
    BY <1>6, <1>7, <1>8, <2>1, <2>2 DEF Slots
<1> QED
  BY <1>3, <1>4, <1>5, <1>9
  DEF Ledger!Complete, StoredItems, StoredSnapshots, EndedJobs

(* A refused upload changes nothing that readers see but its own job. *)
LEMMA LedgerStep ==
  ASSUME TypeOK, LockInv, StoreInv, OriginInv, NEW i \in Imports, Act(i)
  PROVE  Ledger!Next \/ UNCHANGED Ledger!vars
<1>1. jobs[i] = None /\ EndedJobs[i] = None /\ file'[i] \in Files
  BY JobStep DEF EndedJobs
<1>2. CASE Complete(i)
  <2>1. file[i] \in Files
    BY <1>2 DEF Complete, LockInv
  <2> QED
    BY <1>2, <2>1, CompletesAtomically DEF Ledger!Next, Ledger!Complete
<1>3. CASE Duplicate(i)
  <2>1. PICK j \in Earlier(i) : jobs' = [jobs EXCEPT ![i] = DuplicateOf(j)]
    BY <1>3 DEF Duplicate
  <2>2. file[i] \in Files /\ jobs[j] \in Job /\ ~Complete(i)
    BY <1>1, <1>3, <2>1 DEF Duplicate, Complete, Earlier, TypeOK
  <2>3. DuplicateOf(j) # None
    BY <2>2, CsvImportAssumption, <2>1 DEF DuplicateOf, Job, Earlier, Statuses
  <2>4. EndedJobs' = [EndedJobs EXCEPT ![i] = Ledger!Job("duplicate", file[i], j)]
    BY <2>1, <2>3 DEF EndedJobs, Ledger!Job, DuplicateOf, Earlier, TypeOK
  <2>5. EndedJobs[j] # None
    <3>1. [status |-> jobs[j].status, file |-> jobs[j].file, of |-> jobs[j].of]
            \in [status : Statuses, file : Files, of : Imports \cup {None}]
      BY <2>2 DEF Job
    <3> QED
      BY <2>1, <3>1, CsvImportAssumption DEF EndedJobs, Earlier
  <2>6. j \in Ledger!CompletedBefore(file[i])
    BY <2>1, <2>5 DEF Ledger!CompletedBefore, Earlier, EndedJobs
  <2>7. PICK f \in Files : f = file[i]
    BY <2>2
  <2>8. Ledger!Duplicate(i, f)
    BY <1>1, <2>2, <2>4, <2>6, <2>7, StoredUnchanged
    DEF Ledger!Duplicate, EndedJobs, StoredItems, StoredSnapshots, Slots
  <2> QED
    BY <2>8 DEF Ledger!Next
<1>4. CASE RecordFailure(i)
  <2>1. file[i] \in Files /\ ~Complete(i)
    BY <1>4 DEF RecordFailure, Complete, LockInv
  <2>2. [status |-> "failed", file |-> file[i], of |-> None,
         rows |-> Len(Lines[file[i]]), valid |-> 0,
         invalid |-> Len(Lines[file[i]])] # None
    BY <2>1, CountsTyped, CsvImportAssumption DEF Job, Statuses
  <2>3. EndedJobs' = [EndedJobs EXCEPT ![i] = Ledger!Job("failed", file[i], None)]
    BY <1>4, <2>2 DEF RecordFailure, EndedJobs, Ledger!Job, TypeOK
  <2>4. Ledger!Fail(i, file[i])
    BY <1>1, <2>1, <2>3, StoredUnchanged
    DEF Ledger!Fail, EndedJobs, StoredItems, StoredSnapshots, Slots
  <2> QED
    BY <2>1, <2>4 DEF Ledger!Next, Ledger!Fail
<1>5. CASE ~Complete(i) /\ ~Duplicate(i) /\ ~RecordFailure(i)
  <2>1. jobs' = jobs
    BY <1>5 DEF Act, Step, Begin, Refuse, Lock, StartJob, GetItem, InsertSnapshot,
       Overflow, BreakDeadlock, DatabaseError, RollBack, RecordFails
  <2> QED
    BY <1>5, <2>1, StoredUnchanged
    DEF Ledger!vars, EndedJobs, StoredItems, StoredSnapshots, Slots
<1> QED
  BY <1>2, <1>3, <1>4, <1>5

-----------------------------------------------------------------------------
(* The report *)

LEMMA OpenSteps ==
  ASSUME TypeOK, LockInv, NEW i \in Imports, Act(i), pc'[i] \in Open
  PROVE  \/ \E f \in Files : Begin(i, f)
         \/ Lock(i)
         \/ StartJob(i)
         \/ \E n \in left[i] : GetItem(i, n) \/ InsertSnapshot(i, n)
<1>1. CASE pc'[i] \in Working
  BY <1>1, StoringSteps DEF Storing, Complete, TypeOK, Working
<1>2. CASE pc'[i] \notin Working
  BY <1>2 DEF Act, Step, Refuse, Duplicate, Complete, Overflow, BreakDeadlock,
     DatabaseError, RollBack, RecordFailure, RecordFails, TypeOK, Open, Working
<1> QED
  BY <1>1, <1>2

(* The rows still left come after all those that are finished. *)
LEMMA OrderStep ==
  ASSUME TypeOK, LockInv, StoreInv, ReportInv, NEW i \in Imports, Act(i),
         pc'[i] \in Open, NEW m \in Finished(i)', NEW n \in left'[i]
  PROVE  m < n
<1>1. file'[i] \in Files /\ left'[i] \subseteq Rows[file'[i]]
  BY LeftStep, JobStep
<1>2. m \in Nat /\ n \in Nat
  BY <1>1, RowTyped DEF Finished
<1>3. CASE (\E f \in Files : Begin(i, f)) \/ Lock(i)
  BY <1>3, LeftStep DEF Begin, Lock, Finished, TypeOK
<1>4. CASE StartJob(i)
  BY <1>4 DEF StartJob, Finished, StoreInv
<1>5. CASE \E r \in left[i] : GetItem(i, r)
  BY <1>5 DEF GetItem, Finished, ReportInv, Open
<1>6. ASSUME NEW r \in left[i], InsertSnapshot(i, r) PROVE m < n
  <2>1. /\ file' = file /\ left'[i] = left[i] \ {r} /\ pc[i] = "snapshot"
        /\ \A q \in left[i] : r <= q
    BY <1>6 DEF InsertSnapshot, Current, TypeOK
  <2>2. r \in Nat
    BY DEF TypeOK
  <2>3. CASE m = r
    BY <1>2, <2>1, <2>2, <2>3
  <2>4. CASE m # r
    BY <2>1, <2>4 DEF ReportInv, Finished, Open
  <2> QED
    BY <2>3, <2>4
<1> QED
  BY <1>3, <1>4, <1>5, <1>6, OpenSteps

(* Warnings are about the current row; before the loop there are none.     *)
LEMMA WarningsStep ==
  ASSUME TypeOK, LockInv, StoreInv, ReportInv, NEW i \in Imports, Act(i)
  PROVE  /\ pc'[i] \in {"idle", "locking", "looking"} => warnings'[i] = {}
         /\ pc'[i] \in Open => \A n \in left'[i] :
              /\ ~Warned(i, n, "duplicate_snapshot_in_file")'
              /\ ~Warned(i, n, "duplicate_snapshot_existing")'
              /\ Warned(i, n, "item_metadata_mismatch")' =>
                   pc'[i] = "snapshot" /\ Current(i, n)'
<1> USE DEF TypeOK, Warned
<1>1. CASE pc'[i] \in {"locking", "looking"}
  <2>1. (\E f \in Files : Begin(i, f)) \/ Lock(i)
    <3>1. StartJob(i) => pc'[i] = "item"
      BY DEF StartJob
    <3>2. ASSUME NEW n \in left[i], GetItem(i, n) PROVE FALSE
      BY <1>1, <3>2 DEF GetItem
    <3>3. ASSUME NEW n \in left[i], InsertSnapshot(i, n) PROVE FALSE
      BY <1>1, <3>3 DEF InsertSnapshot
    <3>4. pc'[i] \in Open
      BY <1>1 DEF Open
    <3> QED
      BY <1>1, <3>1, <3>2, <3>3, <3>4, OpenSteps
  <2>2. warnings'[i] = {}
    BY <2>1 DEF Begin, Lock, ReportInv
  <2> QED
    BY <1>1, <2>2
<1>2. CASE StartJob(i)
  <2>1. warnings'[i] = {} /\ pc'[i] = "item"
    BY <1>2 DEF StartJob, ReportInv
  <2> QED
    BY <2>1
<1>3. ASSUME NEW r \in left[i], GetItem(i, r), NEW n \in left'[i]
      PROVE  /\ ~Warned(i, n, "duplicate_snapshot_in_file")'
             /\ ~Warned(i, n, "duplicate_snapshot_existing")'
             /\ Warned(i, n, "item_metadata_mismatch")' =>
                   pc'[i] = "snapshot" /\ Current(i, n)'
  <2>1. /\ left' = left /\ pc[i] = "item" /\ pc'[i] = "snapshot"
        /\ Current(i, r)'
        /\ warnings'[i] \subseteq warnings[i] \cup {<<r, "item_metadata_mismatch">>}
    BY <1>3 DEF GetItem, Current
  <2> QED
    BY <1>3, <2>1 DEF ReportInv, Open
<1>4. ASSUME NEW r \in left[i], InsertSnapshot(i, r), NEW n \in left'[i]
      PROVE  /\ ~Warned(i, n, "duplicate_snapshot_in_file")'
             /\ ~Warned(i, n, "duplicate_snapshot_existing")'
             /\ ~Warned(i, n, "item_metadata_mismatch")'
  <2>1. /\ left'[i] = left[i] \ {r} /\ pc[i] = "snapshot" /\ Current(i, r)
        /\ n \in Nat /\ r \in Nat /\ n # r /\ n \in left[i]
    BY <1>4 DEF InsertSnapshot
  <2>2. \A issue : Warned(i, n, issue)' => Warned(i, n, issue)
    <3>1. warnings'[i] \subseteq warnings[i] \cup {r} \X Issues
      BY <1>4, <2>1 DEF InsertSnapshot, Issues
    <3> QED
      BY <2>1, <3>1
  <2>3. ~Current(i, n)
    BY <2>1 DEF Current
  <2> QED
    BY <2>1, <2>2, <2>3 DEF ReportInv, Open
<1>5. pc'[i] # "idle"
  BY JobStep
<1>6. CASE \E r \in left[i] : GetItem(i, r) \/ InsertSnapshot(i, r)
  <2>1. pc'[i] \notin {"locking", "looking"}
    BY <1>6 DEF GetItem, InsertSnapshot
  <2> QED
    BY <1>3, <1>4, <1>5, <1>6, <2>1
<1>7. CASE pc'[i] \notin Open
  BY <1>5, <1>7 DEF Open
<1>8. CASE (\E f \in Files : Begin(i, f)) \/ Lock(i)
  BY <1>1, <1>8 DEF Begin, Lock
<1> QED
  BY <1>2, <1>6, <1>7, <1>8, OpenSteps

(* The row whose snapshot is inserted gets the warnings that are due.      *)
LEMMA InsertReports ==
  ASSUME TypeOK, LockInv, StoreInv, OriginInv, ReportInv, NEW i \in Imports,
         NEW n \in left[i], InsertSnapshot(i, n)
  PROVE  /\ Warned(i, n, "item_metadata_mismatch")' <=> Mismatch(i, n)'
         /\ Warned(i, n, "duplicate_snapshot_in_file")' <=> Again(i, n)'
         /\ Warned(i, n, "duplicate_snapshot_existing")' <=>
              ~Again(i, n)' /\ snapshots'[Slot(i, n)'] # i
<1> DEFINE s == Slot(i, n)
<1>1. /\ pc[i] = "snapshot" /\ Current(i, n) /\ file' = file /\ items' = items
      /\ file[i] \in Files /\ left[i] \subseteq Rows[file[i]]
      /\ i # None
  BY CsvImportAssumption DEF InsertSnapshot, LockInv, StoreInv, Open
<1>2. s \in Slots /\ n \in Nat /\ left[i] \subseteq Nat /\ Rows[file[i]] \subseteq Nat
  BY <1>1, RowTyped DEF Slot, Row, Slots
<1>3. /\ ~Warned(i, n, "duplicate_snapshot_in_file")
      /\ ~Warned(i, n, "duplicate_snapshot_existing")
      /\ Warned(i, n, "item_metadata_mismatch") <=> Mismatch(i, n)
  BY <1>1 DEF ReportInv, Open
<1>4. /\ Mismatch(i, n)' <=> Mismatch(i, n)
      /\ Again(i, n)' <=> Again(i, n)
      /\ Slot(i, n)' = s
  BY <1>1 DEF Mismatch, Again, Slot, Row
<1>5. SeenInFile(i, n) <=> Again(i, n)
  <2>1. \A m \in Rows[file[i]] : m \notin left[i] => m < n
    BY <1>1 DEF ReportInv, Finished, Open
  <2>2. \A m \in Rows[file[i]] : m < n => m \notin left[i]
    BY <1>1, <1>2 DEF Current
  <2> QED
    BY <2>1, <2>2 DEF SeenInFile, Again
<1>6. warnings'[i] = warnings[i] \cup
        IF SeenInFile(i, n) THEN {<<n, "duplicate_snapshot_in_file">>}
        ELSE IF snapshots[s] # None THEN {<<n, "duplicate_snapshot_existing">>}
        ELSE {}
  BY DEF InsertSnapshot, TypeOK
<1>7. /\ snapshots[s] = None => snapshots'[s] = i
      /\ snapshots[s] # None => snapshots'[s] = snapshots[s]
  BY <1>2 DEF InsertSnapshot, TypeOK
<1>8. snapshots[s] = i => SeenInFile(i, n)
  BY <1>1, <1>2 DEF OriginInv, Working, SeenInFile, Finished
<1> QED
  BY <1>1, <1>3, <1>4, <1>5, <1>6, <1>7, <1>8 DEF Warned

LEMMA ReportInvStep ==
  ASSUME TypeOK, LockInv, StoreInv, OriginInv, ReportInv, NEW i \in Imports, Act(i)
  PROVE  ReportInv'
<1>1. ASSUME NEW j \in Imports, pc'[j] \in Open,
             NEW m \in Finished(j)', NEW n \in left'[j]
      PROVE  m < n
  BY <1>1, OrderStep, OthersUnchanged DEF ReportInv, Finished
<1>2. ASSUME NEW j \in Imports
      PROVE  /\ pc'[j] \in {"idle", "locking", "looking"} => warnings'[j] = {}
             /\ pc'[j] \in Open => \A n \in left'[j] :
                  /\ ~Warned(j, n, "duplicate_snapshot_in_file")'
                  /\ ~Warned(j, n, "duplicate_snapshot_existing")'
                  /\ Warned(j, n, "item_metadata_mismatch")' =>
                       pc'[j] = "snapshot" /\ Current(j, n)'
  BY WarningsStep, OthersUnchanged DEF ReportInv, Warned, Current
<1>3. ASSUME NEW j \in Imports, pc'[j] = "snapshot", NEW n \in left'[j], Current(j, n)'
      PROVE  Warned(j, n, "item_metadata_mismatch")' <=> Mismatch(j, n)'
  <2>1. Storing(j)'
    BY <1>3 DEF Storing, Working
  <2>2. CASE j = i
    <3>1. PICK m \in left[i] : GetItem(i, m)
      BY <1>3, <2>1, <2>2, StoringSteps
      DEF StartJob, InsertSnapshot, Complete, TypeOK
    <3>2. /\ file' = file /\ left' = left /\ file[i] \in Files
          /\ m \in Rows[file[i]] /\ pc[i] = "item"
      BY <3>1 DEF GetItem, LockInv, StoreInv, Open
    <3>3. m = n
      BY <1>3, <2>2, <3>1, <3>2 DEF GetItem, Current, TypeOK
    <3>4. Row(i, n)' = Row(i, n) /\ Row(i, n).key \in Keys
      BY <3>2, <3>3, RowTyped DEF Row
    <3>5. ~Warned(i, n, "item_metadata_mismatch")
      BY <3>2, <3>3 DEF ReportInv, Open
    <3>6. CASE items[Row(i, n).key] = None
      <4>1. items'[Row(i, n).key].name = Row(i, n).name /\ warnings' = warnings
        BY <3>1, <3>3, <3>4, <3>6 DEF GetItem, TypeOK
      <4> QED
        BY <2>2, <3>4, <3>5, <4>1 DEF Mismatch, Warned
    <3>7. CASE items[Row(i, n).key] # None /\ Mismatch(i, n)
      <4>1. <<n, "item_metadata_mismatch">> \in warnings'[i] /\ items' = items
        BY <3>1, <3>3, <3>7 DEF GetItem, Mismatch, TypeOK
      <4> QED
        BY <2>2, <3>4, <3>7, <4>1 DEF Mismatch, Warned
    <3>8. CASE items[Row(i, n).key] # None /\ ~Mismatch(i, n)
      <4>1. warnings' = warnings /\ items' = items
        BY <3>1, <3>3, <3>8 DEF GetItem, Mismatch
      <4> QED
        BY <2>2, <3>4, <3>5, <3>8, <4>1 DEF Mismatch, Warned
    <3> QED
      BY <3>6, <3>7, <3>8
  <2>3. CASE j # i
    <3>1. /\ pc[j] = "snapshot" /\ n \in left[j] /\ Current(j, n)
          /\ file'[j] = file[j] /\ file[j] \in Files /\ n \in Rows[file[j]]
      BY <1>3, <2>3, OthersUnchanged DEF Current, LockInv, StoreInv, Open
    <3>2. HasItem(j, n) /\ Row(j, n)' = Row(j, n) /\ Row(j, n).key \in Keys
      BY <3>1, RowTyped DEF StoreInv, Row
    <3>3. items'[Row(j, n).key] = items[Row(j, n).key]
      BY <2>1, <3>2, ItemStays DEF HasItem
    <3>4. Warned(j, n, "item_metadata_mismatch") <=> Mismatch(j, n)
      BY <3>1 DEF ReportInv
    <3> QED
      BY <2>3, <3>2, <3>3, <3>4, OthersUnchanged DEF Mismatch, Warned
  <2> QED
    BY <2>2, <2>3
<1>4. ASSUME NEW j \in Imports, Storing(j)', NEW n \in Finished(j)'
      PROVE  /\ Warned(j, n, "item_metadata_mismatch")' <=> Mismatch(j, n)'
             /\ Warned(j, n, "duplicate_snapshot_in_file")' <=> Again(j, n)'
             /\ Warned(j, n, "duplicate_snapshot_existing")' <=>
                  ~Again(j, n)' /\ snapshots'[Slot(j, n)'] # j
  <2>1. /\ file'[j] = file[j] /\ file[j] \in Files
        /\ n \in Rows[file[j]]
        /\ \/ Storing(j) /\ n \in Finished(j)
           \/ InsertSnapshot(j, n) /\ n \in left[j] /\ j = i
    BY <1>4, FinishedStep, OthersUnchanged
    DEF Storing, Finished, Completed, LockInv, Working
  <2>2. CASE Storing(j) /\ n \in Finished(j)
    <3>1. /\ Row(j, n)' = Row(j, n) /\ Slot(j, n)' = Slot(j, n)
          /\ Row(j, n).key \in Keys /\ Slot(j, n) \in Slots
          /\ Again(j, n)' <=> Again(j, n)
      BY <2>1, RowTyped DEF Row, Slot, Slots, Again
    <3>2. /\ items'[Row(j, n).key] = items[Row(j, n).key]
          /\ snapshots'[Slot(j, n)] = snapshots[Slot(j, n)]
      BY <1>4, <2>2, <3>1, ItemStays, SnapshotStays
      DEF StoreInv, HasItem, HasSnapshot
    <3>3. \A issue : Warned(j, n, issue)' <=> Warned(j, n, issue)
      <4>1. CASE j # i
        BY <4>1, OthersUnchanged DEF Warned
      <4>2. CASE j = i
        <5>1. n \notin left[i] /\ n \in Nat
          BY <2>1, <2>2, <4>2, RowTyped DEF Finished
        <5>2. CASE StartJob(i) \/ Complete(i)
          BY <4>2, <5>2 DEF StartJob, Complete, Warned
        <5>3. ASSUME NEW m \in left[i], GetItem(i, m) \/ InsertSnapshot(i, m)
              PROVE  /\ warnings[i] \subseteq warnings'[i]
                     /\ warnings'[i] \subseteq warnings[i] \cup {m} \X Issues
          BY <5>3 DEF GetItem, InsertSnapshot, TypeOK, Issues
        <5>4. CASE \E m \in left[i] : GetItem(i, m) \/ InsertSnapshot(i, m)
          BY <4>2, <5>1, <5>3, <5>4 DEF Warned
        <5> QED
          BY <1>4, <4>2, <5>2, <5>4, StoringSteps
      <4> QED
        BY <4>1, <4>2
    <3> QED
      BY <2>2, <3>1, <3>2, <3>3 DEF ReportInv, Mismatch
  <2>3. CASE InsertSnapshot(i, n) /\ n \in left[i] /\ j = i
    BY <2>3, InsertReports
  <2> QED
    BY <2>1, <2>2, <2>3
<1> QED
  BY <1>1, <1>2, <1>3, <1>4 DEF ReportInv

-----------------------------------------------------------------------------
(* Theorems *)

ImportInv == TypeOK /\ LockInv /\ StoreInv /\ OriginInv /\ ReportInv

LEMMA ImportInit == Init => ImportInv
<1> SUFFICES ASSUME Init PROVE ImportInv
  OBVIOUS
<1> USE CsvImportAssumption DEF Init
<1>1. TypeOK
  BY DEF TypeOK, Open
<1>2. LockInv
  BY DEF LockInv, OneImportPerFile, Completed, Locked, Working
<1>3. StoreInv
  BY DEF StoreInv, Storing, Completed, Working, Open
<1>4. OriginInv
  BY DEF OriginInv, Working
<1>5. ReportInv
  BY DEF ReportInv, Storing, Completed, Working, Open
<1> QED
  BY <1>1, <1>2, <1>3, <1>4, <1>5 DEF ImportInv

LEMMA ImportStep == ImportInv /\ [Next]_vars => ImportInv'
<1> SUFFICES ASSUME ImportInv, [Next]_vars PROVE ImportInv'
  OBVIOUS
<1>1. ASSUME NEW i \in Imports, Act(i) PROVE ImportInv'
  BY <1>1, TypeStep, LockInvStep, StoreInvStep, OriginInvStep, ReportInvStep
  DEF ImportInv
<1>2. CASE Next
  BY <1>1, <1>2 DEF Next, Act
<1>3. CASE UNCHANGED vars
  <2> USE <1>3 DEF vars, ImportInv
  <2>1. TypeOK'
    BY DEF TypeOK
  <2>2. LockInv'
    BY DEF LockInv, OneImportPerFile, Completed, Earlier
  <2>3. StoreInv'
    <3>1. \A i \in Imports : /\ Completed(i)' = Completed(i)
                             /\ Storing(i)' = Storing(i)
                             /\ Finished(i)' = Finished(i)
      BY DEF Storing, Completed, Finished
    <3>2. \A i \in Imports : \A n : /\ HasItem(i, n)' = HasItem(i, n)
                                    /\ HasSnapshot(i, n)' = HasSnapshot(i, n)
      BY DEF HasItem, HasSnapshot, Settled, Row, Slot
    <3>3. \A i \in Imports : \A n : Current(i, n)' = Current(i, n)
      BY DEF Current
    <3> QED
      BY <3>1, <3>2, <3>3 DEF StoreInv
  <2>4. OriginInv'
    BY DEF OriginInv, Finished, Row, Slot, Ledger!Introducing
  <2>5. ReportInv'
    <3>1. \A i \in Imports : /\ Storing(i)' = Storing(i)
                             /\ Finished(i)' = Finished(i)
      BY DEF Storing, Completed, Finished
    <3>2. \A i \in Imports : \A n : /\ Current(i, n)' = Current(i, n)
                                    /\ Mismatch(i, n)' = Mismatch(i, n)
                                    /\ Again(i, n)' = Again(i, n)
                                    /\ Slot(i, n)' = Slot(i, n)
      BY DEF Current, Mismatch, Again, Row, Slot
    <3>3. \A i \in Imports : \A n, issue : Warned(i, n, issue)' = Warned(i, n, issue)
      BY DEF Warned
    <3> QED
      BY <3>1, <3>2, <3>3 DEF ReportInv
  <2> QED
    BY <2>1, <2>2, <2>3, <2>4, <2>5
<1> QED
  BY <1>2, <1>3

LEMMA ImportInvariant == Spec => []ImportInv
<1> QED
  BY ImportInit, ImportStep, PTL DEF Spec

(* Types: requests, locks and tables stay within their domains.            *)
THEOREM ImportTypes == Spec => []TypeOK
<1> QED
  BY ImportInvariant, PTL DEF ImportInv

(* However many requests upload a file together, at most one of them       *)
(* imports it: _acquire_import_advisory_lock and _find_duplicate_job.      *)
THEOREM FilesAreImportedOnce == Spec => []OneImportPerFile
<1>1. ImportInv => OneImportPerFile
  BY DEF ImportInv, LockInv
<1> QED
  BY ImportInvariant, <1>1, PTL

(* What a completed import has not inserted, because it found it stored,   *)
(* is never taken back by a rollback of the import that inserted it.       *)
THEOREM CompletedImportsAreStored == Spec => []EveryRowStored
<1>1. ImportInv => EveryRowStored
  <2> SUFFICES ASSUME ImportInv, NEW i \in Imports, Completed(i),
                      NEW n \in Rows[file[i]]
               PROVE  /\ items[Row(i, n).key] # None
                      /\ pc[items[Row(i, n).key].by] \notin Open
                      /\ snapshots[Slot(i, n)] # None
                      /\ pc[snapshots[Slot(i, n)]] \notin Open
    BY DEF EveryRowStored
  <2>1. pc[i] = "done"
    BY DEF ImportInv, LockInv, Completed
  <2>2. HasItem(i, n) /\ HasSnapshot(i, n)
    BY DEF ImportInv, StoreInv, Storing, Finished
  <2> QED
    BY <2>1, <2>2 DEF HasItem, HasSnapshot, Settled, Open
<1> QED
  BY ImportInvariant, <1>1, PTL

(* The warnings of a completed import are those that are due, and no more. *)
THEOREM ReportsAreTrue == Spec => []ReportIsTrue
<1>1. ImportInv => ReportIsTrue
  <2> SUFFICES ASSUME ImportInv, NEW i \in Imports, Completed(i),
                      NEW n \in Rows[file[i]]
               PROVE  /\ Warned(i, n, "item_metadata_mismatch") <=> Mismatch(i, n)
                      /\ Warned(i, n, "duplicate_snapshot_in_file") <=> Again(i, n)
                      /\ Warned(i, n, "duplicate_snapshot_existing") <=>
                           ~Again(i, n) /\ snapshots[Slot(i, n)] # i
    BY DEF ReportIsTrue, Warned, Mismatch, Again
  <2> QED
    BY DEF ImportInv, StoreInv, ReportInv, Storing, Finished
<1> QED
  BY ImportInvariant, <1>1, PTL

(* To its readers the database moves from import to import.                *)
THEOREM ImportsAreAtomic == Spec => ImplementsLedger
<1>1. Init => Ledger!Init
  BY DEF Init, Ledger!Init, Slots
<1>2. ImportInv /\ [Next]_vars => [Ledger!Next]_Ledger!vars
  <2> SUFFICES ASSUME ImportInv, [Next]_vars
               PROVE  Ledger!Next \/ UNCHANGED Ledger!vars
    OBVIOUS
  <2>1. ASSUME NEW i \in Imports, Act(i)
        PROVE  Ledger!Next \/ UNCHANGED Ledger!vars
    BY <2>1, LedgerStep DEF ImportInv
  <2>2. CASE Next
    BY <2>1, <2>2 DEF Next, Act
  <2>3. CASE UNCHANGED vars
    BY <2>3 DEF vars, Ledger!vars
  <2> QED
    BY <2>2, <2>3
<1> QED
  BY <1>1, <1>2, ImportInvariant, PTL DEF Spec, ImplementsLedger, Ledger!Spec

-----------------------------------------------------------------------------
(* Imports never all stand still *)

(* A set of numbers has a least one. *)
LEMMA LeastNumber ==
  ASSUME NEW S, S \subseteq Nat, S # {}
  PROVE  \E m \in S : \A n \in S : m <= n
<1>1. PICK m \in S : \A n \in S : <<n, m>> \notin OpToRel(<, Nat)
  BY WFMin, NatLessThanWellFounded, Zenon
<1>2. \A n \in S : ~ (n < m)
  <2>1. ASSUME NEW n \in S, n < m
        PROVE  FALSE
    <3>1. <<n, m>> \in OpToRel(<, Nat)
      BY <2>1, Zenon DEF OpToRel
    <3> QED
      BY <1>1, <3>1, Zenon
  <2> QED
    BY <2>1, Zenon
<1> QED
  BY <1>2

(* All of S wait for somebody of S, and each is waited for. *)
Circle(S, waits) == S # {} /\ UNION {waits[j] : j \in S} = S

(* Where everybody of a finite set waits for somebody of it, some wait for *)
(* each other in a circle: the fewest that wait only for each other.       *)
LEMMA CircleExists ==
  ASSUME NEW T, IsFiniteSet(T), T # {}, NEW waits,
         \A i \in T : waits[i] # {} /\ waits[i] \subseteq T
  PROVE  \E S \in SUBSET T : Circle(S, waits)
<1> DEFINE of(S) == UNION {waits[j] : j \in S}
           closed == {S \in SUBSET T : S # {} /\ of(S) \subseteq S}
           sizes == {Cardinality(S) : S \in closed}
<1>1. T \in closed
  OBVIOUS
<1>2. \A S \in closed : IsFiniteSet(S) /\ Cardinality(S) \in Nat
  <2>1. \A S \in closed : S \in SUBSET T
    OBVIOUS
  <2> HIDE DEF closed
  <2> QED
    BY <2>1, FS_Subset, FS_CardinalityType
<1>3. PICK S \in closed : \A R \in closed : Cardinality(S) <= Cardinality(R)
  <2> HIDE DEF closed
  <2>1. sizes \subseteq Nat /\ sizes # {}
    BY <1>1, <1>2
  <2>2. PICK m \in sizes : \A n \in sizes : m <= n
    <3> HIDE DEF sizes
    <3> QED
      BY <2>1, LeastNumber
  <2> QED
    BY <2>2
<1>4. S \in SUBSET T /\ S # {} /\ of(S) \subseteq S
  OBVIOUS
<1>5. of(S) \in closed
  <2>1. of(S) # {}
    BY <1>4
  <2>2. of(of(S)) \subseteq of(S)
    BY <1>4
  <2> QED
    BY <1>4, <2>1, <2>2
<1>6. of(S) = S
  <2>1. Cardinality(S) <= Cardinality(of(S))
    BY <1>3, <1>5
  <2>2. of(S) \in SUBSET S /\ IsFiniteSet(S)
    BY <1>2, <1>4
  <2> HIDE DEF of, closed
  <2>3. /\ Cardinality(of(S)) <= Cardinality(S)
        /\ Cardinality(of(S)) = Cardinality(S) => of(S) = S
    BY <2>2, FS_Subset
  <2>4. Cardinality(of(S)) \in Nat /\ Cardinality(S) \in Nat
    BY <1>2, <1>5
  <2> QED
    BY <2>1, <2>3, <2>4
<1> QED
  BY <1>4, <1>6 DEF Circle

(* A request that is at a snapshot has the row of it left. *)
RowInv == \A i \in Imports : pc[i] = "snapshot" => left[i] # {}

LEMMA RowStep == TypeOK /\ RowInv /\ [Next]_vars => RowInv'
<1> SUFFICES ASSUME TypeOK, RowInv, [Next]_vars
             PROVE  RowInv'
  OBVIOUS
<1>1. CASE UNCHANGED vars
  BY <1>1 DEF RowInv, vars
<1>2. CASE Next
  <2>1. PICK i \in Imports : Act(i)
    BY <1>2 DEF Next, Act
  <2>2. ASSUME NEW j \in Imports, pc'[j] = "snapshot"
        PROVE  left'[j] # {}
    <3>1. CASE j # i
      BY <2>1, <2>2, <3>1, OthersUnchanged DEF RowInv
    <3>2. CASE j = i
      <4>1. \E n \in left[i] : GetItem(i, n)
        BY <2>1, <2>2, <3>2 DEF Act, Step, Begin, Refuse, Lock, Duplicate, StartJob,
           InsertSnapshot, Complete, Overflow, BreakDeadlock, DatabaseError, RollBack,
           RecordFailure, RecordFails, TypeOK
      <4> QED
        BY <3>2, <4>1 DEF GetItem
    <3> QED
      BY <3>1, <3>2
  <2> QED
    BY <2>2 DEF RowInv
<1> QED
  BY <1>1, <1>2

(* A request that waits for nobody goes on. *)
LEMMA UnblockedGoesOn ==
  ASSUME ImportInv, RowInv, NEW i \in Imports, pc[i] \in Open, Blocker(i) = {}
  PROVE  GoesOn(i)
<1>1. CASE pc[i] = "looking"
  BY <1>1 DEF GoesOn
<1>2. CASE pc[i] = "locking"
  <2>1. file[i] \in Files /\ lock[file[i]] \in Imports \cup {None}
    BY <1>2 DEF ImportInv, TypeOK, LockInv
  <2>2. ASSUME lock[file[i]] # None
        PROVE  lock[file[i]] \in Blocker(i)
    <3>1. lock[file[i]] \in Imports /\ pc[lock[file[i]]] \in Locked
      BY <2>1, <2>2 DEF ImportInv, LockInv
    <3>2. lock[file[i]] # i
      BY <1>2, <3>1 DEF Locked
    <3> QED
      BY <1>2, <3>1, <3>2 DEF Blocker, Locked, Open
  <2> QED
    BY <1>2, <2>2 DEF GoesOn, LockFree
<1>3. ASSUME NEW n \in left[i], Current(i, n), pc[i] \in Working
      PROVE  GoesOn(i)
  <2>1. file[i] \in Files /\ n \in Rows[file[i]]
    BY <1>3 DEF ImportInv, LockInv, StoreInv, Working, Open
  <2>2. Row(i, n).key \in Keys /\ Slot(i, n) \in Slots
    BY <2>1, RowTyped DEF Row, Slot, Slots
  <2> DEFINE item == items[Row(i, n).key]
             from == snapshots[Slot(i, n)]
  <2>3. item # None => item.by \in Imports
    BY <2>2 DEF ImportInv, TypeOK, Item
  <2>4. from # None => from \in Imports
    BY <2>2 DEF ImportInv, TypeOK
  <2>5. CASE pc[i] = "item"
    <3>1. item # None => Visible(item.by, i)
      BY <1>3, <2>3, <2>5 DEF Visible, Blocker
    <3> QED
      BY <1>3, <2>5, <3>1 DEF GoesOn
  <2>6. CASE pc[i] = "snapshot"
    <3>1. from # None => Visible(from, i)
      BY <1>3, <2>4, <2>6 DEF Visible, Blocker
    <3> QED
      BY <1>3, <2>6, <3>1 DEF GoesOn
  <2> QED
    BY <1>3, <2>5, <2>6 DEF Working
<1>4. CASE pc[i] \in Working
  <2>1. CASE left[i] = {}
    BY <1>4, <2>1 DEF GoesOn, RowInv, Working
  <2>2. CASE left[i] # {}
    <3>1. left[i] \subseteq Nat
      BY DEF ImportInv, TypeOK
    <3>2. PICK n \in left[i] : \A m \in left[i] : n <= m
      BY <2>2, <3>1, LeastNumber
    <3> QED
      BY <1>3, <1>4, <3>2 DEF Current
  <2> QED
    BY <2>1, <2>2
<1> QED
  BY <1>1, <1>2, <1>4 DEF Open, Working

(* Imports never all stand still: whatever they have locked and inserted,  *)
(* one of those that have not ended can go on                              *)
(* (_import_parsed_csv, pg_advisory_xact_lock, ON CONFLICT DO NOTHING).    *)
THEOREM ImportsNeverStandStill == Spec => []NoStandstill
<1>1. ASSUME ImportInv, RowInv
      PROVE  NoStandstill
  <2> DEFINE T == {i \in Imports : pc[i] \in Open}
  <2>1. ASSUME NEW i \in Imports, pc[i] \in Open
        PROVE  \E j \in Imports : GoesOn(j)
    <3>1. CASE \E j \in T : Blocker(j) = {}
      BY <1>1, <3>1, UnblockedGoesOn
    <3>2. CASE \A j \in T : Blocker(j) # {}
      <4>1. IsFiniteSet(T) /\ T # {}
        <5>1. T \in SUBSET Imports
          OBVIOUS
        <5> QED
          BY <2>1, <5>1, FinitelyMany, FS_Subset
      <4>2. \A j \in T : Blocker(j) # {} /\ Blocker(j) \subseteq T
        BY <3>2 DEF Blocker
      <4>3. PICK S \in SUBSET T : S # {} /\ UNION {Blocker(j) : j \in S} = S
        <5> DEFINE waits == [j \in Imports |-> Blocker(j)]
        <5>1. \A j \in T : waits[j] # {} /\ waits[j] \subseteq T
          BY <4>2
        <5>2. \A S \in SUBSET T :
                UNION {waits[j] : j \in S} = UNION {Blocker(j) : j \in S}
          OBVIOUS
        <5> HIDE DEF T, waits
        <5>3. \E S \in SUBSET T : Circle(S, waits)
          BY <4>1, <5>1, CircleExists
        <5> QED
          BY <5>2, <5>3 DEF Circle
      <4>4. PICK j \in S : j \in T
        BY <4>3
      <4>5. InCycle(j)
        BY <4>3, <4>4 DEF InCycle
      <4> QED
        BY <4>4, <4>5 DEF GoesOn
    <3> QED
      BY <3>1, <3>2
  <2>2. ASSUME NEW i \in Imports, pc[i] = "failing"
        PROVE  GoesOn(i)
    BY <2>2 DEF GoesOn
  <2> QED
    BY <2>1, <2>2 DEF NoStandstill
<1>2. Init => RowInv
  BY DEF Init, RowInv
<1>3. ImportInv /\ RowInv /\ [Next]_vars => RowInv'
  BY RowStep DEF ImportInv
<1> QED
  BY ImportInvariant, <1>1, <1>2, <1>3, PTL DEF Spec

=============================================================================
