------------------------------ MODULE JobStore ------------------------------
(***************************************************************************)
(* The persistent job table of the daemon (remy-cc/src/state.rs): the      *)
(* `jobs` and `projects` tables of the state database and the operations   *)
(* StateStore offers on them.  Each operation is one SQLite transaction,   *)
(* hence one atomic step; the tables survive a crash of the daemon.        *)
(*                                                                         *)
(* The jobs table is kept by column.  The key of a row is its project and  *)
(* its target, a file for an incremental_scan and FullScan for a           *)
(* full_scan: the (project_id, job_type, dedupe_key) of the two unique     *)
(* indexes.  Result and error payloads follow from the status and are left *)
(* out; of started_at and finished_at the model keeps whether they are     *)
(* NULL, which is what the CHECK constraints of the table look at.         *)
(***************************************************************************)
EXTENDS Integers

CONSTANTS
  Projects,   \* project directories (normalised keys)
  Files,      \* source files of a project
  FullScan,   \* the target of a full_scan job
  Priorities, \* priorities of requests: Background is 0, Interactive is 1
  MaxJobs,    \* bound: how many rows a behaviour may insert
  MaxClock    \* bound: the clock reads 0 .. MaxClock milliseconds

ASSUME JobStoreAssumption ==
  /\ FullScan \notin Files
  /\ 0 \in Priorities /\ Priorities \subseteq 0 .. 1
  /\ MaxJobs \in Nat
  /\ MaxClock \in Nat

VARIABLES
  status,     \* "absent" until the row is inserted
  key,        \* <<project, target>>
  created,    \* created_at
  priority,
  progress,   \* progress_current
  started,    \* the rows whose started_at is not NULL
  finished,   \* the rows whose finished_at is not NULL
  by,         \* superseded_by_job_id
  lastId,     \* the largest row id in use (ids are never reused)
  projects,   \* projects.created_at of each registered project
  clock       \* the wall clock, which may be set back

jobs == <<status, key, created, priority, progress, started, finished, by>>
storeVars == <<jobs, lastId, projects>>

JobIds == 1 .. MaxJobs
Targets == Files \cup {FullScan}
Times == 0 .. MaxClock

NoJob == 0                        \* superseded_by_job_id IS NULL
NoKey == <<>>                     \* the key of a row not inserted yet
NotRegistered == -1               \* the project has no row
NoProgress == -1                  \* progress_current IS NULL
LastStage == 3                    \* progress_total of every claimed job

Executing == {"running", "cancel_requested"}
Terminal == {"succeeded", "failed", "cancelled", "superseded"}
Statuses == {"absent", "pending"} \cup Executing \cup Terminal

StoreInit ==
  /\ status = [j \in JobIds |-> "absent"]
  /\ key = [j \in JobIds |-> NoKey]
  /\ created = [j \in JobIds |-> 0]
  /\ priority = [j \in JobIds |-> 0]
  /\ progress = [j \in JobIds |-> NoProgress]
  /\ started = {}
  /\ finished = {}
  /\ by = [j \in JobIds |-> NoJob]
  /\ lastId = 0
  /\ projects = [p \in Projects |-> NotRegistered]
  /\ clock \in Times

-----------------------------------------------------------------------------
(* Queries on the table *)

IsPending(j) == status[j] = "pending"
IsExecuting(j) == status[j] \in Executing
IsTerminal(j) == status[j] \in Terminal

PendingFor(p, t) == {j \in JobIds : IsPending(j) /\ key[j] = <<p, t>>}

LiveFullScans(p) ==
  {j \in JobIds : (IsPending(j) \/ IsExecuting(j)) /\ key[j] = <<p, FullScan>>}

-----------------------------------------------------------------------------
(* StateStore::submit.  The upsert of the project row comes first and sets *)
(* last_seen_at to the clock; CHECK (last_seen_at >= created_at) refuses   *)
(* it, and with it the whole transaction, when the clock was set back.     *)

SubmitRejected(p) ==
  /\ clock < projects[p]
  /\ UNCHANGED storeVars

RegisterProject(p) ==
  /\ clock >= projects[p]
  /\ projects' = [projects EXCEPT ![p] = IF @ = NotRegistered THEN clock ELSE @]

(* INSERT INTO jobs: the columns every insertion sets, but for the status *)
InsertRow(p, t, prio) ==
  /\ lastId < MaxJobs
  /\ lastId' = lastId + 1
  /\ key' = [key EXCEPT ![lastId + 1] = <<p, t>>]
  /\ created' = [created EXCEPT ![lastId + 1] = clock]
  /\ priority' = [priority EXCEPT ![lastId + 1] = prio]
  /\ UNCHANGED <<progress, started>>

(* Mutant: a full_scan already under way absorbs the submission as well *)
AbsorbedByRunningScan(p, f, prio) ==
  /\ RegisterProject(p)
  /\ InsertRow(p, f, prio)
  /\ status' = [status EXCEPT ![lastId + 1] = "superseded"]
  /\ finished' = finished \cup {lastId + 1}
  /\ \E s \in LiveFullScans(p) : by' = [by EXCEPT ![lastId + 1] = s]

SubmitAbsorbed(p, f, prio) ==
  /\ RegisterProject(p)
  /\ InsertRow(p, f, prio)
  /\ status' = [status EXCEPT ![lastId + 1] = "superseded"]
  /\ finished' = finished \cup {lastId + 1}
  /\ \E s \in PendingFor(p, FullScan) : by' = [by EXCEPT ![lastId + 1] = s]

(* Mutant: a submission is merged into a running job of the same file *)
DeduplicatedByRunningJob(p, f, prio) ==
  /\ RegisterProject(p)
  /\ PendingFor(p, FullScan) = {}
  /\ \E e \in JobIds :
       /\ key[e] = <<p, f>> /\ (IsPending(e) \/ IsExecuting(e))
       /\ priority' = [priority EXCEPT ![e] = IF @ < prio THEN prio ELSE @]
  /\ UNCHANGED <<status, key, created, progress, started, finished, by, lastId>>

SubmitDeduplicated(p, f, prio) ==
  /\ RegisterProject(p)
  /\ PendingFor(p, FullScan) = {}
  /\ \E e \in PendingFor(p, f) :
       priority' = [priority EXCEPT ![e] = IF @ < prio THEN prio ELSE @]
  /\ UNCHANGED <<status, key, created, progress, started, finished, by, lastId>>

SubmitInserted(p, f, prio) ==
  /\ RegisterProject(p)
  /\ PendingFor(p, FullScan) = {}
  /\ PendingFor(p, f) = {}
  /\ InsertRow(p, f, prio)
  /\ status' = [status EXCEPT ![lastId + 1] = "pending"]
  /\ UNCHANGED <<finished, by>>

submit(p, f, prio) ==
  \/ SubmitRejected(p)
  \/ SubmitAbsorbed(p, f, prio)
  \/ SubmitDeduplicated(p, f, prio)
  \/ SubmitInserted(p, f, prio)

(* StateStore::submit_full_scan *)
PendingIncrementals(p) ==
  {j \in JobIds : IsPending(j) /\ \E f \in Files : key[j] = <<p, f>>}

(* The project is not registered, or a full_scan of it is under way *)
FullScanNotNeeded(p) ==
  /\ projects[p] = NotRegistered \/ LiveFullScans(p) # {}
  /\ UNCHANGED storeVars

(* Mutant: superseded_by_job_id is taken from the rowid before the insertion *)
FullScanInsertedStaleRowid(p) ==
  /\ projects[p] # NotRegistered
  /\ LiveFullScans(p) = {}
  /\ InsertRow(p, FullScan, 0)
  /\ status' = [j \in JobIds |-> IF j = lastId + 1 THEN "pending"
                                 ELSE IF j \in PendingIncrementals(p) THEN "superseded"
                                 ELSE status[j]]
  /\ finished' = finished \cup PendingIncrementals(p)
  /\ by' = [j \in JobIds |-> IF j \in PendingIncrementals(p) THEN lastId ELSE by[j]]
  /\ UNCHANGED projects

FullScanInserted(p) ==
  /\ projects[p] # NotRegistered
  /\ LiveFullScans(p) = {}
  /\ InsertRow(p, FullScan, 0)
  /\ status' = [j \in JobIds |-> IF j = lastId + 1 THEN "pending"
                                 ELSE IF j \in PendingIncrementals(p) THEN "superseded"
                                 ELSE status[j]]
  /\ finished' = finished \cup PendingIncrementals(p)
  /\ by' = [j \in JobIds |-> IF j \in PendingIncrementals(p) THEN lastId + 1 ELSE by[j]]
  /\ UNCHANGED projects

submit_full_scan(p) == FullScanNotNeeded(p) \/ FullScanInserted(p)

(* StateStore::promote *)
promote(j, prio) ==
  /\ priority' = [priority EXCEPT ![j] = IF IsPending(j) /\ @ < prio THEN prio ELSE @]
  /\ UNCHANGED <<status, key, created, progress, started, finished, by, lastId, projects>>

-----------------------------------------------------------------------------
(* StateStore::claim_next_pending *)

Claimable(j) ==
  /\ IsPending(j)
  /\ \A k \in JobIds : ~(IsExecuting(k) /\ key[k] = key[j])

\* ORDER BY priority DESC, created_at ASC, id ASC
ClaimedBefore(j, k) ==
  \/ priority[j] > priority[k]
  \/ /\ priority[j] = priority[k]
     /\ \/ created[j] < created[k]
        \/ created[j] = created[k] /\ j < k

claim_next_pending(j) ==
  /\ Claimable(j)
  /\ \A k \in JobIds \ {j} : Claimable(k) => ClaimedBefore(j, k)
  /\ status' = [status EXCEPT ![j] = "running"]
  /\ started' = started \cup {j}
  /\ progress' = [progress EXCEPT ![j] = 0]
  /\ UNCHANGED <<key, created, priority, finished, by, lastId, projects>>

(* Mutant: a progress update does not look at the status *)
UpdateProgressOfAnyJob(j, stage) ==
  /\ progress' = [progress EXCEPT ![j] = IF @ <= stage THEN stage ELSE @]
  /\ UNCHANGED <<status, key, created, priority, started, finished, by, lastId, projects>>

(* StateStore::update_progress; its only caller ignores a refused update *)
update_progress(j, stage) ==
  /\ progress' = [progress EXCEPT ![j] =
                    IF IsExecuting(j) /\ @ <= stage THEN stage ELSE @]
  /\ UNCHANGED <<status, key, created, priority, started, finished, by, lastId, projects>>

(* Mutant: the result of a scanner that outran the cancel is recorded *)
CompleteDespiteCancel(j, outcome) ==
  /\ IsExecuting(j)
  /\ status' = [status EXCEPT ![j] = outcome]
  /\ progress' = [progress EXCEPT ![j] = LastStage]
  /\ finished' = finished \cup {j}
  /\ UNCHANGED <<key, created, priority, started, by, lastId, projects>>

(* StateStore::complete_success, complete_failure *)
complete(j, outcome) ==
  /\ status[j] = "running"
  /\ status' = [status EXCEPT ![j] = outcome]
  /\ progress' = [progress EXCEPT ![j] = LastStage]
  /\ finished' = finished \cup {j}
  /\ UNCHANGED <<key, created, priority, started, by, lastId, projects>>

(* The transition to cancelled of confirm_cancelled, cancel and recover *)
BecomesCancelled(j) ==
  /\ status' = [status EXCEPT ![j] = "cancelled"]
  /\ finished' = finished \cup {j}
  /\ UNCHANGED <<key, created, priority, progress, started, by, lastId, projects>>

(* StateStore::confirm_cancelled *)
confirm_cancelled(j) == status[j] = "cancel_requested" /\ BecomesCancelled(j)

(* StateStore::cancel *)
CancelPending(j) == IsPending(j) /\ BecomesCancelled(j)

CancelRunning(j) ==
  /\ status[j] = "running"
  /\ status' = [status EXCEPT ![j] = "cancel_requested"]
  /\ UNCHANGED <<key, created, priority, progress, started, finished, by, lastId, projects>>

-----------------------------------------------------------------------------
(* StateStore::recover, part of StateStore::open: a job found running      *)
(* yields to a pending job of the same key or is queued again, and a       *)
(* requested cancel is confirmed.                                          *)

(* Mutant: recovery requeues without looking for a pending job of the key *)
NoSuccessors(j) == {}

Successors(j) == {k \in JobIds : IsPending(k) /\ key[k] = key[j]}

FirstOf(ids) == CHOOSE k \in ids : \A l \in ids : k <= l

Yielding == {j \in JobIds : status[j] = "running" /\ Successors(j) # {}}
Requeued == {j \in JobIds : status[j] = "running" /\ Successors(j) = {}}
CancelRequested == {j \in JobIds : status[j] = "cancel_requested"}

recover ==
  /\ status' = [j \in JobIds |-> IF j \in Yielding THEN "superseded"
                                 ELSE IF j \in Requeued THEN "pending"
                                 ELSE IF j \in CancelRequested THEN "cancelled"
                                 ELSE status[j]]
  /\ started' = started \ Requeued
  /\ finished' = finished \cup Yielding \cup CancelRequested
  /\ progress' = [j \in JobIds |-> IF j \in Requeued THEN NoProgress ELSE progress[j]]
  /\ by' = [j \in JobIds |-> IF j \in Yielding THEN FirstOf(Successors(j)) ELSE by[j]]
  /\ UNCHANGED <<key, created, priority, lastId, projects>>

-----------------------------------------------------------------------------
(* What the table promises *)

StoreTypeOK ==
  /\ status \in [JobIds -> Statuses]
  /\ key \in [JobIds -> (Projects \X Targets) \cup {NoKey}]
  /\ created \in [JobIds -> Times]
  /\ priority \in [JobIds -> Priorities]
  /\ progress \in [JobIds -> NoProgress .. LastStage]
  /\ started \subseteq JobIds
  /\ finished \subseteq JobIds
  /\ by \in [JobIds -> JobIds \cup {NoJob}]
  /\ lastId \in 0 .. MaxJobs
  /\ projects \in [Projects -> Times \cup {NotRegistered}]
  /\ clock \in Times

(* The unique indexes jobs_one_pending and jobs_one_executing *)
UniqueIndexes ==
  \A j, k \in JobIds : key[j] = key[k] /\ j # k =>
    ~(IsPending(j) /\ IsPending(k)) /\ ~(IsExecuting(j) /\ IsExecuting(k))

(* The CHECK constraints of the jobs table *)
RowChecks ==
  \A j \in JobIds :
    /\ IsPending(j) => j \notin started /\ j \notin finished
    /\ IsExecuting(j) => j \in started /\ j \notin finished
    /\ status[j] \in {"succeeded", "failed"} => j \in started
    /\ IsTerminal(j) => j \in finished
    /\ status[j] = "superseded" <=> by[j] # NoJob

(***************************************************************************)
(* Invariant: every statement the code issues is accepted by the schema of *)
(* state.db (JOBS_DDL_V2, JOBS_INDEXES).  A rejected UPDATE would surface  *)
(* as a Sqlite error in the scheduler loop and end it.                     *)
(***************************************************************************)
SchemaHolds == UniqueIndexes /\ RowChecks

Covered(j) ==
  \E k \in JobIds, p \in Projects, f \in Files :
    /\ by[j] = k
    /\ status[k] # "absent"
    /\ key[j] = <<p, f>>
    /\ \/ key[k] = <<p, FullScan>>
       \/ key[k] = <<p, f>> /\ j < k

(***************************************************************************)
(* Invariant: whoever follows superseded_by_job_id finds the job that      *)
(* answers for the submission.  The superseding job belongs to the same    *)
(* project and scans at least the same file; a full_scan is never          *)
(* superseded itself and a file's chain only leads to later jobs (submit,  *)
(* submit_full_scan, recover), so the chain ends.                          *)
(***************************************************************************)
SupersededIsCovered ==
  \A j \in JobIds : status[j] = "superseded" => Covered(j)
=============================================================================
