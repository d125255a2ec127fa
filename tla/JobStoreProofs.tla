--------------------------- MODULE JobStoreProofs ---------------------------
(***************************************************************************)
(* Every operation of the job table preserves its type and its invariant,  *)
(* for every set of projects and files and every number of rows.           *)
(***************************************************************************)
EXTENDS JobStore, TLAPS

(* Some operation of StateStore that starts no job, or none at all *)
NonClaimOp ==
  \/ \E p \in Projects, f \in Files, prio \in Priorities : submit(p, f, prio)
  \/ \E p \in Projects : submit_full_scan(p)
  \/ \E j \in JobIds, prio \in Priorities : promote(j, prio)
  \/ \E j \in JobIds, stage \in 1 .. 2 : update_progress(j, stage)
  \/ \E j \in JobIds, outcome \in {"succeeded", "failed"} : complete(j, outcome)
  \/ \E j \in JobIds : confirm_cancelled(j)
  \/ \E j \in JobIds : CancelPending(j)
  \/ \E j \in JobIds : CancelRunning(j)
  \/ recover
  \/ UNCHANGED storeVars

(* Some operation of StateStore, or none *)
StoreOp == NonClaimOp \/ \E j \in JobIds : claim_next_pending(j)

(* The same, when jobs are only claimed while no other executes: the table *)
(* does not ask for that, its only caller does.                            *)
SerialOp ==
  NonClaimOp \/ \E j \in JobIds : claim_next_pending(j) /\ \A k \in JobIds : ~IsExecuting(k)

(* At most one job executes, across all projects *)
OneExecuting ==
  \A j, k \in JobIds : IsExecuting(j) /\ IsExecuting(k) => j = k

(* Rows are inserted in the order of their ids and keep their key *)
Allocated ==
  \A j \in JobIds :
    /\ status[j] = "absent" <=> j > lastId
    /\ status[j] # "absent" => key[j] \in Projects \X Targets
    /\ status[j] = "absent" => key[j] = NoKey /\ j \notin started /\ j \notin finished

(* A project has at most one full_scan that is pending or executing *)
OneLiveFullScan ==
  \A p \in Projects, j, k \in JobIds :
    /\ IsPending(j) \/ IsExecuting(j)
    /\ IsPending(k) \/ IsExecuting(k)
    /\ key[j] = <<p, FullScan>>
    /\ key[k] = <<p, FullScan>>
    => j = k

(* A job is queued behind an executing job of its key, never before it *)
SuccessorIsLater ==
  \A j, k \in JobIds :
    IsExecuting(j) /\ IsPending(k) /\ key[j] = key[k] => j < k

StoreInv ==
  /\ Allocated
  /\ UniqueIndexes
  /\ RowChecks
  /\ OneLiveFullScan
  /\ SuccessorIsLater
  /\ SupersededIsCovered

-----------------------------------------------------------------------------
(* The first of a non-empty set of successors is one of them.  The unique  *)
(* index makes the set a singleton.                                        *)
LEMMA FirstSuccessor ==
  ASSUME StoreTypeOK, UniqueIndexes, NEW j \in JobIds, Successors(j) # {}
  PROVE  FirstOf(Successors(j)) \in Successors(j)
<1>1. PICK k \in Successors(j) : TRUE
  OBVIOUS
<1>2. \A l \in Successors(j) : l = k
  BY DEF Successors, UniqueIndexes
<1>3. \A l \in Successors(j) : k <= l
  BY <1>2 DEF Successors, JobIds
<1> QED BY <1>1, <1>3 DEF FirstOf

(* Registering a project leaves a timestamp in its row. *)
LEMMA RegisterTyped ==
  ASSUME StoreTypeOK, NEW p \in Projects, RegisterProject(p)
  PROVE  projects' \in [Projects -> Times \cup {NotRegistered}]
BY DEF StoreTypeOK, RegisterProject

(* An insertion fills the next row. *)
LEMMA InsertTyped ==
  ASSUME StoreTypeOK, NEW p \in Projects, NEW t \in Targets, NEW prio \in Priorities,
         InsertRow(p, t, prio)
  PROVE  /\ lastId + 1 \in JobIds
         /\ lastId' \in 0 .. MaxJobs
         /\ key' \in [JobIds -> (Projects \X Targets) \cup {NoKey}]
         /\ created' \in [JobIds -> Times]
         /\ priority' \in [JobIds -> Priorities]
         /\ progress' \in [JobIds -> NoProgress .. LastStage]
         /\ started' \subseteq JobIds
<1>1. lastId + 1 \in JobIds /\ lastId' \in 0 .. MaxJobs
  BY JobStoreAssumption DEF StoreTypeOK, InsertRow, JobIds
<1> QED BY <1>1 DEF StoreTypeOK, InsertRow

(* Every operation of the store keeps the table well typed. *)
LEMMA StoreOpTyped ==
  ASSUME StoreTypeOK, UniqueIndexes, StoreOp, clock' \in Times
  PROVE  StoreTypeOK'
<1> USE JobStoreAssumption DEF StoreTypeOK, JobIds, Times, NoJob, NotRegistered, NoProgress,
        LastStage, Statuses, Executing, Terminal
<1>1. ASSUME NEW p \in Projects, NEW f \in Files, NEW prio \in Priorities, submit(p, f, prio)
      PROVE  StoreTypeOK'
  <2>1. CASE SubmitRejected(p)
    BY <2>1 DEF SubmitRejected, storeVars, jobs
  <2>2. CASE SubmitAbsorbed(p, f, prio)
    <3>1. RegisterProject(p) /\ InsertRow(p, f, prio)
      BY <2>2 DEF SubmitAbsorbed
    <3> QED BY <2>2, <3>1, RegisterTyped, InsertTyped DEF SubmitAbsorbed, PendingFor, Targets
  <2>3. CASE SubmitDeduplicated(p, f, prio)
    <3>1. RegisterProject(p)
      BY <2>3 DEF SubmitDeduplicated
    <3>2. PICK e \in JobIds : priority' = [priority EXCEPT ![e] = IF @ < prio THEN prio ELSE @]
      BY <2>3 DEF SubmitDeduplicated, PendingFor
    <3>3. priority' \in [JobIds -> Priorities]
      BY <3>2
    <3> QED BY <2>3, <3>1, <3>3, RegisterTyped DEF SubmitDeduplicated
  <2>4. CASE SubmitInserted(p, f, prio)
    <3>1. RegisterProject(p) /\ InsertRow(p, f, prio)
      BY <2>4 DEF SubmitInserted
    <3> QED BY <2>4, <3>1, RegisterTyped, InsertTyped DEF SubmitInserted, Targets
  <2> QED BY <1>1, <2>1, <2>2, <2>3, <2>4 DEF submit
<1>2. ASSUME NEW p \in Projects, submit_full_scan(p) PROVE StoreTypeOK'
  <2>1. CASE FullScanNotNeeded(p)
    BY <2>1 DEF FullScanNotNeeded, storeVars, jobs
  <2>2. CASE FullScanInserted(p)
    <3>1. InsertRow(p, FullScan, 0)
      BY <2>2 DEF FullScanInserted
    <3>2. status' \in [JobIds -> Statuses]
      BY <2>2 DEF FullScanInserted
    <3>3. by' \in [JobIds -> JobIds \cup {NoJob}]
      BY <2>2, <3>1, InsertTyped DEF FullScanInserted, Targets
    <3>4. finished' \subseteq JobIds
      BY <2>2 DEF FullScanInserted, PendingIncrementals
    <3> QED BY <2>2, <3>1, <3>2, <3>3, <3>4, InsertTyped DEF FullScanInserted, Targets
  <2> QED BY <1>2, <2>1, <2>2 DEF submit_full_scan
<1>3. ASSUME NEW j \in JobIds, NEW prio \in Priorities, promote(j, prio) PROVE StoreTypeOK'
  BY <1>3 DEF promote
<1>4. ASSUME NEW j \in JobIds, claim_next_pending(j) PROVE StoreTypeOK'
  BY <1>4 DEF claim_next_pending
<1>5. ASSUME NEW j \in JobIds, NEW stage \in 1 .. 2, update_progress(j, stage) PROVE StoreTypeOK'
  BY <1>5 DEF update_progress
<1>6. ASSUME NEW j \in JobIds, NEW outcome \in {"succeeded", "failed"}, complete(j, outcome)
      PROVE  StoreTypeOK'
  BY <1>6 DEF complete
<1>7. ASSUME NEW j \in JobIds, BecomesCancelled(j) PROVE StoreTypeOK'
  BY <1>7 DEF BecomesCancelled
<1>8. ASSUME NEW j \in JobIds, CancelRunning(j) PROVE StoreTypeOK'
  BY <1>8 DEF CancelRunning
<1>9. CASE recover
  <2>1. \A j \in Yielding : FirstOf(Successors(j)) \in JobIds
    BY FirstSuccessor DEF Yielding, Successors
  <2>2. by' \in [JobIds -> JobIds \cup {NoJob}]
    BY <1>9, <2>1 DEF recover
  <2>3. status' \in [JobIds -> Statuses]
    BY <1>9 DEF recover
  <2>4. progress' \in [JobIds -> NoProgress .. LastStage]
    BY <1>9 DEF recover
  <2>5. started' \subseteq JobIds /\ finished' \subseteq JobIds
    BY <1>9 DEF recover, Yielding, CancelRequested
  <2> QED BY <1>9, <2>2, <2>3, <2>4, <2>5 DEF recover
<1>10. CASE UNCHANGED storeVars
  BY <1>10 DEF storeVars, jobs
<1> QED
  BY <1>1, <1>2, <1>3, <1>4, <1>5, <1>6, <1>7, <1>8, <1>9, <1>10
  DEF StoreOp, NonClaimOp, confirm_cancelled, CancelPending

-----------------------------------------------------------------------------
(* A row that stays superseded stays covered while rows keep their keys. *)
LEMMA StaysCovered ==
  ASSUME NEW j \in JobIds, Covered(j),
         by'[j] = by[j], key'[j] = key[j],
         \A k \in JobIds : status[k] # "absent" => status'[k] # "absent" /\ key'[k] = key[k]
  PROVE  Covered(j)'
BY DEF Covered

(* Nothing but the priority of a row changes. *)
LEMMA SameRowsInv ==
  ASSUME StoreInv,
         UNCHANGED <<status, key, started, finished, by, lastId>>
  PROVE  StoreInv'
<1> USE DEF StoreInv, IsPending, IsExecuting, IsTerminal
<1>1. Allocated' /\ UniqueIndexes' /\ RowChecks'
  BY DEF Allocated, UniqueIndexes, RowChecks
<1>2. OneLiveFullScan' /\ SuccessorIsLater'
  BY DEF OneLiveFullScan, SuccessorIsLater
<1>3. SupersededIsCovered'
  BY StaysCovered DEF SupersededIsCovered
<1> QED BY <1>1, <1>2, <1>3

(* A row inserted for a submission keeps the invariant of the table. *)
LEMMA SubmitInv ==
  ASSUME StoreTypeOK, StoreInv,
         NEW p \in Projects, NEW f \in Files, NEW prio \in Priorities, submit(p, f, prio)
  PROVE  StoreInv'
<1> USE JobStoreAssumption DEF StoreTypeOK, StoreInv, JobIds, NoJob, IsPending, IsExecuting,
        IsTerminal, Statuses, Executing, Terminal, Targets
<1>1. CASE SubmitRejected(p)
  BY <1>1, SameRowsInv DEF SubmitRejected, storeVars, jobs
<1>2. CASE SubmitAbsorbed(p, f, prio)
  <2> PICK s \in PendingFor(p, FullScan) : by' = [by EXCEPT ![lastId + 1] = s]
    BY <1>2 DEF SubmitAbsorbed
  <2>1. /\ lastId + 1 \in JobIds
        /\ status[lastId + 1] = "absent"
        /\ s \in JobIds /\ status[s] = "pending" /\ key[s] = <<p, FullScan>>
    BY <1>2 DEF SubmitAbsorbed, InsertRow, Allocated, PendingFor
  <2> USE <1>2, <2>1 DEF SubmitAbsorbed, InsertRow
  <2>2. Allocated'
    BY DEF Allocated
  <2>3. UniqueIndexes'
    BY DEF UniqueIndexes
  <2>4. RowChecks'
    BY DEF RowChecks, Allocated
  <2>5. OneLiveFullScan'
    <3>1. \A j \in JobIds : (IsPending(j) \/ IsExecuting(j))' =>
            (IsPending(j) \/ IsExecuting(j)) /\ key'[j] = key[j]
      OBVIOUS
    <3>2. ASSUME NEW q \in Projects, NEW j \in JobIds, NEW k \in JobIds,
                 (IsPending(j) \/ IsExecuting(j))', (IsPending(k) \/ IsExecuting(k))',
                 key'[j] = <<q, FullScan>>, key'[k] = <<q, FullScan>>
          PROVE  j = k
      BY ONLY <3>1, <3>2, OneLiveFullScan DEF OneLiveFullScan
    <3> QED BY <3>2 DEF OneLiveFullScan
  <2>6. SuccessorIsLater'
    BY DEF SuccessorIsLater
  <2>7. SupersededIsCovered'
    <3>1. ASSUME NEW j \in JobIds, j = lastId + 1
          PROVE  Covered(j)'
      <4>1. by'[j] = s /\ status'[s] # "absent" /\ key'[j] = <<p, f>> /\ key'[s] = <<p, FullScan>>
        BY <3>1
      <4> QED BY <4>1 DEF Covered
    <3>2. ASSUME NEW j \in JobIds, j # lastId + 1, status'[j] = "superseded"
          PROVE  Covered(j)'
      <4>1. Covered(j)
        BY <3>2 DEF SupersededIsCovered
      <4>2. \A k \in JobIds : status[k] # "absent" => status'[k] # "absent" /\ key'[k] = key[k]
        OBVIOUS
      <4>3. by'[j] = by[j] /\ key'[j] = key[j]
        BY <3>2
      <4> QED BY <4>1, <4>2, <4>3, StaysCovered
    <3> QED BY <3>1, <3>2 DEF SupersededIsCovered
  <2> QED BY <2>2, <2>3, <2>4, <2>5, <2>6, <2>7
<1>3. CASE SubmitDeduplicated(p, f, prio)
  BY <1>3, SameRowsInv DEF SubmitDeduplicated
<1>4. CASE SubmitInserted(p, f, prio)
  <2>1. lastId + 1 \in JobIds /\ status[lastId + 1] = "absent"
    BY <1>4 DEF SubmitInserted, InsertRow, Allocated
  <2>2. \A j \in JobIds : status[j] # "absent" => j <= lastId
    BY DEF Allocated
  <2> USE <1>4, <2>1 DEF SubmitInserted, InsertRow
  <2>3. Allocated'
    BY DEF Allocated
  <2>4. UniqueIndexes'
    BY DEF UniqueIndexes, PendingFor
  <2>5. RowChecks'
    BY DEF RowChecks, Allocated
  <2>6. OneLiveFullScan'
    BY DEF OneLiveFullScan
  <2>7. SuccessorIsLater'
    BY <2>2 DEF SuccessorIsLater
  <2>8. SupersededIsCovered'
    <3>1. ASSUME NEW j \in JobIds, status'[j] = "superseded"
          PROVE  Covered(j)'
      <4>1. Covered(j) /\ j # lastId + 1
        BY <3>1 DEF SupersededIsCovered
      <4> QED BY <3>1, <4>1, StaysCovered
    <3> QED BY <3>1 DEF SupersededIsCovered
  <2> QED BY <2>3, <2>4, <2>5, <2>6, <2>7, <2>8
<1> QED BY <1>1, <1>2, <1>3, <1>4 DEF submit

(* One row changes its status and the timestamps that go with it: a claim, *)
(* a completion or a cancel.                                               *)
LEMMA OneRowInv ==
  ASSUME StoreTypeOK, StoreInv, NEW j \in JobIds,
         UNCHANGED <<key, by, lastId>>,
         NEW new, status' = [status EXCEPT ![j] = new],
         \/ /\ Claimable(j)
            /\ new = "running" /\ started' = started \cup {j} /\ finished' = finished
         \/ /\ status[j] = "running"
            /\ new = "cancel_requested" /\ started' = started /\ finished' = finished
         \/ /\ status[j] = "running"
            /\ new \in {"succeeded", "failed"}
            /\ started' = started /\ finished' = finished \cup {j}
         \/ /\ status[j] \in {"pending", "cancel_requested"}
            /\ new = "cancelled" /\ started' = started /\ finished' = finished \cup {j}
  PROVE  StoreInv'
<1> USE DEF StoreTypeOK, StoreInv, IsPending, IsExecuting, IsTerminal, Executing, Terminal, Claimable
<1>1. Allocated'
  BY DEF Allocated
<1>2. UniqueIndexes'
  BY DEF UniqueIndexes
<1>3. RowChecks'
  BY DEF RowChecks
<1>4. OneLiveFullScan'
  <2>1. \A k \in JobIds : (IsPending(k) \/ IsExecuting(k))' => IsPending(k) \/ IsExecuting(k)
    OBVIOUS
  <2>2. ASSUME NEW q \in Projects, NEW k \in JobIds, NEW l \in JobIds,
               (IsPending(k) \/ IsExecuting(k))', (IsPending(l) \/ IsExecuting(l))',
               key'[k] = <<q, FullScan>>, key'[l] = <<q, FullScan>>
        PROVE  k = l
    BY ONLY <2>1, <2>2, OneLiveFullScan, UNCHANGED key DEF OneLiveFullScan
  <2> QED BY <2>2 DEF OneLiveFullScan
<1>5. SuccessorIsLater'
  BY DEF SuccessorIsLater, UniqueIndexes
<1>6. SupersededIsCovered'
  <2>1. ASSUME NEW k \in JobIds, status'[k] = "superseded" PROVE Covered(k)'
    <3>1. Covered(k)
      BY <2>1 DEF SupersededIsCovered
    <3>2. \A l \in JobIds : status[l] # "absent" => status'[l] # "absent" /\ key'[l] = key[l]
      OBVIOUS
    <3> QED BY <3>1, <3>2, StaysCovered
  <2> QED BY <2>1 DEF SupersededIsCovered
<1> QED BY <1>1, <1>2, <1>3, <1>4, <1>5, <1>6

(* A new full_scan absorbs the pending jobs of its project. *)
LEMMA FullScanInv ==
  ASSUME StoreTypeOK, StoreInv, NEW p \in Projects, FullScanInserted(p)
  PROVE  StoreInv'
<1> USE JobStoreAssumption DEF StoreTypeOK, StoreInv, JobIds, NoJob, IsPending, IsExecuting,
        IsTerminal, Statuses, Executing, Terminal, Targets
<1>1. lastId + 1 \in JobIds /\ status[lastId + 1] = "absent"
  BY DEF FullScanInserted, InsertRow, Allocated
<1>2. \A j \in JobIds : status[j] # "absent" => j <= lastId /\ key'[j] = key[j]
  BY DEF Allocated, FullScanInserted, InsertRow
<1>3. \A j \in JobIds : j \in PendingIncrementals(p) =>
        status[j] = "pending" /\ \E f \in Files : key[j] = <<p, f>>
  BY DEF PendingIncrementals
<1> USE <1>1, <1>3 DEF FullScanInserted, InsertRow
<1>4. Allocated'
  BY DEF Allocated
<1>5. UniqueIndexes'
  <2>1. \A j \in JobIds : j # lastId + 1 /\ status'[j] = "pending"
          => status[j] = "pending" /\ key'[j] = key[j]
    OBVIOUS
  <2>2. \A j \in JobIds : status'[j] \in Executing => status[j] \in Executing /\ key'[j] = key[j]
    OBVIOUS
  <2>3. \A j \in JobIds : status[j] = "pending" => key[j] # <<p, FullScan>>
    BY DEF LiveFullScans
  <2>4. key'[lastId + 1] = <<p, FullScan>> /\ lastId + 1 \in JobIds
    OBVIOUS
  <2>5. ASSUME NEW j \in JobIds, NEW k \in JobIds, key'[j] = key'[k], j # k
        PROVE  /\ ~(status'[j] = "pending" /\ status'[k] = "pending")
               /\ ~(status'[j] \in Executing /\ status'[k] \in Executing)
    BY ONLY <2>1, <2>2, <2>3, <2>4, <2>5, UniqueIndexes DEF UniqueIndexes, IsPending, IsExecuting
  <2> QED BY <2>5 DEF UniqueIndexes
<1>6. RowChecks'
  BY DEF RowChecks, Allocated
<1>7. OneLiveFullScan'
  <2>1. \A j \in JobIds : j # lastId + 1 /\ (IsPending(j) \/ IsExecuting(j))'
          => (IsPending(j) \/ IsExecuting(j)) /\ key'[j] = key[j] /\ key[j] # <<p, FullScan>>
    BY DEF LiveFullScans
  <2>2. key'[lastId + 1] = <<p, FullScan>>
    OBVIOUS
  <2>3. ASSUME NEW q \in Projects, NEW j \in JobIds, NEW k \in JobIds,
               (IsPending(j) \/ IsExecuting(j))', (IsPending(k) \/ IsExecuting(k))',
               key'[j] = <<q, FullScan>>, key'[k] = <<q, FullScan>>
        PROVE  j = k
    BY ONLY <2>1, <2>2, <2>3, OneLiveFullScan DEF OneLiveFullScan
  <2> QED BY <2>3 DEF OneLiveFullScan
<1>8. SuccessorIsLater'
  <2>1. \A j \in JobIds : status'[j] \in Executing => status[j] \in Executing /\ key'[j] = key[j]
    OBVIOUS
  <2>2. \A j \in JobIds : j # lastId + 1 /\ status'[j] = "pending"
          => status[j] = "pending" /\ key'[j] = key[j]
    OBVIOUS
  <2>3. \A j \in JobIds : status[j] \in Executing => j < lastId + 1
    BY <1>2
  <2>4. ASSUME NEW j \in JobIds, NEW k \in JobIds, status'[j] \in Executing,
               status'[k] = "pending", key'[j] = key'[k]
        PROVE  j < k
    BY ONLY <2>1, <2>2, <2>3, <2>4, SuccessorIsLater
       DEF SuccessorIsLater, IsExecuting, IsPending
  <2> QED BY <2>4 DEF SuccessorIsLater
<1>9. SupersededIsCovered'
  <2>1. ASSUME NEW j \in JobIds, j \in PendingIncrementals(p) PROVE Covered(j)'
    <3>1. PICK f \in Files : key[j] = <<p, f>>
      BY <2>1
    <3>2. /\ by'[j] = lastId + 1 /\ status'[lastId + 1] # "absent"
          /\ key'[j] = <<p, f>> /\ key'[lastId + 1] = <<p, FullScan>>
      BY <1>2, <2>1, <3>1
    <3> QED BY <3>2 DEF Covered
  <2>2. ASSUME NEW j \in JobIds, j \notin PendingIncrementals(p), status'[j] = "superseded"
        PROVE  Covered(j)'
    <3>1. Covered(j) /\ by'[j] = by[j] /\ key'[j] = key[j]
      BY <2>2 DEF SupersededIsCovered
    <3>2. \A k \in JobIds : status[k] # "absent" => status'[k] # "absent" /\ key'[k] = key[k]
      BY <1>2
    <3> QED BY <3>1, <3>2, StaysCovered
  <2> QED BY <2>1, <2>2 DEF SupersededIsCovered
<1> QED BY <1>4, <1>5, <1>6, <1>7, <1>8, <1>9

(* Recovery leaves nothing executing and keeps the invariant. *)
LEMMA RecoverInv ==
  ASSUME StoreTypeOK, StoreInv, recover
  PROVE  StoreInv' /\ \A j \in JobIds : ~IsExecuting(j)'
<1> USE DEF StoreTypeOK, StoreInv, recover, IsPending, IsExecuting, IsTerminal,
        Statuses, Executing, Terminal, Yielding, Requeued, CancelRequested
<1>1. \A j \in JobIds : ~IsExecuting(j)'
  OBVIOUS
<1>2. Allocated'
  BY DEF Allocated
<1>3. \A j \in JobIds : status'[j] = "pending" =>
        status[j] = "pending" \/ (status[j] = "running" /\ Successors(j) = {})
  OBVIOUS
<1>4. UniqueIndexes'
  <2>1. ASSUME NEW j \in JobIds, NEW k \in JobIds, key[j] = key[k], j # k,
               status'[j] = "pending", status'[k] = "pending"
        PROVE  FALSE
    BY <1>3, <2>1 DEF Successors, UniqueIndexes
  <2> QED BY <1>1, <2>1 DEF UniqueIndexes
<1>5. \A j \in Yielding : FirstOf(Successors(j)) \in Successors(j)
  BY FirstSuccessor
<1>6. \A j \in JobIds : FirstOf(Successors(j)) \in Successors(j) => FirstOf(Successors(j)) # NoJob
  BY JobStoreAssumption DEF Successors, JobIds, NoJob
<1>7. RowChecks'
  BY <1>5, <1>6 DEF RowChecks
<1>8. OneLiveFullScan'
  <2>1. \A k \in JobIds : (IsPending(k) \/ IsExecuting(k))' => IsPending(k) \/ IsExecuting(k)
    OBVIOUS
  <2>2. ASSUME NEW q \in Projects, NEW k \in JobIds, NEW l \in JobIds,
               (IsPending(k) \/ IsExecuting(k))', (IsPending(l) \/ IsExecuting(l))',
               key'[k] = <<q, FullScan>>, key'[l] = <<q, FullScan>>
        PROVE  k = l
    BY ONLY <2>1, <2>2, OneLiveFullScan, UNCHANGED key DEF OneLiveFullScan
  <2> QED BY <2>2 DEF OneLiveFullScan
<1>9. SuccessorIsLater'
  BY <1>1 DEF SuccessorIsLater
<1>10. SupersededIsCovered'
  <2>1. ASSUME NEW j \in JobIds, j \in Yielding PROVE Covered(j)'
    <3>1. PICK k \in JobIds : k = FirstOf(Successors(j)) /\ status[k] = "pending" /\ key[k] = key[j]
      BY <1>5, <2>1 DEF Successors
    <3>2. PICK p \in Projects, t \in Targets : key[j] = <<p, t>>
      BY <2>1 DEF Allocated
    <3>3. t \in Files
      BY <2>1, <3>1, <3>2 DEF OneLiveFullScan, Targets
    <3>4. j < k
      BY <2>1, <3>1 DEF SuccessorIsLater
    <3>5. by'[j] = k /\ status'[k] # "absent" /\ key'[j] = <<p, t>> /\ key'[k] = <<p, t>>
      BY <2>1, <3>1, <3>2
    <3> QED BY <3>3, <3>4, <3>5 DEF Covered
  <2>2. ASSUME NEW j \in JobIds, j \notin Yielding, status'[j] = "superseded" PROVE Covered(j)'
    <3>1. Covered(j) /\ by'[j] = by[j] /\ key'[j] = key[j]
      BY <2>2 DEF SupersededIsCovered
    <3>2. \A k \in JobIds : status[k] # "absent" => status'[k] # "absent" /\ key'[k] = key[k]
      OBVIOUS
    <3> QED BY <3>1, <3>2, StaysCovered
  <2> QED BY <2>1, <2>2 DEF SupersededIsCovered
<1> QED BY <1>1, <1>2, <1>4, <1>7, <1>8, <1>9, <1>10

(* Every operation of the store preserves its invariant. *)
THEOREM StoreOpInv ==
  ASSUME StoreTypeOK, StoreInv, StoreOp
  PROVE  StoreInv'
<1>1. ASSUME NEW p \in Projects, submit_full_scan(p) PROVE StoreInv'
  BY <1>1, FullScanInv, SameRowsInv DEF submit_full_scan, FullScanNotNeeded, storeVars, jobs
<1>2. ASSUME NEW j \in JobIds, claim_next_pending(j) PROVE StoreInv'
  BY <1>2, OneRowInv DEF claim_next_pending
<1>3. ASSUME NEW j \in JobIds, NEW outcome \in {"succeeded", "failed"}, complete(j, outcome)
      PROVE  StoreInv'
  BY <1>3, OneRowInv DEF complete
<1>4. ASSUME NEW j \in JobIds, CancelRunning(j) PROVE StoreInv'
  BY <1>4, OneRowInv DEF CancelRunning
<1>5. ASSUME NEW j \in JobIds, BecomesCancelled(j), status[j] \in {"pending", "cancel_requested"}
      PROVE  StoreInv'
  BY <1>5, OneRowInv DEF BecomesCancelled
<1>6. ASSUME \/ \E j \in JobIds, prio \in Priorities : promote(j, prio)
             \/ \E j \in JobIds, stage \in 1 .. 2 : update_progress(j, stage)
             \/ UNCHANGED storeVars
      PROVE  StoreInv'
  BY <1>6, SameRowsInv DEF promote, update_progress, storeVars, jobs
<1> QED
  BY <1>1, <1>2, <1>3, <1>4, <1>5, <1>6, SubmitInv, RecoverInv
  DEF StoreOp, NonClaimOp, confirm_cancelled, CancelPending, IsPending

-----------------------------------------------------------------------------
(* What an operation may never do to a row *)

(* A terminal row keeps every column. *)
LEMMA TerminalKept ==
  ASSUME StoreTypeOK, StoreInv, StoreOp, NEW j \in JobIds, IsTerminal(j)
  PROVE  /\ status'[j] = status[j] /\ key'[j] = key[j] /\ created'[j] = created[j]
         /\ priority'[j] = priority[j] /\ progress'[j] = progress[j] /\ by'[j] = by[j]
         /\ (j \in started)' <=> (j \in started)
         /\ (j \in finished)' <=> (j \in finished)
<1> USE DEF StoreTypeOK, IsTerminal, IsPending, IsExecuting, Terminal, Executing
<1>1. j # lastId + 1
  BY JobStoreAssumption DEF StoreInv, Allocated, JobIds
<1>2. CASE \E p \in Projects, f \in Files, prio \in Priorities : submit(p, f, prio)
  BY <1>1, <1>2 DEF submit, SubmitRejected, SubmitAbsorbed, SubmitDeduplicated, SubmitInserted,
     InsertRow, PendingFor, storeVars, jobs
<1>3. CASE \E p \in Projects : submit_full_scan(p)
  BY <1>1, <1>3 DEF submit_full_scan, FullScanNotNeeded, FullScanInserted, InsertRow,
     PendingIncrementals, storeVars, jobs
<1>4. CASE recover
  BY <1>4 DEF recover, Yielding, Requeued, CancelRequested
<1>5. CASE \E k \in JobIds, outcome \in {"succeeded", "failed"} : complete(k, outcome)
  BY <1>5 DEF complete
<1>6. CASE \E k \in JobIds : claim_next_pending(k) \/ CancelRunning(k)
  BY <1>6 DEF claim_next_pending, Claimable, CancelRunning
<1>7. CASE \E k \in JobIds : confirm_cancelled(k) \/ CancelPending(k)
  BY <1>7 DEF confirm_cancelled, CancelPending, BecomesCancelled
<1>8. CASE \/ \E k \in JobIds, prio \in Priorities : promote(k, prio)
           \/ \E k \in JobIds, stage \in 1 .. 2 : update_progress(k, stage)
           \/ UNCHANGED storeVars
  BY <1>8 DEF promote, update_progress, storeVars, jobs
<1> QED BY <1>2, <1>3, <1>4, <1>5, <1>6, <1>7, <1>8 DEF StoreOp, NonClaimOp

(* A requested cancel can only be confirmed. *)
LEMMA CancelKept ==
  ASSUME StoreTypeOK, StoreInv, StoreOp, NEW j \in JobIds, status[j] = "cancel_requested"
  PROVE  status'[j] \in {"cancel_requested", "cancelled"}
<1> USE DEF StoreTypeOK, IsPending
<1>1. j # lastId + 1
  BY JobStoreAssumption DEF StoreInv, Allocated, JobIds
<1>2. CASE \E p \in Projects, f \in Files, prio \in Priorities : submit(p, f, prio)
  BY <1>1, <1>2 DEF submit, SubmitRejected, SubmitAbsorbed, SubmitDeduplicated, SubmitInserted,
     InsertRow, storeVars, jobs
<1>3. CASE \E p \in Projects : submit_full_scan(p)
  BY <1>1, <1>3 DEF submit_full_scan, FullScanNotNeeded, FullScanInserted, InsertRow,
     PendingIncrementals, storeVars, jobs
<1>4. CASE recover
  BY <1>4 DEF recover, Yielding, Requeued, CancelRequested
<1>5. CASE \/ \E k \in JobIds, outcome \in {"succeeded", "failed"} : complete(k, outcome)
           \/ \E k \in JobIds : claim_next_pending(k) \/ CancelRunning(k)
           \/ \E k \in JobIds : confirm_cancelled(k) \/ CancelPending(k)
  BY <1>5 DEF complete, claim_next_pending, Claimable, CancelRunning, confirm_cancelled,
     CancelPending, BecomesCancelled
<1>6. CASE \/ \E k \in JobIds, prio \in Priorities : promote(k, prio)
           \/ \E k \in JobIds, stage \in 1 .. 2 : update_progress(k, stage)
           \/ UNCHANGED storeVars
  BY <1>6 DEF promote, update_progress, storeVars, jobs
<1> QED BY <1>2, <1>3, <1>4, <1>5, <1>6 DEF StoreOp, NonClaimOp

(* A row becomes superseded only by a row that is pending. *)
LEMMA SupersededByKept ==
  ASSUME StoreTypeOK, StoreInv, StoreOp, NEW j \in JobIds,
         status[j] # "superseded", status'[j] = "superseded"
  PROVE  \E k \in JobIds : by'[j] = k /\ status'[k] = "pending"
<1> USE DEF StoreTypeOK, IsPending
<1>1. ASSUME NEW p \in Projects, NEW f \in Files, NEW prio \in Priorities, submit(p, f, prio)
      PROVE  \E k \in JobIds : by'[j] = k /\ status'[k] = "pending"
  <2>1. SubmitAbsorbed(p, f, prio) /\ j = lastId + 1
    BY <1>1 DEF submit, SubmitRejected, SubmitAbsorbed, SubmitDeduplicated, SubmitInserted,
       InsertRow, storeVars, jobs
  <2>2. status[lastId + 1] = "absent"
    BY <2>1, JobStoreAssumption DEF StoreInv, Allocated, JobIds
  <2>3. PICK s \in JobIds : status[s] = "pending" /\ by' = [by EXCEPT ![lastId + 1] = s]
    BY <2>1 DEF SubmitAbsorbed, PendingFor
  <2> QED BY <2>1, <2>2, <2>3 DEF SubmitAbsorbed
<1>2. ASSUME NEW p \in Projects, submit_full_scan(p)
      PROVE  \E k \in JobIds : by'[j] = k /\ status'[k] = "pending"
  <2>1. FullScanInserted(p) /\ j \in PendingIncrementals(p)
    BY <1>2 DEF submit_full_scan, FullScanNotNeeded, FullScanInserted, storeVars, jobs
  <2>2. lastId + 1 \in JobIds
    BY <2>1, JobStoreAssumption DEF FullScanInserted, InsertRow, JobIds
  <2> QED BY <2>1, <2>2 DEF FullScanInserted
<1>3. CASE recover
  <2>1. j \in Yielding
    BY <1>3 DEF recover
  <2>2. PICK k \in JobIds : k = FirstOf(Successors(j)) /\ status[k] = "pending"
    BY <2>1, FirstSuccessor DEF Yielding, Successors, StoreInv
  <2>3. status'[k] = "pending"
    BY <1>3, <2>2 DEF recover, Yielding, Requeued, CancelRequested
  <2> QED BY <1>3, <2>1, <2>2, <2>3 DEF recover
<1>4. CASE \/ \E k \in JobIds, outcome \in {"succeeded", "failed"} : complete(k, outcome)
           \/ \E k \in JobIds : claim_next_pending(k) \/ CancelRunning(k)
           \/ \E k \in JobIds : confirm_cancelled(k) \/ CancelPending(k)
  BY <1>4 DEF complete, claim_next_pending, CancelRunning, confirm_cancelled, CancelPending,
     BecomesCancelled
<1>5. CASE \/ \E k \in JobIds, prio \in Priorities : promote(k, prio)
           \/ \E k \in JobIds, stage \in 1 .. 2 : update_progress(k, stage)
           \/ UNCHANGED storeVars
  BY <1>5 DEF promote, update_progress, storeVars, jobs
<1> QED BY <1>1, <1>2, <1>3, <1>4, <1>5 DEF StoreOp, NonClaimOp

-----------------------------------------------------------------------------
(* An execution ends or is confirmed, and at most one ever goes on. *)

(* Where an operation can take an executing job. *)
LEMMA ExecutingMoves ==
  ASSUME StoreTypeOK, StoreInv, StoreOp, NEW j \in JobIds, IsExecuting(j)
  PROVE  /\ key'[j] = key[j]
         /\ \/ IsExecuting(j)'
            \/ status'[j] \in {"succeeded", "failed", "cancelled"}
            \/ status[j] = "running" /\ status'[j] \in {"pending", "superseded"}
<1> USE DEF StoreTypeOK, IsPending, IsExecuting, Executing
<1>1. j # lastId + 1
  BY JobStoreAssumption DEF StoreInv, Allocated, JobIds
<1>2. CASE \E p \in Projects, f \in Files, prio \in Priorities : submit(p, f, prio)
  BY <1>1, <1>2 DEF submit, SubmitRejected, SubmitAbsorbed, SubmitDeduplicated, SubmitInserted,
     InsertRow, storeVars, jobs
<1>3. CASE \E p \in Projects : submit_full_scan(p)
  BY <1>1, <1>3 DEF submit_full_scan, FullScanNotNeeded, FullScanInserted, InsertRow,
     PendingIncrementals, storeVars, jobs
<1>4. CASE recover
  BY <1>4 DEF recover, Yielding, Requeued, CancelRequested
<1>5. CASE \/ \E k \in JobIds, outcome \in {"succeeded", "failed"} : complete(k, outcome)
           \/ \E k \in JobIds : claim_next_pending(k) \/ CancelRunning(k)
           \/ \E k \in JobIds : confirm_cancelled(k) \/ CancelPending(k)
  BY <1>5 DEF complete, claim_next_pending, Claimable, CancelRunning, confirm_cancelled,
     CancelPending, BecomesCancelled
<1>6. CASE \/ \E k \in JobIds, prio \in Priorities : promote(k, prio)
           \/ \E k \in JobIds, stage \in 1 .. 2 : update_progress(k, stage)
           \/ UNCHANGED storeVars
  BY <1>6 DEF promote, update_progress, storeVars, jobs
<1> QED BY <1>2, <1>3, <1>4, <1>5, <1>6 DEF StoreOp, NonClaimOp

(* Only a claim starts an execution. *)
LEMMA NothingStarts ==
  ASSUME StoreTypeOK, NonClaimOp, NEW j \in JobIds, IsExecuting(j)'
  PROVE  IsExecuting(j)
<1> USE DEF StoreTypeOK, IsExecuting, Executing
<1>1. CASE \E p \in Projects, f \in Files, prio \in Priorities : submit(p, f, prio)
  BY <1>1 DEF submit, SubmitRejected, SubmitAbsorbed, SubmitDeduplicated, SubmitInserted,
     storeVars, jobs
<1>2. CASE \E p \in Projects : submit_full_scan(p)
  BY <1>2 DEF submit_full_scan, FullScanNotNeeded, FullScanInserted, storeVars, jobs
<1>3. CASE recover
  BY <1>3 DEF recover, Yielding, Requeued, CancelRequested
<1>4. CASE \/ \E k \in JobIds, outcome \in {"succeeded", "failed"} : complete(k, outcome)
           \/ \E k \in JobIds : CancelRunning(k)
           \/ \E k \in JobIds : confirm_cancelled(k) \/ CancelPending(k)
  BY <1>4 DEF complete, CancelRunning, confirm_cancelled, CancelPending, BecomesCancelled
<1>5. CASE \/ \E k \in JobIds, prio \in Priorities : promote(k, prio)
           \/ \E k \in JobIds, stage \in 1 .. 2 : update_progress(k, stage)
           \/ UNCHANGED storeVars
  BY <1>5 DEF promote, update_progress, storeVars, jobs
<1> QED BY <1>1, <1>2, <1>3, <1>4, <1>5 DEF NonClaimOp

(* Claims made while nothing executes keep executions apart. *)
LEMMA SerialKept ==
  ASSUME StoreTypeOK, OneExecuting, SerialOp
  PROVE  OneExecuting'
<1>1. CASE NonClaimOp
  BY <1>1, NothingStarts DEF OneExecuting
<1>2. ASSUME NEW j \in JobIds, claim_next_pending(j), \A k \in JobIds : ~IsExecuting(k)
      PROVE  OneExecuting'
  <2>1. \A k \in JobIds : IsExecuting(k)' => k = j
    BY <1>2 DEF claim_next_pending, IsExecuting, StoreTypeOK
  <2> QED BY <2>1 DEF OneExecuting
<1> QED BY <1>1, <1>2 DEF SerialOp

(* A pending job waits until it is started or cancelled, or until a        *)
(* full_scan of its project takes its place.                               *)
LEMMA PendingMoves ==
  ASSUME StoreTypeOK, StoreInv, StoreOp, NEW j \in JobIds, IsPending(j)
  PROVE  /\ key'[j] = key[j]
         /\ \/ status'[j] \in {"pending", "running", "cancelled"}
            \/ \E p \in Projects, f \in Files, k \in JobIds :
                 /\ key[j] = <<p, f>>
                 /\ status'[k] = "pending" /\ key'[k] = <<p, FullScan>>
<1> USE DEF StoreTypeOK, IsPending, IsExecuting, Executing
<1>1. j # lastId + 1
  BY JobStoreAssumption DEF StoreInv, Allocated, JobIds
<1>2. CASE \E p \in Projects, f \in Files, prio \in Priorities : submit(p, f, prio)
  BY <1>1, <1>2 DEF submit, SubmitRejected, SubmitAbsorbed, SubmitDeduplicated, SubmitInserted,
     InsertRow, storeVars, jobs
<1>3. ASSUME NEW p \in Projects, FullScanInserted(p)
      PROVE  /\ key'[j] = key[j]
             /\ \/ status'[j] = "pending"
                \/ \E f \in Files, k \in JobIds :
                     key[j] = <<p, f>> /\ status'[k] = "pending" /\ key'[k] = <<p, FullScan>>
  <2>1. lastId + 1 \in JobIds
    BY <1>3, JobStoreAssumption DEF FullScanInserted, InsertRow, JobIds
  <2>2. status'[lastId + 1] = "pending" /\ key'[lastId + 1] = <<p, FullScan>> /\ key'[j] = key[j]
    BY <1>1, <1>3, <2>1 DEF FullScanInserted, InsertRow
  <2>3. CASE j \in PendingIncrementals(p)
    BY <2>1, <2>2, <2>3 DEF PendingIncrementals
  <2>4. CASE j \notin PendingIncrementals(p)
    BY <1>1, <1>3, <2>2, <2>4 DEF FullScanInserted
  <2> QED BY <2>3, <2>4
<1>4. CASE recover
  BY <1>4 DEF recover, Yielding, Requeued, CancelRequested
<1>5. CASE \/ \E k \in JobIds, outcome \in {"succeeded", "failed"} : complete(k, outcome)
           \/ \E k \in JobIds : claim_next_pending(k) \/ CancelRunning(k)
           \/ \E k \in JobIds : confirm_cancelled(k) \/ CancelPending(k)
  BY <1>5 DEF complete, claim_next_pending, Claimable, CancelRunning, confirm_cancelled,
     CancelPending, BecomesCancelled
<1>6. CASE \/ \E k \in JobIds, prio \in Priorities : promote(k, prio)
           \/ \E k \in JobIds, stage \in 1 .. 2 : update_progress(k, stage)
           \/ \E p \in Projects : FullScanNotNeeded(p)
           \/ UNCHANGED storeVars
  BY <1>6 DEF promote, update_progress, FullScanNotNeeded, storeVars, jobs
<1> QED BY <1>2, <1>3, <1>4, <1>5, <1>6 DEF StoreOp, NonClaimOp, submit_full_scan

(* A job is taken out of its execution by a restart only, which puts it    *)
(* back in the queue or leaves it to the pending job of the same key.      *)
LEMMA InterruptedIsQueued ==
  ASSUME StoreTypeOK, StoreInv, StoreOp, NEW j \in JobIds,
         status[j] = "running", status'[j] \in {"pending", "superseded"}
  PROVE  \E k \in JobIds : status'[k] = "pending" /\ key'[k] = key[j]
<1> USE DEF StoreTypeOK, IsPending
<1>1. j # lastId + 1
  BY JobStoreAssumption DEF StoreInv, Allocated, JobIds
<1>2. recover
  <2>1. CASE \E p \in Projects, f \in Files, prio \in Priorities : submit(p, f, prio)
    BY <1>1, <2>1 DEF submit, SubmitRejected, SubmitAbsorbed, SubmitDeduplicated, SubmitInserted,
       InsertRow, storeVars, jobs
  <2>2. CASE \E p \in Projects : submit_full_scan(p)
    BY <1>1, <2>2 DEF submit_full_scan, FullScanNotNeeded, FullScanInserted, InsertRow,
       PendingIncrementals, storeVars, jobs
  <2>3. CASE \/ \E k \in JobIds, outcome \in {"succeeded", "failed"} : complete(k, outcome)
             \/ \E k \in JobIds : claim_next_pending(k) \/ CancelRunning(k)
             \/ \E k \in JobIds : confirm_cancelled(k) \/ CancelPending(k)
    BY <2>3 DEF complete, claim_next_pending, CancelRunning, confirm_cancelled, CancelPending,
       BecomesCancelled
  <2>4. CASE \/ \E k \in JobIds, prio \in Priorities : promote(k, prio)
             \/ \E k \in JobIds, stage \in 1 .. 2 : update_progress(k, stage)
             \/ UNCHANGED storeVars
    BY <2>4 DEF promote, update_progress, storeVars, jobs
  <2> QED BY <2>1, <2>2, <2>3, <2>4 DEF StoreOp, NonClaimOp
<1>3. CASE j \in Yielding
  <2>1. PICK k \in Successors(j) : TRUE
    BY <1>3 DEF Yielding
  <2> QED BY <1>2, <2>1 DEF recover, Successors, Yielding, Requeued, CancelRequested
<1>4. CASE j \notin Yielding
  BY <1>2, <1>4 DEF recover
<1> QED BY <1>3, <1>4
=============================================================================
