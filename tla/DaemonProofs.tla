---------------------------- MODULE DaemonProofs ----------------------------
(***************************************************************************)
(* Proofs about the daemon, for every set of projects and files, every     *)
(* number of jobs and every sequence of requests, crashes and restarts.    *)
(***************************************************************************)
EXTENDS EditTracking, JobStoreProofs

(* The scheduler thread exists exactly while run_foreground is past its    *)
(* start-up, and nothing is executing when it starts.                      *)
StartUp ==
  /\ phase \in {"down", "opened"} => sched = "off"
  /\ phase \in {"scheduling", "serving"} => sched # "off"
  /\ phase = "opened" => \A j \in JobIds : ~IsExecuting(j)

(* A scheduler that is not running has no slot, no events, no threads *)
Quiet ==
  ~Alive => /\ active = NoJob
            /\ supervisor = W!NoSupervisor
            /\ reader = [j \in JobIds |-> "off"]
            /\ events = <<>>

CompleteIn(s, j) == \E i \in DOMAIN s : s[i].kind = "complete" /\ s[i].job = j

OneCompleteIn(s) ==
  \A i, k \in DOMAIN s : s[i].kind = "complete" /\ s[k].kind = "complete" => i = k

OneCompleteQueued == OneCompleteIn(events)

DaemonInv ==
  /\ TypeOK
  /\ StoreInv
  /\ StartUp
  /\ Quiet
  /\ SlotMatchesTable
  /\ SlotIsReleased
  /\ OneCompleteQueued
  /\ OneExecuting

-----------------------------------------------------------------------------
(* What a step does to the table is an operation of the store, and a job   *)
(* is claimed only into an empty slot, hence while no other one executes.  *)
LEMMA NextIsSerialOp ==
  ASSUME TypeOK, SlotMatchesTable, [Next]_vars
  PROVE  SerialOp /\ clock' \in Times
<1> USE DEF TypeOK, StoreTypeOK, SerialOp, NonClaimOp
<1>1. ASSUME NEW p \in Projects, NEW f \in Files, NEW prio \in Priorities, Submit(p, f, prio)
      PROVE  SerialOp /\ clock' \in Times
  BY <1>1 DEF Submit, HandleSubmit
<1>2. CASE Open
  BY <1>2 DEF Open
<1>3. ASSUME NEW p \in Projects, ScheduleFullScan(p) PROVE SerialOp /\ clock' \in Times
  BY <1>3 DEF ScheduleFullScan, HandleSubmitFullScan
<1>4. CASE Request
  BY <1>4 DEF Request, HandlePromote, HandleCancel, HandleQuery
<1>5. CASE Loop
  <2>1. CASE \E j \in JobIds : DispatchJob(j)
    <3>1. PICK j \in JobIds : DispatchJob(j)
      BY <2>1
    <3>2. \A k \in JobIds : ~IsExecuting(k)
      BY <3>1 DEF DispatchJob, SlotMatchesTable, Alive, JobIds, NoJob
    <3> QED BY <1>5, <3>1, <3>2 DEF Loop, DispatchJob
  <2>2. CASE HandleProgress
    <3>1. Head(events) \in W!Event
      BY <2>2 DEF HandleProgress, SchedTypeOK, W!WorkerTypeOK
    <3>2. Head(events).job \in JobIds /\ Head(events).stage \in 1 .. 2
      BY <2>2, <3>1 DEF HandleProgress, W!Event
    <3> QED BY <1>5, <2>2, <3>2 DEF Loop, HandleProgress
  <2>3. CASE HandleComplete
    <3>1. Head(events) \in W!Event
      BY <2>3 DEF HandleComplete, SchedTypeOK, W!WorkerTypeOK
    <3>2. Head(events).job \in JobIds /\ Head(events).outcome \in {"succeeded", "failed"}
      BY <2>3, <3>1 DEF HandleComplete, W!Event, W!Outcomes
    <3> QED BY <1>5, <2>3, <3>2 DEF Loop, HandleComplete
  <2>4. CASE DispatchBusy \/ DispatchNothing
    BY <1>5, <2>4 DEF Loop, DispatchBusy, DispatchNothing
  <2> QED BY <1>5, <2>1, <2>2, <2>3, <2>4 DEF Loop, LoopStep
<1>6. CASE \/ \E valid \in BOOLEAN : SyncProvider(valid)
           \/ \E p \in Projects : ScheduleFullScanFails(p)
           \/ Serve
           \/ Stop
           \/ RequestToDeadScheduler
           \/ StateError
           \/ Supervise
           \/ ReadOutput
           \/ \E t \in Times : SetClock(t)
           \/ UNCHANGED vars
  BY <1>6 DEF SyncProvider, ScheduleFullScanFails, Serve, Stop, RequestToDeadScheduler, Exit,
     ProcessEnds, StateError, LoopEnds, Supervise, ReadOutput, SetClock, vars
<1> QED BY <1>1, <1>2, <1>3, <1>4, <1>5, <1>6 DEF Next, NextButSubmit

(* The same for the lemmas that do not care who else executes. *)
LEMMA NextIsStoreOp ==
  ASSUME TypeOK, SlotMatchesTable, [Next]_vars
  PROVE  StoreOp /\ clock' \in Times
BY NextIsSerialOp DEF SerialOp, StoreOp

(* The threads of a worker keep their state and the queue well typed. *)
LEMMA WorkerTyped ==
  ASSUME W!WorkerTypeOK,
         W!SupervisorStep \/ W!ReaderStep \/ W!WorkersDie \/ (\E j \in JobIds : W!spawn(j))
  PROVE  W!WorkerTypeOK'
<1> USE DEF W!WorkerTypeOK, W!NoSupervisor, W!Phases, W!ReaderStates, W!Event, W!Outcomes,
        W!Complete, W!Progress
<1>1. CASE W!ValidationFails
  BY <1>1 DEF W!ValidationFails
<1>2. CASE W!LaunchFails
  BY <1>2 DEF W!LaunchFails
<1>3. CASE W!Launch
  <2>1. supervisor.job \in JobIds /\ supervisor \in [phase : W!Phases, job : JobIds]
    BY <1>3 DEF W!Launch
  <2>2. supervisor' \in [phase : W!Phases, job : JobIds]
    BY <1>3, <2>1 DEF W!Launch
  <2> QED BY <1>3, <2>1, <2>2 DEF W!Launch
<1>4. CASE W!SupervisorSeesLock
  <2>1. supervisor \in [phase : W!Phases, job : JobIds]
    BY <1>4 DEF W!SupervisorSeesLock
  <2>2. supervisor' \in [phase : W!Phases, job : JobIds]
    BY <1>4, <2>1 DEF W!SupervisorSeesLock
  <2> QED BY <1>4, <2>2 DEF W!SupervisorSeesLock
<1>5. CASE W!SupervisorFinishes
  <2>1. supervisor.job \in JobIds
    BY <1>5 DEF W!SupervisorFinishes
  <2>2. PICK outcome \in W!Outcomes : events' = Append(events, W!Complete(supervisor.job, outcome))
    BY <1>5 DEF W!SupervisorFinishes
  <2>3. events' \in Seq(W!Event)
    BY <2>1, <2>2
  <2> QED BY <1>5, <2>1, <2>3 DEF W!SupervisorFinishes
<1>6. CASE W!SupervisorAbandonsReader
  BY <1>6 DEF W!SupervisorAbandonsReader
<1>7. CASE W!ReaderStep
  <2> PICK j \in JobIds : W!ReaderReportsLock(j) \/ W!AbandonedReaderEnds(j)
    BY <1>7 DEF W!ReaderStep
  <2>1. CASE W!ReaderReportsLock(j)
    BY <2>1 DEF W!ReaderReportsLock
  <2>2. CASE W!AbandonedReaderEnds(j)
    BY <2>2 DEF W!AbandonedReaderEnds
  <2> QED BY <2>1, <2>2
<1>8. CASE W!WorkersDie
  <2>1. reader' \in [JobIds -> W!ReaderStates]
    BY <1>8 DEF W!WorkersDie
  <2>2. events' \in Seq(W!Event)
    BY <1>8 DEF W!WorkersDie
  <2>3. supervisor' = W!NoSupervisor /\ cancelFlag' \in BOOLEAN
    BY <1>8 DEF W!WorkersDie
  <2> QED BY <2>1, <2>2, <2>3
<1>9. CASE \E j \in JobIds : W!spawn(j)
  <2> PICK j \in JobIds : W!spawn(j)
    BY <1>9
  <2>1. supervisor' \in [phase : W!Phases, job : JobIds] \cup {W!NoSupervisor}
    BY DEF W!spawn
  <2>2. events' \in Seq(W!Event)
    BY DEF W!spawn
  <2>3. cancelFlag' \in BOOLEAN /\ reader' = reader
    BY DEF W!spawn
  <2> QED BY <2>1, <2>2, <2>3
<1> QED BY <1>1, <1>2, <1>3, <1>4, <1>5, <1>6, <1>7, <1>8, <1>9 DEF W!SupervisorStep

(* A step of the daemon keeps every variable well typed. *)
LEMMA NextTyped ==
  ASSUME TypeOK, UniqueIndexes, SlotMatchesTable, [Next]_vars
  PROVE  TypeOK'
<1>1. StoreTypeOK'
  BY NextIsStoreOp, StoreOpTyped DEF TypeOK
<1> USE DEF TypeOK
<1>2. SchedTypeOK'
  <2> USE DEF SchedTypeOK
  <2>1. CASE UNCHANGED <<schedVars, workerVars>>
    BY <2>1 DEF schedVars, workerVars, W!WorkerTypeOK
  <2>2. ASSUME UNCHANGED workerVars, sched' \in {"off", "dispatch", "recv", "dead"}, UNCHANGED active
        PROVE  SchedTypeOK'
    BY <2>2 DEF workerVars, W!WorkerTypeOK
  <2>3. CASE Supervise \/ ReadOutput
    BY <2>3, WorkerTyped DEF Supervise, ReadOutput, schedVars
  <2>4. CASE Stop \/ RequestToDeadScheduler \/ StateError
    BY <2>4, WorkerTyped DEF Stop, RequestToDeadScheduler, Exit, ProcessEnds, StateError, LoopEnds
  <2>5. ASSUME NEW j \in JobIds, DispatchJob(j) PROVE SchedTypeOK'
    BY <2>5, WorkerTyped DEF DispatchJob
  <2>6. ASSUME NEW j \in JobIds, HandleCancel(j) PROVE SchedTypeOK'
    <3>1. UNCHANGED <<supervisor, reader, events, active>>
      BY <2>6 DEF HandleCancel, workerVars
    <3>2. cancelFlag' = cancelFlag \/ cancelFlag' = (active = j \/ cancelFlag)
      BY <2>6 DEF HandleCancel, workerVars
    <3>3. cancelFlag' \in BOOLEAN
      BY <3>2, Zenon DEF W!WorkerTypeOK
    <3> QED BY <2>6, <3>1, <3>3 DEF HandleCancel, Receives, W!WorkerTypeOK
  <2>7. CASE HandleProgress \/ HandleComplete
    <3>0. events # <<>> /\ events' = Tail(events) /\ events \in Seq(W!Event)
      BY <2>7 DEF HandleProgress, HandleComplete, W!WorkerTypeOK
    <3>1. events' \in Seq(W!Event)
      BY ONLY <3>0
    <3>2. active' \in JobIds \cup {NoJob}
      BY <2>7 DEF HandleProgress, HandleComplete
    <3> QED BY <2>7, <3>1, <3>2 DEF HandleProgress, HandleComplete, Receives, W!WorkerTypeOK
  <2>8. CASE Loop
    BY <2>2, <2>5, <2>7, <2>8 DEF Loop, LoopStep, DispatchBusy, DispatchNothing
  <2>9. CASE Request
    BY <2>2, <2>6, <2>9 DEF Request, HandlePromote, HandleQuery, Receives
  <2>10. CASE \E p \in Projects, f \in Files, prio \in Priorities : Submit(p, f, prio)
    BY <2>2, <2>10 DEF Submit, HandleSubmit, Receives
  <2>11. CASE \/ Open
              \/ \E valid \in BOOLEAN : SyncProvider(valid)
              \/ \E p \in Projects : ScheduleFullScan(p) \/ ScheduleFullScanFails(p)
              \/ Serve
              \/ \E t \in Times : SetClock(t)
              \/ UNCHANGED vars
    BY <2>1, <2>2, <2>11 DEF Open, SyncProvider, ScheduleFullScan, HandleSubmitFullScan, Receives,
       ScheduleFullScanFails, Serve, SetClock, vars, schedVars
  <2> QED BY <2>3, <2>4, <2>8, <2>9, <2>10, <2>11 DEF Next, NextButSubmit
<1>3. /\ phase' \in {"down", "opened", "scheduling", "serving"}
      /\ published' \in BOOLEAN
      /\ toScan' \subseteq Projects
      /\ due' \subseteq Projects
      /\ starts' \in 0 .. MaxRestarts
  <2>1. CASE UNCHANGED daemonVars
    BY <2>1 DEF daemonVars
  <2>2. CASE Open
    BY <2>2, DaemonAssumption DEF Open
  <2>3. ASSUME NEW valid \in BOOLEAN, SyncProvider(valid)
        PROVE  /\ phase' = "scheduling" /\ published' \in BOOLEAN /\ toScan' \subseteq Projects
               /\ due' \subseteq Projects /\ starts' = starts
    BY <2>3 DEF SyncProvider, Registered
  <2>4. CASE \/ \E p \in Projects : ScheduleFullScan(p) \/ ScheduleFullScanFails(p)
             \/ Serve
    BY <2>4 DEF ScheduleFullScan, ScheduleFullScanFails, Serve
  <2>5. CASE Stop \/ RequestToDeadScheduler
    BY <2>5 DEF Stop, RequestToDeadScheduler, Exit
  <2>6. CASE \/ \E p \in Projects, f \in Files, prio \in Priorities : Submit(p, f, prio)
             \/ Request \/ Loop \/ StateError \/ Supervise \/ ReadOutput
             \/ \E t \in Times : SetClock(t)
             \/ UNCHANGED vars
    BY <2>1, <2>6 DEF Submit, Request, Loop, StateError, Supervise, ReadOutput, SetClock, vars
  <2> QED BY <2>2, <2>3, <2>4, <2>5, <2>6 DEF Next, NextButSubmit
<1> QED BY <1>1, <1>2, <1>3

(* The initial state satisfies the invariant. *)
LEMMA InitInv == Init => DaemonInv
<1> SUFFICES ASSUME Init PROVE DaemonInv
  OBVIOUS
<1> USE JobStoreAssumption DEF Init, StoreInit, SchedInit, W!WorkerInit
<1>1. StoreTypeOK
  BY DEF StoreTypeOK, Statuses, NoKey, NoJob, NoProgress, LastStage, Times
<1>2. SchedTypeOK
  <2>1. W!WorkerTypeOK
    <3>1. reader \in [JobIds -> W!ReaderStates]
      BY DEF W!ReaderStates
    <3>2. events \in Seq(W!Event)
      OBVIOUS
    <3> QED BY <3>1, <3>2 DEF W!WorkerTypeOK
  <2> QED BY <2>1 DEF SchedTypeOK
<1>3. TypeOK
  <2>1. starts \in 0 .. MaxRestarts
    BY DaemonAssumption
  <2> QED BY <1>1, <1>2, <2>1 DEF TypeOK
<1>4. StoreInv
  <2>1. Allocated
    BY DEF Allocated, JobIds
  <2>2. \A j \in JobIds : ~IsPending(j) /\ ~IsExecuting(j) /\ ~IsTerminal(j) /\ by[j] = NoJob
    BY DEF IsPending, IsExecuting, IsTerminal, Executing, Terminal
  <2>3. \A j \in JobIds : status[j] = "absent"
    OBVIOUS
  <2> QED BY <2>1, <2>2, <2>3 DEF StoreInv, UniqueIndexes, RowChecks, OneLiveFullScan,
             SuccessorIsLater, SupersededIsCovered
<1>5. StartUp /\ Quiet /\ SlotMatchesTable /\ SlotIsReleased /\ OneCompleteQueued
  BY DEF StartUp, Quiet, SlotMatchesTable, SlotIsReleased, OneCompleteQueued, OneCompleteIn, Alive
<1>6. OneExecuting
  BY DEF OneExecuting, IsExecuting, Executing
<1> QED BY <1>3, <1>4, <1>5, <1>6 DEF DaemonInv

-----------------------------------------------------------------------------
(* Sending a progress event adds no Complete event. *)
LEMMA SendProgress ==
  ASSUME NEW s \in Seq(W!Event), NEW e \in W!Event, e.kind = "progress", OneCompleteIn(s)
  PROVE  /\ Append(s, e) \in Seq(W!Event)
         /\ OneCompleteIn(Append(s, e))
         /\ \A j \in JobIds : CompleteIn(Append(s, e), j) <=> CompleteIn(s, j)
BY DEF OneCompleteIn, CompleteIn

(* Sending the first Complete event. *)
LEMMA SendComplete ==
  ASSUME NEW s \in Seq(W!Event), NEW e \in W!Event, e.kind = "complete",
         \A j \in JobIds : ~CompleteIn(s, j)
  PROVE  /\ OneCompleteIn(Append(s, e))
         /\ \A j \in JobIds : CompleteIn(Append(s, e), j) <=> j = e.job
<1>1. \A i \in DOMAIN s : s[i].kind # "complete"
  BY DEF CompleteIn, W!Event
<1> QED BY <1>1 DEF OneCompleteIn, CompleteIn

(* Receiving an event. *)
LEMMA Receive ==
  ASSUME NEW s \in Seq(W!Event), s # <<>>, OneCompleteIn(s)
  PROVE  /\ OneCompleteIn(Tail(s))
         /\ \A j \in JobIds : CompleteIn(s, j) <=>
              CompleteIn(Tail(s), j) \/ (Head(s).kind = "complete" /\ Head(s).job = j)
         /\ Head(s).kind = "complete" => \A j \in JobIds : ~CompleteIn(Tail(s), j)
<1>1. /\ Tail(s) \in Seq(W!Event) /\ Len(Tail(s)) = Len(s) - 1 /\ Len(s) >= 1
      /\ \A i \in 1 .. Len(Tail(s)) : Tail(s)[i] = s[i + 1]
      /\ Head(s) = s[1] /\ DOMAIN s = 1 .. Len(s) /\ DOMAIN Tail(s) = 1 .. Len(Tail(s))
  OBVIOUS
<1>2. OneCompleteIn(Tail(s))
  BY <1>1 DEF OneCompleteIn
<1>3. ASSUME NEW j \in JobIds
      PROVE  CompleteIn(s, j) <=>
               CompleteIn(Tail(s), j) \/ (Head(s).kind = "complete" /\ Head(s).job = j)
  <2>1. ASSUME NEW i \in DOMAIN s, s[i].kind = "complete", s[i].job = j, i # 1
        PROVE  CompleteIn(Tail(s), j)
    <3>1. i - 1 \in DOMAIN Tail(s) /\ Tail(s)[i - 1] = s[i]
      BY <1>1, <2>1
    <3> QED BY <2>1, <3>1 DEF CompleteIn
  <2>2. ASSUME CompleteIn(Tail(s), j) PROVE CompleteIn(s, j)
    <3>1. PICK i \in DOMAIN Tail(s) : Tail(s)[i].kind = "complete" /\ Tail(s)[i].job = j
      BY <2>2 DEF CompleteIn
    <3>2. i + 1 \in DOMAIN s /\ s[i + 1] = Tail(s)[i]
      BY <1>1
    <3> QED BY <3>1, <3>2 DEF CompleteIn
  <2> QED BY <1>1, <2>1, <2>2 DEF CompleteIn
<1>4. ASSUME Head(s).kind = "complete", NEW j \in JobIds, CompleteIn(Tail(s), j) PROVE FALSE
  <2>1. PICK i \in DOMAIN Tail(s) : Tail(s)[i].kind = "complete"
    BY <1>4 DEF CompleteIn
  <2>2. i + 1 \in DOMAIN s /\ s[i + 1] = Tail(s)[i] /\ i + 1 # 1 /\ 1 \in DOMAIN s
    BY <1>1
  <2> QED BY <1>1, <1>4, <2>1, <2>2 DEF OneCompleteIn
<1> QED BY <1>2, <1>3, <1>4

(* The operations that neither start nor end the execution of a job. *)
LEMMA KeepsExecuting ==
  ASSUME StoreTypeOK, Allocated,
         \/ \E p \in Projects, f \in Files, prio \in Priorities : submit(p, f, prio)
         \/ \E p \in Projects : submit_full_scan(p)
         \/ \E j \in JobIds, prio \in Priorities : promote(j, prio)
         \/ \E j \in JobIds, stage \in 1 .. 2 : update_progress(j, stage)
         \/ \E j \in JobIds : CancelPending(j)
         \/ \E j \in JobIds : CancelRunning(j)
         \/ UNCHANGED status
  PROVE  \A j \in JobIds : IsExecuting(j)' <=> IsExecuting(j)
<1> USE DEF StoreTypeOK, IsExecuting, Executing
<1>1. ASSUME NEW p \in Projects, NEW f \in Files, NEW prio \in Priorities, submit(p, f, prio)
      PROVE  \A j \in JobIds : IsExecuting(j)' <=> IsExecuting(j)
  <2>1. CASE UNCHANGED status
    BY <2>1
  <2>2. CASE SubmitAbsorbed(p, f, prio) \/ SubmitInserted(p, f, prio)
    BY <2>2, JobStoreAssumption DEF SubmitAbsorbed, SubmitInserted, InsertRow, Allocated, JobIds
  <2> QED BY <1>1, <2>1, <2>2 DEF submit, SubmitRejected, SubmitDeduplicated, storeVars, jobs
<1>2. ASSUME NEW p \in Projects, submit_full_scan(p)
      PROVE  \A j \in JobIds : IsExecuting(j)' <=> IsExecuting(j)
  <2>1. CASE FullScanNotNeeded(p)
    BY <2>1 DEF FullScanNotNeeded, storeVars, jobs
  <2>2. CASE FullScanInserted(p)
    BY <2>2, JobStoreAssumption
    DEF FullScanInserted, InsertRow, PendingIncrementals, IsPending, Allocated, JobIds
  <2> QED BY <1>2, <2>1, <2>2 DEF submit_full_scan
<1> QED BY <1>1, <1>2 DEF promote, update_progress, CancelPending, IsPending, BecomesCancelled,
           CancelRunning

-----------------------------------------------------------------------------
SlotInv == Quiet /\ SlotMatchesTable /\ SlotIsReleased /\ OneCompleteQueued

(* A step that touches neither the slot nor the executing jobs nor events. *)
LEMMA SlotUntouched ==
  ASSUME SlotInv, UNCHANGED <<active, supervisor, reader, events>>, Alive' <=> Alive,
         \A j \in JobIds : IsExecuting(j)' <=> IsExecuting(j)
  PROVE  SlotInv'
BY DEF SlotInv, Quiet, SlotMatchesTable, SlotIsReleased, OneCompleteQueued, OneCompleteIn,
   CompleteQueued, W!Supervised

(* Everything of the process is gone, or the loop has ended. *)
LEMMA SlotGone ==
  ASSUME sched' \in {"off", "dead"}, active' = NoJob, W!WorkersDie
  PROVE  SlotInv'
BY DEF SlotInv, Quiet, SlotMatchesTable, SlotIsReleased, OneCompleteQueued, OneCompleteIn,
   Alive, W!WorkersDie

(* The supervisor of the job in the slot only reports progress. *)
LEMMA SlotProgress ==
  ASSUME TypeOK, SlotInv, UNCHANGED <<sched, active, status>>,
         NEW e \in W!Event, e.kind = "progress", events' = Append(events, e),
         \A j \in JobIds : W!Supervised(j)' <=> W!Supervised(j),
         supervisor' = W!NoSupervisor <=> supervisor = W!NoSupervisor,
         Alive
  PROVE  SlotInv'
<1> USE DEF SlotInv
<1>1. OneCompleteIn(events') /\ \A j \in JobIds : CompleteIn(events', j) <=> CompleteIn(events, j)
  BY SendProgress DEF TypeOK, SchedTypeOK, W!WorkerTypeOK, OneCompleteQueued
<1>2. \A j \in JobIds : CompleteQueued(j)' <=> CompleteQueued(j)
  BY <1>1 DEF CompleteQueued, CompleteIn
<1>3. Quiet' /\ SlotMatchesTable'
  BY DEF Quiet, SlotMatchesTable, Alive, IsExecuting
<1>4. SlotIsReleased'
  BY <1>2 DEF SlotIsReleased, Alive
<1> QED BY <1>1, <1>3, <1>4 DEF OneCompleteQueued

(* The supervisor ends with the Complete event of its job. *)
LEMMA SlotComplete ==
  ASSUME TypeOK, SlotInv, UNCHANGED <<sched, active, status>>,
         NEW j \in JobIds, W!Supervised(j), supervisor' = W!NoSupervisor,
         NEW s \in Seq(W!Event), OneCompleteIn(s),
         \A k \in JobIds : CompleteIn(s, k) <=> CompleteIn(events, k),
         NEW outcome \in W!Outcomes, events' = Append(s, W!Complete(j, outcome))
  PROVE  SlotInv'
<1> USE DEF SlotInv
<1>1. Alive
  BY DEF Quiet, W!Supervised, W!NoSupervisor
<1>2. active = j
  BY <1>1 DEF SlotIsReleased
<1>3. \A k \in JobIds : ~CompleteIn(events, k)
  BY <1>1, <1>2 DEF SlotIsReleased, CompleteQueued, CompleteIn
<1>4. W!Complete(j, outcome) \in W!Event /\ W!Complete(j, outcome).kind = "complete"
      /\ W!Complete(j, outcome).job = j
  BY DEF W!Complete, W!Event
<1>5. OneCompleteIn(events') /\ \A k \in JobIds : CompleteIn(events', k) <=> k = j
  BY <1>3, <1>4, SendComplete
<1>6. \A k \in JobIds : CompleteQueued(k)' <=> k = j
  BY <1>5 DEF CompleteQueued, CompleteIn
<1>7. \A k \in JobIds : ~W!Supervised(k)'
  BY DEF W!Supervised, W!NoSupervisor
<1>8. Quiet' /\ SlotMatchesTable'
  BY <1>1 DEF Quiet, SlotMatchesTable, Alive, IsExecuting
<1>9. SlotIsReleased'
  BY <1>2, <1>6, <1>7 DEF SlotIsReleased
<1> QED BY <1>5, <1>8, <1>9 DEF OneCompleteQueued

(* The threads of the worker keep the slot accounted for. *)
LEMMA WorkerSlot ==
  ASSUME TypeOK, SlotInv, Supervise \/ ReadOutput
  PROVE  SlotInv'
<1>1. UNCHANGED <<sched, active, status>>
  BY DEF Supervise, ReadOutput, schedVars, storeVars, jobs
<1>2. events \in Seq(W!Event) /\ OneCompleteIn(events)
  BY DEF TypeOK, SchedTypeOK, W!WorkerTypeOK, SlotInv, OneCompleteQueued
<1>3. supervisor \in [phase : W!Phases, job : JobIds] \cup {W!NoSupervisor}
  BY DEF TypeOK, SchedTypeOK, W!WorkerTypeOK
<1>4. CASE supervisor.phase # "none" /\ Supervise
  <2>1. supervisor \in [phase : W!Phases, job : JobIds]
    BY <1>3, <1>4 DEF W!NoSupervisor
  <2> DEFINE j == supervisor.job
  <2>2. j \in JobIds /\ W!Supervised(j) /\ supervisor # W!NoSupervisor
    BY <1>4, <2>1 DEF W!Supervised, W!NoSupervisor, W!Phases
  <2>3. Alive
    BY <2>2 DEF SlotInv, Quiet
  <2>4. /\ W!Progress(j, 1) \in W!Event /\ W!Progress(j, 1).kind = "progress"
        /\ "failed" \in W!Outcomes
    BY <2>2 DEF W!Progress, W!Event, W!Outcomes
  <2>5. CASE W!ValidationFails \/ W!SupervisorAbandonsReader
    <3>1. supervisor' = W!NoSupervisor /\ events' = Append(events, W!Complete(j, "failed"))
      BY <2>5 DEF W!ValidationFails, W!SupervisorAbandonsReader
    <3> QED BY <1>1, <1>2, <2>2, <2>4, <3>1, SlotComplete
  <2>6. CASE W!LaunchFails
    <3>1. /\ supervisor' = W!NoSupervisor
          /\ events' = Append(Append(events, W!Progress(j, 1)), W!Complete(j, "failed"))
      BY <2>6 DEF W!LaunchFails
    <3>2. /\ Append(events, W!Progress(j, 1)) \in Seq(W!Event)
          /\ OneCompleteIn(Append(events, W!Progress(j, 1)))
          /\ \A k \in JobIds : CompleteIn(Append(events, W!Progress(j, 1)), k) <=> CompleteIn(events, k)
      BY <1>2, <2>4, SendProgress
    <3> QED BY <1>1, <2>2, <2>4, <3>1, <3>2, SlotComplete
  <2>7. CASE W!Launch
    <3>1. /\ supervisor' = [supervisor EXCEPT !.phase = "waiting_for_scan_lock"]
          /\ events' = Append(events, W!Progress(j, 1))
      BY <2>7 DEF W!Launch
    <3>2. supervisor'.job = j /\ supervisor'.phase = "waiting_for_scan_lock"
      BY <2>1, <3>1
    <3>3. \A k \in JobIds : W!Supervised(k)' <=> W!Supervised(k)
      BY <1>4, <3>2 DEF W!Supervised
    <3>4. supervisor' # W!NoSupervisor
      BY <3>2 DEF W!NoSupervisor
    <3> QED BY <1>1, <2>2, <2>3, <2>4, <3>1, <3>3, <3>4, SlotProgress
  <2>8. CASE W!SupervisorSeesLock
    <3>1. supervisor' = [supervisor EXCEPT !.phase = "scanning"] /\ events' = events
      BY <2>8 DEF W!SupervisorSeesLock
    <3>2. supervisor'.job = j /\ supervisor'.phase = "scanning"
      BY <2>1, <3>1
    <3>3. \A k \in JobIds : W!Supervised(k)' <=> W!Supervised(k)
      BY <1>4, <3>2 DEF W!Supervised
    <3> QED BY <1>1, <2>3, <3>1, <3>3 DEF SlotInv, Quiet, SlotMatchesTable, SlotIsReleased, Alive,
               OneCompleteQueued, OneCompleteIn, CompleteQueued, IsExecuting
  <2>9. CASE W!SupervisorFinishes
    <3>1. PICK outcome \in W!Outcomes : events' = Append(events, W!Complete(j, outcome))
      BY <2>9 DEF W!SupervisorFinishes
    <3>2. supervisor' = W!NoSupervisor
      BY <2>9 DEF W!SupervisorFinishes
    <3> QED BY <1>1, <1>2, <2>2, <3>1, <3>2, SlotComplete
  <2> QED BY <1>4, <2>5, <2>6, <2>7, <2>8, <2>9 DEF Supervise, W!SupervisorStep
<1>5. ASSUME supervisor.phase = "none", Supervise PROVE FALSE
  BY <1>5 DEF Supervise, W!SupervisorStep, W!ValidationFails, W!LaunchFails, W!Launch,
     W!SupervisorSeesLock, W!SupervisorFinishes, W!SupervisorAbandonsReader
<1>6. CASE ReadOutput
  <2> PICK j \in JobIds : W!ReaderReportsLock(j) \/ W!AbandonedReaderEnds(j)
    BY <1>6 DEF ReadOutput, W!ReaderStep
  <2>1. reader[j] = "reading" /\ supervisor' = supervisor
    BY DEF W!ReaderReportsLock, W!AbandonedReaderEnds
  <2>2. Alive
    BY <2>1 DEF SlotInv, Quiet
  <2>3. \A k \in JobIds : W!Supervised(k)' <=> W!Supervised(k)
    BY <2>1 DEF W!Supervised
  <2>4. CASE W!ReaderReportsLock(j)
    <3>1. events' = Append(events, W!Progress(j, 2))
      BY <2>4 DEF W!ReaderReportsLock
    <3>2. W!Progress(j, 2) \in W!Event /\ W!Progress(j, 2).kind = "progress"
      BY DEF W!Progress, W!Event
    <3> QED BY <1>1, <2>1, <2>2, <2>3, <3>1, <3>2, SlotProgress
  <2>5. CASE W!AbandonedReaderEnds(j)
    <3>1. events' = events
      BY <2>5 DEF W!AbandonedReaderEnds
    <3> QED BY <1>1, <2>2, <2>3, <3>1 DEF SlotInv, Quiet, SlotMatchesTable, SlotIsReleased, Alive,
               OneCompleteQueued, OneCompleteIn, CompleteQueued, IsExecuting
  <2> QED BY <2>4, <2>5
<1> QED BY <1>4, <1>5, <1>6

(* Filling the slot: the claimed job becomes the only executing one. *)
LEMMA DispatchSlot ==
  ASSUME TypeOK, SlotInv, NEW j \in JobIds, DispatchJob(j)
  PROVE  SlotInv'
<1> USE DEF SlotInv
<1>1. /\ Alive /\ Alive' /\ active = NoJob /\ active' = j
      /\ status' = [status EXCEPT ![j] = "running"]
      /\ status \in [JobIds -> Statuses] /\ events \in Seq(W!Event)
  BY DEF DispatchJob, Alive, claim_next_pending, TypeOK, StoreTypeOK, SchedTypeOK, W!WorkerTypeOK
<1>2. \A k \in JobIds : k # NoJob
  BY DEF JobIds, NoJob
<1>3. SlotMatchesTable'
  BY <1>1, <1>2 DEF SlotMatchesTable, IsExecuting, Executing
<1>4. \A k \in JobIds : ~W!Supervised(k) /\ ~CompleteQueued(k) /\ ~CompleteIn(events, k)
  BY <1>1, <1>2 DEF SlotIsReleased, CompleteQueued, CompleteIn
<1>5. CASE supervisor' = [phase |-> "validating", job |-> j] /\ UNCHANGED events
  <2>1. \A k \in JobIds : W!Supervised(k)' <=> k = j
    BY <1>5 DEF W!Supervised
  <2>2. \A k \in JobIds : ~CompleteQueued(k)'
    BY <1>4, <1>5 DEF CompleteQueued
  <2>3. SlotIsReleased' /\ OneCompleteQueued'
    BY <1>1, <1>5, <2>1, <2>2 DEF SlotIsReleased, OneCompleteQueued, OneCompleteIn
  <2> QED BY <1>1, <1>3, <2>3 DEF Quiet
<1>6. CASE events' = Append(events, W!Complete(j, "failed")) /\ UNCHANGED supervisor
  <2>1. /\ W!Complete(j, "failed") \in W!Event
        /\ W!Complete(j, "failed").kind = "complete" /\ W!Complete(j, "failed").job = j
    BY DEF W!Complete, W!Event, W!Outcomes
  <2>2. OneCompleteIn(events') /\ \A k \in JobIds : CompleteIn(events', k) <=> k = j
    BY <1>1, <1>4, <1>6, <2>1, SendComplete
  <2>3. \A k \in JobIds : CompleteQueued(k)' <=> k = j
    BY <2>2 DEF CompleteQueued, CompleteIn
  <2>4. \A k \in JobIds : ~W!Supervised(k)'
    BY <1>4, <1>6 DEF W!Supervised
  <2>5. SlotIsReleased' /\ OneCompleteQueued'
    BY <1>1, <2>2, <2>3, <2>4 DEF SlotIsReleased, OneCompleteQueued
  <2> QED BY <1>1, <1>3, <2>5 DEF Quiet
<1> QED BY <1>5, <1>6 DEF DispatchJob, W!spawn

(* Handling a worker event: the Complete event of the job in the slot      *)
(* empties it, and no other Complete event exists.                         *)
LEMMA EventSlot ==
  ASSUME TypeOK, StoreInv, SlotInv, HandleProgress \/ HandleComplete
  PROVE  SlotInv'
<1> USE DEF SlotInv
<1>1. /\ Alive /\ Alive' /\ events # <<>> /\ events \in Seq(W!Event)
      /\ events' = Tail(events) /\ supervisor' = supervisor
      /\ status \in [JobIds -> Statuses]
  BY DEF HandleProgress, HandleComplete, Receives, Alive, TypeOK, StoreTypeOK, SchedTypeOK,
     W!WorkerTypeOK
<1>2. Head(events) \in W!Event /\ Head(events).job \in JobIds
  BY <1>1 DEF W!Event
<1>3. /\ OneCompleteIn(Tail(events))
      /\ \A k \in JobIds : CompleteIn(events, k) <=>
           CompleteIn(Tail(events), k) \/ (Head(events).kind = "complete" /\ Head(events).job = k)
      /\ Head(events).kind = "complete" => \A k \in JobIds : ~CompleteIn(Tail(events), k)
  BY <1>1, Receive DEF OneCompleteQueued
<1>4. \A k \in JobIds : /\ CompleteQueued(k) <=> CompleteIn(events, k)
                        /\ CompleteQueued(k)' <=> CompleteIn(Tail(events), k)
  BY <1>1 DEF CompleteQueued, CompleteIn
<1>5. \A k \in JobIds : W!Supervised(k)' <=> W!Supervised(k)
  BY <1>1 DEF W!Supervised
<1>6. Quiet' /\ OneCompleteQueued'
  BY <1>1, <1>3 DEF Quiet, OneCompleteQueued
<1>7. CASE HandleProgress
  <2>1. \A k \in JobIds : IsExecuting(k)' <=> IsExecuting(k)
    BY <1>7 DEF HandleProgress, update_progress, IsExecuting
  <2>2. active' = active /\ Head(events).kind # "complete"
    BY <1>7 DEF HandleProgress
  <2>3. SlotMatchesTable'
    BY <1>1, <2>1, <2>2 DEF SlotMatchesTable
  <2>4. SlotIsReleased'
    BY <1>1, <1>3, <1>4, <1>5, <2>2 DEF SlotIsReleased
  <2> QED BY <1>6, <2>3, <2>4
<1>8. CASE HandleComplete
  <2> DEFINE j == Head(events).job
  <2>1. Head(events).kind = "complete" /\ Head(events).outcome \in {"succeeded", "failed"}
    BY <1>2, <1>8 DEF HandleComplete, W!Event, W!Outcomes
  <2>2. CompleteQueued(j)
    BY <1>2, <1>3, <1>4, <2>1
  <2>3. active = j /\ active' = NoJob
    BY <1>1, <1>2, <1>8, <2>2 DEF SlotIsReleased, HandleComplete
  <2>4. IsExecuting(j) /\ \A k \in JobIds : k # j => ~IsExecuting(k)
    BY <1>1, <1>2, <2>3 DEF SlotMatchesTable
  <2>5. confirm_cancelled(j) \/ complete(j, Head(events).outcome)
    BY <1>8, <2>4 DEF HandleComplete
  <2>6. \A k \in JobIds : ~IsExecuting(k)'
    BY <1>1, <1>2, <2>1, <2>4, <2>5
    DEF confirm_cancelled, BecomesCancelled, complete, IsExecuting, Executing
  <2>7. \A k \in JobIds : k # NoJob
    BY DEF JobIds, NoJob
  <2>8. SlotMatchesTable'
    BY <2>3, <2>6, <2>7 DEF SlotMatchesTable
  <2>9. \A k \in JobIds : ~W!Supervised(k)
    BY <1>1, <2>2, <2>3 DEF SlotIsReleased
  <2>10. SlotIsReleased'
    BY <1>3, <1>4, <1>5, <2>1, <2>3, <2>7, <2>9 DEF SlotIsReleased
  <2> QED BY <1>6, <2>8, <2>10
<1> QED BY <1>7, <1>8

(* Every step keeps the worker slot, the events and the table in agreement. *)
LEMMA NextSlot ==
  ASSUME DaemonInv, [Next]_vars
  PROVE  SlotInv'
<1>1. TypeOK /\ StoreInv /\ StartUp /\ SlotInv /\ StoreTypeOK /\ Allocated
  BY DEF DaemonInv, SlotInv, TypeOK, StoreInv
<1>2. ASSUME UNCHANGED <<active, supervisor, reader, events>>, Alive, Alive',
             \/ \E p \in Projects, f \in Files, prio \in Priorities : submit(p, f, prio)
             \/ \E p \in Projects : submit_full_scan(p)
             \/ \E j \in JobIds, prio \in Priorities : promote(j, prio)
             \/ \E j \in JobIds : CancelPending(j)
             \/ \E j \in JobIds : CancelRunning(j)
             \/ UNCHANGED status
      PROVE  SlotInv'
  BY <1>1, <1>2, KeepsExecuting, SlotUntouched
<1>3. ASSUME UNCHANGED <<active, supervisor, reader, events, status, sched>> PROVE SlotInv'
  BY <1>1, <1>3, SlotUntouched DEF Alive, IsExecuting
<1>4. ASSUME NEW p \in Projects, NEW f \in Files, NEW prio \in Priorities, Submit(p, f, prio)
      PROVE  SlotInv'
  BY <1>2, <1>4 DEF Submit, HandleSubmit, Receives, Alive, workerVars
<1>5. ASSUME NEW p \in Projects, ScheduleFullScan(p) PROVE SlotInv'
  BY <1>2, <1>5 DEF ScheduleFullScan, HandleSubmitFullScan, Receives, Alive, workerVars
<1>6. CASE Request
  BY <1>2, <1>6 DEF Request, HandlePromote, HandleCancel, HandleQuery, Receives, Alive,
     workerVars, storeVars, jobs
<1>7. CASE Loop
  <2>1. CASE DispatchBusy \/ DispatchNothing
    BY <1>2, <2>1 DEF DispatchBusy, DispatchNothing, Alive, workerVars, storeVars, jobs
  <2> QED BY <1>1, <1>7, <2>1, DispatchSlot, EventSlot DEF Loop, LoopStep
<1>8. CASE Stop \/ RequestToDeadScheduler \/ StateError
  BY <1>8, SlotGone DEF Stop, RequestToDeadScheduler, Exit, ProcessEnds, StateError, LoopEnds
<1>9. CASE Open
  <2>1. ~Alive /\ ~Alive'
    BY <1>1, <1>9 DEF Open, StartUp, Alive
  <2> QED BY <1>1, <1>9, <2>1 DEF SlotInv, Quiet, SlotMatchesTable, SlotIsReleased,
             OneCompleteQueued, OneCompleteIn, Open, workerVars
<1>10. ASSUME NEW valid \in BOOLEAN, SyncProvider(valid) PROVE SlotInv'
  <2>1. /\ ~Alive /\ Alive'
        /\ \A j \in JobIds : ~IsExecuting(j)' /\ j # NoJob
    BY <1>1, <1>10 DEF SyncProvider, StartUp, Alive, IsExecuting, storeVars, jobs, JobIds, NoJob
  <2>2. active' = NoJob /\ supervisor' = W!NoSupervisor /\ events' = <<>>
    BY <1>1, <1>10, <2>1 DEF SlotInv, Quiet, SyncProvider, workerVars
  <2>3. \A j \in JobIds : ~W!Supervised(j)' /\ ~CompleteQueued(j)'
    BY <2>2 DEF W!Supervised, W!NoSupervisor, CompleteQueued
  <2> QED BY <2>1, <2>2, <2>3 DEF SlotInv, Quiet, SlotMatchesTable, SlotIsReleased,
             OneCompleteQueued, OneCompleteIn
<1>11. CASE \/ \E p \in Projects : ScheduleFullScanFails(p)
            \/ Serve
            \/ \E t \in Times : SetClock(t)
            \/ UNCHANGED vars
  BY <1>3, <1>11 DEF ScheduleFullScanFails, Serve, SetClock, vars, schedVars, workerVars,
     storeVars, jobs
<1> QED
  BY <1>1, <1>4, <1>5, <1>6, <1>7, <1>8, <1>9, <1>10, <1>11, WorkerSlot DEF Next, NextButSubmit

(* The phases of the process and the scheduler thread go together. *)
LEMMA NextStartUp ==
  ASSUME DaemonInv, [Next]_vars
  PROVE  StartUp'
<1> USE DEF DaemonInv, StartUp
<1>1. CASE Open
  BY <1>1, RecoverInv DEF Open, TypeOK
<1>2. ASSUME NEW valid \in BOOLEAN, SyncProvider(valid) PROVE StartUp'
  BY <1>2 DEF SyncProvider
<1>3. CASE Stop \/ RequestToDeadScheduler
  BY <1>3 DEF Stop, RequestToDeadScheduler, Exit, ProcessEnds
<1>4. CASE \/ \E p \in Projects : ScheduleFullScan(p) \/ ScheduleFullScanFails(p)
           \/ Serve
  BY <1>4 DEF ScheduleFullScan, HandleSubmitFullScan, Receives, ScheduleFullScanFails, Serve,
     schedVars
<1>5. ASSUME phase' = phase, sched # "off", sched' # "off" PROVE StartUp'
  BY <1>5
<1>6. ASSUME UNCHANGED <<phase, sched, status>> PROVE StartUp'
  BY <1>6 DEF IsExecuting
<1>7. CASE \/ \E p \in Projects, f \in Files, prio \in Priorities : Submit(p, f, prio)
           \/ Request \/ Loop \/ StateError
  BY <1>5, <1>7 DEF Submit, HandleSubmit, Request, HandlePromote, HandleCancel, HandleQuery, Loop,
     LoopStep, DispatchBusy, DispatchNothing, DispatchJob, HandleProgress, HandleComplete, Receives,
     StateError, LoopEnds, daemonVars
<1>8. CASE Supervise \/ ReadOutput \/ (\E t \in Times : SetClock(t)) \/ UNCHANGED vars
  BY <1>6, <1>8 DEF Supervise, ReadOutput, SetClock, vars, daemonVars, schedVars, storeVars, jobs
<1> QED BY <1>1, <1>2, <1>3, <1>4, <1>7, <1>8 DEF Next, NextButSubmit

(* The invariant is inductive. *)
LEMMA NextInv == DaemonInv /\ [Next]_vars => DaemonInv'
<1> SUFFICES ASSUME DaemonInv, [Next]_vars PROVE DaemonInv'
  OBVIOUS
<1>1. TypeOK'
  BY NextTyped DEF DaemonInv, StoreInv
<1>2. StoreInv'
  BY NextIsStoreOp, StoreOpInv DEF DaemonInv, TypeOK
<1>3. OneExecuting'
  BY NextIsSerialOp, SerialKept DEF DaemonInv, TypeOK
<1> QED BY <1>1, <1>2, <1>3, NextStartUp, NextSlot DEF DaemonInv, SlotInv

(* The inductive invariant holds throughout every behaviour. *)
THEOREM Invariance == Spec => []DaemonInv
BY InitInv, NextInv, PTL DEF Spec

(***************************************************************************)
(* Every variable keeps its type: no operation of the store, the           *)
(* scheduler, the worker or the start-up writes a value its reader does    *)
(* not expect.                                                             *)
(***************************************************************************)
THEOREM TypeCorrect == Spec => []TypeOK
<1>1. DaemonInv => TypeOK
  BY DEF DaemonInv
<1> QED BY <1>1, Invariance, PTL

(***************************************************************************)
(* No statement of state.rs is ever refused by the unique indexes and the  *)
(* CHECK constraints of the jobs table, whatever was submitted, cancelled, *)
(* absorbed or recovered before.                                           *)
(***************************************************************************)
THEOREM SchemaCorrect == Spec => []SchemaHolds
<1>1. DaemonInv => SchemaHolds
  BY DEF DaemonInv, StoreInv, SchemaHolds
<1> QED BY <1>1, Invariance, PTL

(***************************************************************************)
(* Following superseded_by_job_id leads to a job that scans the file.      *)
(***************************************************************************)
THEOREM SupersessionCorrect == Spec => []SupersededIsCovered
<1>1. DaemonInv => SupersededIsCovered
  BY DEF DaemonInv, StoreInv
<1> QED BY <1>1, Invariance, PTL

(***************************************************************************)
(* While the scheduler runs, its slot and the table agree: at most one job *)
(* executes at a time, and it is the one in active_job.                    *)
(***************************************************************************)
THEOREM SlotCorrect == Spec => []SlotMatchesTable
<1>1. DaemonInv => SlotMatchesTable
  BY DEF DaemonInv
<1> QED BY <1>1, Invariance, PTL

(***************************************************************************)
(* An occupied slot always has exactly one source of its release.          *)
(***************************************************************************)
THEOREM SlotNeverLeaks == Spec => []SlotIsReleased
<1>1. DaemonInv => SlotIsReleased
  BY DEF DaemonInv
<1> QED BY <1>1, Invariance, PTL

(***************************************************************************)
(* The terminal-state guard of handle_worker, and of every other writer of *)
(* the table.                                                              *)
(***************************************************************************)
THEOREM TerminalCorrect == Spec => TerminalIsFinal
<1>1. ASSUME DaemonInv, [Next]_vars
      PROVE  \A j \in JobIds : IsTerminal(j) => RowOf(j)' = RowOf(j)
  BY <1>1, NextIsStoreOp, TerminalKept DEF DaemonInv, TypeOK, RowOf
<1> QED BY <1>1, Invariance, PTL DEF Spec, TerminalIsFinal

(***************************************************************************)
(* A cancel that was accepted wins over a late success and over a crash.   *)
(***************************************************************************)
THEOREM CancelCorrect == Spec => CancelWins
<1>1. ASSUME DaemonInv, [Next]_vars
      PROVE  \A j \in JobIds : status[j] = "cancel_requested" =>
               status'[j] \in {"cancel_requested", "cancelled"}
  BY <1>1, NextIsStoreOp, CancelKept DEF DaemonInv, TypeOK
<1> QED BY <1>1, Invariance, PTL DEF Spec, CancelWins

(***************************************************************************)
(* A submission is only ever handed to a scan that has yet to start.       *)
(***************************************************************************)
THEOREM AbsorptionCorrect == Spec => SupersededByPending
<1>1. ASSUME DaemonInv, [Next]_vars
      PROVE  \A j \in JobIds :
               status[j] # "superseded" /\ status'[j] = "superseded"
                 => \E k \in JobIds : by'[j] = k /\ status'[k] = "pending"
  BY <1>1, NextIsStoreOp, SupersededByKept DEF DaemonInv, TypeOK
<1> QED BY <1>1, Invariance, PTL DEF Spec, SupersededByPending

-----------------------------------------------------------------------------
(* The daemon implements JobContract *)

(* What an operation does to a row is a step of the contract, or nothing a *)
(* client sees.                                                            *)
LEMMA SerialOpContract ==
  ASSUME StoreTypeOK, StoreInv, OneExecuting, SerialOp
  PROVE  [Contract!ContractNext]_(Contract!contractVars)
<1> USE DEF StoreTypeOK, IsPending, IsExecuting, Executing, Contract!ContractNext,
        Contract!contractVars, Contract!Become
<1>1. CASE UNCHANGED <<status, by>>
  BY <1>1
<1>2. ASSUME NEW p \in Projects, NEW f \in Files, NEW prio \in Priorities, submit(p, f, prio)
      PROVE  [Contract!ContractNext]_(Contract!contractVars)
  <2>1. CASE SubmitInserted(p, f, prio)
    <3>1. lastId + 1 \in JobIds /\ status[lastId + 1] = "absent"
      BY <2>1, JobStoreAssumption DEF SubmitInserted, InsertRow, StoreInv, Allocated, JobIds
    <3>2. Contract!Enqueue(lastId + 1)
      BY <2>1, <3>1 DEF SubmitInserted, Contract!Enqueue
    <3> QED BY <3>1, <3>2
  <2>2. CASE SubmitAbsorbed(p, f, prio)
    <3>1. lastId + 1 \in JobIds /\ status[lastId + 1] = "absent"
      BY <2>2, JobStoreAssumption DEF SubmitAbsorbed, InsertRow, StoreInv, Allocated, JobIds
    <3>2. PICK s \in JobIds : status[s] = "pending" /\ by' = [by EXCEPT ![lastId + 1] = s]
      BY <2>2 DEF SubmitAbsorbed, PendingFor
    <3>3. Contract!Supersede({lastId + 1}, s)
      BY <2>2, <3>1, <3>2 DEF SubmitAbsorbed, Contract!Supersede
    <3> QED BY <3>1, <3>3
  <2> QED BY <1>1, <1>2, <2>1, <2>2 DEF submit, SubmitRejected, SubmitDeduplicated, storeVars, jobs
<1>3. ASSUME NEW p \in Projects, submit_full_scan(p)
      PROVE  [Contract!ContractNext]_(Contract!contractVars)
  <2>1. CASE FullScanInserted(p)
    <3>1. lastId + 1 \in JobIds /\ status[lastId + 1] = "absent"
      BY <2>1, JobStoreAssumption DEF FullScanInserted, InsertRow, StoreInv, Allocated, JobIds
    <3>2. /\ PendingIncrementals(p) \in SUBSET JobIds
          /\ lastId + 1 \notin PendingIncrementals(p)
          /\ \A j \in PendingIncrementals(p) : status[j] = "pending"
      BY <3>1 DEF PendingIncrementals
    <3>3. Contract!Supersede(PendingIncrementals(p), lastId + 1)
      BY <2>1, <3>1, <3>2 DEF FullScanInserted, Contract!Supersede
    <3> QED BY <3>1, <3>2, <3>3
  <2> QED BY <1>1, <1>3, <2>1 DEF submit_full_scan, FullScanNotNeeded, storeVars, jobs
<1>4. ASSUME NEW j \in JobIds, claim_next_pending(j), \A k \in JobIds : ~IsExecuting(k)
      PROVE  Contract!Start(j)
  BY <1>4 DEF claim_next_pending, Claimable, Contract!Start, Contract!InExecution
<1>5. ASSUME NEW j \in JobIds, NEW outcome \in {"succeeded", "failed"}, complete(j, outcome)
      PROVE  Contract!Finish(j)
  BY <1>5 DEF complete, Contract!Finish
<1>6. ASSUME NEW j \in JobIds, CancelRunning(j) PROVE Contract!RequestCancel(j)
  BY <1>6 DEF CancelRunning, Contract!RequestCancel
<1>7. ASSUME NEW j \in JobIds, confirm_cancelled(j) \/ CancelPending(j) PROVE Contract!Cancel(j)
  BY <1>7 DEF confirm_cancelled, CancelPending, BecomesCancelled, Contract!Cancel
<1>8. CASE recover
  <2>1. CASE \A j \in JobIds : ~IsExecuting(j)
    <3>1. \A j \in JobIds : j \notin Yielding /\ j \notin Requeued /\ j \notin CancelRequested
      BY <2>1 DEF Yielding, Requeued, CancelRequested
    <3>2. status' = status /\ by' = by
      BY <1>8, <3>1 DEF recover
    <3> QED BY <1>1, <3>2
  <2>2. ASSUME NEW j \in JobIds, IsExecuting(j)
        PROVE  [Contract!ContractNext]_(Contract!contractVars)
    <3>1. \A k \in JobIds : k # j => k \notin Yielding /\ k \notin Requeued /\ k \notin CancelRequested
      BY <2>2 DEF OneExecuting, Yielding, Requeued, CancelRequested
    <3>2. Contract!InExecution = {j}
      BY <2>2 DEF OneExecuting, Contract!InExecution
    <3>3. CASE j \in Yielding
      <4>1. PICK k \in JobIds : k = FirstOf(Successors(j)) /\ status[k] = "pending"
        BY <3>3, FirstSuccessor DEF Yielding, Successors, StoreInv
      <4>2. status' = [status EXCEPT ![j] = "superseded"] /\ by' = [by EXCEPT ![j] = k]
        BY <1>8, <3>1, <3>3, <4>1 DEF recover
      <4>3. status[j] = "running"
        BY <3>3 DEF Yielding
      <4> QED BY <3>2, <4>1, <4>2, <4>3 DEF Contract!Restart
    <3>4. CASE j \in Requeued
      <4>1. status[j] = "running" /\ j \notin Yielding
        BY <3>4 DEF Requeued, Yielding
      <4>2. status' = [status EXCEPT ![j] = "pending"] /\ by' = by
        BY <1>8, <3>1, <3>4, <4>1 DEF recover
      <4> QED BY <3>2, <4>1, <4>2 DEF Contract!Restart
    <3>5. CASE j \in CancelRequested
      <4>1. status[j] = "cancel_requested" /\ j \notin Yielding /\ j \notin Requeued
        BY <3>5 DEF CancelRequested, Requeued, Yielding
      <4>2. status' = [status EXCEPT ![j] = "cancelled"] /\ by' = by
        BY <1>8, <3>1, <3>5, <4>1 DEF recover
      <4>3. Contract!Cancel(j)
        BY <4>1, <4>2 DEF Contract!Cancel
      <4> QED BY <4>3
    <3> QED BY <2>2, <3>3, <3>4, <3>5 DEF Yielding, Requeued, CancelRequested
  <2> QED BY <2>1, <2>2
<1>9. CASE \/ \E j \in JobIds, prio \in Priorities : promote(j, prio)
           \/ \E j \in JobIds, stage \in 1 .. 2 : update_progress(j, stage)
           \/ UNCHANGED storeVars
  BY <1>1, <1>9 DEF promote, update_progress, storeVars, jobs
<1> QED BY <1>2, <1>3, <1>4, <1>5, <1>6, <1>7, <1>8, <1>9 DEF SerialOp, NonClaimOp

(***************************************************************************)
(* To a client the jobs of the daemon behave as JobContract says, across   *)
(* every crash and restart: the refinement mapping shows the status and    *)
(* superseded_by_job_id of every row, and every step of the scheduler, the *)
(* worker threads or the start-up is a step of the contract or invisible.  *)
(***************************************************************************)
THEOREM ContractCorrect == Spec => ImplementsContract
<1>1. Init => Contract!ContractInit
  BY DEF Init, StoreInit, Contract!ContractInit
<1>2. DaemonInv /\ [Next]_vars => [Contract!ContractNext]_(Contract!contractVars)
  BY NextIsSerialOp, SerialOpContract DEF DaemonInv, TypeOK
<1> QED BY <1>1, <1>2, Invariance, PTL DEF Spec, ImplementsContract, Contract!ContractSpec

-----------------------------------------------------------------------------
(* No edit is lost *)

EditStates == {"none", "waiting", "scanning"}

TrackInv ==
  /\ DaemonInv
  /\ wanted \in [Edits -> EditStates]
  /\ NoEditLost

(* A job that covers an edit covers it for good. *)
LEMMA StillCovers ==
  ASSUME NEW j \in JobIds, NEW k \in JobIds, NEW x \in Edits, Covers(j, x), key'[k] = key[j]
  PROVE  Covers(k, x)'
BY DEF Covers

(* The full_scan of a project covers what a job of one of its files does. *)
LEMMA FullScanCovers ==
  ASSUME NEW j \in JobIds, NEW k \in JobIds, NEW x \in Edits, Covers(j, x),
         NEW p \in Projects, NEW f \in Files,
         key[j] = <<p, f>>, key'[k] = <<p, FullScan>>
  PROVE  Covers(k, x)'
<1>1. PICK q \in Projects, g \in Files : x = <<q, g>>
  BY DEF Edits
<1>2. p = q
  BY <1>1 DEF Covers
<1> QED BY <1>1, <1>2 DEF Covers

(* A step that leaves the queue to the store: whatever waits is still      *)
(* covered by a pending job, whatever is scanned by an executing one.      *)
LEMMA FollowedInv ==
  ASSUME StoreTypeOK, StoreInv, StoreOp, wanted \in [Edits -> EditStates], NoEditLost,
         NEW x \in Edits
  PROVE  /\ Followed(x) \in EditStates
         /\ Followed(x) = "waiting" => \E j \in JobIds : IsPending(j)' /\ Covers(j, x)'
         /\ Followed(x) = "scanning" => \E j \in JobIds : IsExecuting(j)' /\ Covers(j, x)'
<1>1. Followed(x) \in EditStates /\ wanted[x] \in EditStates
  BY DEF Followed, EditStates
<1>2. ASSUME Followed(x) = "waiting"
      PROVE  \E j \in JobIds : IsPending(j)' /\ Covers(j, x)'
  <2>1. CASE wanted[x] = "scanning"
    <3>1. Moved(x, {"running"}, {"pending", "superseded"})
      BY <1>2, <2>1 DEF Followed
    <3>2. PICK j \in JobIds : /\ status[j] = "running" /\ status'[j] \in {"pending", "superseded"}
                              /\ Covers(j, x)
      BY <3>1 DEF Moved
    <3>3. PICK k \in JobIds : status'[k] = "pending" /\ key'[k] = key[j]
      BY <3>2, InterruptedIsQueued
    <3> QED BY <3>2, <3>3, StillCovers DEF IsPending
  <2>2. CASE wanted[x] = "waiting"
    <3>1. ~Moved(x, {"pending"}, {"running"})
      BY <1>2, <2>2 DEF Followed
    <3>2. Moved(x, {"pending"}, {"cancelled"}) => StillQueued(x)
      BY <1>2, <2>2 DEF Followed
    <3>3. PICK j \in JobIds : IsPending(j) /\ Covers(j, x)
      BY <2>2 DEF NoEditLost
    <3>4. CASE status'[j] = "pending"
      BY <3>3, <3>4, PendingMoves, StillCovers DEF IsPending
    <3>5. CASE status'[j] = "running"
      BY <3>1, <3>3, <3>5 DEF Moved, IsPending
    <3>6. CASE status'[j] = "cancelled"
      BY <3>2, <3>3, <3>6 DEF Moved, StillQueued, IsPending
    <3>7. ASSUME NEW p \in Projects, NEW f \in Files, NEW k \in JobIds, key[j] = <<p, f>>,
                 status'[k] = "pending", key'[k] = <<p, FullScan>>
          PROVE  \E l \in JobIds : IsPending(l)' /\ Covers(l, x)'
      BY <3>3, <3>7, FullScanCovers DEF IsPending
    <3> QED BY <3>3, <3>4, <3>5, <3>6, <3>7, PendingMoves
  <2> QED BY <1>1, <1>2, <2>1, <2>2 DEF Followed, EditStates
<1>3. ASSUME Followed(x) = "scanning"
      PROVE  \E j \in JobIds : IsExecuting(j)' /\ Covers(j, x)'
  <2>1. CASE wanted[x] = "waiting"
    <3>1. Moved(x, {"pending"}, {"running"})
      BY <1>3, <2>1 DEF Followed
    <3>2. PICK j \in JobIds : status[j] = "pending" /\ status'[j] = "running" /\ Covers(j, x)
      BY <3>1 DEF Moved
    <3>3. key'[j] = key[j]
      BY <3>2, PendingMoves DEF IsPending
    <3> QED BY <3>2, <3>3, StillCovers DEF IsExecuting, Executing
  <2>2. CASE wanted[x] = "scanning"
    <3>1. ~Moved(x, Executing, {"succeeded", "failed", "cancelled"})
      BY <1>3, <2>2 DEF Followed
    <3>2. ~Moved(x, {"running"}, {"pending", "superseded"})
      BY <1>3, <2>2, <3>1 DEF Followed
    <3>3. PICK j \in JobIds : IsExecuting(j) /\ Covers(j, x)
      BY <2>2 DEF NoEditLost
    <3>4. IsExecuting(j)'
      BY <3>1, <3>2, <3>3, ExecutingMoves DEF Moved, IsExecuting
    <3>5. key'[j] = key[j]
      BY <3>3, ExecutingMoves
    <3> QED BY <3>3, <3>4, <3>5, StillCovers
  <2> QED BY <1>1, <1>3, <2>1, <2>2 DEF Followed, EditStates
<1> QED BY <1>1, <1>2, <1>3

(* A submission that is not refused leaves a pending job for the edit, and *)
(* takes no job away from another one.                                     *)
LEMMA SubmitCovers ==
  ASSUME StoreTypeOK, StoreInv,
         NEW p \in Projects, NEW f \in Files, NEW prio \in Priorities, submit(p, f, prio)
  PROVE  /\ clock >= projects[p] =>
              \E j \in JobIds : IsPending(j)' /\ Covers(j, <<p, f>>)'
         /\ \A j \in JobIds : status[j] # "absent" => status'[j] = status[j] /\ key'[j] = key[j]
<1> USE DEF StoreTypeOK, IsPending
<1>1. \A j \in JobIds : status[j] # "absent" => j # lastId + 1
  BY JobStoreAssumption DEF StoreInv, Allocated, JobIds
<1>2. CASE SubmitRejected(p)
  <2>1. ~(clock >= projects[p])
    BY <1>2 DEF SubmitRejected, Times, NotRegistered
  <2> QED BY <1>2, <2>1 DEF SubmitRejected, storeVars, jobs
<1>3. CASE SubmitAbsorbed(p, f, prio)
  <2>1. PICK s \in PendingFor(p, FullScan) : TRUE
    BY <1>3 DEF SubmitAbsorbed
  <2> QED BY <1>1, <1>3, <2>1 DEF SubmitAbsorbed, InsertRow, PendingFor, Covers
<1>4. CASE SubmitDeduplicated(p, f, prio)
  <2>1. PICK e \in PendingFor(p, f) : TRUE
    BY <1>4 DEF SubmitDeduplicated
  <2> QED BY <1>4, <2>1 DEF SubmitDeduplicated, PendingFor, Covers
<1>5. CASE SubmitInserted(p, f, prio)
  <2>1. lastId + 1 \in JobIds
    BY <1>5, JobStoreAssumption DEF SubmitInserted, InsertRow, JobIds
  <2> QED BY <1>1, <1>5, <2>1 DEF SubmitInserted, InsertRow, Covers
<1> QED BY <1>2, <1>3, <1>4, <1>5 DEF submit

(* Every step keeps every edit that waits or is being scanned. *)
LEMMA TrackNextInv == TrackInv /\ [TrackNext]_trackVars => TrackInv'
<1> SUFFICES ASSUME TrackInv, [TrackNext]_trackVars PROVE TrackInv'
  OBVIOUS
<1>1. DaemonInv /\ StoreTypeOK /\ StoreInv /\ TypeOK /\ SlotMatchesTable
  BY DEF TrackInv, DaemonInv, TypeOK
<1>2. [Next]_vars
  BY DEF TrackNext, trackVars, Next
<1>3. DaemonInv'
  BY <1>1, <1>2, NextInv
<1>4. wanted \in [Edits -> EditStates] /\ NoEditLost
  BY DEF TrackInv
<1>5. CASE UNCHANGED trackVars
  BY <1>3, <1>4, <1>5 DEF TrackInv, trackVars, vars, storeVars, jobs, NoEditLost, IsPending,
     IsExecuting, Covers
<1>6. CASE NextButSubmit /\ wanted' = [x \in Edits |-> Followed(x)]
  <2>1. StoreOp
    BY <1>1, <1>2, NextIsStoreOp
  <2>2. \A x \in Edits :
          /\ Followed(x) \in EditStates
          /\ Followed(x) = "waiting" => \E j \in JobIds : IsPending(j)' /\ Covers(j, x)'
          /\ Followed(x) = "scanning" => \E j \in JobIds : IsExecuting(j)' /\ Covers(j, x)'
    BY <1>1, <1>4, <2>1, FollowedInv
  <2> QED BY <1>3, <1>6, <2>2 DEF TrackInv, NoEditLost
<1>7. ASSUME NEW p \in Projects, NEW f \in Files, NEW prio \in Priorities, Submit(p, f, prio),
             wanted' = [wanted EXCEPT ![<<p, f>>] = IF clock >= projects[p] THEN "waiting" ELSE @]
      PROVE  TrackInv'
  <2>1. submit(p, f, prio)
    BY <1>7 DEF Submit, HandleSubmit
  <2>2. <<p, f>> \in Edits /\ wanted' \in [Edits -> EditStates]
    BY <1>4, <1>7 DEF Edits, EditStates
  <2>3. ASSUME NEW x \in Edits
        PROVE  /\ wanted'[x] = "waiting" => \E j \in JobIds : IsPending(j)' /\ Covers(j, x)'
               /\ wanted'[x] = "scanning" => \E j \in JobIds : IsExecuting(j)' /\ Covers(j, x)'
    <3>1. CASE x = <<p, f>> /\ clock >= projects[p]
      BY <1>1, <1>4, <1>7, <2>1, <2>2, <3>1, SubmitCovers
    <3>2. CASE ~(x = <<p, f>> /\ clock >= projects[p])
      <4>1. wanted'[x] = wanted[x]
        BY <1>4, <1>7, <2>2, <3>2
      <4>2. \A j \in JobIds : status[j] # "absent" => status'[j] = status[j] /\ key'[j] = key[j]
        BY <1>1, <2>1, SubmitCovers
      <4>3. \A j \in JobIds : Covers(j, x) /\ status[j] # "absent" => Covers(j, x)'
        BY <4>2, StillCovers
      <4> QED BY <1>4, <4>1, <4>2, <4>3 DEF NoEditLost, IsPending, IsExecuting, Executing
    <3> QED BY <3>1, <3>2
  <2> QED BY <1>3, <2>2, <2>3 DEF TrackInv, NoEditLost
<1> QED BY <1>5, <1>6, <1>7 DEF TrackNext

(***************************************************************************)
(* No acknowledged edit is lost: whatever is submitted, absorbed, merged,  *)
(* cancelled, interrupted or recovered, an edit that waits for a scan has  *)
(* a pending job that covers it and one that is being scanned an executing *)
(* job.                                                                    *)
(***************************************************************************)
THEOREM EditsCorrect == TrackSpec => []NoEditLost
<1>1. TrackInit => TrackInv
  BY InitInv DEF TrackInit, TrackInv, NoEditLost, EditStates
<1>2. TrackInv => NoEditLost
  BY DEF TrackInv
<1> QED BY <1>1, <1>2, TrackNextInv, PTL DEF TrackSpec
=============================================================================
