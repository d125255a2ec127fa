------------------------------- MODULE Worker -------------------------------
(***************************************************************************)
(* Supervision of one scanner process (remy-cc/src/worker.rs).  A          *)
(* supervisor thread validates the job, launches `remy-cc scan`, waits for *)
(* the scan lock and for the exit of the child and always ends by sending  *)
(* one Complete event.  A reader thread of its own parses the child's      *)
(* stdout and reports the acquired scan lock; when its pipe stays open     *)
(* past FINALIZE_TIMEOUT the supervisor goes on without it, and the reader *)
(* may report after the Complete event.  Both threads feed one channel,    *)
(* relayed in order to the scheduler: `events`.                            *)
(*                                                                         *)
(* The contents of the child's output are abstracted to the outcome that   *)
(* `evaluate` derives from them; timeouts are enabled at any moment.       *)
(***************************************************************************)
EXTENDS Integers, Sequences

CONSTANT WorkerJobs   \* ids of the jobs a worker may be spawned for

VARIABLES
  supervisor,   \* the live supervisor thread: its job and its phase
  reader,       \* the stdout reader thread of each job
  cancelFlag,   \* the AtomicBool shared with the current supervisor
  events        \* worker events on their way to the scheduler

workerVars == <<supervisor, reader, cancelFlag, events>>

Outcomes == {"succeeded", "failed"}
Progress(j, stage) == [kind |-> "progress", job |-> j, stage |-> stage]
Complete(j, outcome) == [kind |-> "complete", job |-> j, outcome |-> outcome]

Event == [kind : {"progress"}, job : WorkerJobs, stage : {1, 2}]
           \cup [kind : {"complete"}, job : WorkerJobs, outcome : Outcomes]

NoSupervisor == [phase |-> "none"]
Phases == {"validating", "waiting_for_scan_lock", "scanning"}
ReaderStates == {"off", "reading", "lock_reported"}

Supervised(j) == supervisor.phase # "none" /\ supervisor.job = j

WorkerTypeOK ==
  /\ supervisor \in [phase : Phases, job : WorkerJobs] \cup {NoSupervisor}
  /\ reader \in [WorkerJobs -> ReaderStates]
  /\ cancelFlag \in BOOLEAN
  /\ events \in Seq(Event)

WorkerInit ==
  /\ supervisor = NoSupervisor
  /\ reader = [j \in WorkerJobs |-> "off"]
  /\ cancelFlag = FALSE
  /\ events = <<>>

-----------------------------------------------------------------------------
(* Mutant: the error of a failed spawn is only logged *)
SpawnErrorIgnored(j) ==
  /\ cancelFlag' = FALSE
  /\ UNCHANGED <<reader, events>>
  /\ \/ supervisor' = [phase |-> "validating", job |-> j]
     \/ UNCHANGED supervisor

(* worker::spawn; without the scanner binary or a thread the scheduler     *)
(* reports the failure to itself.                                          *)
spawn(j) ==
  /\ cancelFlag' = FALSE
  /\ UNCHANGED reader
  /\ \/ /\ supervisor' = [phase |-> "validating", job |-> j]
        /\ UNCHANGED events
     \/ /\ events' = Append(events, Complete(j, "failed"))
        /\ UNCHANGED supervisor

(* Mutant: the supervisor thread ends on an early return without a Complete *)
ValidationFailsSilently ==
  /\ supervisor.phase = "validating"
  /\ supervisor' = NoSupervisor
  /\ UNCHANGED <<reader, cancelFlag, events>>

(* Project directory, target database or configuration are not usable *)
ValidationFails ==
  /\ supervisor.phase = "validating"
  /\ events' = Append(events, Complete(supervisor.job, "failed"))
  /\ supervisor' = NoSupervisor
  /\ UNCHANGED <<reader, cancelFlag>>

LaunchFails ==
  /\ supervisor.phase = "validating"
  /\ events' = Append(Append(events, Progress(supervisor.job, 1)),
                      Complete(supervisor.job, "failed"))
  /\ supervisor' = NoSupervisor
  /\ UNCHANGED <<reader, cancelFlag>>

Launch ==
  /\ supervisor.phase = "validating"
  /\ events' = Append(events, Progress(supervisor.job, 1))
  /\ supervisor' = [supervisor EXCEPT !.phase = "waiting_for_scan_lock"]
  /\ reader' = [reader EXCEPT ![supervisor.job] = "reading"]
  /\ UNCHANGED cancelFlag

(* read_stdout: the line that says lock_acquired *)
ReaderReportsLock(j) ==
  /\ reader[j] = "reading"
  /\ reader' = [reader EXCEPT ![j] = IF Supervised(j) THEN "lock_reported" ELSE "off"]
  /\ events' = Append(events, Progress(j, 2))
  /\ UNCHANGED <<supervisor, cancelFlag>>

(* wait_for_lock returns None *)
SupervisorSeesLock ==
  /\ supervisor.phase = "waiting_for_scan_lock"
  /\ reader[supervisor.job] = "lock_reported"
  /\ supervisor' = [supervisor EXCEPT !.phase = "scanning"]
  /\ UNCHANGED <<reader, cancelFlag, events>>

(* Mutant: the supervisor reports a kill for the cancel flag as an outcome *)
SupervisorReportsCancelled ==
  /\ supervisor.phase \in {"waiting_for_scan_lock", "scanning"}
  /\ events' = Append(events, Complete(supervisor.job,
                                       IF cancelFlag THEN "cancelled" ELSE "failed"))
  /\ reader' = [reader EXCEPT ![supervisor.job] = "off"]
  /\ supervisor' = NoSupervisor
  /\ UNCHANGED cancelFlag

(* The child exited, was killed for the cancel flag, or met a deadline and *)
(* was killed; the readers are joined and evaluate decides.  A scanner     *)
(* prints lock_acquired before it can print a successful scan_result.      *)
SupervisorFinishes ==
  /\ supervisor.phase \in {"waiting_for_scan_lock", "scanning"}
  /\ \E outcome \in Outcomes :
       /\ outcome = "succeeded" => reader[supervisor.job] = "lock_reported"
       /\ events' = Append(events, Complete(supervisor.job, outcome))
  /\ reader' = [reader EXCEPT ![supervisor.job] = "off"]
  /\ supervisor' = NoSupervisor
  /\ UNCHANGED cancelFlag

(* join_reader gives up, or a deadline ended the wait without a join; a    *)
(* reader that has reported the lock already has nothing left to send.     *)
SupervisorAbandonsReader ==
  /\ supervisor.phase \in {"waiting_for_scan_lock", "scanning"}
  /\ reader[supervisor.job] = "reading"
  /\ events' = Append(events, Complete(supervisor.job, "failed"))
  /\ supervisor' = NoSupervisor
  /\ UNCHANGED <<reader, cancelFlag>>

AbandonedReaderEnds(j) ==
  /\ reader[j] = "reading"
  /\ ~Supervised(j)
  /\ reader' = [reader EXCEPT ![j] = "off"]
  /\ UNCHANGED <<supervisor, cancelFlag, events>>

SupervisorStep ==
  \/ ValidationFails
  \/ LaunchFails
  \/ Launch
  \/ SupervisorSeesLock
  \/ SupervisorFinishes
  \/ SupervisorAbandonsReader

ReaderStep == \E j \in WorkerJobs : ReaderReportsLock(j) \/ AbandonedReaderEnds(j)

(* The process is gone, and its threads and channels with it; or only the  *)
(* receiver of the channel is, and nothing the threads do is seen again.   *)
WorkersDie ==
  /\ supervisor' = NoSupervisor
  /\ reader' = [j \in WorkerJobs |-> "off"]
  /\ cancelFlag' = FALSE
  /\ events' = <<>>
=============================================================================
