----------------------------- MODULE Scheduler ------------------------------
(***************************************************************************)
(* The scheduler thread (remy-cc/src/scheduler.rs), sole owner of the job  *)
(* table while the daemon runs.  It alternates between dispatch, which     *)
(* fills the single worker slot, and recv, which handles one command: a    *)
(* request of the IPC server or a worker event.  Replies are sent before   *)
(* dispatch runs, and a crash may fall between the two.                    *)
(*                                                                         *)
(* The server thread waits for each reply, so at most one request is in    *)
(* the channel at a time; handling it in any order with the queued worker  *)
(* events gives every order of arrival.                                    *)
(***************************************************************************)
EXTENDS JobStore, Sequences

VARIABLES
  sched,        \* the loop: "off", "dispatch", "recv", or "dead" after an error
  active,       \* active_job: the job in the worker slot, or NoJob
  supervisor, reader, cancelFlag, events   \* see module Worker

W == INSTANCE Worker WITH WorkerJobs <- JobIds

schedVars == <<sched, active>>
workerVars == <<supervisor, reader, cancelFlag, events>>

SchedInit ==
  /\ sched = "off"
  /\ active = NoJob
  /\ W!WorkerInit

SchedTypeOK ==
  /\ sched \in {"off", "dispatch", "recv", "dead"}
  /\ active \in JobIds \cup {NoJob}
  /\ W!WorkerTypeOK

-----------------------------------------------------------------------------
(* fn dispatch *)

DispatchBusy ==
  /\ sched = "dispatch"
  /\ active # NoJob
  /\ sched' = "recv"
  /\ UNCHANGED <<storeVars, active, workerVars>>

DispatchNothing ==
  /\ sched = "dispatch"
  /\ active = NoJob
  /\ \A j \in JobIds : ~Claimable(j)
  /\ sched' = "recv"
  /\ UNCHANGED <<storeVars, active, workerVars>>

(* Mutant: dispatch does not look at the slot *)
DispatchJobBesideAnother(j) ==
  /\ sched = "dispatch"
  /\ claim_next_pending(j)
  /\ active' = j
  /\ W!spawn(j)
  /\ sched' = "recv"

DispatchJob(j) ==
  /\ sched = "dispatch"
  /\ active = NoJob
  /\ claim_next_pending(j)
  /\ active' = j
  /\ W!spawn(j)
  /\ sched' = "recv"

-----------------------------------------------------------------------------
(* Requests: the match of fn run.  Every one ends in dispatch. *)

Receives == sched = "recv" /\ sched' = "dispatch"

HandleSubmit(p, f, prio) ==
  /\ Receives
  /\ submit(p, f, prio)
  /\ UNCHANGED <<active, workerVars>>

HandleSubmitFullScan(p) ==
  /\ Receives
  /\ submit_full_scan(p)
  /\ UNCHANGED <<active, workerVars>>

HandlePromote(j, prio) ==
  /\ Receives
  /\ promote(j, prio)
  /\ UNCHANGED <<active, workerVars>>

HandleCancel(j) ==
  /\ Receives
  /\ \/ /\ CancelPending(j)
        /\ UNCHANGED workerVars
     \/ /\ CancelRunning(j)
        /\ cancelFlag' = (active = j \/ cancelFlag)
        /\ UNCHANGED <<supervisor, reader, events>>
  /\ UNCHANGED active

(* Get, List, Status, and every request answered with an error *)
HandleQuery ==
  /\ Receives
  /\ UNCHANGED <<storeVars, active, workerVars>>

-----------------------------------------------------------------------------
(* fn handle_worker *)

HandleProgress ==
  /\ Receives
  /\ events # <<>>
  /\ Head(events).kind = "progress"
  /\ update_progress(Head(events).job, Head(events).stage)
  /\ events' = Tail(events)
  /\ UNCHANGED <<active, supervisor, reader, cancelFlag>>

(* Mutant: confirming a cancel returns before the slot is cleared *)
HandleCompleteKeepsSlot ==
  /\ Receives
  /\ events # <<>>
  /\ Head(events).kind = "complete"
  /\ LET j == Head(events).job IN
       \/ confirm_cancelled(j) /\ UNCHANGED active
       \/ complete(j, Head(events).outcome) /\ active' = NoJob
  /\ events' = Tail(events)
  /\ UNCHANGED <<supervisor, reader, cancelFlag>>

(* Mutant: a Complete event does not lead to another dispatch *)
HandleCompleteWithoutDispatch ==
  /\ sched = "recv" /\ UNCHANGED sched
  /\ events # <<>>
  /\ Head(events).kind = "complete"
  /\ LET j == Head(events).job IN
       /\ confirm_cancelled(j) \/ complete(j, Head(events).outcome)
       /\ active' = IF active = j THEN NoJob ELSE active
  /\ events' = Tail(events)
  /\ UNCHANGED <<supervisor, reader, cancelFlag>>

HandleComplete ==
  /\ Receives
  /\ events # <<>>
  /\ Head(events).kind = "complete"
  /\ LET j == Head(events).job IN
       /\ \/ confirm_cancelled(j)
          \/ complete(j, Head(events).outcome)
          \/ ~IsExecuting(j) /\ UNCHANGED storeVars
       /\ active' = IF active = j THEN NoJob ELSE active
  /\ events' = Tail(events)
  /\ UNCHANGED <<supervisor, reader, cancelFlag>>

(* A state error in dispatch or handle_worker ends the loop: what the      *)
(* failed transaction did is rolled back, active_job and the channel go.   *)
LoopEnds ==
  /\ \/ sched = "dispatch" /\ active = NoJob
     \/ sched = "recv" /\ events # <<>>
  /\ sched' = "dead"
  /\ active' = NoJob
  /\ W!WorkersDie
  /\ UNCHANGED storeVars

-----------------------------------------------------------------------------
LoopStep ==
  \/ DispatchBusy
  \/ DispatchNothing
  \/ \E j \in JobIds : DispatchJob(j)
  \/ HandleProgress
  \/ HandleComplete

(* The process ends: nothing but the table survives *)
ProcessEnds ==
  /\ sched' = "off"
  /\ active' = NoJob
  /\ W!WorkersDie
  /\ UNCHANGED storeVars
=============================================================================
