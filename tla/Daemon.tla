------------------------------- MODULE Daemon -------------------------------
(***************************************************************************)
(* The daemon process around the scheduler (run_foreground in              *)
(* remy-cc/src/main.rs, provider::sync in remy-cc/src/provider.rs and the  *)
(* request handling of remy-cc/src/server.rs): it opens the job table,     *)
(* which recovers the jobs a previous process left executing, publishes    *)
(* the scanner provider, starts the scheduler, hands it one full_scan per  *)
(* project when it has just published, and only then serves requests.  It  *)
(* may be stopped or killed at any moment; table and publication survive.  *)
(***************************************************************************)
EXTENDS Scheduler

CONSTANT MaxRestarts   \* bound: how often the daemon is started

ASSUME DaemonAssumption == MaxRestarts \in Nat

VARIABLES
  phase,       \* run_foreground: "down", "opened", "scheduling", "serving"
  published,   \* published_provider holds the rust row (durable)
  toScan,      \* full_scan_project_ids still to be submitted by main
  due,         \* history: the projects registered when the row was published
  starts       \* how often the daemon was started

daemonVars == <<phase, published, toScan, due, starts>>
vars == <<storeVars, clock, schedVars, workerVars, daemonVars>>

Registered == {p \in Projects : projects[p] # NotRegistered}

Init ==
  /\ StoreInit
  /\ SchedInit
  /\ phase = "down"
  /\ published = FALSE
  /\ toScan = {}
  /\ due = {}
  /\ starts = 0

TypeOK ==
  /\ StoreTypeOK
  /\ SchedTypeOK
  /\ phase \in {"down", "opened", "scheduling", "serving"}
  /\ published \in BOOLEAN
  /\ toScan \subseteq Projects
  /\ due \subseteq Projects
  /\ starts \in 0 .. MaxRestarts

-----------------------------------------------------------------------------
(* run_foreground *)

Open ==
  /\ phase = "down"
  /\ starts < MaxRestarts
  /\ recover
  /\ phase' = "opened"
  /\ starts' = starts + 1
  /\ UNCHANGED <<clock, sched, active, workerVars, published, toScan, due>>

(* provider::sync and scheduler::start *)
SyncProvider(valid) ==
  /\ phase = "opened"
  /\ IF ~published /\ valid
       THEN /\ published' = TRUE
            /\ toScan' = Registered
            /\ due' = Registered
       ELSE UNCHANGED <<published, toScan, due>>
  /\ phase' = "scheduling"
  /\ sched' = "dispatch"
  /\ UNCHANGED <<clock, storeVars, active, workerVars, starts>>

ScheduleFullScan(p) ==
  /\ phase = "scheduling"
  /\ p \in toScan
  /\ HandleSubmitFullScan(p)
  /\ toScan' = toScan \ {p}
  /\ UNCHANGED <<clock, phase, published, due, starts>>

(* The scheduler has ended: the failure is logged and start-up goes on *)
ScheduleFullScanFails(p) ==
  /\ phase = "scheduling"
  /\ p \in toScan
  /\ sched = "dead"
  /\ toScan' = toScan \ {p}
  /\ UNCHANGED <<clock, storeVars, schedVars, workerVars,
                 phase, published, due, starts>>

Serve ==
  /\ phase = "scheduling"
  /\ toScan = {}
  /\ phase' = "serving"
  /\ UNCHANGED <<clock, storeVars, schedVars, workerVars,
                 published, toScan, due, starts>>

-----------------------------------------------------------------------------
(* server::serve: requests of clients *)

Submit(p, f, prio) ==
  /\ phase = "serving"
  /\ HandleSubmit(p, f, prio)
  /\ UNCHANGED <<clock, daemonVars>>

Request ==
  /\ phase = "serving"
  /\ \/ \E j \in JobIds, prio \in Priorities : HandlePromote(j, prio)
     \/ \E j \in JobIds : HandleCancel(j)
     \/ HandleQuery
  /\ UNCHANGED <<clock, daemonVars>>

Exit ==
  /\ ProcessEnds
  /\ phase' = "down"
  /\ toScan' = {}
  /\ UNCHANGED <<clock, published, due, starts>>

(* A stop, a kill or a crash of the process *)
Stop == phase # "down" /\ Exit

(* A request finds the scheduler gone: Corrupt is fatal to the server *)
RequestToDeadScheduler ==
  /\ phase = "serving"
  /\ sched = "dead"
  /\ Exit

Loop == LoopStep /\ UNCHANGED <<clock, daemonVars>>

HandleEvent == (HandleProgress \/ HandleComplete) /\ UNCHANGED <<clock, daemonVars>>

StateError == LoopEnds /\ UNCHANGED <<clock, daemonVars>>

Supervise ==
  /\ W!SupervisorStep
  /\ UNCHANGED <<storeVars, schedVars, clock, daemonVars>>

ReadOutput ==
  /\ W!ReaderStep
  /\ UNCHANGED <<storeVars, schedVars, clock, daemonVars>>

(* The wall clock moves, or is set back; as a bound, only while there are   *)
(* rows left to insert                                                     *)
SetClock(t) ==
  /\ clock # t
  /\ lastId < MaxJobs
  /\ clock' = t
  /\ UNCHANGED <<storeVars, schedVars, workerVars, daemonVars>>

NextButSubmit ==
  \/ Open
  \/ \E valid \in BOOLEAN : SyncProvider(valid)
  \/ \E p \in Projects : ScheduleFullScan(p) \/ ScheduleFullScanFails(p)
  \/ Serve
  \/ Request
  \/ Stop
  \/ RequestToDeadScheduler
  \/ Loop
  \/ StateError
  \/ Supervise
  \/ ReadOutput
  \/ \E t \in Times : SetClock(t)

Next ==
  \/ \E p \in Projects, f \in Files, prio \in Priorities : Submit(p, f, prio)
  \/ NextButSubmit

Spec == Init /\ [][Next]_vars

(***************************************************************************)
(* The scheduler thread runs while it has something to do; the channel is  *)
(* FIFO, so a queued worker event is handled even if requests keep coming; *)
(* every wait of the supervisor has a deadline.  Nobody has to start the   *)
(* daemon, and nothing has to be requested.                                *)
(***************************************************************************)
Fairness ==
  /\ WF_vars(Loop)
  /\ SF_vars(HandleEvent)
  /\ WF_vars(Supervise)


-----------------------------------------------------------------------------
(* Properties *)

Alive == sched \in {"dispatch", "recv"}

(***************************************************************************)
(* Invariant: while the scheduler runs, the job in its slot (active_job)   *)
(* is the one job the table shows as running or cancel_requested.          *)
(***************************************************************************)
SlotMatchesTable ==
  Alive => \A j \in JobIds : IsExecuting(j) <=> active = j

CompleteQueued(j) ==
  \E i \in DOMAIN events : events[i].kind = "complete" /\ events[i].job = j

(***************************************************************************)
(* Invariant: an occupied slot is going to be freed.  Either a supervisor  *)
(* works on the job or its Complete event is queued, never both, so that   *)
(* neither a failed spawn nor an abandoned reader leaks the slot or frees  *)
(* it twice.                                                               *)
(***************************************************************************)
SlotIsReleased ==
  Alive => \A j \in JobIds :
    IF active = j THEN W!Supervised(j) <=> ~CompleteQueued(j)
                  ELSE ~W!Supervised(j) /\ ~CompleteQueued(j)

RowOf(j) == <<status[j], key[j], created[j], priority[j], progress[j],
              j \in started, j \in finished, by[j]>>

(***************************************************************************)
(* Action property: a terminal row is never touched again, whatever late   *)
(* worker event, cancel, promotion, full_scan or recovery comes            *)
(* ("Terminal-state guard" of handle_worker).                              *)
(***************************************************************************)
TerminalIsFinal ==
  [][\A j \in JobIds : IsTerminal(j) => RowOf(j)' = RowOf(j)]_vars

(***************************************************************************)
(* Action property: a cancel that was accepted is not undone.  A job in    *)
(* cancel_requested can only become cancelled, even when the scanner       *)
(* finished first or the daemon died before it could confirm.              *)
(***************************************************************************)
CancelWins ==
  [][\A j \in JobIds : status[j] = "cancel_requested" =>
       status'[j] \in {"cancel_requested", "cancelled"}]_vars

(***************************************************************************)
(* Action property: a job is only superseded by a job that has yet to      *)
(* start.  A scan already under way may have read the file before it       *)
(* changed and must not answer for it.                                     *)
(***************************************************************************)
SupersededByPending ==
  [][\A j \in JobIds :
       status[j] # "superseded" /\ status'[j] = "superseded"
         => \E k \in JobIds : by'[j] = k /\ status'[k] = "pending"]_vars

(***************************************************************************)
(* Refinement: to a client the jobs of the daemon behave as JobContract    *)
(* says, across every crash and restart.                                   *)
(***************************************************************************)
Contract == INSTANCE JobContract WITH Ids <- JobIds, st <- status
ImplementsContract == Contract!ContractSpec

(* A job submitted later goes first: it has a higher priority, or the      *)
(* clock was set back since (claim_next_pending)                           *)
Overtaken(j) == \E k \in JobIds : k > j /\ IsPending(k) /\ ClaimedBefore(k, j)

(***************************************************************************)
(* Liveness: as long as the scheduler runs a pending job is dispatched,    *)
(* cancelled or superseded, or a job submitted later overtakes it.  It has *)
(* to wait for the earlier jobs, of which there are only so many, each of  *)
(* them ends, and the end of each is followed by a dispatch.  Interactive  *)
(* jobs that keep coming may overtake a background one for ever.           *)
(***************************************************************************)
PendingIsServedInTurn ==
  \A j \in JobIds : IsPending(j) ~> (~IsPending(j) \/ ~Alive \/ Overtaken(j))

(***************************************************************************)
(* Liveness: an executing job reaches a terminal state as long as the      *)
(* scheduler runs; in particular the slot does not stay occupied.          *)
(***************************************************************************)
ExecutingEnds ==
  \A j \in JobIds : IsExecuting(j) ~> (IsTerminal(j) \/ ~Alive)

(***************************************************************************)
(* What provider.rs says: "an actual publication schedules one background  *)
(* full_scan per registered project".                                      *)
(***************************************************************************)
PublicationSchedulesFullScans ==
  Alive /\ phase = "serving" =>
    \A p \in due : \E j \in JobIds : key[j] = <<p, FullScan>>
=============================================================================
