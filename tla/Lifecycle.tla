------------------------------ MODULE Lifecycle -----------------------------
(***************************************************************************)
(* The command line against the daemon process: start, stop, restart,      *)
(* status and config, each a client process, and the daemons they spawn.   *)
(* They share the instance lock and three files under ~/.remy-cc/run: the  *)
(* pid, the port and the token of the daemon that wrote them.  A process   *)
(* is identified with its pid, a port and a token with their daemon.       *)
(*                                                                         *)
(* Nobody removes the files when a daemon ends, and the probe of the lock  *)
(* takes it for a moment.                                                  *)
(***************************************************************************)
EXTENDS Naturals

CONSTANTS
  Clients,
  Daemons,      \* the daemon processes that may be spawned
  NoOne,
  MaxCommands   \* bound: how many commands are entered

ASSUME LifecycleAssumption ==
  /\ Clients \cap Daemons = {}
  /\ NoOne \notin Clients \cup Daemons
  /\ MaxCommands \in Nat

VARIABLES
  lock,              \* daemon.lock
  pid, port, token,  \* daemon.pid, daemon.port, daemon.token
  daemon,            \* where each daemon is in run_foreground
  asked,             \* daemons with a Shutdown request nobody waits for any more
  cmd,               \* the command of each client
  at,                \* where each client is, or the result of its command
  known,             \* the token it read
  met,               \* history: whom a stop or a restart found holding the lock
  commands

files == <<pid, port, token>>
clientVars == <<cmd, at, known, met, commands>>
vars == <<lock, files, daemon, asked, clientVars>>

Commands == {"start", "stop", "restart", "status", "config"}
StartResults == {"already running", "started", "start timed out"}
StopResults == {"not running", "stopped", "pid unreadable", "not terminated", "still held"}
Results == StartResults \cup StopResults
             \cup {"idle", "spawn failed", "aborted", "not up", "answered", "unresponsive"}

(* The calls of is_held: where the client goes from each when the lock is  *)
(* free, and when it is held                                               *)
Probes == {"start", "await", "stop", "stopWait", "restart", "restartCheck",
           "status", "config", "configCheck"}

OnFree(probe) ==
  CASE probe \in {"restart", "restartCheck", "config"} -> "start"
    [] probe = "start" -> "spawn"
    [] probe = "await" -> "awaitClock"
    [] probe = "stop" -> "not running"
    [] probe = "stopWait" -> "stopped"
    [] probe \in {"status", "configCheck"} -> "not up"

OnHeld(probe) ==
  CASE probe \in {"status", "config", "configCheck"} -> "ask"
    [] probe = "start" -> "already running"
    [] probe = "await" -> "readPort"
    [] probe = "stop" -> "stopToken"
    [] probe = "stopWait" -> "stopClock"
    [] probe = "restart" -> "stop"
    [] probe = "restartCheck" -> "aborted"

Steps == Probes \cup {"spawn", "awaitClock", "readPort", "readToken", "stopToken", "stopPort",
                      "stopPid", "stopClock", "ask", "askPort"}

(* A daemon between the acquisition of the lock and the drop of its guard, *)
(* one that owns the lock or has yet to try, one that has lost it for good *)
Owning == {"acquired", "portRemoved", "cleaned", "pidWritten", "tokenWritten", "serving", "stopping"}
Contending == Owning \cup {"spawned"}
LetGo == {"released", "gone"}
Alive == Contending \cup {"released"}

Init ==
  /\ lock = NoOne
  /\ pid = NoOne /\ port = NoOne /\ token = NoOne
  /\ daemon = [d \in Daemons |-> "unborn"]
  /\ asked = {}
  /\ cmd = [c \in Clients |-> "status"]
  /\ at = [c \in Clients |-> "idle"]
  /\ known = [c \in Clients |-> NoOne]
  /\ met = [c \in Clients |-> NoOne]
  /\ commands = 0

-----------------------------------------------------------------------------
(* The daemon: run_foreground and serve *)

BecomesIn(d, from, to) ==
  /\ daemon[d] = from
  /\ daemon' = [daemon EXCEPT ![d] = to]
  /\ UNCHANGED <<asked, clientVars>>

(* start --foreground, entered by hand *)
RunForeground(d) == BecomesIn(d, "unborn", "spawned") /\ UNCHANGED <<lock, files>>

(* Mutant: the daemon starts although the lock is held *)
AcquireAnyway(d) ==
  /\ lock' = d
  /\ BecomesIn(d, "spawned", "acquired")
  /\ UNCHANGED files

Acquire(d) ==
  /\ lock = NoOne
  /\ lock' = d
  /\ BecomesIn(d, "spawned", "acquired")
  /\ UNCHANGED files

TurnedAway(d) ==
  /\ lock # NoOne
  /\ BecomesIn(d, "spawned", "gone")
  /\ UNCHANGED <<lock, files>>

RemovePort(d) ==
  /\ BecomesIn(d, "acquired", "portRemoved")
  /\ port' = NoOne
  /\ UNCHANGED <<lock, pid, token>>

RemoveToken(d) ==
  /\ BecomesIn(d, "portRemoved", "cleaned")
  /\ token' = NoOne
  /\ UNCHANGED <<lock, pid, port>>

WritePid(d) ==
  /\ BecomesIn(d, "cleaned", "pidWritten")
  /\ pid' = d
  /\ UNCHANGED <<lock, port, token>>

WriteToken(d) ==
  /\ BecomesIn(d, "pidWritten", "tokenWritten")
  /\ token' = d
  /\ UNCHANGED <<lock, pid, port>>

WritePort(d) ==
  /\ BecomesIn(d, "tokenWritten", "serving")
  /\ port' = d
  /\ UNCHANGED <<lock, pid, token>>

(* The request of a client that gave up waiting is read all the same *)
HandleLateShutdown(d) ==
  /\ d \in asked
  /\ BecomesIn(d, "serving", "stopping")
  /\ UNCHANGED <<lock, files>>

(* run_foreground returns, from serve or with an error of any step: the    *)
(* guard is dropped while the process, and the thread of its scheduler,    *)
(* still run                                                               *)
ReleaseLock(d) ==
  /\ daemon[d] \in Owning
  /\ BecomesIn(d, daemon[d], "released")
  /\ lock' = NoOne
  /\ UNCHANGED files

(* The end of the process, also by a crash or a kill: the operating system *)
(* releases the lock.  A scanner it had started is a process of its own,   *)
(* which may go on; see module ScanIndex                                   *)
Exit(d) ==
  /\ daemon[d] \in Alive
  /\ BecomesIn(d, daemon[d], "gone")
  /\ lock' = IF lock = d THEN NoOne ELSE lock
  /\ UNCHANGED files

DaemonStep(d) ==
  \/ Acquire(d) \/ TurnedAway(d) \/ RemovePort(d) \/ RemoveToken(d)
  \/ WritePid(d) \/ WriteToken(d) \/ WritePort(d) \/ HandleLateShutdown(d)
  \/ ReleaseLock(d)

-----------------------------------------------------------------------------
(* The clients *)

(* restart goes on after stop, config after start; else the command ends *)
Returns(c, result) ==
  IF cmd[c] = "restart" /\ result \in StopResults THEN "restartCheck"
  ELSE IF cmd[c] = "config" /\ result \in StartResults THEN "configCheck"
  ELSE result

Goes(c, place) ==
  /\ at' = [at EXCEPT ![c] = Returns(c, place)]
  /\ UNCHANGED <<cmd, commands>>

Enter(c, command) ==
  /\ at[c] \in Results
  /\ commands < MaxCommands
  /\ commands' = commands + 1
  /\ cmd' = [cmd EXCEPT ![c] = command]
  /\ at' = [at EXCEPT ![c] = command]
  /\ met' = [met EXCEPT ![c] = NoOne]
  /\ UNCHANGED <<lock, files, daemon, asked, known>>

(* is_held: try_lock fails *)
ProbeHeld(c) ==
  /\ at[c] \in Probes
  /\ lock \notin {NoOne, c}
  /\ met' = IF at[c] \in {"stop", "restart"} THEN [met EXCEPT ![c] = lock] ELSE met
  /\ Goes(c, OnHeld(at[c]))
  /\ UNCHANGED <<lock, files, daemon, asked, known>>

(* is_held: try_lock succeeds *)
ProbeLocks(c) ==
  /\ at[c] \in Probes
  /\ lock = NoOne
  /\ lock' = c
  /\ UNCHANGED <<files, daemon, asked, clientVars>>

(* is_held: the guard is dropped *)
ProbeUnlocks(c) ==
  /\ lock = c
  /\ lock' = NoOne
  /\ Goes(c, OnFree(at[c]))
  /\ UNCHANGED <<files, daemon, asked, known, met>>

Probe(c) == ProbeHeld(c) \/ ProbeLocks(c) \/ ProbeUnlocks(c)

(* start_detached *)

(* Mutant: the command writes its own pid instead of that of the daemon *)
SpawnWritesOwnPid(c, d) ==
  /\ at[c] = "spawn"
  /\ daemon[d] = "unborn"
  /\ daemon' = [daemon EXCEPT ![d] = "spawned"]
  /\ pid' = c
  /\ Goes(c, "await")
  /\ UNCHANGED <<lock, port, token, asked, known, met>>

Spawn(c, d) ==
  /\ at[c] = "spawn"
  /\ daemon[d] = "unborn"
  /\ daemon' = [daemon EXCEPT ![d] = "spawned"]
  /\ Goes(c, "await")
  /\ UNCHANGED <<lock, files, asked, known, met>>

Reads(c, place, next) ==
  /\ at[c] = place
  /\ Goes(c, next)
  /\ UNCHANGED <<lock, files, daemon, asked, met>>

SpawnFails(c) == Reads(c, "spawn", "spawn failed") /\ UNCHANGED known

AwaitEndpoints(c) ==
  /\ \/ Reads(c, "readPort", IF port = NoOne THEN "awaitClock" ELSE "readToken")
     \/ Reads(c, "readToken", IF token = NoOne THEN "awaitClock" ELSE "started")
     \/ Reads(c, "awaitClock", "await")
  /\ UNCHANGED known

StartTimesOut(c) == Reads(c, "awaitClock", "start timed out") /\ UNCHANGED known

(* stop *)

ReadToken(c) ==
  /\ Reads(c, "stopToken", "stopPort") \/ Reads(c, "ask", "askPort")
  /\ known' = [known EXCEPT ![c] = token]

(* ipc_roundtrip reaches a daemon that accepts the token *)
Reachable(c) == port # NoOne /\ daemon[port] = "serving" /\ known[c] = port

(* Mutant: stop trusts the acknowledgement *)
ShutdownAcknowledgedIsStopped(c) ==
  /\ at[c] = "stopPort"
  /\ Reachable(c)
  /\ daemon' = [daemon EXCEPT ![port] = "stopping"]
  /\ Goes(c, "stopped")
  /\ UNCHANGED <<lock, files, asked, known, met>>

ShutdownAcknowledged(c) ==
  /\ at[c] = "stopPort"
  /\ Reachable(c)
  /\ daemon' = [daemon EXCEPT ![port] = "stopping"]
  /\ Goes(c, "stopWait")
  /\ UNCHANGED <<lock, files, asked, known, met>>

(* No port, no connection, a wrong token, or no answer in time *)
ShutdownUnanswered(c) ==
  /\ at[c] = "stopPort"
  /\ asked' = IF Reachable(c) THEN asked \cup {port} ELSE asked
  /\ Goes(c, "stopPid")
  /\ UNCHANGED <<lock, files, daemon, known, met>>

PidUnreadable(c) ==
  /\ pid = NoOne
  /\ Reads(c, "stopPid", "pid unreadable") /\ UNCHANGED known

(* kill returns before the process has ended *)
Terminate(c) ==
  /\ at[c] = "stopPid"
  /\ pid # NoOne
  /\ daemon[pid] \in Contending
  /\ daemon' = [daemon EXCEPT ![pid] = "stopping"]
  /\ Goes(c, "stopWait")
  /\ UNCHANGED <<lock, files, asked, known, met>>

(* kill finds a process on its last steps, none, or one that got the       *)
(* number since then                                                       *)
TerminateStale(c) ==
  /\ pid # NoOne
  /\ \/ daemon[pid] \in LetGo /\ Reads(c, "stopPid", "stopWait")
     \/ daemon[pid] = "gone" /\ Reads(c, "stopPid", "not terminated")
  /\ UNCHANGED known

StopPolls(c) == Reads(c, "stopClock", "stopWait") /\ UNCHANGED known
StopTimesOut(c) == Reads(c, "stopClock", "still held") /\ UNCHANGED known

(* status and config *)

Ask(c) ==
  /\ \/ Reads(c, "askPort", "answered") /\ Reachable(c)
     \/ Reads(c, "askPort", "unresponsive")
  /\ UNCHANGED known

ClientStep(c) ==
  \/ Probe(c)
  \/ \E d \in Daemons : Spawn(c, d)
  \/ SpawnFails(c)
  \/ AwaitEndpoints(c) \/ StartTimesOut(c)
  \/ ReadToken(c) \/ Ask(c)
  \/ ShutdownAcknowledged(c) \/ ShutdownUnanswered(c)
  \/ PidUnreadable(c) \/ Terminate(c) \/ TerminateStale(c)
  \/ StopPolls(c) \/ StopTimesOut(c)

Next ==
  \/ \E d \in Daemons : RunForeground(d) \/ DaemonStep(d) \/ Exit(d)
  \/ \E c \in Clients : ClientStep(c) \/ \E command \in Commands : Enter(c, command)

Spec == Init /\ [][Next]_vars

-----------------------------------------------------------------------------
TypeOK ==
  /\ lock \in Clients \cup Daemons \cup {NoOne}
  /\ pid \in Daemons \cup {NoOne}
  /\ port \in Daemons \cup {NoOne}
  /\ token \in Daemons \cup {NoOne}
  /\ daemon \in [Daemons -> Alive \cup {"unborn", "gone"}]
  /\ asked \subseteq Daemons
  /\ cmd \in [Clients -> Commands]
  /\ at \in [Clients -> Steps \cup Results]
  /\ known \in [Clients -> Daemons \cup {NoOne}]
  /\ met \in [Clients -> Clients \cup Daemons \cup {NoOne}]
  /\ commands \in 0..MaxCommands

(***************************************************************************)
(* Invariant: the files lead to the daemon that owns the lock.  A process  *)
(* that stop would terminate by its pid, and a daemon that a client would  *)
(* reach through port and token, owns the lock unless it has already let   *)
(* it go for good; and a serving daemon can be found by all three          *)
(* (run_foreground, serve, clean_stale_endpoints).                         *)
(***************************************************************************)
FilesLeadToOwner ==
  /\ \A d \in {pid, port, token} \ {NoOne} : daemon[d] \in Contending => lock = d
  /\ \A d \in Daemons : daemon[d] = "serving" => pid = d /\ port = d /\ token = d

(***************************************************************************)
(* Invariant: when stop says stopped, and when restart says started, the   *)
(* very daemon that it found holding the lock has let it go for good, and  *)
(* is not merely on its way out, whoever holds the lock by then.  The end  *)
(* of its process and of its scanner are not waited for (stop, restart).   *)
(***************************************************************************)
StoppedDaemonLetGo ==
  \A c \in Clients :
    (at[c] = "stopped" \/ (cmd[c] = "restart" /\ at[c] = "started")) /\ met[c] \in Daemons
      => daemon[met[c]] \in LetGo

(***************************************************************************)
(* A daemon is not turned away by the client that spawned it and waits for *)
(* it: "a running daemon is stopped first; a stopped one simply starts"    *)
(* (restart, start_detached).                                              *)
(***************************************************************************)
AwaitedDaemonIsLetIn ==
  [][\A d \in Daemons, c \in Clients :
       TurnedAway(d) => ~(lock = c /\ at[c] = "await")]_vars
=============================================================================
