--------------------------- MODULE LifecycleProofs --------------------------
(***************************************************************************)
(* The theorems of module Lifecycle, for any clients, daemons and number   *)
(* of commands.  The invariant adds to the properties who holds the lock   *)
(* at each place of a daemon and of a client, what an owner has written so *)
(* far, and that a restart on its way to start has seen the lock free      *)
(* since it met the daemon it is to replace.                               *)
(***************************************************************************)
EXTENDS Lifecycle, TLAPS

LockInv ==
  /\ \A d \in Daemons : daemon[d] \in Owning <=> lock = d
  /\ \A c \in Clients : lock = c => at[c] \in Probes

(* Only owners write the files *)
FilesInv ==
  /\ \A d \in {pid, port, token} \ {NoOne} : daemon[d] \in Owning \cup LetGo
  /\ \A d \in Daemons :
       /\ daemon[d] \in {"pidWritten", "tokenWritten", "serving"} => pid = d
       /\ daemon[d] \in {"tokenWritten", "serving"} => token = d
       /\ daemon[d] = "serving" => port = d

(* Where a restart is once it has seen the lock free *)
Starting == {"start", "spawn", "await", "awaitClock", "readPort", "readToken",
             "started", "start timed out"}

MetInv ==
  \A c \in Clients :
    met[c] \in Daemons =>
      /\ daemon[met[c]] \in Owning \cup LetGo
      /\ at[c] = "stopped" \/ (cmd[c] = "restart" /\ at[c] \in Starting)
           => daemon[met[c]] \in LetGo

LifecycleInv == TypeOK /\ LockInv /\ FilesInv /\ MetInv

(* The invariant holds before any command is entered (Init) *)
LEMMA LifecycleInit == Init => LifecycleInv
BY LifecycleAssumption
   DEF Init, LifecycleInv, TypeOK, LockInv, FilesInv, MetInv, Alive, Contending, LetGo, Owning,
       Results, StartResults, StopResults, Steps, Probes, Commands

(* A step of a daemon, of run_foreground and serve, preserves it *)
LEMMA DaemonPreserves ==
  ASSUME LifecycleInv, NEW d \in Daemons, RunForeground(d) \/ DaemonStep(d) \/ Exit(d)
  PROVE  LifecycleInv'
<1> USE LifecycleAssumption DEF LifecycleInv
<1>1. TypeOK'
  BY DEF TypeOK, RunForeground, DaemonStep, Exit, Acquire, TurnedAway, RemovePort, RemoveToken,
         WritePid, WriteToken, WritePort, HandleLateShutdown, ReleaseLock,
         BecomesIn, files, clientVars,
         Alive, Contending, LetGo, Owning
<1>2. LockInv'
  BY DEF TypeOK, LockInv, RunForeground, DaemonStep, Exit, Acquire, TurnedAway, RemovePort,
         RemoveToken, WritePid, WriteToken, WritePort, HandleLateShutdown, ReleaseLock,
         BecomesIn, files,
         clientVars, Alive, Contending, LetGo, Owning
<1>3. FilesInv'
  BY DEF TypeOK, LockInv, FilesInv, RunForeground, DaemonStep, Exit, Acquire, TurnedAway,
         RemovePort, RemoveToken, WritePid, WriteToken, WritePort, HandleLateShutdown, ReleaseLock,
         BecomesIn,
         files, clientVars, Alive, Contending, LetGo, Owning
<1>4. MetInv'
  BY DEF TypeOK, LockInv, MetInv, RunForeground, DaemonStep, Exit, Acquire, TurnedAway,
         RemovePort, RemoveToken, WritePid, WriteToken, WritePort, HandleLateShutdown, ReleaseLock,
         BecomesIn,
         files, clientVars, Alive, Contending, LetGo, Owning
<1> QED BY <1>1, <1>2, <1>3, <1>4

(* Entering a command preserves it: the client has met nobody yet (main) *)
LEMMA EnterPreserves ==
  ASSUME LifecycleInv, NEW c \in Clients, NEW command \in Commands, Enter(c, command)
  PROVE  LifecycleInv'
<1> USE LifecycleAssumption DEF LifecycleInv, Enter, files
<1>1. TypeOK'
  BY DEF TypeOK, Steps, Probes, Commands
<1>2. LockInv' /\ FilesInv'
  BY DEF TypeOK, LockInv, FilesInv, Results, StartResults, StopResults, Probes, Commands
<1>3. MetInv'
  BY DEF TypeOK, MetInv
<1> QED BY <1>1, <1>2, <1>3

(* The labels a client may go to *)
Places == Steps \cup Results

(***************************************************************************)
(* What Goes and Returns do to a client that is at no probe's lock: it     *)
(* reaches a place, and a restart reaches the places of Starting only from *)
(* one of them or after a probe that found the lock free.                  *)
(***************************************************************************)
LEMMA GoesSomewhere ==
  ASSUME TypeOK, NEW c \in Clients, NEW place \in Places, Goes(c, place)
  PROVE  /\ at' \in [Clients -> Places]
         /\ \A e \in Clients \ {c} : at'[e] = at[e]
         /\ at'[c] \in {place, "restartCheck", "configCheck"}
         /\ place \in Steps => at'[c] = place
         /\ cmd' = cmd /\ commands' = commands
BY DEF TypeOK, Goes, Returns, Places, Steps, Probes, Results, StartResults, StopResults

(* A step of a client that leaves lock, files, daemons and history alone,  *)
(* and starts nothing by itself                                            *)
LEMMA QuietStepPreserves ==
  ASSUME LifecycleInv, NEW c \in Clients, NEW place \in Places, Goes(c, place),
         lock # c, UNCHANGED <<lock, files, daemon, met>>,
         asked' \subseteq Daemons, known' \in [Clients -> Daemons \cup {NoOne}],
         place # "stopped", place \in Starting => at[c] \in Starting
  PROVE  LifecycleInv'
<1> USE LifecycleAssumption, GoesSomewhere DEF LifecycleInv
<1>1. TypeOK'
  BY DEF TypeOK, files, Places
<1>2. LockInv' /\ FilesInv'
  BY DEF TypeOK, LockInv, FilesInv, files
<1>3. MetInv'
  <2> SUFFICES ASSUME NEW e \in Clients, met[e] \in Daemons
               PROVE  /\ daemon[met[e]] \in Owning \cup LetGo
                      /\ at'[e] = "stopped" \/ (cmd[e] = "restart" /\ at'[e] \in Starting)
                           => daemon[met[e]] \in LetGo
    BY DEF MetInv
  <2>1. at'[e] = "stopped" => at[e] = "stopped"
    OBVIOUS
  <2>2. at'[e] \in Starting => at[e] \in Starting
    BY DEF Starting
  <2> QED BY <2>1, <2>2 DEF MetInv
<1> QED BY <1>1, <1>2, <1>3

(* A step of a client that takes one daemon to "spawned" or "stopping" *)
LEMMA DaemonMovedPreserves ==
  ASSUME LifecycleInv, NEW c \in Clients, NEW place \in Steps, Goes(c, place),
         NEW d \in Daemons, NEW to,
         \/ daemon[d] = "unborn" /\ to = "spawned"
         \/ daemon[d] \in Owning /\ to = "stopping",
         daemon' = [daemon EXCEPT ![d] = to],
         lock # c, UNCHANGED <<lock, files, asked, known, met>>,
         place \in Starting => at[c] \in Starting
  PROVE  LifecycleInv'
<1> USE LifecycleAssumption, GoesSomewhere DEF LifecycleInv
<1>0. place \in Places /\ place # "stopped"
  BY DEF Places, Steps, Probes
<1>1. TypeOK'
  BY <1>0 DEF TypeOK, files, Places, Alive, Contending, Owning
<1>2. LockInv'
  BY <1>0 DEF TypeOK, LockInv, files, Owning
<1>3. FilesInv'
  BY <1>0 DEF TypeOK, FilesInv, files, Owning, LetGo
<1>4. MetInv'
  <2> SUFFICES ASSUME NEW e \in Clients, met[e] \in Daemons
               PROVE  /\ daemon'[met[e]] \in Owning \cup LetGo
                      /\ at'[e] = "stopped" \/ (cmd[e] = "restart" /\ at'[e] \in Starting)
                           => daemon'[met[e]] \in LetGo
    BY <1>0 DEF MetInv
  <2>1. at'[e] = "stopped" => at[e] = "stopped"
    BY <1>0
  <2>2. at'[e] \in Starting => at[e] \in Starting
    BY <1>0 DEF Starting
  <2>3. daemon[met[e]] \in LetGo => daemon'[met[e]] \in LetGo
    BY DEF TypeOK, Owning, LetGo
  <2>4. daemon[met[e]] \in Owning \cup LetGo => daemon'[met[e]] \in Owning \cup LetGo
    BY DEF TypeOK, Owning, LetGo
  <2> QED BY <2>1, <2>2, <2>3, <2>4 DEF MetInv
<1> QED BY <1>1, <1>2, <1>3, <1>4

(* is_held preserves it *)
LEMMA ProbePreserves ==
  ASSUME LifecycleInv, NEW c \in Clients, Probe(c)
  PROVE  LifecycleInv'
<1> USE LifecycleAssumption DEF LifecycleInv
<1>1. CASE ProbeHeld(c)
  <2>1. OnHeld(at[c]) \in Places /\ OnHeld(at[c]) # "stopped"
    BY <1>1 DEF ProbeHeld, OnHeld, Probes, Places, Steps, Results, StartResults, StopResults
  <2>2. at[c] # "await" => OnHeld(at[c]) \notin Starting
    BY <1>1 DEF ProbeHeld, OnHeld, Probes, Starting
  <2>3. TypeOK'
    BY <1>1, <2>1, GoesSomewhere DEF ProbeHeld, TypeOK, files, Places
  <2>4. LockInv' /\ FilesInv'
    BY <1>1, <2>1, GoesSomewhere DEF ProbeHeld, TypeOK, LockInv, FilesInv, files
  <2>5. MetInv'
    <3> SUFFICES ASSUME NEW e \in Clients, met'[e] \in Daemons
                 PROVE  /\ daemon[met'[e]] \in Owning \cup LetGo
                        /\ at'[e] = "stopped" \/ (cmd[e] = "restart" /\ at'[e] \in Starting)
                             => daemon[met'[e]] \in LetGo
      BY <1>1, <2>1, GoesSomewhere DEF MetInv, ProbeHeld
    <3>1. CASE e # c \/ at[c] \notin {"stop", "restart"}
      <4>1. met'[e] = met[e]
        BY <1>1, <3>1 DEF ProbeHeld, TypeOK
      <4>2. at'[e] = "stopped" => at[e] = "stopped"
        BY <1>1, <2>1, GoesSomewhere DEF ProbeHeld
      <4>3. at'[e] \in Starting => at[e] \in Starting
        BY <1>1, <2>1, <2>2, GoesSomewhere DEF ProbeHeld, Starting
      <4> QED BY <4>1, <4>2, <4>3 DEF MetInv
    <3>2. CASE e = c /\ at[c] \in {"stop", "restart"}
      <4>1. met'[e] = lock /\ daemon[lock] \in Owning
        BY <1>1, <3>2 DEF ProbeHeld, TypeOK, LockInv
      <4>2. at'[e] \notin Starting \cup {"stopped"}
        BY <1>1, <2>1, <2>2, <3>2, GoesSomewhere DEF ProbeHeld, Starting
      <4> QED BY <4>1, <4>2
    <3> QED BY <3>1, <3>2
  <2> QED BY <2>3, <2>4, <2>5
<1>2. CASE ProbeLocks(c)
  BY <1>2 DEF ProbeLocks, TypeOK, LockInv, FilesInv, MetInv, files, clientVars
<1>3. CASE ProbeUnlocks(c)
  <2>1. at[c] \in Probes
    BY <1>3 DEF ProbeUnlocks, LockInv
  <2>2. OnFree(at[c]) \in Places
    BY <2>1 DEF OnFree, Probes, Places, Steps, Results, StartResults, StopResults
  <2>3. TypeOK'
    BY <1>3, <2>2, GoesSomewhere DEF ProbeUnlocks, TypeOK, files, Places
  <2>4. LockInv' /\ FilesInv'
    BY <1>3, <2>2, GoesSomewhere DEF ProbeUnlocks, TypeOK, LockInv, FilesInv, files
  <2>5. MetInv'
    BY <1>3, <2>2, GoesSomewhere DEF ProbeUnlocks, TypeOK, LockInv, MetInv, files
  <2> QED BY <2>3, <2>4, <2>5
<1> QED BY <1>1, <1>2, <1>3 DEF Probe

(* Every other step of a client preserves it *)
LEMMA ClientPreserves ==
  ASSUME LifecycleInv, NEW c \in Clients, ClientStep(c)
  PROVE  LifecycleInv'
<1> USE DEF LifecycleInv
<1>0. at[c] \notin Probes => lock # c
  BY DEF LockInv
<1>1. CASE Probe(c)
  BY <1>1, ProbePreserves
<1>2. CASE \E d \in Daemons : Spawn(c, d)
  BY <1>2, <1>0, DaemonMovedPreserves DEF Spawn, Steps, Probes, Starting
<1>3. ASSUME NEW place, NEW next \in Places, Reads(c, place, next), place \notin Probes,
             known' \in [Clients -> Daemons \cup {NoOne}],
             next # "stopped", next \in Starting => place \in Starting
      PROVE  LifecycleInv'
  BY <1>3, <1>0, QuietStepPreserves DEF Reads, TypeOK, files
<1>4. CASE SpawnFails(c) \/ StartTimesOut(c) \/ StopPolls(c) \/ StopTimesOut(c)
  BY <1>4, <1>3 DEF SpawnFails, StartTimesOut, StopPolls, StopTimesOut, TypeOK, Places, Steps,
                    Probes, Results, StartResults, StopResults, Starting
<1>5. CASE AwaitEndpoints(c)
  BY <1>5, <1>3 DEF AwaitEndpoints, TypeOK, Places, Steps, Probes, Results, StartResults, Starting
<1>6. CASE ReadToken(c)
  <2>1. known' \in [Clients -> Daemons \cup {NoOne}]
    BY <1>6 DEF ReadToken, TypeOK
  <2> QED BY <1>6, <1>3, <2>1 DEF ReadToken, Places, Steps, Probes, Starting
<1>7. CASE Ask(c)
  BY <1>7, <1>3 DEF Ask, TypeOK, Places, Probes, Results, Starting
<1>8. CASE ShutdownAcknowledged(c)
  <2>1. port \in Daemons /\ daemon[port] \in Owning
    BY <1>8 DEF ShutdownAcknowledged, Reachable, TypeOK, Owning
  <2>2. PICK d \in Daemons : d = port
    BY <2>1
  <2>3. /\ Goes(c, "stopWait")
        /\ daemon' = [daemon EXCEPT ![d] = "stopping"]
        /\ UNCHANGED <<lock, files, asked, known, met>>
    BY <1>8, <2>2 DEF ShutdownAcknowledged
  <2>4. lock # c /\ "stopWait" \in Steps /\ "stopWait" \notin Starting
    BY <1>8, <1>0 DEF ShutdownAcknowledged, Steps, Probes, Starting
  <2> QED BY <2>1, <2>2, <2>3, <2>4, DaemonMovedPreserves
<1>9. CASE ShutdownUnanswered(c)
  <2>1. asked' \subseteq Daemons
    BY <1>9 DEF ShutdownUnanswered, Reachable, TypeOK
  <2> QED BY <1>9, <1>0, <2>1, QuietStepPreserves
             DEF ShutdownUnanswered, TypeOK, Places, Steps, Probes, Starting
<1>10. CASE PidUnreadable(c)
  BY <1>10, <1>3 DEF PidUnreadable, TypeOK, Places, Probes, Results, StopResults, Starting
<1>11. CASE Terminate(c)
  <2>1. pid \in Daemons /\ daemon[pid] \in Owning
    BY <1>11 DEF Terminate, TypeOK, FilesInv, Alive, Contending, LetGo, Owning
  <2>2. PICK d \in Daemons : d = pid
    BY <2>1
  <2>3. /\ Goes(c, "stopWait")
        /\ daemon' = [daemon EXCEPT ![d] = "stopping"]
        /\ UNCHANGED <<lock, files, asked, known, met>>
    BY <1>11, <2>2 DEF Terminate
  <2>4. lock # c /\ "stopWait" \in Steps /\ "stopWait" \notin Starting
    BY <1>11, <1>0 DEF Terminate, Steps, Probes, Starting
  <2> QED BY <2>1, <2>2, <2>3, <2>4, DaemonMovedPreserves
<1>12. CASE TerminateStale(c)
  BY <1>12, <1>3 DEF TerminateStale, TypeOK, Places, Steps, Probes, Results, StopResults, Starting
<1> QED
  BY <1>1, <1>2, <1>4, <1>5, <1>6, <1>7, <1>8, <1>9, <1>10, <1>11, <1>12 DEF ClientStep

-----------------------------------------------------------------------------
(* The invariant holds in every reachable state, whatever commands run     *)
(* side by side and whenever daemons end (main.rs, single_instance.rs)     *)
THEOREM LifecycleInvariance == Spec => []LifecycleInv
<1>1. LifecycleInv /\ [Next]_vars => LifecycleInv'
  <2>1. ASSUME LifecycleInv, Next PROVE LifecycleInv'
    BY <2>1, DaemonPreserves, ClientPreserves, EnterPreserves DEF Next
  <2>2. ASSUME LifecycleInv, UNCHANGED vars PROVE LifecycleInv'
    BY <2>2 DEF LifecycleInv, TypeOK, LockInv, FilesInv, MetInv, vars, files, clientVars
  <2> QED BY <2>1, <2>2
<1> QED BY <1>1, LifecycleInit, PTL DEF Spec

(* Lock, files, daemons and clients keep their types *)
THEOREM LifecycleTypeCorrect == Spec => []TypeOK
BY LifecycleInvariance, PTL DEF LifecycleInv

(* Pid, port and token lead to the daemon that owns the lock, or to one    *)
(* that has let it go for good, and a serving daemon can be found          *)
(* (clean_stale_endpoints, write_pid, serve)                               *)
THEOREM FilesCorrect == Spec => []FilesLeadToOwner
<1>1. LifecycleInv => FilesLeadToOwner
  BY DEF LifecycleInv, TypeOK, LockInv, FilesInv, FilesLeadToOwner, Contending, LetGo, Owning
<1> QED BY <1>1, LifecycleInvariance, PTL

(* When a stop says stopped, or a restart says started, the daemon it met  *)
(* has let go of the lock for good, though its process and its scanner may *)
(* not have ended (stop, restart)                                          *)
THEOREM StopCorrect == Spec => []StoppedDaemonLetGo
<1>1. LifecycleInv => StoppedDaemonLetGo
  BY DEF LifecycleInv, MetInv, StoppedDaemonLetGo, Starting
<1> QED BY <1>1, LifecycleInvariance, PTL
=============================================================================
