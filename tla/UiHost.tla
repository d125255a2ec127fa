------------------------------- MODULE UiHost -------------------------------
(***************************************************************************)
(* The host of the managed config UI (remy-cc/src/ui_host.rs): one slot of *)
(* the daemon holds the child process that serves the UI.  A child has to  *)
(* report its port and token on stdout before it is put in the slot; one   *)
(* that does not is killed and reaped before the open request is answered. *)
(* The daemon keeps the write end of the child's stdin: a child that sees  *)
(* it closed is expected to exit, in its own time.                         *)
(***************************************************************************)
EXTENDS Integers, FiniteSets

CONSTANTS
  Modes,        \* the mode and target of an open request
  MaxChildren   \* bound: how many children a behaviour may spawn

VARIABLES
  slot,       \* the child in UiHost.instance, 0 when it is None
  spawning,   \* the child whose report `spawn` waits for, 0 when there is none
  child       \* every child process ever spawned

uiVars == <<slot, spawning, child>>

Children == 1 .. MaxChildren
NoChild == [state |-> "none"]
Spawned(m, gen) == [state |-> "running", mode |-> m, daemon |-> gen]

Running(c) == child[c].state = "running"

UiInit ==
  /\ slot = 0
  /\ spawning = 0
  /\ child = [c \in Children |-> NoChild]

UiTypeOK(generations) ==
  /\ slot \in 0 .. MaxChildren
  /\ spawning \in 0 .. MaxChildren
  /\ child \in [Children -> {NoChild} \cup
                [state : {"running", "exited"}, mode : Modes, daemon : generations]]

(* UiHost::reap_exited, called by open and status *)
Reaped == IF slot # 0 /\ ~Running(slot) THEN 0 ELSE slot

Exited(c) == child' = [child EXCEPT ![c].state = "exited"]

(* UiHost::open *)
OpenReady(m) ==
  /\ Reaped # 0 /\ child[slot].mode = m
  /\ UNCHANGED uiVars

OpenConflict(m) ==
  /\ Reaped # 0 /\ child[slot].mode # m
  /\ UNCHANGED uiVars

(* No interpreter, no deployed script, or the process cannot be created *)
OpenRefused(m) ==
  /\ Reaped = 0
  /\ slot' = 0
  /\ UNCHANGED <<spawning, child>>

OpenSpawns(m, gen) ==
  /\ Reaped = 0
  /\ slot' = 0
  /\ \E c \in Children :
       /\ child[c] = NoChild /\ \A d \in Children : child[d] = NoChild => c <= d
       /\ spawning' = c
       /\ child' = [child EXCEPT ![c] = Spawned(m, gen)]

(* The report line is well formed: the instance is put in the slot *)
ReportAccepted ==
  /\ spawning # 0
  /\ slot' = spawning
  /\ spawning' = 0
  /\ UNCHANGED child

(* Mutant: a child whose report is refused is left to itself *)
ReportRefusedUnkilled ==
  /\ spawning # 0
  /\ spawning' = 0
  /\ UNCHANGED <<slot, child>>

(* No report within the timeout, end of file, invalid JSON, other keys or  *)
(* types, a port or pid out of range, an empty token: kill and wait.       *)
ReportRefused ==
  /\ spawning # 0
  /\ Exited(spawning)
  /\ spawning' = 0
  /\ UNCHANGED slot

(* A child ends by itself; the daemon does not notice before it reaps *)
ChildExits ==
  /\ \E c \in Children : Running(c) /\ Exited(c)
  /\ UNCHANGED <<slot, spawning>>

(* UiHost::shutdown, and the end of the process: the write end of stdin is *)
(* closed, and a child that has not exited after 5 s is left behind.       *)
UiHostEnds ==
  /\ slot' = 0
  /\ spawning' = 0
  /\ UNCHANGED child

=============================================================================
