----------------------------- MODULE JobContract ----------------------------
(***************************************************************************)
(* What the daemon promises its clients about jobs, without workers,       *)
(* events, processes or priorities: the life of a job as a client sees it  *)
(* through Get and List.  At most one job executes at a time; a job leaves *)
(* the queue by being started, cancelled or superseded by a queued job; a  *)
(* cancel of an executing job ends in cancelled; a restart puts an         *)
(* interrupted job back in the queue, or leaves it to a queued one.        *)
(***************************************************************************)
CONSTANTS Ids, NoJob

VARIABLES st, by

contractVars == <<st, by>>

Finals == {"succeeded", "failed", "cancelled", "superseded"}
InExecution == {j \in Ids : st[j] \in {"running", "cancel_requested"}}

ContractInit ==
  /\ st = [j \in Ids |-> "absent"]
  /\ by = [j \in Ids |-> NoJob]

Become(j, to) ==
  /\ st' = [st EXCEPT ![j] = to]
  /\ UNCHANGED by

Enqueue(j) == st[j] = "absent" /\ Become(j, "pending")

(* Job k is queued or already was, and answers for the jobs in js *)
Supersede(js, k) ==
  /\ k \notin js
  /\ st[k] \in {"absent", "pending"}
  /\ \A j \in js : st[j] \in {"absent", "pending"}
  /\ st' = [j \in Ids |-> IF j \in js THEN "superseded"
                          ELSE IF j = k THEN "pending" ELSE st[j]]
  /\ by' = [j \in Ids |-> IF j \in js THEN k ELSE by[j]]

Start(j) == st[j] = "pending" /\ InExecution = {} /\ Become(j, "running")

Finish(j) == st[j] = "running" /\ \E to \in {"succeeded", "failed"} : Become(j, to)

RequestCancel(j) == st[j] = "running" /\ Become(j, "cancel_requested")

Cancel(j) == st[j] \in {"pending", "cancel_requested"} /\ Become(j, "cancelled")

Restart ==
  \/ \E j \in Ids : InExecution = {j} /\ st[j] = "running" /\ Become(j, "pending")
  \/ \E j, k \in Ids : /\ InExecution = {j} /\ st[j] = "running" /\ st[k] = "pending"
                       /\ st' = [st EXCEPT ![j] = "superseded"]
                       /\ by' = [by EXCEPT ![j] = k]

ContractNext ==
  \/ \E j \in Ids : Enqueue(j) \/ Start(j) \/ Finish(j) \/ RequestCancel(j) \/ Cancel(j)
  \/ \E js \in SUBSET Ids, k \in Ids : Supersede(js, k)
  \/ Restart

ContractSpec == ContractInit /\ [][ContractNext]_contractVars
=============================================================================
