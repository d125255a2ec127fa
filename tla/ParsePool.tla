------------------------------ MODULE ParsePool -----------------------------
(***************************************************************************)
(* The parse workers of one scan and the thread that writes their results  *)
(* (remy-cc/scanner-core/src/scan.rs: spawn_parse_pool, join_pool and the  *)
(* receiving loops of scan_full and scan_files).  Workers take files from  *)
(* a shared queue and send outcomes over a bounded channel; the writer     *)
(* drains it until every sender is gone, joins the workers and commits.    *)
(***************************************************************************)
EXTENDS Integers, FiniteSets

CONSTANTS
  Batch,      \* the files to parse
  Workers,    \* jobs.max(1) threads
  NoFile

ASSUME PoolAssumption ==
  /\ IsFiniteSet(Batch)
  /\ IsFiniteSet(Workers) /\ Workers # {}
  /\ NoFile \notin Batch

Capacity == 2 * Cardinality(Workers)

VARIABLES
  queue,     \* files nobody has taken
  stage, task,  \* of each worker
  channel,   \* outcomes in flight, with their senders
  received,  \* how often the outcome of a file reached the writer
  writer

poolVars == <<queue, stage, task, channel, received, writer>>

Ended == {"done", "panicked"}
ReceiverAlive == writer = "receiving"

-----------------------------------------------------------------------------
PoolInit ==
  /\ queue = Batch
  /\ stage = [w \in Workers |-> "idle"]
  /\ task = [w \in Workers |-> NoFile]
  /\ channel = {}
  /\ received = [f \in Batch |-> 0]
  /\ writer = "receiving"

(* The queue is locked for the pop only; the order of the files is that of *)
(* the directory walk, here any.                                           *)
Take(w) ==
  /\ stage[w] = "idle"
  /\ \E f \in queue : /\ task' = [task EXCEPT ![w] = f]
                      /\ queue' = queue \ {f}
  /\ stage' = [stage EXCEPT ![w] = "parsing"]
  /\ UNCHANGED <<channel, received, writer>>

NoMoreFiles(w) ==
  /\ stage[w] = "idle"
  /\ queue = {}
  /\ stage' = [stage EXCEPT ![w] = "done"]
  /\ UNCHANGED <<queue, task, channel, received, writer>>

(* parse_one returns, facts or a failure *)
Parsed(w) ==
  /\ stage[w] = "parsing"
  /\ stage' = [stage EXCEPT ![w] = "sending"]
  /\ UNCHANGED <<queue, task, channel, received, writer>>

(* or panics, outside the lock of the queue *)
Panics(w) ==
  /\ stage[w] = "parsing"
  /\ stage' = [stage EXCEPT ![w] = "panicked"]
  /\ UNCHANGED <<queue, task, channel, received, writer>>

Send(w) ==
  /\ stage[w] = "sending"
  /\ ReceiverAlive
  /\ Cardinality(channel) < Capacity
  /\ channel' = channel \cup {<<task[w], w>>}
  /\ task' = [task EXCEPT ![w] = NoFile]
  /\ stage' = [stage EXCEPT ![w] = "idle"]
  /\ UNCHANGED <<queue, received, writer>>

(* Mutant: a worker keeps waiting for room when the receiver is gone *)
SendNeverFails(w) == FALSE

SendFails(w) ==
  /\ stage[w] = "sending"
  /\ ~ReceiverAlive
  /\ stage' = [stage EXCEPT ![w] = "done"]
  /\ UNCHANGED <<queue, task, channel, received, writer>>

-----------------------------------------------------------------------------
(* The writer *)

Receive ==
  /\ writer = "receiving"
  /\ \E m \in channel : /\ channel' = channel \ {m}
                        /\ received' = [received EXCEPT ![m[1]] = @ + 1]
  /\ UNCHANGED <<queue, stage, task, writer>>

(* A statement of the transaction fails: the receiver is dropped and the   *)
(* workers are not joined.                                                 *)
WriteFails ==
  /\ writer = "receiving"
  /\ writer' = "failed"
  /\ channel' = {}
  /\ UNCHANGED <<queue, stage, task, received>>

(* The last sender is gone *)
Disconnected ==
  /\ writer = "receiving"
  /\ channel = {}
  /\ \A w \in Workers : stage[w] \in Ended
  /\ writer' = "joining"
  /\ UNCHANGED <<queue, stage, task, channel, received>>

(* Mutant: a worker that panicked is joined like any other *)
JoinIgnoringPanics ==
  /\ writer = "joining"
  /\ writer' = "finishing"
  /\ UNCHANGED <<queue, stage, task, channel, received>>

(* join_pool *)
Join ==
  /\ writer = "joining"
  /\ writer' = IF \E w \in Workers : stage[w] = "panicked" THEN "failed" ELSE "finishing"
  /\ UNCHANGED <<queue, stage, task, channel, received>>

(* Sweep, postprocessing, meta rows and the commit *)
Finish ==
  /\ writer = "finishing"
  /\ writer' \in {"committed", "failed"}
  /\ UNCHANGED <<queue, stage, task, channel, received>>

WorkerStep(w) ==
  \/ Take(w) \/ NoMoreFiles(w) \/ Parsed(w) \/ Panics(w) \/ Send(w) \/ SendFails(w)

WriterStep == Receive \/ WriteFails \/ Disconnected \/ Join \/ Finish

PoolNext == WriterStep \/ \E w \in Workers : WorkerStep(w)

PoolSpec == PoolInit /\ [][PoolNext]_poolVars

(* Threads are scheduled, and parse_one returns *)
FairPoolSpec ==
  /\ PoolSpec
  /\ WF_poolVars(Receive \/ Disconnected \/ Join \/ Finish)
  /\ \A w \in Workers : WF_poolVars(WorkerStep(w))

-----------------------------------------------------------------------------
PoolTypeOK ==
  /\ queue \subseteq Batch
  /\ stage \in [Workers -> {"idle", "parsing", "sending", "done", "panicked"}]
  /\ task \in [Workers -> Batch \cup {NoFile}]
  /\ channel \subseteq Batch \X Workers
  /\ received \in [Batch -> Nat]
  /\ writer \in {"receiving", "joining", "finishing", "failed", "committed"}

(***************************************************************************)
(* Invariant: a transaction is committed only when the outcome of every    *)
(* file reached the writer, once: neither a panic of a worker nor the end  *)
(* of the channel lets a file drop out of a successful scan (join_pool:    *)
(* "parse worker panicked; scan transaction rolled back").                 *)
(***************************************************************************)
CommitIsComplete == writer = "committed" => \A f \in Batch : received[f] = 1

(***************************************************************************)
(* Liveness: the scan ends and no worker stays behind, blocked on a full   *)
(* channel or waiting for one that nobody drains.                          *)
(***************************************************************************)
PoolEnds ==
  <>[](writer \in {"failed", "committed"} /\ \A w \in Workers : stage[w] \in Ended)
=============================================================================
