---------------------------- MODULE ClientsProofs ---------------------------
(***************************************************************************)
(* Proofs about the clients of the daemon, for any number of hooks, config *)
(* commands, projects, files, jobs and restarts.                           *)
(***************************************************************************)
EXTENDS Clients, JobStoreProofs, FiniteSetTheorems

(* Nothing is missed of the first n edits of a file when job j answers     *)
(* for them                                                                *)
Covers(j, f, n) ==
  /\ n <= edited[f]
  /\ IsExecuting(j) => n <= upTo[j][f]
  /\ status[j] = "succeeded" => n <= scanned[f]

(* The latest job of a file answers for what was recorded *)
Latest(f) ==
  \/ JobsOf(f) = {} /\ recorded[f] = 0
  \/ \E j \in JobsOf(f) : (\A k \in JobsOf(f) : k <= j) /\ Covers(j, f, recorded[f])

(* A job that may still run has no later one but those that never will     *)
Dead == {"superseded", "cancelled"}
Newer(f) ==
  \A j, k \in JobsOf(f) : j < k =>
    /\ IsPending(j) => status[k] \in Dead
    /\ IsExecuting(j) => status[k] \in Dead \cup {"pending"}

SameClock ==
  /\ \A j \in JobIds : status[j] # "absent" => created[j] = clock
  /\ \A p \in Projects : projects[p] \in {NotRegistered, clock}

TableInv ==
  /\ StoreInv /\ OneExecuting /\ SameClock
  /\ \A f \in Sources : Latest(f) /\ Newer(f)

(* What is on the way between a client in state k, whose connection is s,  *)
(* and the server                                                          *)
LinesFit(k, s) ==
  /\ k.pc \notin {"await", "failed"} => s.request = NoLine /\ s.response = NoLine
  /\ k.pc = "await" => /\ s.request \in {NoLine, k.line}
                       /\ s.request = NoLine \/ s.response = NoLine
  /\ s.request.op = "submit" => s.request.edit <= edited[s.request.file]
  /\ k.line.op = "submit" => k.line.edit <= edited[k.line.file]

(* The file a line is about *)
FileIn(line) == IF line.op = "promote" THEN key[line.job] ELSE line.file

(* What the enrichment h knows of the file it asks about *)
Silent(h, k) ==
  /\ \A f \in Sources : k.said[f] = "silent" => asked[h][f] <= scanned[f]
  /\ \A f \in k.todo : k.said[f] = "unasked"
  /\ k.pc \in {"idle", "failed"} => \A f \in Sources : k.said[f] = "unasked"

Asks(h, k) ==
  k.pc \in {"send", "await"} =>
    /\ k.line.op \in {"list", "promote", "submit"}
    /\ FileIn(k.line) \in Sources \ k.todo
    /\ k.said[FileIn(k.line)] = "unasked"
    /\ k.line.op = "promote" => Covers(k.line.job, FileIn(k.line), asked[h][FileIn(k.line)])

Hears(h, k, s) ==
  (k.pc = "await" /\ s.response # NoLine) =>
    /\ s.response.op = "job"
    /\ k.line.op = "promote" => s.response.job = k.line.job
    /\ k.line.op = "list" =>
         IF s.response.job = NoJob THEN asked[h][FileIn(k.line)] = 0
         ELSE /\ key[s.response.job] = FileIn(k.line)
              /\ Covers(s.response.job, FileIn(k.line), asked[h][FileIn(k.line)])
    /\ k.line.op # "submit" /\ s.response.status = "succeeded" =>
         asked[h][FileIn(k.line)] <= scanned[FileIn(k.line)]

Knows(h, k, s) == Silent(h, k) /\ Asks(h, k) /\ Hears(h, k, s)

NetInv ==
  \A c \in Clients : hook[c].pc \in {"idle", "connect"} => \A i \in DOMAIN backlog : backlog[i] # c

(* Edits that were made and hooks that may still make one *)
Budget == \A f \in Sources :
  edited[f] + Cardinality({h \in Dirty : hook[h].pc = "idle"}) <= MaxEdits

UiInv ==
  /\ spawning # 0 => /\ slot = 0 /\ child[spawning] # NoChild
                     /\ serving # Nobody /\ Line.op = "open_config_ui"
  /\ phase # "up" => slot = 0 /\ serving = Nobody
  /\ \A c \in Children : child[c] # NoChild =>
       child[c].daemon <= starts /\ (phase = "opened" => child[c].daemon < starts)
  /\ OneConfigUi

ClientsInv ==
  /\ TypeOK /\ TableInv /\ NetInv /\ Budget /\ UiInv
  /\ \A c \in Clients : LinesFit(hook[c], sock[c])
  /\ \A h \in Enrich : Knows(h, hook[h], sock[h])

-----------------------------------------------------------------------------
(* Types *)

Sock == [end : {"closed", "queued", "served"}, open : BOOLEAN,
         request : Requests \cup {NoLine}, response : Responses \cup {NoLine}]
Hook == [pc : {"idle", "connect", "send", "await", "done", "failed"},
         todo : SUBSET Sources, line : Requests \cup {NoLine}, said : [Sources -> Signals]]
Edits == [Sources -> 0 .. MaxEdits]

ProcessTyped == phase \in {"down", "opened", "up"} /\ starts \in 1 .. MaxStarts
BacklogTyped == backlog \in Seq(Clients) /\ IsInjective(backlog)
SockTyped == serving \in Clients \cup {Nobody} /\ sock \in [Clients -> Sock]
HookTyped == hook \in [Clients -> Hook]
HistTyped ==
  /\ edited \in Edits /\ recorded \in Edits /\ scanned \in Edits
  /\ asked \in [Enrich -> Edits] /\ upTo \in [JobIds -> Edits]

LEMMA TypeParts ==
  TypeOK <=> /\ StoreTypeOK /\ UiTypeOK(1 .. MaxStarts) /\ ProcessTyped /\ BacklogTyped
             /\ SockTyped /\ HookTyped /\ HistTyped
BY DEF TypeOK, ProcessTyped, BacklogTyped, SockTyped, HookTyped, HistTyped, Sock, Hook, Edits

LEMMA Constants ==
  /\ MaxEdits \in Nat /\ MaxJobs \in Nat /\ MaxStarts \in Nat \ {0} /\ MaxChildren \in Nat
  /\ Nobody \notin Clients /\ 0 \in Priorities /\ 1 \in Priorities /\ Priorities \subseteq Int
  /\ Dirty \subseteq Clients /\ Enrich \subseteq Clients /\ UiClients \subseteq Clients
  /\ FullScan \notin Files /\ IsFiniteSet(Dirty)
BY ClientsAssumption, JobStoreAssumption, FS_CardinalityType DEF MaxEdits, Clients, Hooks

(* The kinds of lines *)
LEMMA RequestKinds ==
  ASSUME NEW l \in Requests \cup {NoLine}
  PROVE  /\ l.op \in {"none", "submit", "list", "promote", "open_config_ui"}
         /\ l.op = "none" <=> l = NoLine
         /\ l.op = "submit" => /\ l.file \in Sources /\ l.prio \in Priorities
                               /\ l.edit \in 0 .. MaxEdits
         /\ l.op = "list" => l.file \in Sources
         /\ l.op = "promote" => l.job \in JobIds
         /\ l.op = "open_config_ui" => l.mode \in Modes
<1>1. CASE l = NoLine
  BY <1>1 DEF NoLine
<1>2. CASE \E f \in Sources, prio \in Priorities, n \in 0 .. MaxEdits : l = SubmitLine(f, prio, n)
  BY <1>2 DEF SubmitLine, NoLine
<1>3. CASE \E f \in Sources : l = ListLine(f)
  BY <1>3 DEF ListLine, NoLine
<1>4. CASE \E j \in JobIds : l = PromoteLine(j)
  BY <1>4 DEF PromoteLine, NoLine
<1>5. CASE \E m \in Modes : l = UiLine(m)
  BY <1>5 DEF UiLine, NoLine
<1> QED BY <1>1, <1>2, <1>3, <1>4, <1>5 DEF Requests

LEMMA Answer ==
  /\ ErrorLine \in Responses /\ UiReady \in Responses
  /\ \A j \in JobIds \cup {NoJob}, st \in Statuses :
       /\ JobLine(j, st) \in Responses /\ JobLine(j, st) # NoLine
       /\ JobLine(j, st).op = "job" /\ JobLine(j, st).job = j /\ JobLine(j, st).status = st
BY DEF Responses, JobLine, NoLine

LEMMA ResponseKinds ==
  ASSUME NEW l \in Responses, l.op = "job"
  PROVE  l.job \in JobIds \cup {NoJob} /\ l.status \in Statuses
BY DEF Responses, JobLine, ErrorLine, UiReady

LEMMA LineTyped ==
  ASSUME TypeOK, serving # Nobody
  PROVE  serving \in Clients /\ Line \in Requests \cup {NoLine} /\ sock[serving] \in Sock
BY TypeParts DEF SockTyped, Line, Sock

-----------------------------------------------------------------------------
(* The table *)

(* Every step is one of the table's operations, or none *)
LEMMA StepOnTable ==
  ASSUME TypeOK, [Next]_vars
  PROVE  SerialOp /\ clock' = clock
<1>0. UNCHANGED storeVars => SerialOp
  BY DEF SerialOp, NonClaimOp
<1>1. ASSUME NEW p \in Projects, PublishProvider(p) PROVE SerialOp /\ clock' = clock
  BY <1>1 DEF PublishProvider, SerialOp, NonClaimOp, submit_full_scan
<1>2. CASE Start
  BY <1>2 DEF Start, SerialOp, NonClaimOp
<1>3. ASSUME NEW j \in JobIds, Claim(j) PROVE SerialOp /\ clock' = clock
  BY <1>3 DEF Claim, SerialOp
<1>4. ASSUME NEW j \in JobIds, Finish(j) PROVE SerialOp /\ clock' = clock
  BY <1>4 DEF Finish, SerialOp, NonClaimOp
<1>5. ASSUME NEW j \in JobIds, Cancel(j) PROVE SerialOp /\ clock' = clock
  BY <1>5 DEF Cancel, SerialOp, NonClaimOp
<1>6. CASE HandleSubmit
  <2>1. Line.file \in Sources /\ Line.prio \in Priorities
    BY <1>6, LineTyped, RequestKinds DEF HandleSubmit, Reads
  <2>2. Line.file[1] \in Projects /\ Line.file[2] \in Files
    BY <2>1 DEF Sources
  <2> QED BY <1>6, <2>1, <2>2 DEF HandleSubmit, Answers, SerialOp, NonClaimOp
<1>7. CASE HandlePromote
  <2>1. Line.job \in JobIds
    BY <1>7, LineTyped, RequestKinds DEF HandlePromote, Reads
  <2> QED BY <1>7, <2>1, Constants DEF HandlePromote, Answers, SerialOp, NonClaimOp
<1>8. CASE Serve \/ Stop \/ Accept \/ HandleList \/ HandleOpenConfigUi \/ SpawnEnds \/ Release
           \/ ClientExits
  BY <1>8, <1>0 DEF Serve, Stop, Accept, HandleList, HandleOpenConfigUi, SpawnEnds, Release,
     ClientExits, Answers
<1>9. ASSUME NEW h, NEW f, RunDirty(h, f) \/ RunEnrich(h, f) \/ RunConfig(h, f)
      PROVE  SerialOp /\ clock' = clock
  BY <1>9, <1>0 DEF RunDirty, RunEnrich, RunConfig
<1>10. ASSUME NEW h, Connect(h) \/ ConnectFails(h) \/ Send(h) \/ Receive(h) \/ GiveUp(h)
       PROVE  SerialOp /\ clock' = clock
  BY <1>10, <1>0 DEF Connect, ConnectFails, Send, Receive, GiveUp
<1>11. CASE UNCHANGED vars
  BY <1>11, <1>0 DEF vars
<1> QED BY <1>1, <1>2, <1>3, <1>4, <1>5, <1>6, <1>7, <1>8, <1>9, <1>10, <1>11
        DEF Next, Daemon, Jobs, Server, HandleLine

LEMMA TableKept ==
  ASSUME TypeOK, TableInv, [Next]_vars
  PROVE  StoreTypeOK' /\ StoreInv' /\ OneExecuting' /\ clock' = clock
<1>1. SerialOp /\ clock' = clock
  BY StepOnTable
<1>2. StoreOp
  BY <1>1 DEF SerialOp, StoreOp
<1>3. StoreTypeOK /\ StoreInv /\ OneExecuting /\ UniqueIndexes
  BY TypeParts DEF TableInv, StoreInv
<1>4. clock' \in Times
  BY <1>1, <1>3 DEF StoreTypeOK
<1> QED BY <1>1, <1>2, <1>3, <1>4, StoreOpTyped, StoreOpInv, SerialKept

(* What a step does to the jobs a client may have heard of *)
Moves ==
  /\ \A j \in JobIds : key[j] # NoKey => key'[j] = key[j]
  /\ \A j \in JobIds : IsExecuting(j)' =>
       (IsExecuting(j) /\ upTo'[j] = upTo[j]) \/ upTo'[j] = edited
  /\ \A j \in JobIds : status'[j] = "succeeded" =>
       \/ status[j] = "succeeded"
       \/ IsExecuting(j) /\ \A f \in Sources : key[j] = f => upTo[j][f] <= scanned'[f]
  /\ \A f \in Sources : scanned[f] <= scanned'[f] /\ edited[f] <= edited'[f]

LEMMA KeysStay ==
  ASSUME StoreTypeOK, StoreInv, StoreOp, NEW j \in JobIds, key[j] # NoKey
  PROVE  key'[j] = key[j]
<1>1. status[j] # "absent" /\ status[j] \in Statuses
  BY DEF StoreInv, Allocated, StoreTypeOK
<1>2. IsPending(j) \/ IsExecuting(j) \/ IsTerminal(j)
  BY <1>1 DEF Statuses, IsPending, IsExecuting, IsTerminal
<1> QED BY <1>2, PendingMoves, ExecutingMoves, TerminalKept

(* Only an executing job succeeds, and complete is what makes it so *)
LEMMA SucceedsOnlySo ==
  ASSUME StoreTypeOK, StoreInv, StoreOp, NEW j \in JobIds,
         \A k \in JobIds : ~complete(k, "succeeded"),
         status'[j] = "succeeded"
  PROVE  status[j] = "succeeded"
<1> USE JobStoreAssumption DEF StoreTypeOK, JobIds
<1>1. ASSUME NEW p \in Projects, NEW f \in Files, NEW prio \in Priorities, submit(p, f, prio)
      PROVE  status[j] = "succeeded"
  BY <1>1 DEF submit, SubmitRejected, SubmitAbsorbed, SubmitDeduplicated, SubmitInserted,
     storeVars, jobs
<1>2. ASSUME NEW p \in Projects, submit_full_scan(p)
      PROVE  status[j] = "succeeded"
  BY <1>2 DEF submit_full_scan, FullScanNotNeeded, FullScanInserted, storeVars, jobs
<1>3. ASSUME NEW k \in JobIds, \/ \E prio \in Priorities : promote(k, prio)
                               \/ \E stage \in 1 .. 2 : update_progress(k, stage)
                               \/ complete(k, "failed") \/ confirm_cancelled(k)
                               \/ CancelPending(k) \/ CancelRunning(k) \/ claim_next_pending(k)
      PROVE  status[j] = "succeeded"
  BY <1>3 DEF promote, update_progress, complete, confirm_cancelled, CancelPending, CancelRunning,
     BecomesCancelled, claim_next_pending
<1>4. CASE recover
  BY <1>4 DEF recover
<1>5. CASE UNCHANGED storeVars
  BY <1>5 DEF storeVars, jobs
<1>6. NonClaimOp \/ \E k \in JobIds : claim_next_pending(k)
  BY DEF StoreOp
<1>7. \A k \in JobIds, outcome \in {"succeeded", "failed"} :
        complete(k, outcome) => complete(k, "failed")
  OBVIOUS
<1> QED BY <1>1, <1>2, <1>3, <1>4, <1>5, <1>6, <1>7 DEF NonClaimOp

(* Steps but Claim, Finish and RunDirty *)
LEMMA PlainMoves ==
  ASSUME TypeOK, TableInv, NonClaimOp, \A k \in JobIds : ~complete(k, "succeeded"),
         UNCHANGED <<upTo, scanned>>, \A f \in Sources : edited[f] <= edited'[f]
  PROVE  Moves
<1>1. StoreTypeOK /\ StoreInv /\ StoreOp /\ HistTyped
  BY TypeParts DEF TableInv, StoreOp
<1>2. \A j \in JobIds : key[j] # NoKey => key'[j] = key[j]
  BY <1>1, KeysStay
<1>3. \A j \in JobIds : IsExecuting(j)' => IsExecuting(j)
  BY <1>1, NothingStarts
<1>4. \A j \in JobIds : status'[j] = "succeeded" => status[j] = "succeeded"
  BY <1>1, SucceedsOnlySo
<1>5. \A f \in Sources : scanned[f] \in Int
  BY <1>1, Constants DEF HistTyped, Edits
<1> QED BY <1>2, <1>3, <1>4, <1>5 DEF Moves

LEMMA ClaimMoves ==
  ASSUME TypeOK, TableInv, NEW j \in JobIds, Claim(j)
  PROVE  Moves
<1>1. StoreTypeOK /\ StoreInv /\ HistTyped /\ claim_next_pending(j)
  BY TypeParts DEF TableInv, Claim
<1>2. upTo' = [upTo EXCEPT ![j] = edited] /\ UNCHANGED <<scanned, edited>> /\ key' = key
  BY <1>1 DEF Claim, claim_next_pending
<1>3. status' = [status EXCEPT ![j] = "running"]
  BY <1>1 DEF claim_next_pending
<1>4. \A k \in JobIds : upTo'[k] = IF k = j THEN edited ELSE upTo[k]
  BY <1>1, <1>2 DEF HistTyped
<1>5. \A k \in JobIds : status'[k] = IF k = j THEN "running" ELSE status[k]
  BY <1>1, <1>3 DEF StoreTypeOK
<1>6. \A f \in Sources : scanned[f] \in Int /\ edited[f] \in Int
  BY <1>1, Constants DEF HistTyped, Edits
<1> QED BY <1>2, <1>4, <1>5, <1>6 DEF Moves, IsExecuting

LEMMA FinishMoves ==
  ASSUME TypeOK, TableInv, NEW j \in JobIds, Finish(j)
  PROVE  Moves
<1>1. StoreTypeOK /\ StoreInv /\ HistTyped
  BY TypeParts DEF TableInv
<1>2. UNCHANGED <<upTo, edited>>
  BY DEF Finish
<1>3. \A f \in Sources : scanned[f] \in Int /\ edited[f] \in Int /\ upTo[j][f] \in Int
  BY <1>1, Constants DEF HistTyped, Edits
<1>4. CASE complete(j, "failed") \/ confirm_cancelled(j)
  <2>1. key' = key /\ \A k \in JobIds : status'[k] # status[k] => status'[k] \in {"failed", "cancelled"}
    BY <1>1, <1>4 DEF complete, confirm_cancelled, BecomesCancelled, StoreTypeOK
  <2>2. scanned' = scanned
    BY <1>1, <1>4 DEF Finish, complete, confirm_cancelled, BecomesCancelled, StoreTypeOK
  <2> QED BY <1>2, <1>3, <2>1, <2>2 DEF Moves, IsExecuting, Executing
<1>5. CASE /\ complete(j, "succeeded")
           /\ scanned' = [f \in Sources |-> IF f \in FilesOf(j) /\ upTo[j][f] > scanned[f]
                                            THEN upTo[j][f] ELSE scanned[f]]
  <2>1. key' = key /\ IsExecuting(j)
    BY <1>5 DEF complete, IsExecuting, Executing
  <2>2. \A k \in JobIds : status'[k] = IF k = j THEN "succeeded" ELSE status[k]
    BY <1>1, <1>5 DEF complete, StoreTypeOK
  <2>3. \A f \in Sources : scanned[f] <= scanned'[f]
    BY <1>3, <1>5
  <2>4. \A f \in Sources : key[j] = f => upTo[j][f] <= scanned'[f]
    BY <1>3, <1>5 DEF FilesOf
  <2> QED BY <1>2, <1>3, <2>1, <2>2, <2>3, <2>4 DEF Moves, IsExecuting, Executing
<1> QED BY <1>4, <1>5 DEF Finish

LEMMA StepMoves ==
  ASSUME TypeOK, TableInv, [Next]_vars
  PROVE  Moves
<1>0. StoreTypeOK /\ HistTyped /\ \A f \in Sources : edited[f] \in Int
  BY TypeParts, Constants DEF HistTyped, Edits
<1>1. UNCHANGED storeVars => \A k \in JobIds : ~complete(k, "succeeded")
  BY <1>0 DEF storeVars, jobs, complete, StoreTypeOK
<1>2. ASSUME UNCHANGED <<storeVars, upTo, scanned, edited>> PROVE Moves
  BY <1>0, <1>1, <1>2, PlainMoves DEF NonClaimOp
<1>3. ASSUME NEW p \in Projects, PublishProvider(p) PROVE Moves
  <2>1. NonClaimOp /\ UNCHANGED <<upTo, scanned, edited>>
    BY <1>3 DEF PublishProvider, NonClaimOp, submit_full_scan, histVars
  <2>2. \A k \in JobIds : ~complete(k, "succeeded")
    BY <1>3 DEF PublishProvider, FullScanInserted, InsertRow, complete, StoreTypeOK
  <2> QED BY <1>0, <2>1, <2>2, PlainMoves
<1>4. CASE Start
  <2>1. NonClaimOp /\ UNCHANGED <<upTo, scanned, edited>>
    BY <1>4 DEF Start, NonClaimOp, histVars
  <2>2. \A k \in JobIds : ~complete(k, "succeeded")
    BY <1>4, <1>0 DEF Start, recover, complete, StoreTypeOK, Yielding, Requeued
  <2> QED BY <1>0, <2>1, <2>2, PlainMoves
<1>5. ASSUME NEW j \in JobIds, Cancel(j) PROVE Moves
  <2>1. NonClaimOp /\ UNCHANGED <<upTo, scanned, edited>>
    BY <1>5 DEF Cancel, NonClaimOp, histVars
  <2>2. \A k \in JobIds : ~complete(k, "succeeded")
    BY <1>5, <1>0 DEF Cancel, CancelPending, CancelRunning, BecomesCancelled, IsPending, complete,
       StoreTypeOK
  <2> QED BY <1>0, <2>1, <2>2, PlainMoves
<1>6. CASE HandleSubmit
  <2>1. Line.file \in Sources /\ Line.prio \in Priorities
    BY <1>6, LineTyped, RequestKinds DEF HandleSubmit, Reads
  <2>2. Line.file[1] \in Projects /\ Line.file[2] \in Files
    BY <2>1 DEF Sources
  <2>3. submit(Line.file[1], Line.file[2], Line.prio) /\ UNCHANGED <<upTo, scanned, edited>>
    BY <1>6 DEF HandleSubmit
  <2>4. NonClaimOp
    BY <2>1, <2>2, <2>3 DEF NonClaimOp
  <2>5. \A k \in JobIds : ~complete(k, "succeeded")
    BY <1>0, <2>3 DEF submit, SubmitRejected, SubmitAbsorbed, SubmitDeduplicated, SubmitInserted,
       storeVars, jobs, StoreTypeOK, complete, InsertRow
  <2> QED BY <1>0, <2>3, <2>4, <2>5, PlainMoves
<1>7. CASE HandlePromote
  <2>1. Line.job \in JobIds
    BY <1>7, LineTyped, RequestKinds DEF HandlePromote, Reads
  <2>2. promote(Line.job, 1) /\ UNCHANGED <<upTo, scanned, edited>>
    BY <1>7 DEF HandlePromote, histVars
  <2>3. NonClaimOp
    BY <2>1, <2>2, Constants DEF NonClaimOp
  <2>4. \A k \in JobIds : ~complete(k, "succeeded")
    BY <1>0, <2>2 DEF promote, complete, StoreTypeOK
  <2> QED BY <1>0, <2>2, <2>3, <2>4, PlainMoves
<1>8. CASE Serve \/ Stop \/ Accept \/ HandleList \/ HandleOpenConfigUi \/ SpawnEnds \/ Release
           \/ ClientExits
  BY <1>8, <1>2 DEF Serve, Stop, Accept, HandleList, HandleOpenConfigUi, SpawnEnds, Release,
     ClientExits, histVars
<1>9. ASSUME NEW h, NEW f, RunEnrich(h, f) \/ RunConfig(h, f)
      PROVE  Moves
  BY <1>9, <1>2 DEF RunEnrich, RunConfig, histVars
<1>10. ASSUME NEW h \in Dirty, NEW f \in Sources, RunDirty(h, f)
       PROVE  Moves
  <2>1. edited' = [edited EXCEPT ![f] = @ + 1] /\ UNCHANGED <<storeVars, upTo, scanned>>
    BY <1>10 DEF RunDirty
  <2>2. \A g \in Sources : edited[g] <= edited'[g]
    BY <1>0, <2>1 DEF HistTyped, Edits
  <2> QED BY <1>1, <2>1, <2>2, PlainMoves DEF NonClaimOp
<1>11. ASSUME NEW h, Connect(h) \/ ConnectFails(h) \/ Send(h) \/ Receive(h) \/ GiveUp(h)
       PROVE  Moves
  BY <1>11, <1>2 DEF Connect, ConnectFails, Send, Receive, GiveUp, histVars
<1>12. CASE UNCHANGED vars
  BY <1>12, <1>2 DEF vars, histVars
<1> QED BY <1>3, <1>4, <1>5, <1>6, <1>7, <1>8, <1>9, <1>10, <1>11, <1>12, ClaimMoves, FinishMoves
        DEF Next, Daemon, Jobs, Server, HandleLine

-----------------------------------------------------------------------------
(* Every step keeps the types *)

LEMMA SockAnswered ==
  ASSUME TypeOK, serving # Nobody, NEW r \in Responses, Answers(r)
  PROVE  /\ SockTyped' /\ serving' = serving
         /\ \A c \in Clients : sock'[c] = IF c = serving
              THEN [sock[c] EXCEPT !.request = NoLine, !.response = r] ELSE sock[c]
         /\ UNCHANGED <<phase, starts, backlog, hook>>
<1>1. SockTyped /\ serving \in Clients /\ sock[serving] \in Sock
  BY TypeParts, LineTyped
<1>2. /\ sock' = [sock EXCEPT ![serving].request = NoLine, ![serving].response = r]
      /\ UNCHANGED <<phase, starts, backlog, serving, hook>>
  BY DEF Answers
<1> DEFINE s == [sock[serving] EXCEPT !.request = NoLine, !.response = r]
<1>3. s \in Sock
  BY <1>1 DEF Sock
<1>4. sock' = [sock EXCEPT ![serving] = s]
  BY <1>1, <1>2 DEF SockTyped, Sock
<1>5. sock' \in [Clients -> Sock]
  BY <1>1, <1>3, <1>4 DEF SockTyped
<1> HIDE DEF s
<1>6. \A c \in Clients : sock'[c] = IF c = serving THEN s ELSE sock[c]
  BY <1>1, <1>4 DEF SockTyped
<1> QED BY <1>1, <1>2, <1>5, <1>6 DEF SockTyped, s

LEMMA AnswerTyped ==
  ASSUME TypeOK, TableInv, HandleSubmit
  PROVE  \E r \in Responses : Answers(r) /\ r.op = "job"
<1>1. serving # Nobody /\ Line.op = "submit"
  BY DEF HandleSubmit, Reads
<1>2. Line.file \in Sources /\ Line.prio \in Priorities
  BY <1>1, LineTyped, RequestKinds
<1> DEFINE p == Line.file[1]
           f == Line.file[2]
           j == RecordedIn(Line.file)
<1>3. p \in Projects /\ f \in Files
  BY <1>2 DEF Sources
<1>4. StoreTypeOK /\ SameClock
  BY TypeParts DEF TableInv
<1>5. submit(p, f, Line.prio) /\ Answers(JobLine(j, status'[j]))
  BY DEF HandleSubmit
<1>6. ~SubmitRejected(p)
  BY <1>3, <1>4 DEF SubmitRejected, SameClock, StoreTypeOK, Times, NotRegistered
<1>7. \/ lastId' = lastId + 1 /\ lastId < MaxJobs
      \/ lastId' = lastId /\ PendingFor(p, f) # {}
  BY <1>5, <1>6 DEF submit, SubmitAbsorbed, SubmitDeduplicated, SubmitInserted, InsertRow
<1>8. j \in JobIds
  <2>1. CASE lastId' = lastId + 1 /\ lastId < MaxJobs
    BY <1>4, <2>1, Constants DEF RecordedIn, StoreTypeOK, JobIds
  <2>2. CASE lastId' = lastId /\ PendingFor(p, f) # {}
    BY <2>2 DEF RecordedIn, PendingFor
  <2> QED BY <1>7, <2>1, <2>2
<1>9. StoreTypeOK'
  <2>1. Next
    BY DEF Next, Server, HandleLine
  <2> QED BY <2>1, TableKept
<1>10. status'[j] \in Statuses
  BY <1>8, <1>9 DEF StoreTypeOK
<1> HIDE DEF j
<1> QED BY <1>5, <1>8, <1>10, Answer

LEMMA SourceIsKey ==
  ASSUME NEW f \in Sources
  PROVE  f # NoKey /\ f = <<f[1], f[2]>> /\ f[1] \in Projects /\ f[2] \in Files
BY DEF Sources, NoKey

(* What ListJobs answers *)
LEMMA LatestIs ==
  ASSUME TypeOK, TableInv, NEW f \in Sources
  PROVE  \/ LatestJob(f) = NoJob /\ recorded[f] = 0
         \/ /\ LatestJob(f) \in JobsOf(f) /\ LatestJob(f) # NoJob
            /\ Covers(LatestJob(f), f, recorded[f])
<1>1. Latest(f) /\ SameClock /\ Allocated /\ StoreTypeOK
  BY TypeParts DEF TableInv, StoreInv
<1>2. CASE JobsOf(f) = {}
  BY <1>1, <1>2 DEF LatestJob, Latest
<1>3. CASE JobsOf(f) # {}
  <2>1. PICK m \in JobsOf(f) : (\A k \in JobsOf(f) : k <= m) /\ Covers(m, f, recorded[f])
    BY <1>1, <1>3 DEF Latest
  <2>2. \A k \in JobsOf(f) : k \in JobIds /\ k # NoJob /\ key[k] = f /\ status[k] # "absent"
    BY <1>1, SourceIsKey DEF JobsOf, Allocated, JobIds, NoJob
  <2>3. \A k \in JobsOf(f) : created[k] = clock /\ clock \in Int
    BY <1>1, <2>2 DEF SameClock, StoreTypeOK, Times
  <2>4. \A j \in JobsOf(f) :
          (\A k \in JobsOf(f) : created[k] < created[j] \/ (created[k] = created[j] /\ k <= j))
          <=> j = m
    BY <2>1, <2>2, <2>3 DEF JobIds
  <2>5. LatestJob(f) = m
    BY <1>3, <2>1, <2>4 DEF LatestJob
  <2> QED BY <2>1, <2>2, <2>5
<1> QED BY <1>2, <1>3

(* The steps of the server answer, accept, or leave a connection *)
LEMMA ServerTyped ==
  ASSUME ClientsInv, Server
  PROVE  SockTyped' /\ BacklogTyped' /\ HookTyped' /\ ProcessTyped'
<1>0. /\ TypeOK /\ TableInv /\ SockTyped /\ BacklogTyped /\ HookTyped /\ ProcessTyped
      /\ StoreTypeOK
  BY TypeParts DEF ClientsInv
<1>1. ASSUME serving # Nobody, NEW r \in Responses, Answers(r)
      PROVE  SockTyped' /\ BacklogTyped' /\ HookTyped' /\ ProcessTyped'
  BY <1>0, <1>1, SockAnswered DEF BacklogTyped, HookTyped, ProcessTyped
<1>2. ASSUME UNCHANGED <<phase, starts, netVars, hook>>
      PROVE  SockTyped' /\ BacklogTyped' /\ HookTyped' /\ ProcessTyped'
  BY <1>0, <1>2 DEF SockTyped, BacklogTyped, HookTyped, ProcessTyped, netVars
<1>3. CASE HandleSubmit
  BY <1>0, <1>1, <1>3, AnswerTyped DEF HandleSubmit, Reads
<1>4. CASE HandlePromote
  <2>1. serving # Nobody /\ Line.job \in JobIds
    BY <1>0, <1>4, LineTyped, RequestKinds DEF HandlePromote, Reads
  <2>2. JobLine(Line.job, status[Line.job]) \in Responses
    BY <1>0, <2>1, Answer DEF StoreTypeOK
  <2> QED BY <1>1, <1>4, <2>1, <2>2 DEF HandlePromote
<1>5. CASE HandleList
  <2> DEFINE j == LatestJob(Line.file)
  <2>1. serving # Nobody /\ Line.file \in Sources
    BY <1>0, <1>5, LineTyped, RequestKinds DEF HandleList, Reads
  <2>2. j \in JobIds \cup {NoJob}
    BY <1>0, <2>1, LatestIs DEF JobsOf
  <2>3. (IF j = NoJob THEN "absent" ELSE status[j]) \in Statuses
    BY <1>0, <2>2 DEF StoreTypeOK, Statuses
  <2>4. Answers(JobLine(j, IF j = NoJob THEN "absent" ELSE status[j]))
    BY <1>5 DEF HandleList
  <2> HIDE DEF j
  <2> QED BY <1>1, <2>1, <2>2, <2>3, <2>4, Answer
<1>6. CASE HandleOpenConfigUi
  BY <1>1, <1>2, <1>6, Answer DEF HandleOpenConfigUi, Reads
<1>7. CASE SpawnEnds
  BY <1>1, <1>7, Answer DEF SpawnEnds
<1>8. CASE Accept
  <2>1. /\ serving' = Head(backlog) /\ backlog' = Tail(backlog) /\ backlog # <<>>
        /\ sock' = [sock EXCEPT ![Head(backlog)].end = "served"]
        /\ UNCHANGED <<phase, starts, hook>>
    BY <1>8 DEF Accept
  <2>2. backlog \in Seq(Clients)
    BY <1>0 DEF BacklogTyped
  <2>3. /\ Head(backlog) \in Clients /\ Tail(backlog) \in Seq(Clients)
        /\ Len(backlog) \in Nat /\ Len(backlog) > 0 /\ DOMAIN backlog = 1 .. Len(backlog)
        /\ DOMAIN Tail(backlog) = 1 .. (Len(backlog) - 1)
        /\ \A i \in 1 .. (Len(backlog) - 1) : Tail(backlog)[i] = backlog[i + 1]
    BY <2>1, <2>2
  <2>4. IsInjective(backlog')
    BY <1>0, <2>1, <2>3 DEF BacklogTyped, IsInjective
  <2>5. sock' \in [Clients -> Sock]
    BY <1>0, <2>1, <2>3 DEF SockTyped, Sock
  <2> QED BY <1>0, <2>1, <2>3, <2>4, <2>5 DEF SockTyped, BacklogTyped, HookTyped, ProcessTyped
<1>9. CASE Release
  <2>1. /\ sock' = [sock EXCEPT ![serving].end = "closed"] /\ serving' = Nobody
        /\ UNCHANGED <<phase, starts, backlog, hook>>
    BY <1>9 DEF Release
  <2>2. sock' \in [Clients -> Sock]
    BY <1>0, <2>1 DEF SockTyped, Sock
  <2> QED BY <1>0, <2>1, <2>2 DEF SockTyped, BacklogTyped, HookTyped, ProcessTyped
<1> QED BY <1>3, <1>4, <1>5, <1>6, <1>7, <1>8, <1>9 DEF Server, HandleLine

LEMMA HookChanges ==
  ASSUME TypeOK, NEW h \in Clients, NEW new \in Hook, hook' = [hook EXCEPT ![h] = new]
  PROVE  HookTyped' /\ \A c \in Clients : hook'[c] = IF c = h THEN new ELSE hook[c]
BY TypeParts DEF HookTyped

LEMMA HookFields ==
  ASSUME TypeOK, NEW h \in Clients
  PROVE  /\ hook[h] \in Hook /\ hook[h].todo \in SUBSET Sources
         /\ hook[h].line \in Requests \cup {NoLine} /\ hook[h].said \in [Sources -> Signals]
         /\ hook[h] = [pc |-> hook[h].pc, todo |-> hook[h].todo, line |-> hook[h].line,
                       said |-> hook[h].said]
BY TypeParts DEF HookTyped, Hook

LEMMA Lines ==
  /\ \A f \in Sources : ListLine(f) \in Requests
  /\ \A j \in JobIds : PromoteLine(j) \in Requests
  /\ \A m \in Modes : UiLine(m) \in Requests
  /\ \A f \in Sources, prio \in Priorities, n \in 0 .. MaxEdits : SubmitLine(f, prio, n) \in Requests
BY DEF Requests

LEMMA StillHooks ==
  /\ Failed \in Hook /\ Failed.pc = "failed" /\ Failed.todo = {} /\ Failed.line = NoLine
  /\ \A f \in Sources : Failed.said[f] = "unasked"
  /\ Idle \in Hook /\ Idle.pc = "idle" /\ Idle.todo = {} /\ Idle.line = NoLine
  /\ \A f \in Sources : Idle.said[f] = "unasked"
BY DEF Failed, Idle, Hook, Signals

(* The client that runs, connects, sends, receives or gives up has a new   *)
(* state, the others keep theirs                                           *)
ClientStep(h) ==
  \/ h \in Dirty /\ \E f \in Sources : RunDirty(h, f)
  \/ h \in Enrich /\ \E p \in Projects, fs \in SUBSET Files : RunEnrich(h, {p} \X fs)
  \/ h \in UiClients /\ \E m \in Modes : RunConfig(h, m)
  \/ Connect(h) \/ ConnectFails(h) \/ Send(h) \/ Receive(h) \/ GiveUp(h)

(* What an enrichment does next, once it knows what to say of a file *)
LEMMA ContinueIs ==
  ASSUME NEW h \in Clients, NEW s \in Hook, Continue(h, s)
  PROVE  \E new \in Hook :
           /\ hook' = [hook EXCEPT ![h] = new]
           /\ new.said = s.said
           /\ \/ /\ new.pc = "send" /\ new.line.op = "list" /\ new.line.file \in s.todo
                 /\ new.todo = s.todo \ {new.line.file} /\ new.line \in Requests
              \/ new.pc = "done" /\ new.todo = s.todo /\ new.line = s.line /\ s.todo = {}
<1>1. CASE \E f \in s.todo : hook' = [hook EXCEPT ![h] = [s EXCEPT !.pc = "send",
                                        !.line = ListLine(f), !.todo = @ \ {f}]]
  <2>1. PICK f \in s.todo : hook' = [hook EXCEPT ![h] = [s EXCEPT !.pc = "send",
                                       !.line = ListLine(f), !.todo = s.todo \ {f}]]
    BY <1>1
  <2> DEFINE new == [s EXCEPT !.pc = "send", !.line = ListLine(f), !.todo = s.todo \ {f}]
  <2>2. f \in Sources /\ ListLine(f) \in Requests /\ ListLine(f).op = "list" /\ ListLine(f).file = f
    BY Lines DEF Hook, ListLine
  <2>3. /\ new \in Hook /\ new.pc = "send" /\ new.line = ListLine(f) /\ new.todo = s.todo \ {f}
        /\ new.said = s.said
    BY <2>2 DEF Hook
  <2> HIDE DEF new
  <2>4. hook' = [hook EXCEPT ![h] = new]
    BY <2>1 DEF new
  <2> QED BY <2>2, <2>3, <2>4
<1>2. CASE s.todo = {} /\ hook' = [hook EXCEPT ![h] = [s EXCEPT !.pc = "done"]]
  <2> DEFINE new == [s EXCEPT !.pc = "done"]
  <2>1. new \in Hook /\ new.pc = "done" /\ new.todo = s.todo /\ new.said = s.said /\ new.line = s.line
    BY DEF Hook
  <2> HIDE DEF new
  <2>2. hook' = [hook EXCEPT ![h] = new]
    BY <1>2 DEF new
  <2> QED BY <1>2, <2>1, <2>2
<1> QED BY <1>1, <1>2 DEF Continue

-----------------------------------------------------------------------------
(* History *)

(* A hook that has not run yet may make an edit *)
LEMMA RoomForAnEdit ==
  ASSUME TypeOK, Budget, NEW h \in Dirty, hook[h].pc = "idle", NEW f \in Sources
  PROVE  edited[f] + 1 \in 0 .. MaxEdits
<1> DEFINE idle == {d \in Dirty : hook[d].pc = "idle"}
<1>1. IsFiniteSet(idle) /\ idle # {}
  BY Constants, FS_Subset
<1>2. Cardinality(idle) \in Nat /\ Cardinality(idle) # 0
  BY <1>1, FS_CardinalityType, FS_EmptySet
<1>3. edited[f] \in Nat
  BY TypeParts, Constants DEF HistTyped, Edits
<1>4. edited[f] + Cardinality(idle) <= MaxEdits
  BY DEF Budget
<1> HIDE DEF idle
<1> QED BY <1>2, <1>3, <1>4, Constants

LEMMA HistStep ==
  ASSUME ClientsInv, [Next]_vars
  PROVE  HistTyped'
<1>0. TypeOK /\ HistTyped /\ Budget /\ StoreTypeOK
  BY TypeParts DEF ClientsInv
<1>1. UNCHANGED histVars => HistTyped'
  BY <1>0 DEF HistTyped, histVars
<1>2. ASSUME NEW j \in JobIds, Claim(j) PROVE HistTyped'
  BY <1>0, <1>2 DEF Claim, HistTyped
<1>3. ASSUME NEW j \in JobIds, Finish(j) PROVE HistTyped'
  <2>1. upTo[j] \in Edits /\ scanned \in Edits /\ UNCHANGED <<edited, recorded, asked, upTo>>
    BY <1>0, <1>3 DEF HistTyped, Finish
  <2>2. scanned' \in Edits
    <3>1. CASE UNCHANGED scanned
      BY <2>1, <3>1
    <3>2. CASE scanned' = [f \in Sources |-> IF f \in FilesOf(j) /\ upTo[j][f] > scanned[f]
                                             THEN upTo[j][f] ELSE scanned[f]]
      BY <2>1, <3>2 DEF Edits
    <3> QED BY <1>3, <3>1, <3>2 DEF Finish
  <2> QED BY <1>0, <2>1, <2>2 DEF HistTyped
<1>4. CASE HandleSubmit
  <2>1. Line.file \in Sources /\ Line.edit \in 0 .. MaxEdits
    BY <1>0, <1>4, LineTyped, RequestKinds DEF HandleSubmit, Reads
  <2>2. /\ recorded' = [recorded EXCEPT ![Line.file] = IF @ < Line.edit THEN Line.edit ELSE @]
        /\ UNCHANGED <<edited, asked, upTo, scanned>>
    BY <1>4 DEF HandleSubmit
  <2>3. recorded' \in Edits
    BY <1>0, <2>1, <2>2 DEF HistTyped, Edits
  <2> QED BY <1>0, <2>2, <2>3 DEF HistTyped
<1>5. CASE HandleList
  <2>1. Line.file \in Sources
    BY <1>0, <1>5, LineTyped, RequestKinds DEF HandleList, Reads
  <2>2. /\ asked' = [asked EXCEPT ![serving][Line.file] = recorded[Line.file]]
        /\ UNCHANGED <<edited, recorded, upTo, scanned>>
    BY <1>5 DEF HandleList
  <2>3. recorded[Line.file] \in 0 .. MaxEdits
    BY <1>0, <2>1 DEF HistTyped, Edits
  <2>4. asked' \in [Enrich -> Edits]
    BY <1>0, <2>1, <2>2, <2>3 DEF HistTyped, Edits
  <2> QED BY <1>0, <2>2, <2>4 DEF HistTyped
<1>6. ASSUME NEW h \in Dirty, NEW f \in Sources, RunDirty(h, f) PROVE HistTyped'
  <2>1. edited[f] + 1 \in 0 .. MaxEdits
    BY <1>0, <1>6, RoomForAnEdit DEF RunDirty
  <2>2. edited' = [edited EXCEPT ![f] = edited[f] + 1] /\ UNCHANGED <<recorded, asked, upTo, scanned>>
    BY <1>6 DEF RunDirty
  <2>3. edited' \in Edits
    BY <1>0, <2>1, <2>2 DEF HistTyped, Edits
  <2> QED BY <1>0, <2>2, <2>3 DEF HistTyped
<1>7. CASE Daemon \/ ClientExits
  BY <1>1, <1>7 DEF Daemon, PublishProvider, Serve, Stop, Start, ClientExits
<1>8. ASSUME NEW j \in JobIds, Cancel(j) PROVE HistTyped'
  BY <1>1, <1>8 DEF Cancel
<1>9. CASE Accept \/ HandlePromote \/ HandleOpenConfigUi \/ SpawnEnds \/ Release
  BY <1>1, <1>9 DEF Accept, HandlePromote, HandleOpenConfigUi, SpawnEnds, Release
<1>10. ASSUME NEW h, NEW f, RunEnrich(h, f) \/ RunConfig(h, f)
      PROVE  HistTyped'
  BY <1>10, <1>1 DEF RunEnrich, RunConfig
<1>11. ASSUME NEW h, Connect(h) \/ ConnectFails(h) \/ Send(h) \/ Receive(h) \/ GiveUp(h)
       PROVE  HistTyped'
  BY <1>11, <1>1 DEF Connect, ConnectFails, Send, Receive, GiveUp
<1>12. CASE UNCHANGED vars
  BY <1>12, <1>1 DEF vars, histVars
<1> QED BY <1>2, <1>3, <1>4, <1>5, <1>6, <1>7, <1>8, <1>9, <1>10, <1>11, <1>12
        DEF Next, Jobs, Server, HandleLine

LEMMA CoversKept ==
  ASSUME HistTyped, HistTyped', Moves, NEW j \in JobIds, NEW f \in Sources, key[j] = f,
         NEW n \in Nat, Covers(j, f, n)
  PROVE  Covers(j, f, n)'
<1>1. /\ edited[f] \in Int /\ edited'[f] \in Int /\ scanned[f] \in Int /\ scanned'[f] \in Int
      /\ upTo[j][f] \in Int /\ upTo'[j][f] \in Int
  BY Constants DEF HistTyped, Edits
<1>2. n <= edited'[f]
  BY <1>1 DEF Moves, Covers
<1>3. IsExecuting(j)' => n <= upTo'[j][f]
  BY <1>1 DEF Moves, Covers
<1>4. status'[j] = "succeeded" => n <= scanned'[f]
  BY <1>1 DEF Moves, Covers
<1> QED BY <1>2, <1>3, <1>4 DEF Covers

(* Whoever does not take the step knows what it knew *)
LEMMA KnowsKept ==
  ASSUME TypeOK, HistTyped', Moves, NEW h \in Enrich, Knows(h, hook[h], sock[h]),
         hook'[h] = hook[h], sock'[h].response = sock[h].response, asked'[h] = asked[h]
  PROVE  Knows(h, hook[h], sock[h])'
<1> DEFINE k == hook[h]
           g == FileIn(k.line)
<1>0. HistTyped /\ h \in Clients /\ sock[h].response \in Responses \cup {NoLine}
  BY TypeParts, Constants DEF SockTyped, Sock
<1>1. \A f \in Sources : /\ scanned[f] \in Int /\ scanned'[f] \in Int /\ asked[h][f] \in Nat
                         /\ scanned[f] <= scanned'[f]
  BY <1>0, Constants DEF HistTyped, Edits, Moves
<1>2. k.line \in Requests \cup {NoLine}
  BY <1>0, HookFields
<1>3. Silent(h, hook[h])'
  BY <1>1 DEF Knows, Silent
<1>4. k.pc \in {"send", "await"} =>
        g \in Sources /\ FileIn(hook[h].line)' = g /\ asked[h][g] \in Nat
  <2> SUFFICES ASSUME k.pc \in {"send", "await"}
               PROVE  g \in Sources /\ FileIn(hook[h].line)' = g /\ asked[h][g] \in Nat
    OBVIOUS
  <2>1. g \in Sources
    BY DEF Knows, Asks
  <2>2. k.line.op = "promote" => k.line.job \in JobIds /\ key[k.line.job] = g
    BY <1>2, RequestKinds DEF FileIn
  <2>3. k.line.op = "promote" => key'[k.line.job] = g
    BY <2>1, <2>2, SourceIsKey DEF Moves
  <2>4. FileIn(hook[h].line)' = g
    BY <2>3 DEF FileIn
  <2> QED BY <1>1, <2>1, <2>4
<1>5. Asks(h, hook[h])'
  <2> SUFFICES ASSUME k.pc \in {"send", "await"}, k.line.op = "promote"
               PROVE  Covers(k.line.job, g, asked[h][g])'
    BY <1>4 DEF Knows, Asks
  <2>1. k.line.job \in JobIds /\ key[k.line.job] = g /\ Covers(k.line.job, g, asked[h][g])
    BY <1>2, RequestKinds DEF FileIn, Knows, Asks
  <2>2. Covers(k.line.job, g, asked[h][g])'
    BY <1>0, <1>4, <2>1, CoversKept
  <2> QED BY <2>2
<1>6. Hears(h, hook[h], sock[h])'
  <2> SUFFICES ASSUME k.pc = "await", sock[h].response # NoLine
               PROVE  Hears(h, hook[h], sock[h])'
    BY DEF Hears
  <2> DEFINE r == sock[h].response
  <2>1. r.op = "job" /\ r \in Responses
    BY <1>0 DEF Knows, Hears
  <2>2. r.job \in JobIds \cup {NoJob}
    BY <2>1, ResponseKinds
  <2>3. g \in Sources /\ FileIn(hook[h].line)' = g /\ asked[h][g] \in Nat
    BY <1>4
  <2>4. k.line.op = "list" /\ r.job # NoJob =>
          key'[r.job] = g /\ Covers(r.job, g, asked[h][g])'
    <3> SUFFICES ASSUME k.line.op = "list", r.job # NoJob
                 PROVE  key'[r.job] = g /\ Covers(r.job, g, asked[h][g])'
      OBVIOUS
    <3>1. r.job \in JobIds /\ key[r.job] = g /\ Covers(r.job, g, asked[h][g])
      BY <2>2 DEF Knows, Hears
    <3>2. key'[r.job] = g
      BY <2>3, <3>1, SourceIsKey DEF Moves
    <3> QED BY <1>0, <2>3, <3>1, <3>2, CoversKept
  <2>5. k.line.op # "submit" /\ r.status = "succeeded" => asked[h][g] <= scanned'[g]
    BY <1>1, <2>3 DEF Knows, Hears
  <2> QED BY <2>1, <2>3, <2>4, <2>5 DEF Knows, Hears
<1> QED BY <1>3, <1>5, <1>6 DEF Knows

LEMMA LinesKept ==
  ASSUME TypeOK, HistTyped', Moves, NEW c \in Clients, LinesFit(hook[c], sock[c]),
         hook'[c] = hook[c], sock'[c].response = sock[c].response,
         sock'[c].request \in {sock[c].request, NoLine}
  PROVE  LinesFit(hook[c], sock[c])'
<1>1. HistTyped /\ SockTyped /\ hook[c].line \in Requests \cup {NoLine}
  BY TypeParts, HookFields
<1>2. sock[c].request \in Requests \cup {NoLine}
  BY <1>1 DEF SockTyped, Sock
<1>3. \A f \in Sources : /\ edited[f] \in Int /\ edited'[f] \in Int /\ edited[f] <= edited'[f]
  BY <1>1, Constants DEF HistTyped, Edits, Moves
<1>4. \A l \in Requests \cup {NoLine} : l.op = "submit" => l.edit \in Int /\ l.file \in Sources
  BY RequestKinds, Constants
<1>5. NoLine.op # "submit"
  BY DEF NoLine
<1>6. hook[c].line.op = "submit" => hook[c].line.edit <= edited'[hook[c].line.file]
  BY <1>1, <1>3, <1>4 DEF LinesFit
<1>7. sock'[c].request.op = "submit" => sock'[c].request.edit <= edited'[sock'[c].request.file]
  BY <1>2, <1>3, <1>4, <1>5 DEF LinesFit
<1> QED BY <1>6, <1>7 DEF LinesFit

-----------------------------------------------------------------------------
(* The latest job of a file *)

(* A row that is inserted is the last one *)
LEMMA RowsAfterInsert ==
  ASSUME StoreTypeOK, StoreInv, NEW p \in Projects, NEW t \in Targets, NEW prio \in Priorities,
         InsertRow(p, t, prio), NEW f \in Sources
  PROVE  /\ lastId + 1 \in JobIds /\ status[lastId + 1] = "absent" /\ key[lastId + 1] = NoKey
         /\ \A j \in JobIds : key'[j] = IF j = lastId + 1 THEN <<p, t>> ELSE key[j]
         /\ JobsOf(f)' = JobsOf(f) \cup (IF f = <<p, t>> THEN {lastId + 1} ELSE {})
         /\ \A j \in JobsOf(f) : j \in JobIds /\ j < lastId + 1
<1>1. lastId + 1 \in JobIds /\ lastId \in Int
  BY InsertTyped, JobStoreAssumption DEF StoreTypeOK
<1>2. status[lastId + 1] = "absent" /\ key[lastId + 1] = NoKey
  BY <1>1 DEF StoreInv, Allocated, JobIds
<1>3. \A j \in JobIds : key'[j] = IF j = lastId + 1 THEN <<p, t>> ELSE key[j]
  BY <1>1 DEF InsertRow, StoreTypeOK
<1>4. \A j \in JobsOf(f) : j \in JobIds /\ j < lastId + 1
  <2> TAKE j \in JobsOf(f)
  <2>1. j \in JobIds /\ key[j] # NoKey
    BY SourceIsKey DEF JobsOf
  <2> QED BY <1>1, <2>1 DEF StoreInv, Allocated, JobIds
<1>5. JobsOf(f)' = JobsOf(f) \cup (IF f = <<p, t>> THEN {lastId + 1} ELSE {})
  BY <1>1, <1>2, <1>3, SourceIsKey DEF JobsOf
<1> QED BY <1>1, <1>2, <1>3, <1>4, <1>5

LEMMA SameJobs ==
  ASSUME key' = key, NEW f \in Sources
  PROVE  JobsOf(f)' = JobsOf(f)
BY DEF JobsOf

LEMMA NewerKept ==
  ASSUME StoreTypeOK, StoreInv, OneExecuting, SerialOp, NEW f \in Sources, Newer(f)
  PROVE  Newer(f)'
<1> USE DEF IsPending, IsExecuting, Executing, Dead
<1>0. /\ status \in [JobIds -> Statuses] /\ \A j \in JobsOf(f) : j \in JobIds /\ key[j] = f
      /\ lastId \in Int
  BY JobStoreAssumption DEF StoreTypeOK, JobsOf
<1>1. ASSUME NEW p \in Projects, NEW g \in Files, NEW prio \in Priorities, submit(p, g, prio)
      PROVE  Newer(f)'
  <2> g \in Targets
    BY DEF Targets
  <2>1. CASE SubmitRejected(p) \/ SubmitDeduplicated(p, g, prio)
    <3>1. status' = status /\ key' = key
      BY <2>1 DEF SubmitRejected, SubmitDeduplicated, storeVars, jobs
    <3> QED BY <3>1, SameJobs DEF Newer
  <2>2. CASE SubmitAbsorbed(p, g, prio)
    <3>1. InsertRow(p, g, prio) /\ status' = [status EXCEPT ![lastId + 1] = "superseded"]
      BY <2>2 DEF SubmitAbsorbed
    <3>2. \A j \in JobIds : status'[j] = IF j = lastId + 1 THEN "superseded" ELSE status[j]
      BY <1>0, <3>1
    <3>3. /\ \A j \in JobsOf(f) : j \in Int /\ j < lastId + 1 /\ status'[j] = status[j]
          /\ JobsOf(f)' \subseteq JobsOf(f) \cup {lastId + 1}
          /\ status'[lastId + 1] = "superseded"
      <4>1. /\ lastId + 1 \in JobIds
            /\ JobsOf(f)' = JobsOf(f) \cup (IF f = <<p, g>> THEN {lastId + 1} ELSE {})
            /\ \A j \in JobsOf(f) : j \in JobIds /\ j < lastId + 1
        BY <3>1, RowsAfterInsert
      <4> QED BY <1>0, <3>2, <4>1 DEF JobIds
    <3> QED BY <1>0, <3>3 DEF Newer
  <2>3. CASE SubmitInserted(p, g, prio)
    <3>1. /\ InsertRow(p, g, prio) /\ status' = [status EXCEPT ![lastId + 1] = "pending"]
          /\ PendingFor(p, g) = {}
      BY <2>3 DEF SubmitInserted
    <3>2. \A j \in JobIds : status'[j] = IF j = lastId + 1 THEN "pending" ELSE status[j]
      BY <1>0, <3>1
    <3>3. f = <<p, g>> => \A j \in JobsOf(f) : status[j] # "pending"
      BY <1>0, <3>1 DEF PendingFor
    <3>4. /\ \A j \in JobsOf(f) : j \in Int /\ j < lastId + 1 /\ status'[j] = status[j]
          /\ JobsOf(f)' = JobsOf(f) \cup (IF f = <<p, g>> THEN {lastId + 1} ELSE {})
          /\ status'[lastId + 1] = "pending"
      <4>1. /\ lastId + 1 \in JobIds
            /\ JobsOf(f)' = JobsOf(f) \cup (IF f = <<p, g>> THEN {lastId + 1} ELSE {})
            /\ \A j \in JobsOf(f) : j \in JobIds /\ j < lastId + 1
        BY <3>1, RowsAfterInsert
      <4> QED BY <1>0, <3>2, <4>1 DEF JobIds
    <3>5. CASE f = <<p, g>>
      BY <1>0, <3>3, <3>4, <3>5 DEF Newer
    <3>6. CASE f # <<p, g>>
      BY <1>0, <3>4, <3>6 DEF Newer
    <3> QED BY <3>5, <3>6
  <2> QED BY <1>1, <2>1, <2>2, <2>3 DEF submit
<1>2. ASSUME NEW p \in Projects, submit_full_scan(p)
      PROVE  Newer(f)'
  <2>1. CASE FullScanNotNeeded(p)
    <3>1. status' = status /\ key' = key
      BY <2>1 DEF FullScanNotNeeded, storeVars, jobs
    <3> QED BY <3>1, SameJobs DEF Newer
  <2>2. CASE FullScanInserted(p)
    <3>1. /\ InsertRow(p, FullScan, 0)
          /\ status' = [j \in JobIds |-> IF j = lastId + 1 THEN "pending"
                                         ELSE IF j \in PendingIncrementals(p) THEN "superseded"
                                         ELSE status[j]]
      BY <2>2 DEF FullScanInserted
    <3>2. JobsOf(f)' = JobsOf(f) /\ \A j \in JobsOf(f) : j < lastId + 1
      <4>1. FullScan \in Targets /\ 0 \in Priorities /\ f # <<p, FullScan>>
        BY JobStoreAssumption, SourceIsKey DEF Targets
      <4>2. /\ JobsOf(f)' = JobsOf(f) \cup (IF f = <<p, FullScan>> THEN {lastId + 1} ELSE {})
            /\ \A j \in JobsOf(f) : j \in JobIds /\ j < lastId + 1
        BY <3>1, <4>1, RowsAfterInsert
      <4> QED BY <4>1, <4>2
    <3>3. \A j \in JobsOf(f) : \/ status'[j] = status[j]
                               \/ status[j] = "pending" /\ status'[j] = "superseded"
      BY <1>0, <3>1, <3>2 DEF PendingIncrementals, JobIds
    <3> QED BY <1>0, <3>2, <3>3 DEF Newer
  <2> QED BY <1>2, <2>1, <2>2 DEF submit_full_scan
<1>3. ASSUME key' = key, NEW j \in JobIds, IsExecuting(j) \/ IsPending(j),
             NEW st \in Statuses \ {"pending"}, IsExecuting(j) \/ st = "cancelled",
             status' = [status EXCEPT ![j] = st]
      PROVE  Newer(f)'
  <2>1. JobsOf(f)' = JobsOf(f)
    BY <1>3, SameJobs
  <2>2. \A k \in JobIds : status'[k] = IF k = j THEN st ELSE status[k]
    BY <1>0, <1>3
  <2> QED BY <1>0, <1>3, <2>1, <2>2 DEF Newer, OneExecuting
<1>4. ASSUME NEW j \in JobIds, complete(j, "succeeded") \/ complete(j, "failed") \/ confirm_cancelled(j)
                \/ CancelPending(j) \/ CancelRunning(j)
      PROVE  Newer(f)'
  BY <1>3, <1>4 DEF complete, confirm_cancelled, CancelPending, CancelRunning, BecomesCancelled,
     Statuses, Terminal
<1>5. ASSUME NEW j \in JobIds, claim_next_pending(j), \A k \in JobIds : ~IsExecuting(k)
      PROVE  Newer(f)'
  <2>1. JobsOf(f)' = JobsOf(f) /\ status[j] = "pending"
    BY <1>5, SameJobs DEF claim_next_pending, Claimable
  <2>2. \A k \in JobIds : status'[k] = IF k = j THEN "running" ELSE status[k]
    BY <1>0, <1>5 DEF claim_next_pending
  <2> QED BY <1>0, <1>5, <2>1, <2>2 DEF Newer
<1>6. CASE recover
  <2>1. JobsOf(f)' = JobsOf(f)
    BY <1>6, SameJobs DEF recover
  <2>2. \A j \in JobsOf(f) : status[j] \in Dead => status'[j] = status[j]
    BY <1>0, <1>6 DEF recover, Yielding, Requeued, CancelRequested
  <2>3. \A j \in JobsOf(f) : status'[j] \notin Executing
    BY <1>0, <1>6 DEF recover, Yielding, Requeued, CancelRequested, Statuses, Terminal
  <2>4. \A j \in JobsOf(f) : status'[j] = "pending" /\ status[j] # "pending" =>
          status[j] = "running" /\ \A k \in JobsOf(f) : status[k] # "pending"
    BY <1>0, <1>6 DEF recover, Yielding, Requeued, CancelRequested, Successors
  <2> QED BY <2>1, <2>2, <2>3, <2>4 DEF Newer
<1>7. ASSUME status' = status, key' = key PROVE Newer(f)'
  BY <1>7, SameJobs DEF Newer
<1>8. ASSUME NEW j, NEW n, promote(j, n) \/ update_progress(j, n) PROVE Newer(f)'
  BY <1>7, <1>8 DEF promote, update_progress
<1>9. CASE UNCHANGED storeVars
  BY <1>7, <1>9 DEF storeVars, jobs
<1> QED BY <1>1, <1>2, <1>4, <1>5, <1>6, <1>8, <1>9 DEF SerialOp, NonClaimOp

LEMMA ClockKept ==
  ASSUME StoreTypeOK, StoreInv, SameClock, SerialOp, clock' = clock
  PROVE  SameClock'
<1>0. /\ status \in [JobIds -> Statuses] /\ created \in [JobIds -> Times]
      /\ projects \in [Projects -> Times \cup {NotRegistered}]
  BY DEF StoreTypeOK
<1>1. ASSUME NEW p \in Projects, NEW t \in Targets, NEW prio \in Priorities, InsertRow(p, t, prio),
             \A j \in JobIds : j # lastId + 1 => (status[j] = "absent" => status'[j] = "absent")
      PROVE  \A j \in JobIds : status'[j] # "absent" => created'[j] = clock
  <2>1. \A j \in JobIds : created'[j] = IF j = lastId + 1 THEN clock ELSE created[j]
    BY <1>0, <1>1 DEF InsertRow
  <2> QED BY <1>1, <2>1 DEF SameClock
<1>2. ASSUME NEW p \in Projects, RegisterProject(p)
      PROVE  \A q \in Projects : projects'[q] \in {NotRegistered, clock}
  BY <1>0, <1>2 DEF RegisterProject, SameClock
<1>3. ASSUME NEW p \in Projects, NEW f \in Files, NEW prio \in Priorities, submit(p, f, prio)
      PROVE  SameClock'
  <2> f \in Targets
    BY DEF Targets
  <2>1. CASE SubmitRejected(p)
    BY <2>1 DEF SubmitRejected, SameClock, storeVars, jobs
  <2>2. CASE SubmitDeduplicated(p, f, prio)
    BY <1>2, <2>2 DEF SubmitDeduplicated, SameClock
  <2>3. CASE SubmitAbsorbed(p, f, prio) \/ SubmitInserted(p, f, prio)
    <3>1. /\ RegisterProject(p) /\ InsertRow(p, f, prio)
          /\ \A j \in JobIds : j # lastId + 1 => status'[j] = status[j]
      BY <1>0, <2>3 DEF SubmitAbsorbed, SubmitInserted
    <3> QED BY <1>1, <1>2, <3>1 DEF SameClock
  <2> QED BY <1>3, <2>1, <2>2, <2>3 DEF submit
<1>4. ASSUME NEW p \in Projects, submit_full_scan(p)
      PROVE  SameClock'
  <2>1. CASE FullScanNotNeeded(p)
    BY <2>1 DEF FullScanNotNeeded, SameClock, storeVars, jobs
  <2>2. CASE FullScanInserted(p)
    <3>1. /\ InsertRow(p, FullScan, 0) /\ projects' = projects
          /\ \A j \in JobIds : j # lastId + 1 => (status[j] = "absent" => status'[j] = "absent")
      BY <1>0, <2>2 DEF FullScanInserted, PendingIncrementals, IsPending
    <3>2. FullScan \in Targets /\ 0 \in Priorities
      BY JobStoreAssumption DEF Targets
    <3> QED BY <1>1, <3>1, <3>2 DEF SameClock
  <2> QED BY <1>4, <2>1, <2>2 DEF submit_full_scan
<1>5. ASSUME UNCHANGED <<created, projects>>,
             \A j \in JobIds : status[j] = "absent" => status'[j] = "absent"
      PROVE  SameClock'
  BY <1>5 DEF SameClock
<1>6. ASSUME NEW j \in JobIds, \/ complete(j, "succeeded") \/ complete(j, "failed") \/ confirm_cancelled(j)
                \/ CancelPending(j) \/ CancelRunning(j) \/ claim_next_pending(j)
      PROVE  SameClock'
  <2>1. /\ UNCHANGED <<created, projects>> /\ status[j] # "absent"
        /\ \A k \in JobIds : k # j => status'[k] = status[k]
    BY <1>0, <1>6 DEF complete, confirm_cancelled, CancelPending, CancelRunning, BecomesCancelled,
       claim_next_pending, Claimable, IsPending
  <2> QED BY <1>5, <2>1
<1>7. CASE recover
  BY <1>0, <1>5, <1>7 DEF recover, Yielding, Requeued, CancelRequested
<1>8. ASSUME NEW j, NEW n, promote(j, n) \/ update_progress(j, n) PROVE SameClock'
  BY <1>5, <1>8 DEF promote, update_progress
<1>9. CASE UNCHANGED storeVars
  BY <1>5, <1>9 DEF storeVars, jobs
<1> QED BY <1>3, <1>4, <1>6, <1>7, <1>8, <1>9 DEF SerialOp, NonClaimOp

LEMMA LatestKept ==
  ASSUME HistTyped, HistTyped', Moves, NEW f \in Sources, Latest(f),
         JobsOf(f)' = JobsOf(f), recorded'[f] = recorded[f]
  PROVE  Latest(f)'
<1>1. CASE JobsOf(f) = {} /\ recorded[f] = 0
  BY <1>1 DEF Latest
<1>2. ASSUME NEW j \in JobsOf(f), \A k \in JobsOf(f) : k <= j, Covers(j, f, recorded[f])
      PROVE  Latest(f)'
  <2>1. j \in JobIds /\ key[j] = f /\ recorded[f] \in Nat
    BY Constants DEF JobsOf, HistTyped, Edits
  <2>2. Covers(j, f, recorded[f])'
    <3>1. recorded[f] = recorded'[f]
      OBVIOUS
    <3>2. PICK n \in Nat : n = recorded[f]
      BY <2>1
    <3>3. Covers(j, f, n)
      BY <1>2, <3>2
    <3>4. Covers(j, f, n)'
      BY <2>1, <3>3, CoversKept
    <3> QED BY <3>1, <3>2, <3>4 DEF Covers
  <2> QED BY <1>2, <2>2 DEF Latest
<1> QED BY <1>1, <1>2 DEF Latest

(* What was recorded was edited *)
LEMMA RecordedIsEdited ==
  ASSUME HistTyped, NEW f \in Sources, Latest(f)
  PROVE  recorded[f] <= edited[f]
BY Constants DEF Latest, Covers, HistTyped, Edits

LEMMA SubmitLatest ==
  ASSUME ClientsInv, HandleSubmit, HistTyped', Moves, NEW g \in Sources
  PROVE  Latest(g)'
<1>0. /\ TypeOK /\ TableInv /\ HistTyped /\ StoreTypeOK /\ StoreInv /\ SameClock
      /\ \A f \in Sources : Latest(f) /\ Newer(f)
  BY TypeParts DEF ClientsInv, TableInv
<1>1. /\ serving \in Clients /\ Line.op = "submit" /\ Line.file \in Sources
      /\ Line.edit \in 0 .. MaxEdits /\ Line.prio \in Priorities
  BY <1>0, LineTyped, RequestKinds DEF HandleSubmit, Reads
<1> DEFINE f == Line.file
           n == IF recorded[f] < Line.edit THEN Line.edit ELSE recorded[f]
<1>2. submit(f[1], f[2], Line.prio)
  BY DEF HandleSubmit
<1>3. /\ recorded' = [recorded EXCEPT ![f] = IF @ < Line.edit THEN Line.edit ELSE @]
      /\ UNCHANGED <<edited, asked, upTo, scanned>>
  BY DEF HandleSubmit
<1>4. /\ f[1] \in Projects /\ f[2] \in Files /\ f[2] \in Targets /\ f = <<f[1], f[2]>>
      /\ f \in Sources
  BY <1>1, SourceIsKey DEF Targets
<1>5. recorded'[f] = n /\ \A h \in Sources : h # f => recorded'[h] = recorded[h]
  BY <1>0, <1>3, <1>4 DEF HistTyped, Edits
<1>6. Line.edit <= edited[f]
  BY <1>1 DEF ClientsInv, LinesFit, Line
<1>7. n <= edited'[f]
  <2>1. recorded[f] <= edited[f]
    BY <1>0, <1>4, RecordedIsEdited
  <2> QED BY <1>3, <1>6, <2>1
<1>8. ~SubmitRejected(f[1])
  BY <1>0, <1>4 DEF SubmitRejected, SameClock, StoreTypeOK, Times, NotRegistered
<1> HIDE DEF f, n
<1>9. CASE SubmitAbsorbed(f[1], f[2], Line.prio) \/ SubmitInserted(f[1], f[2], Line.prio)
  <2>1. InsertRow(f[1], f[2], Line.prio)
    BY <1>9 DEF SubmitAbsorbed, SubmitInserted
  <2>2. /\ lastId + 1 \in JobIds
        /\ JobsOf(g)' = JobsOf(g) \cup (IF g = <<f[1], f[2]>> THEN {lastId + 1} ELSE {})
        /\ \A j \in JobsOf(g) : j \in JobIds /\ j < lastId + 1
    BY <1>0, <1>1, <1>4, <2>1, RowsAfterInsert
  <2>3. CASE g = f
    <3>1. status'[lastId + 1] \in {"pending", "superseded"}
      BY <1>0, <1>9, <2>2 DEF SubmitAbsorbed, SubmitInserted, StoreTypeOK
    <3>2. PICK m \in JobIds : m = lastId + 1
      BY <2>2
    <3>3. m \in JobsOf(g)' /\ \A k \in JobsOf(g)' : k <= m
      BY <1>4, <2>2, <2>3, <3>2 DEF JobIds
    <3>4. Covers(m, g, recorded[g])'
      BY <1>5, <1>7, <2>3, <3>1, <3>2 DEF Covers, IsExecuting, Executing
    <3> QED BY <3>3, <3>4 DEF Latest
  <2>4. CASE g # f
    BY <1>0, <1>4, <1>5, <2>2, <2>4, LatestKept
  <2> QED BY <2>3, <2>4
<1>10. CASE SubmitDeduplicated(f[1], f[2], Line.prio)
  <2>1. UNCHANGED <<status, key>> /\ PendingFor(f[1], f[2]) # {}
    BY <1>10 DEF SubmitDeduplicated
  <2>2. JobsOf(g)' = JobsOf(g)
    BY <2>1, SameJobs
  <2>3. CASE g = f
    <3>1. PICK e \in JobsOf(f) : e \in JobIds /\ IsPending(e)
      BY <1>4, <2>1 DEF PendingFor, JobsOf
    <3>2. PICK m \in JobsOf(f) : \A k \in JobsOf(f) : k <= m
      BY <1>0, <1>4, <3>1 DEF Latest
    <3>3. m \in JobIds
      BY DEF JobsOf
    <3>4. status[m] \in Dead \cup {"pending"}
      BY <1>0, <1>4, <3>1, <3>2, <3>3 DEF Newer, JobIds, IsPending
    <3>5. Covers(m, g, recorded[g])'
      BY <1>5, <1>7, <2>1, <2>3, <3>4 DEF Covers, IsExecuting, Executing, Dead
    <3> QED BY <2>2, <2>3, <3>2, <3>5 DEF Latest
  <2>4. CASE g # f
    BY <1>0, <1>4, <1>5, <2>2, <2>4, LatestKept
  <2> QED BY <2>3, <2>4
<1> QED BY <1>2, <1>8, <1>9, <1>10 DEF submit

LEMMA TableStep ==
  ASSUME ClientsInv, [Next]_vars
  PROVE  TableInv'
<1>0. /\ TypeOK /\ TableInv /\ StoreTypeOK /\ StoreInv /\ OneExecuting /\ SameClock
      /\ \A f \in Sources : Latest(f) /\ Newer(f)
  BY TypeParts DEF ClientsInv, TableInv
<1>1. StoreInv' /\ OneExecuting'
  BY <1>0, TableKept
<1>2. SerialOp /\ clock' = clock
  BY <1>0, StepOnTable
<1>3. SameClock' /\ \A f \in Sources : Newer(f)'
  BY <1>0, <1>2, ClockKept, NewerKept
<1>4. HistTyped /\ HistTyped' /\ Moves
  BY <1>0, HistStep, StepMoves, TypeParts
<1>5. ASSUME NEW f \in Sources PROVE Latest(f)'
  <2>1. ASSUME UNCHANGED <<key, recorded>> PROVE Latest(f)'
    BY <1>0, <1>4, <2>1, SameJobs, LatestKept
  <2>2. CASE HandleSubmit
    BY <1>4, <2>2, SubmitLatest
  <2>3. ASSUME NEW p \in Projects, PublishProvider(p) PROVE Latest(f)'
    <3>1. InsertRow(p, FullScan, 0) /\ recorded' = recorded
      BY <2>3 DEF PublishProvider, FullScanInserted, histVars
    <3>2. FullScan \in Targets /\ 0 \in Priorities /\ f # <<p, FullScan>>
      BY JobStoreAssumption, SourceIsKey DEF Targets
    <3>3. JobsOf(f)' = JobsOf(f) \cup (IF f = <<p, FullScan>> THEN {lastId + 1} ELSE {})
      BY <1>0, <3>1, <3>2, RowsAfterInsert
    <3>4. JobsOf(f)' = JobsOf(f)
      BY <3>2, <3>3
    <3> QED BY <1>0, <1>4, <3>1, <3>4, LatestKept
  <2>4. ASSUME NEW j \in JobIds, Claim(j) \/ Finish(j) \/ Cancel(j) PROVE Latest(f)'
    BY <2>1, <2>4 DEF Claim, Finish, Cancel, claim_next_pending, complete, confirm_cancelled,
       CancelPending, CancelRunning, BecomesCancelled, histVars
  <2>5. CASE Start \/ HandlePromote
    BY <2>1, <2>5 DEF Start, recover, HandlePromote, promote, histVars
  <2>6. CASE Serve \/ Stop \/ Accept \/ HandleList \/ HandleOpenConfigUi \/ SpawnEnds \/ Release
             \/ ClientExits
    BY <2>1, <2>6 DEF Serve, Stop, Accept, HandleList, HandleOpenConfigUi, SpawnEnds, Release,
       ClientExits, histVars, storeVars, jobs
  <2>7. ASSUME NEW h, NEW x, RunDirty(h, x) \/ RunEnrich(h, x) \/ RunConfig(h, x) PROVE Latest(f)'
    BY <2>1, <2>7 DEF RunDirty, RunEnrich, RunConfig, histVars, storeVars, jobs
  <2>8. ASSUME NEW h, Connect(h) \/ ConnectFails(h) \/ Send(h) \/ Receive(h) \/ GiveUp(h)
        PROVE  Latest(f)'
    BY <2>1, <2>8 DEF Connect, ConnectFails, Send, Receive, GiveUp, histVars, storeVars, jobs
  <2>9. CASE UNCHANGED vars
    BY <2>1, <2>9 DEF vars, histVars, storeVars, jobs
  <2> QED BY <2>2, <2>3, <2>4, <2>5, <2>6, <2>7, <2>8, <2>9
          DEF Next, Daemon, Jobs, Server, HandleLine
<1> QED BY <1>1, <1>3, <1>5 DEF TableInv

-----------------------------------------------------------------------------
(* The config UI *)

Ui == [state : {"running", "exited"}, mode : Modes, daemon : 1 .. MaxStarts]

LEMMA UiParts ==
  ASSUME UiTypeOK(1 .. MaxStarts)
  PROVE  /\ slot \in 0 .. MaxChildren /\ spawning \in 0 .. MaxChildren
         /\ child \in [Children -> {NoChild} \cup Ui] /\ MaxChildren \in Nat
         /\ 0 \notin Children
         /\ slot # 0 => slot \in Children
         /\ spawning # 0 => spawning \in Children
BY Constants DEF UiTypeOK, Ui, Children

LEMMA ChildKinds ==
  ASSUME NEW c \in {NoChild} \cup Ui
  PROVE  /\ c = NoChild => c.state = "none"
         /\ c # NoChild => /\ c \in Ui /\ c.state \in {"running", "exited"}
                           /\ c.daemon \in 1 .. MaxStarts
         /\ c.state = "running" => c # NoChild
BY DEF NoChild, Ui

(* A child that is killed or ends by itself *)
LEMMA ExitedTyped ==
  ASSUME UiTypeOK(1 .. MaxStarts), NEW c \in Children, child[c] # NoChild, Exited(c)
  PROVE  /\ child' \in [Children -> {NoChild} \cup Ui]
         /\ \A d \in Children : d # c => child'[d] = child[d]
         /\ child'[c] # NoChild /\ child'[c].state = "exited" /\ child'[c].daemon = child[c].daemon
<1>1. child \in [Children -> {NoChild} \cup Ui] /\ child[c] \in Ui
  BY UiParts
<1> DEFINE new == [child[c] EXCEPT !.state = "exited"]
<1>2. new \in Ui /\ new # NoChild /\ new.state = "exited" /\ new.daemon = child[c].daemon
  BY <1>1 DEF Ui, NoChild
<1>3. child' = [child EXCEPT ![c] = new]
  BY <1>1 DEF Exited
<1> HIDE DEF new
<1> QED BY <1>1, <1>2, <1>3

(* Steps that leave the config UI alone *)
LEMMA UiQuiet ==
  ASSUME ClientsInv, UNCHANGED <<uiVars, phase, starts>>,
         phase # "up" => serving' = Nobody,
         spawning # 0 => serving' = serving /\ sock'[serving].request = sock[serving].request
  PROVE  UiTypeOK(1 .. MaxStarts)' /\ UiInv'
<1>1. UiTypeOK(1 .. MaxStarts) /\ UiInv
  BY TypeParts DEF ClientsInv
<1>2. UNCHANGED <<slot, spawning, child>>
  BY DEF uiVars
<1>3. UiTypeOK(1 .. MaxStarts)'
  BY <1>1, <1>2 DEF UiTypeOK
<1>4. OneConfigUi'
  BY <1>1, <1>2 DEF UiInv, OneConfigUi, Running
<1> QED BY <1>1, <1>2, <1>3, <1>4 DEF UiInv, Line

LEMMA UiStep ==
  ASSUME ClientsInv, [Next]_vars
  PROVE  UiTypeOK(1 .. MaxStarts)' /\ UiInv'
<1> USE DEF NoLine
<1>0. /\ TypeOK /\ UiTypeOK(1 .. MaxStarts) /\ UiInv /\ ProcessTyped /\ SockTyped
      /\ \A c \in Clients : LinesFit(hook[c], sock[c])
  BY TypeParts DEF ClientsInv
<1>1. /\ slot \in 0 .. MaxChildren /\ spawning \in 0 .. MaxChildren
      /\ child \in [Children -> {NoChild} \cup Ui] /\ MaxChildren \in Nat
      /\ 0 \notin Children /\ (slot # 0 => slot \in Children)
      /\ (spawning # 0 => spawning \in Children)
  BY <1>0, UiParts
<1>2. \A c \in Children : /\ child[c].state = "running" => child[c] # NoChild
                          /\ child[c] # NoChild => child[c].daemon \in 1 .. MaxStarts
  BY <1>1, ChildKinds
<1>3. starts \in 1 .. MaxStarts /\ MaxStarts \in Nat /\ phase \in {"down", "opened", "up"}
  BY <1>0, Constants DEF ProcessTyped
<1>4. CASE HandleOpenConfigUi
  <2>1. serving \in Clients /\ spawning = 0 /\ Line.op = "open_config_ui" /\ Line.mode \in Modes
    BY <1>0, <1>4, LineTyped, RequestKinds DEF HandleOpenConfigUi, Reads
  <2>2. phase = "up" /\ serving # Nobody
    BY <1>0, <2>1, Constants DEF UiInv
  <2>3. ASSUME OpenReady(Line.mode) \/ OpenConflict(Line.mode), NEW r, Answers(r)
        PROVE  UiTypeOK(1 .. MaxStarts)' /\ UiInv'
    BY <2>1, <2>2, <2>3, UiQuiet DEF OpenReady, OpenConflict, Answers
  <2>4. CASE OpenRefused(Line.mode) /\ UNCHANGED <<phase, starts>>
    <3>1. slot' = 0 /\ UNCHANGED <<spawning, child>> /\ (slot # 0 => child[slot].state # "running")
      BY <2>4 DEF OpenRefused, Reaped, Running
    <3>2. OneConfigUi'
      BY <1>0, <1>1, <2>1, <2>4, <3>1 DEF UiInv, OneConfigUi, Running
    <3>3. UiTypeOK(1 .. MaxStarts)'
      BY <1>0, <1>1, <3>1 DEF UiTypeOK
    <3> QED BY <1>0, <2>1, <2>2, <2>4, <3>1, <3>2, <3>3 DEF UiInv
  <2>5. CASE OpenSpawns(Line.mode, starts) /\ UNCHANGED <<clock, phase, starts, netVars, hook>>
    <3>1. slot' = 0 /\ (slot # 0 => child[slot].state # "running")
      BY <2>5 DEF OpenSpawns, Reaped, Running
    <3>2. PICK c \in Children : /\ child[c] = NoChild /\ spawning' = c
                                /\ child' = [child EXCEPT ![c] = Spawned(Line.mode, starts)]
      BY <2>5 DEF OpenSpawns
    <3> DEFINE new == Spawned(Line.mode, starts)
    <3>3. new \in Ui /\ new # NoChild /\ new.daemon = starts
      BY <1>3, <2>1 DEF Spawned, Ui, NoChild
    <3>4. child' \in [Children -> {NoChild} \cup Ui]
      BY <1>1, <3>2, <3>3
    <3>5. \A d \in Children : child'[d] = IF d = c THEN new ELSE child[d]
      BY <1>1, <3>2
    <3> HIDE DEF new
    <3>6. UiTypeOK(1 .. MaxStarts)'
      BY <1>1, <3>1, <3>2, <3>4 DEF UiTypeOK, Ui, Children
    <3>7. OneConfigUi'
      BY <1>0, <1>1, <2>1, <2>5, <3>1, <3>2, <3>5 DEF UiInv, OneConfigUi, Running
    <3>8. serving' # Nobody /\ Line'.op = "open_config_ui" /\ phase' = "up" /\ starts' = starts
      BY <2>1, <2>2, <2>5, Constants DEF netVars, Line
    <3> QED BY <1>0, <1>1, <1>3, <3>1, <3>2, <3>3, <3>5, <3>6, <3>7, <3>8 DEF UiInv
  <2> QED BY <1>4, <2>3, <2>4, <2>5 DEF HandleOpenConfigUi, Answers
<1>5. CASE SpawnEnds
  <2>1. serving # Nobody /\ phase = "up" /\ UNCHANGED <<phase, starts>>
    BY <1>0, <1>5 DEF SpawnEnds, Answers, UiInv
  <2>2. CASE ReportAccepted
    <3>1. spawning # 0 /\ slot' = spawning /\ spawning' = 0 /\ child' = child /\ slot = 0
      BY <1>0, <2>2 DEF ReportAccepted, UiInv
    <3>2. UiTypeOK(1 .. MaxStarts)'
      BY <1>0, <1>1, <3>1 DEF UiTypeOK
    <3>3. OneConfigUi'
      BY <1>0, <1>1, <2>1, <3>1 DEF UiInv, OneConfigUi, Running
    <3> QED BY <1>0, <2>1, <3>1, <3>2, <3>3 DEF UiInv
  <2>3. CASE ReportRefused
    <3>1. spawning # 0 /\ Exited(spawning) /\ slot' = slot /\ spawning' = 0 /\ slot = 0
          /\ child[spawning] # NoChild
      BY <1>0, <2>3 DEF ReportRefused, UiInv
    <3>2. PICK c \in Children : c = spawning
      BY <1>1, <3>1
    <3>3. /\ child' \in [Children -> {NoChild} \cup Ui]
          /\ \A d \in Children : d # c => child'[d] = child[d]
          /\ child'[c] # NoChild /\ child'[c].state = "exited" /\ child'[c].daemon = child[c].daemon
      BY <1>0, <3>1, <3>2, ExitedTyped
    <3>4. UiTypeOK(1 .. MaxStarts)'
      BY <1>1, <3>1, <3>3 DEF UiTypeOK, Ui
    <3>5. OneConfigUi'
      BY <1>0, <1>1, <2>1, <3>1, <3>2, <3>3 DEF UiInv, OneConfigUi, Running
    <3> QED BY <1>0, <2>1, <3>1, <3>2, <3>3, <3>4, <3>5 DEF UiInv
  <2> QED BY <1>5, <2>2, <2>3 DEF SpawnEnds
<1>6. CASE ClientExits
  <2>1. UNCHANGED <<slot, spawning, phase, starts, serving, sock>>
    BY <1>6 DEF ClientExits, ChildExits, netVars
  <2>2. PICK c \in Children : Running(c) /\ Exited(c)
    BY <1>6 DEF ClientExits, ChildExits
  <2>3. child[c] # NoChild
    BY <1>2, <2>2 DEF Running
  <2>4. /\ child' \in [Children -> {NoChild} \cup Ui]
        /\ \A d \in Children : d # c => child'[d] = child[d]
        /\ child'[c] # NoChild /\ child'[c].state = "exited" /\ child'[c].daemon = child[c].daemon
    BY <1>0, <2>2, <2>3, ExitedTyped
  <2>5. UiTypeOK(1 .. MaxStarts)'
    BY <1>1, <2>1, <2>4 DEF UiTypeOK, Ui
  <2>6. OneConfigUi'
    BY <1>0, <2>1, <2>4 DEF UiInv, OneConfigUi, Running
  <2>7. \A d \in Children : child'[d] # NoChild =>
          child'[d].daemon <= starts /\ (phase = "opened" => child'[d].daemon < starts)
    BY <1>0, <2>3, <2>4 DEF UiInv
  <2>8. spawning # 0 => child'[spawning] # NoChild
    BY <1>0, <1>1, <2>4 DEF UiInv
  <2> QED BY <1>0, <2>1, <2>5, <2>6, <2>7, <2>8 DEF UiInv, Line
<1>7. CASE Stop
  <2>1. slot' = 0 /\ spawning' = 0 /\ child' = child /\ phase' = "down" /\ starts' = starts
        /\ serving' = Nobody
    BY <1>7 DEF Stop, UiHostEnds
  <2>2. UiTypeOK(1 .. MaxStarts)'
    BY <1>0, <1>1, <2>1 DEF UiTypeOK
  <2> QED BY <1>0, <2>1, <2>2 DEF UiInv, OneConfigUi
<1>8. CASE Start
  <2>1. /\ UNCHANGED <<slot, spawning, child, serving>> /\ phase' = "opened" /\ starts' = starts + 1
        /\ phase = "down"
    BY <1>8 DEF Start, uiVars, netVars
  <2>2. slot = 0 /\ serving = Nobody /\ spawning = 0
    BY <1>0, <2>1 DEF UiInv
  <2>3. UiTypeOK(1 .. MaxStarts)'
    BY <1>0, <2>1 DEF UiTypeOK
  <2>4. \A c \in Children : child[c] # NoChild => child[c].daemon < starts'
    BY <1>0, <1>2, <1>3, <2>1 DEF UiInv
  <2> QED BY <2>1, <2>2, <2>3, <2>4, <1>2, <1>3 DEF UiInv, OneConfigUi
<1>9. CASE Serve
  <2>1. /\ UNCHANGED <<slot, spawning, child, serving, starts>> /\ phase' = "up" /\ phase = "opened"
    BY <1>9 DEF Serve, uiVars, netVars
  <2>2. slot = 0 /\ serving = Nobody /\ spawning = 0
    BY <1>0, <2>1 DEF UiInv
  <2>3. UiTypeOK(1 .. MaxStarts)'
    BY <1>0, <2>1 DEF UiTypeOK
  <2>4. \A c \in Children : child[c] # NoChild => child[c].daemon < starts
    BY <1>0, <2>1 DEF UiInv
  <2>5. OneConfigUi'
    BY <1>2, <1>3, <2>1, <2>4 DEF OneConfigUi, Running
  <2> QED BY <2>1, <2>2, <2>3, <2>4, <2>5, <1>2, <1>3 DEF UiInv
<1>10. CASE Accept \/ Release \/ HandleSubmit \/ HandlePromote \/ HandleList
  <2>1. spawning = 0 /\ UNCHANGED <<uiVars, phase, starts>> /\ phase = "up"
    BY <1>0, <1>10 DEF Accept, Release, HandleSubmit, HandlePromote, HandleList, Reads, Answers, UiInv
  <2> QED BY <2>1, UiQuiet
<1>11. ASSUME UNCHANGED <<uiVars, phase, starts, serving, sock>>
       PROVE  UiTypeOK(1 .. MaxStarts)' /\ UiInv'
  BY <1>0, <1>11, UiQuiet DEF UiInv
<1>12. ASSUME NEW h \in Clients, Connect(h) \/ Send(h) \/ Receive(h) \/ GiveUp(h)
       PROVE  UiTypeOK(1 .. MaxStarts)' /\ UiInv'
  <2>1. /\ UNCHANGED <<uiVars, phase, starts, serving>>
        /\ \A c \in Clients : c # h => sock'[c] = sock[c]
    BY <1>0, <1>12 DEF Connect, Send, Receive, GiveUp, SockTyped
  <2>2. Receive(h) \/ GiveUp(h) => sock'[h].request = sock[h].request
    BY <1>0, <1>12 DEF Receive, GiveUp, SockTyped, Sock
  <2>3. Connect(h) \/ Send(h) => sock[h].request = NoLine
    BY <1>0 DEF Connect, Send, LinesFit
  <2>4. spawning # 0 => serving \in Clients /\ sock[serving].request # NoLine
    BY <1>0 DEF UiInv, Line, SockTyped
  <2>5. spawning # 0 => sock'[serving].request = sock[serving].request
    BY <1>12, <2>1, <2>2, <2>3, <2>4
  <2> QED BY <1>0, <2>1, <2>5, UiQuiet DEF UiInv
<1>13. ASSUME NEW h \in Clients, ConnectFails(h)
       PROVE  UiTypeOK(1 .. MaxStarts)' /\ UiInv'
  BY <1>11, <1>13 DEF ConnectFails, netVars
<1>14. ASSUME NEW h, NEW x, RunDirty(h, x) \/ RunEnrich(h, x) \/ RunConfig(h, x)
       PROVE  UiTypeOK(1 .. MaxStarts)' /\ UiInv'
  BY <1>11, <1>14 DEF RunDirty, RunEnrich, RunConfig, netVars
<1>15. ASSUME NEW j, PublishProvider(j) \/ Claim(j) \/ Finish(j) \/ Cancel(j)
       PROVE  UiTypeOK(1 .. MaxStarts)' /\ UiInv'
  BY <1>11, <1>15 DEF PublishProvider, Claim, Finish, Cancel, netVars
<1>16. CASE UNCHANGED vars
  BY <1>11, <1>16 DEF vars, netVars
<1> QED BY <1>4, <1>5, <1>6, <1>7, <1>8, <1>9, <1>10, <1>12, <1>13, <1>14, <1>15, <1>16
        DEF Next, Daemon, Jobs, Server, HandleLine

-----------------------------------------------------------------------------
(* The clients *)

(* Client h goes on to a state that fits its connection *)
Acts(h) ==
  \E new \in Hook, s \in Sock :
    /\ hook' = [hook EXCEPT ![h] = new]
    /\ sock' = [sock EXCEPT ![h] = s]
    /\ LinesFit(new, s)'
    /\ h \in Enrich => Knows(h, new, s)'
    /\ new.pc # "idle"
    /\ new.pc = "connect" => hook[h].pc = "idle"

LEMMA KnowsSame ==
  ASSUME NEW h, NEW k, NEW s, UNCHANGED <<storeVars, histVars>>, Knows(h, k, s)
  PROVE  Knows(h, k, s)'
BY DEF Knows, Silent, Asks, Hears, FileIn, Covers, IsExecuting, storeVars, jobs, histVars

LEMMA LinesSame ==
  ASSUME NEW k, NEW s, UNCHANGED edited, LinesFit(k, s)
  PROVE  LinesFit(k, s)'
BY DEF LinesFit

(* What is known of the client that takes the step *)
LEMMA ClientFields ==
  ASSUME ClientsInv, NEW h \in Clients
  PROVE  /\ TypeOK /\ HistTyped /\ LinesFit(hook[h], sock[h]) /\ hook[h] \in Hook /\ sock[h] \in Sock
         /\ sock = [sock EXCEPT ![h] = sock[h]]
         /\ h \in Enrich => Knows(h, hook[h], sock[h])
         /\ DOMAIN hook = Clients /\ DOMAIN sock = Clients
BY TypeParts, HookFields DEF ClientsInv, SockTyped, HookTyped

LEMMA DirtyRuns ==
  ASSUME ClientsInv, NEW h \in Dirty, NEW f \in Sources, RunDirty(h, f)
  PROVE  Acts(h)
<1>0. h \in Clients /\ h \notin Enrich
  BY Constants, ClientsAssumption
<1>1. /\ HistTyped /\ LinesFit(hook[h], sock[h]) /\ hook[h] \in Hook /\ sock[h] \in Sock
      /\ sock = [sock EXCEPT ![h] = sock[h]] /\ DOMAIN hook = Clients
  BY <1>0, ClientFields
<1>2. edited'[f] = edited[f] + 1 /\ edited'[f] \in 0 .. MaxEdits
  <2>1. edited[f] + 1 \in 0 .. MaxEdits
    BY RoomForAnEdit DEF ClientsInv, RunDirty
  <2> QED BY <1>1, <2>1 DEF RunDirty, HistTyped, Edits
<1> DEFINE l == SubmitLine(f, 0, edited'[f])
           new == [hook[h] EXCEPT !.pc = "connect", !.line = l]
<1>3. l \in Requests /\ l.op = "submit" /\ l.file = f /\ l.edit = edited'[f]
  BY <1>2, Lines, Constants DEF SubmitLine
<1> HIDE DEF l
<1>4. new \in Hook /\ new.pc = "connect" /\ new.line = l
  BY <1>1, <1>3 DEF Hook
<1>5. hook' = [hook EXCEPT ![h] = new] /\ sock' = sock
  <2>1. hook' = [hook EXCEPT ![h].pc = "connect", ![h].line = l] /\ sock' = sock
    BY Zenon DEF RunDirty, l, netVars
  <2> QED BY <1>0, <1>1, <2>1
<1> HIDE DEF new
<1>6. sock[h].request = NoLine /\ sock[h].response = NoLine /\ hook[h].pc = "idle"
  BY <1>1 DEF RunDirty, LinesFit
<1>7. PICK n \in Hook, s \in Sock : n = new /\ s = sock[h]
  BY <1>1, <1>4
<1>8. LinesFit(n, s)'
  BY <1>2, <1>3, <1>4, <1>6, <1>7 DEF LinesFit, NoLine
<1> QED BY <1>0, <1>1, <1>4, <1>5, <1>6, <1>7, <1>8 DEF Acts

(* A run of the enrichment hook or of the config command begins *)
LEMMA HookRuns ==
  ASSUME ClientsInv, NEW h \in Clients, NEW t \in SUBSET Sources,
         NEW l \in Requests \cup {NoLine}, l.op = "submit" => l = hook[h].line,
         hook[h].pc = "idle", hook' = [hook EXCEPT ![h].pc = "connect", ![h].todo = t, ![h].line = l],
         UNCHANGED <<storeVars, histVars, sock>>
  PROVE  Acts(h)
<1>1. /\ LinesFit(hook[h], sock[h]) /\ hook[h] \in Hook /\ sock[h] \in Sock
      /\ sock = [sock EXCEPT ![h] = sock[h]] /\ DOMAIN hook = Clients
      /\ h \in Enrich => Knows(h, hook[h], sock[h])
  BY ClientFields
<1> DEFINE new == [hook[h] EXCEPT !.pc = "connect", !.todo = t, !.line = l]
<1>2. new \in Hook /\ new.pc = "connect" /\ new.line = l /\ new.todo = t /\ new.said = hook[h].said
  BY <1>1 DEF Hook
<1>3. hook' = [hook EXCEPT ![h] = new]
  BY <1>1
<1> HIDE DEF new
<1>4. sock[h].request = NoLine /\ sock[h].response = NoLine
  BY <1>1 DEF LinesFit
<1>5. PICK n \in Hook, s \in Sock : n = new /\ s = sock[h]
  BY <1>1, <1>2
<1>6. LinesFit(n, s) /\ edited' = edited
  BY <1>1, <1>2, <1>4, <1>5 DEF LinesFit, NoLine, histVars
<1>7. ASSUME h \in Enrich PROVE Knows(h, n, s)
  <2>1. \A f \in Sources : hook[h].said[f] = "unasked"
    BY <1>1, <1>7 DEF Knows, Silent
  <2> QED BY <1>2, <1>5, <2>1 DEF Knows, Silent, Asks, Hears
<1>8. LinesFit(n, s)' /\ (h \in Enrich => Knows(h, n, s)')
  BY <1>6, <1>7, LinesSame, KnowsSame
<1> QED BY <1>1, <1>2, <1>3, <1>5, <1>8 DEF Acts

(* A step of client h is given by its new state and its new connection *)
LEMMA ActsBy ==
  ASSUME ClientsInv, NEW h \in Clients, NEW new \in Hook, NEW s \in Sock,
         hook' = [hook EXCEPT ![h] = new], sock' = [sock EXCEPT ![h] = s],
         UNCHANGED <<storeVars, histVars>>, new.pc \notin {"idle", "connect"},
         LinesFit(new, s), h \in Enrich => Knows(h, new, s)
  PROVE  Acts(h)
<1>1. LinesFit(new, s)' /\ (h \in Enrich => Knows(h, new, s)')
  BY LinesSame, KnowsSame DEF histVars
<1> QED BY <1>1 DEF Acts

Fresh == [Closed EXCEPT !.end = "queued", !.open = TRUE]

LEMMA FreshSock ==
  Fresh \in Sock /\ Fresh.request = NoLine /\ Fresh.response = NoLine
BY DEF Fresh, Closed, Sock

LEMMA Connects ==
  ASSUME ClientsInv, NEW h \in Clients, Connect(h)
  PROVE  Acts(h) /\ hook'[h].pc \in {"send", "done"}
<1>1. /\ HistTyped /\ LinesFit(hook[h], sock[h]) /\ hook[h] \in Hook /\ sock[h] \in Sock
      /\ DOMAIN hook = Clients /\ (h \in Enrich => Knows(h, hook[h], sock[h]))
  BY ClientFields
<1>2. /\ sock' = [sock EXCEPT ![h] = Fresh] /\ UNCHANGED <<storeVars, histVars>>
      /\ hook[h].pc = "connect"
  BY DEF Connect, Fresh
<1>3. NoLine.op = "none"
  BY DEF NoLine
<1>4. CASE h \notin Enrich /\ hook' = [hook EXCEPT ![h].pc = "send"]
  <2> DEFINE new == [hook[h] EXCEPT !.pc = "send"]
  <2>1. /\ new \in Hook /\ new.pc = "send" /\ new.line = hook[h].line
        /\ hook' = [hook EXCEPT ![h] = new]
    BY <1>1, <1>4 DEF Hook
  <2> HIDE DEF new
  <2>2. LinesFit(new, Fresh)
    BY <1>1, <1>3, <2>1, FreshSock DEF LinesFit
  <2> QED BY <1>1, <1>2, <1>4, <2>1, <2>2, FreshSock, ActsBy
<1>5. ASSUME NEW f \in hook[h].todo,
             hook' = [hook EXCEPT ![h].pc = "send", ![h].line = ListLine(f), ![h].todo = @ \ {f}]
      PROVE  Acts(h) /\ hook'[h].pc \in {"send", "done"}
  <2> DEFINE l == ListLine(f)
             new == [hook[h] EXCEPT !.pc = "send", !.line = l, !.todo = hook[h].todo \ {f}]
  <2>1. f \in Sources /\ l \in Requests /\ l.op = "list" /\ l.file = f
    BY <1>1, Lines DEF Hook, ListLine
  <2> HIDE DEF l
  <2>2. hook' = [hook EXCEPT ![h] = new]
    BY <1>1, <1>5 DEF l
  <2>3. /\ new \in Hook /\ new.pc = "send" /\ new.line = l /\ new.todo = hook[h].todo \ {f}
        /\ new.said = hook[h].said
    BY <1>1, <2>1 DEF Hook
  <2> HIDE DEF new
  <2>4. LinesFit(new, Fresh)
    BY <1>3, <2>1, <2>3, FreshSock DEF LinesFit
  <2>5. ASSUME h \in Enrich PROVE Knows(h, new, Fresh)
    <3>1. FileIn(new.line) = f
      BY <2>1, <2>3 DEF FileIn
    <3>2. Silent(h, hook[h])
      BY <1>1, <2>5 DEF Knows
    <3>3. Silent(h, new) /\ Asks(h, new)
      BY <2>1, <2>3, <3>1, <3>2 DEF Silent, Asks
    <3> QED BY <2>3, <3>3 DEF Knows, Hears
  <2> QED BY <1>1, <1>2, <2>2, <2>3, <2>4, <2>5, FreshSock, ActsBy
<1>6. CASE hook' = [hook EXCEPT ![h].pc = "done"]
  <2> DEFINE new == [hook[h] EXCEPT !.pc = "done"]
  <2>1. /\ new \in Hook /\ new.pc = "done" /\ new.line = hook[h].line /\ new.todo = hook[h].todo
        /\ new.said = hook[h].said /\ hook' = [hook EXCEPT ![h] = new]
    BY <1>1, <1>6 DEF Hook
  <2> HIDE DEF new
  <2>2. LinesFit(new, Fresh)
    BY <1>1, <1>3, <2>1, FreshSock DEF LinesFit
  <2>3. ASSUME h \in Enrich PROVE Knows(h, new, Fresh)
    BY <1>1, <2>1, <2>3 DEF Knows, Silent, Asks, Hears
  <2> QED BY <1>1, <1>2, <2>1, <2>2, <2>3, FreshSock, ActsBy
<1> QED BY <1>4, <1>5, <1>6 DEF Connect, Turn

LEMMA FailsToConnect ==
  ASSUME ClientsInv, NEW h \in Clients, ConnectFails(h)
  PROVE  Acts(h)
<1>1. /\ LinesFit(hook[h], sock[h]) /\ hook[h] \in Hook /\ sock[h] \in Sock
      /\ sock = [sock EXCEPT ![h] = sock[h]]
      /\ DOMAIN hook = Clients /\ (h \in Enrich => Knows(h, hook[h], sock[h]))
  BY ClientFields
<1>2. /\ sock' = [sock EXCEPT ![h] = sock[h]] /\ UNCHANGED <<storeVars, histVars>>
      /\ sock[h].request = NoLine /\ sock[h].response = NoLine
  BY <1>1 DEF ConnectFails, netVars, LinesFit
<1>3. NoLine.op = "none"
  BY DEF NoLine
<1>4. CASE h \in Enrich
  <2> DEFINE new == [hook[h] EXCEPT !.pc = "done", !.todo = {}]
  <2>1. /\ new \in Hook /\ new.pc = "done" /\ new.line = hook[h].line /\ new.todo = {}
        /\ new.said = hook[h].said
    BY <1>1 DEF Hook
  <2>2. hook' = [hook EXCEPT ![h] = new]
    BY <1>1, <1>4 DEF ConnectFails
  <2> HIDE DEF new
  <2>3. LinesFit(new, sock[h])
    BY <1>1, <1>2, <1>3, <2>1 DEF LinesFit
  <2>4. Knows(h, new, sock[h])
    BY <1>1, <1>4, <2>1 DEF Knows, Silent, Asks, Hears
  <2> QED BY <1>1, <1>2, <2>1, <2>2, <2>3, <2>4, ActsBy
<1>5. CASE h \notin Enrich
  <2>1. hook' = [hook EXCEPT ![h] = Failed]
    BY <1>1, <1>5 DEF ConnectFails
  <2>2. LinesFit(Failed, sock[h])
    BY <1>2, <1>3, StillHooks DEF LinesFit
  <2> QED BY <1>1, <1>2, <1>5, <2>1, <2>2, StillHooks, ActsBy
<1> QED BY <1>4, <1>5

LEMMA Sends ==
  ASSUME ClientsInv, NEW h \in Clients, Send(h)
  PROVE  Acts(h)
<1>1. /\ LinesFit(hook[h], sock[h]) /\ hook[h] \in Hook /\ sock[h] \in Sock
      /\ DOMAIN hook = Clients /\ DOMAIN sock = Clients
      /\ h \in Enrich => Knows(h, hook[h], sock[h])
  BY ClientFields
<1>2. /\ hook[h].pc = "send" /\ UNCHANGED <<storeVars, histVars>>
      /\ sock[h].request = NoLine /\ sock[h].response = NoLine
  BY <1>1 DEF Send, LinesFit
<1>3. NoLine.op = "none"
  BY DEF NoLine
<1> DEFINE new == [hook[h] EXCEPT !.pc = "await"]
           r == IF sock[h].end = "closed" THEN NoLine ELSE hook[h].line
           s == [sock[h] EXCEPT !.request = r]
<1>4. r \in Requests \cup {NoLine} /\ r \in {NoLine, hook[h].line}
  BY <1>1 DEF Hook
<1>5. hook' = [hook EXCEPT ![h] = new] /\ sock' = [sock EXCEPT ![h] = s]
  BY <1>1 DEF Send
<1> HIDE DEF r
<1>6. /\ new \in Hook /\ new.pc = "await" /\ new.line = hook[h].line /\ new.todo = hook[h].todo
      /\ new.said = hook[h].said
  BY <1>1 DEF Hook
<1>7. s \in Sock /\ s.request = r /\ s.response = sock[h].response
  BY <1>1, <1>4 DEF Sock
<1> HIDE DEF new, s
<1>8. LinesFit(new, s)
  BY <1>1, <1>2, <1>3, <1>4, <1>6, <1>7 DEF LinesFit
<1>9. ASSUME h \in Enrich PROVE Knows(h, new, s)
  BY <1>1, <1>2, <1>6, <1>7, <1>9 DEF Knows, Silent, Asks, Hears
<1> QED BY <1>2, <1>5, <1>6, <1>7, <1>8, <1>9, ActsBy

LEMMA GivesUp ==
  ASSUME ClientsInv, NEW h \in Clients, GiveUp(h)
  PROVE  Acts(h)
<1>1. /\ LinesFit(hook[h], sock[h]) /\ sock[h] \in Sock
      /\ DOMAIN hook = Clients /\ DOMAIN sock = Clients
  BY ClientFields
<1>2. hook' = [hook EXCEPT ![h] = Failed] /\ UNCHANGED <<storeVars, histVars>>
  BY DEF GiveUp
<1> DEFINE s == [sock[h] EXCEPT !.open = FALSE, !.response = NoLine]
<1>3. sock' = [sock EXCEPT ![h] = s]
  BY <1>1 DEF GiveUp
<1>4. s \in Sock /\ s.request = sock[h].request /\ s.response = NoLine
  BY <1>1 DEF Sock
<1> HIDE DEF s
<1>5. NoLine.op = "none"
  BY DEF NoLine
<1>6. LinesFit(Failed, s)
  BY <1>1, <1>4, <1>5, StillHooks DEF LinesFit
<1>7. h \in Enrich => Knows(h, Failed, s)
  BY StillHooks DEF Knows, Silent, Asks, Hears
<1> QED BY <1>2, <1>3, <1>4, <1>6, <1>7, StillHooks, ActsBy

(* Client h goes on to a state that fits an empty connection *)
GoesOn(h) ==
  \E new \in Hook :
    /\ hook' = [hook EXCEPT ![h] = new]
    /\ new.pc \in {"send", "done"}
    /\ \A s \in Sock : s.request = NoLine /\ s.response = NoLine =>
         LinesFit(new, s) /\ (h \in Enrich => Knows(h, new, s))

(* A hook that hears an answer has no request under way *)
LEMMA ReceivesBy ==
  ASSUME ClientsInv, NEW h \in Clients, Receive(h), GoesOn(h)
  PROVE  Acts(h)
<1>1. /\ LinesFit(hook[h], sock[h]) /\ sock[h] \in Sock /\ DOMAIN hook = Clients
      /\ DOMAIN sock = Clients
  BY ClientFields
<1>2. PICK new \in Hook :
        /\ hook' = [hook EXCEPT ![h] = new]
        /\ new.pc \in {"send", "done"}
        /\ \A s \in Sock : s.request = NoLine /\ s.response = NoLine =>
             LinesFit(new, s) /\ (h \in Enrich => Knows(h, new, s))
  BY DEF GoesOn
<1>3. sock[h].request = NoLine /\ UNCHANGED <<storeVars, histVars>>
  BY <1>1 DEF Receive, Response, LinesFit
<1> DEFINE o == hook'[h].pc # "done"
           s == [sock[h] EXCEPT !.response = NoLine, !.open = o]
<1>4. o \in BOOLEAN
  OBVIOUS
<1>5. sock' = [sock EXCEPT ![h].response = NoLine, ![h].open = o]
  BY Zenon DEF Receive
<1> HIDE DEF o
<1>6. sock' = [sock EXCEPT ![h] = s]
  BY <1>1, <1>5
<1>7. s \in Sock /\ s.request = NoLine /\ s.response = NoLine
  BY <1>1, <1>3, <1>4 DEF Sock
<1> HIDE DEF s
<1> QED BY <1>2, <1>3, <1>6, <1>7, ActsBy

(* An enrichment that knows what to say of a file takes the next one *)
LEMMA Continues ==
  ASSUME ClientsInv, NEW h \in Enrich, hook[h].pc = "await",
         NEW f \in Sources, f = FileIn(hook[h].line), NEW sig \in Signals \ {"unasked"},
         sig = "silent" => asked[h][f] <= scanned[f],
         Continue(h, Signal(h, f, sig))
  PROVE  GoesOn(h)
<1>0. h \in Clients
  BY Constants
<1>1. /\ HistTyped /\ hook[h] \in Hook /\ Knows(h, hook[h], sock[h])
  BY <1>0, ClientFields
<1> DEFINE k == Signal(h, f, sig)
<1>2. /\ k \in Hook /\ k.todo = hook[h].todo /\ k.line = NoLine /\ k.said[f] = sig
      /\ \A g \in Sources : g # f => k.said[g] = hook[h].said[g]
  BY <1>1 DEF Signal, Hook
<1> HIDE DEF k
<1>3. PICK new \in Hook :
        /\ hook' = [hook EXCEPT ![h] = new]
        /\ new.said = k.said
        /\ \/ /\ new.pc = "send" /\ new.line.op = "list" /\ new.line.file \in k.todo
              /\ new.todo = k.todo \ {new.line.file} /\ new.line \in Requests
           \/ new.pc = "done" /\ new.todo = k.todo /\ new.line = k.line /\ k.todo = {}
  BY <1>0, <1>2, ContinueIs DEF k
<1>4. f \notin k.todo /\ k.todo \subseteq Sources
  BY <1>1, <1>2 DEF Knows, Asks, Hook
<1>5. Silent(h, new)
  <2>1. \A g \in Sources : new.said[g] = "silent" => asked[h][g] <= scanned[g]
    BY <1>1, <1>2, <1>3 DEF Knows, Silent
  <2>2. \A g \in new.todo : new.said[g] = "unasked"
    BY <1>1, <1>2, <1>3, <1>4 DEF Knows, Silent
  <2> QED BY <1>3, <2>1, <2>2 DEF Silent
<1>6. Asks(h, new)
  <2> SUFFICES ASSUME new.pc = "send" PROVE Asks(h, new)
    BY <1>3 DEF Asks
  <2>1. FileIn(new.line) = new.line.file /\ new.line.file \in k.todo /\ new.line.op = "list"
    BY <1>3 DEF FileIn
  <2>2. new.said[new.line.file] = "unasked"
    BY <1>1, <1>2, <1>3, <1>4, <2>1 DEF Knows, Silent
  <2> QED BY <1>3, <1>4, <2>1, <2>2 DEF Asks
<1>7. NoLine.op = "none"
  BY DEF NoLine
<1>8. ASSUME NEW s \in Sock, s.request = NoLine, s.response = NoLine
      PROVE  LinesFit(new, s) /\ Knows(h, new, s)
  BY <1>2, <1>3, <1>5, <1>6, <1>7, <1>8 DEF LinesFit, Knows, Hears
<1> QED BY <1>3, <1>8 DEF GoesOn

(* An enrichment asks on about the same file *)
LEMMA AsksOn ==
  ASSUME ClientsInv, NEW h \in Enrich, hook[h].pc = "await", NEW l \in Requests,
         l.op \in {"promote", "submit"}, FileIn(l) = FileIn(hook[h].line),
         l.op = "submit" => l.edit = 0,
         l.op = "promote" => Covers(l.job, FileIn(l), asked[h][FileIn(l)]),
         SendNext(h, l)
  PROVE  GoesOn(h)
<1>0. h \in Clients
  BY Constants
<1>1. /\ HistTyped /\ hook[h] \in Hook /\ Knows(h, hook[h], sock[h]) /\ DOMAIN hook = Clients
  BY <1>0, ClientFields
<1> DEFINE new == [hook[h] EXCEPT !.pc = "send", !.line = l]
<1>2. hook' = [hook EXCEPT ![h] = new]
  BY <1>0, <1>1 DEF SendNext
<1>3. /\ new \in Hook /\ new.pc = "send" /\ new.line = l /\ new.todo = hook[h].todo
      /\ new.said = hook[h].said
  BY <1>1 DEF Hook
<1> HIDE DEF new
<1>4. Silent(h, new)
  BY <1>1, <1>3 DEF Knows, Silent
<1>5. Asks(h, new)
  BY <1>1, <1>3 DEF Knows, Asks
<1>6. l.op = "submit" => l.edit <= edited[l.file]
  BY <1>1, RequestKinds, Constants DEF HistTyped, Edits
<1>7. NoLine.op = "none"
  BY DEF NoLine
<1>8. ASSUME NEW s \in Sock, s.request = NoLine, s.response = NoLine
      PROVE  LinesFit(new, s) /\ Knows(h, new, s)
  BY <1>3, <1>4, <1>5, <1>6, <1>7, <1>8 DEF LinesFit, Knows, Hears
<1> QED BY <1>2, <1>3, <1>8 DEF GoesOn

LEMMA Receives ==
  ASSUME ClientsInv, NEW h \in Clients, Receive(h)
  PROVE  Acts(h)
<1>1. /\ HistTyped /\ LinesFit(hook[h], sock[h]) /\ hook[h] \in Hook /\ sock[h] \in Sock
      /\ DOMAIN hook = Clients /\ (h \in Enrich => Knows(h, hook[h], sock[h]))
  BY ClientFields
<1>2. hook[h].pc = "await" /\ sock[h].response # NoLine
  BY DEF Receive, Response
<1>3. CASE h \notin Enrich
  <2> DEFINE new == [hook[h] EXCEPT !.pc = "done"]
  <2>1. hook' = [hook EXCEPT ![h] = new]
    BY <1>1, <1>3 DEF Receive
  <2>2. new \in Hook /\ new.pc = "done" /\ new.line = hook[h].line
    BY <1>1 DEF Hook
  <2> HIDE DEF new
  <2>3. NoLine.op = "none"
    BY DEF NoLine
  <2>4. ASSUME NEW s \in Sock, s.request = NoLine, s.response = NoLine
        PROVE  LinesFit(new, s)
    BY <1>1, <2>2, <2>3, <2>4 DEF LinesFit
  <2>5. GoesOn(h)
    BY <1>3, <2>1, <2>2, <2>4 DEF GoesOn
  <2> QED BY <2>5, ReceivesBy
<1>4. CASE h \in Enrich
  <2> DEFINE line == hook[h].line
             f == FileIn(line)
             answer == sock[h].response
  <2>1. /\ line.op \in {"list", "promote", "submit"} /\ f \in Sources
        /\ Hears(h, hook[h], sock[h])
    BY <1>1, <1>2, <1>4 DEF Knows, Asks
  <2>2. answer \in Responses /\ answer.op = "job"
    BY <1>1, <1>2, <2>1 DEF Hears, Sock
  <2>3. answer.job \in JobIds \cup {NoJob} /\ answer.status \in Statuses
    BY <2>2, ResponseKinds
  <2>4. line \in Requests \cup {NoLine} /\ FileOf(h) = f /\ Response(h) = answer
    BY <1>1 DEF Hook, FileOf, FileIn, Response
  <2>5. \A g \in Sources : asked[h][g] \in Nat /\ scanned[g] \in Nat
    BY <1>1, <1>4, Constants DEF HistTyped, Edits
  <2>6. {"silent", "pending", "running", "retrying"} \subseteq Signals \ {"unasked"}
    BY DEF Signals
  <2>7. ReceiveEnrich(h)
    BY <1>4 DEF Receive
  <2>8. CASE line.op = "submit"
    <3>1. Continue(h, Signal(h, f, "retrying"))
      BY <2>4, <2>7, <2>8 DEF ReceiveEnrich
    <3> QED BY <1>2, <1>4, <2>1, <2>6, <3>1, Continues, ReceivesBy
  <2>9. CASE line.op # "submit" /\ answer.job = NoJob
    <3>1. Continue(h, Signal(h, f, "silent"))
      BY <2>4, <2>7, <2>9 DEF ReceiveEnrich
    <3>2. line.op = "list"
      BY <1>2, <2>1, <2>4, <2>9, RequestKinds DEF Hears, JobIds, NoJob
    <3>3. asked[h][f] <= scanned[f]
      BY <1>2, <2>1, <2>5, <2>9, <3>2 DEF Hears
    <3> QED BY <1>2, <1>4, <2>1, <2>6, <3>1, <3>3, Continues, ReceivesBy
  <2>10. CASE line.op # "submit" /\ answer.job # NoJob
    <3>1. apply_job_state(h, f, answer.job, answer.status, line.op = "promote")
      BY <2>4, <2>7, <2>10 DEF ReceiveEnrich
    <3>2. CASE answer.status = "succeeded"
      <4>1. Continue(h, Signal(h, f, "silent"))
        BY <3>1, <3>2 DEF apply_job_state, job_action
      <4>2. asked[h][f] <= scanned[f]
        BY <1>2, <2>1, <2>10, <3>2 DEF Hears
      <4> QED BY <1>2, <1>4, <2>1, <2>6, <4>1, <4>2, Continues, ReceivesBy
    <3>3. CASE answer.status = "running"
      <4>1. Continue(h, Signal(h, f, "running"))
        BY <3>1, <3>3 DEF apply_job_state, job_action
      <4> QED BY <1>2, <1>4, <2>1, <2>6, <4>1, Continues, ReceivesBy
    <3>4. CASE answer.status = "pending" /\ line.op = "promote"
      <4>1. Continue(h, Signal(h, f, "pending"))
        BY <3>1, <3>4 DEF apply_job_state, job_action
      <4> QED BY <1>2, <1>4, <2>1, <2>6, <4>1, Continues, ReceivesBy
    <3>5. CASE answer.status = "pending" /\ line.op # "promote"
      <4> DEFINE l == PromoteLine(answer.job)
      <4>1. SendNext(h, l)
        BY <3>1, <3>5 DEF apply_job_state, job_action
      <4>2. line.op = "list" /\ answer.job \in JobIds
        BY <2>1, <2>3, <2>10, <3>5
      <4>3. key[answer.job] = f /\ Covers(answer.job, f, asked[h][f])
        BY <1>2, <2>1, <2>10, <4>2 DEF Hears
      <4>4. l \in Requests /\ l.op = "promote" /\ l.job = answer.job
        BY <4>2, Lines DEF PromoteLine
      <4>5. FileIn(l) = f
        BY <4>3, <4>4 DEF FileIn
      <4> HIDE DEF l
      <4> QED BY <1>2, <1>4, <4>1, <4>3, <4>4, <4>5, AsksOn, ReceivesBy
    <3>6. CASE answer.status \notin {"succeeded", "pending", "running"}
      <4> DEFINE l == SubmitLine(f, 1, 0)
      <4>1. SendNext(h, l)
        BY <3>1, <3>6 DEF apply_job_state, job_action
      <4>2. l \in Requests /\ l.op = "submit" /\ l.file = f /\ l.edit = 0
        BY <2>1, Lines, Constants DEF SubmitLine
      <4>3. FileIn(l) = f
        BY <4>2 DEF FileIn
      <4> HIDE DEF l
      <4> QED BY <1>2, <1>4, <4>1, <4>2, <4>3, AsksOn, ReceivesBy
    <3> QED BY <3>2, <3>3, <3>4, <3>5, <3>6
  <2> QED BY <2>8, <2>9, <2>10
<1> QED BY <1>3, <1>4

LEMMA ClientActs ==
  ASSUME ClientsInv, NEW h \in Clients, ClientStep(h)
  PROVE  Acts(h)
<1>1. /\ hook[h] \in Hook /\ DOMAIN hook = Clients
  BY ClientFields
<1>2. ASSUME NEW f \in Sources, h \in Dirty, RunDirty(h, f) PROVE Acts(h)
  BY <1>2, DirtyRuns
<1>3. ASSUME h \in Enrich, NEW p \in Projects, NEW fs \in SUBSET Files, RunEnrich(h, {p} \X fs)
      PROVE  Acts(h)
  <2> DEFINE t == {p} \X fs
             l == hook[h].line
  <2>1. t \in SUBSET Sources
    BY DEF Sources
  <2>2. hook' = [hook EXCEPT ![h].pc = "connect", ![h].todo = t] /\ hook[h].pc = "idle"
        /\ UNCHANGED <<storeVars, histVars, sock>>
    BY <1>3 DEF RunEnrich, netVars
  <2> HIDE DEF t
  <2>3. hook' = [hook EXCEPT ![h].pc = "connect", ![h].todo = t, ![h].line = l]
    BY <1>1, <2>2 DEF Hook
  <2>4. l \in Requests \cup {NoLine}
    BY <1>1 DEF Hook
  <2> QED BY <1>3, <2>1, <2>2, <2>3, <2>4, HookRuns
<1>4. ASSUME h \in UiClients, NEW m \in Modes, RunConfig(h, m) PROVE Acts(h)
  <2> DEFINE t == hook[h].todo
             l == UiLine(m)
  <2>1. t \in SUBSET Sources
    BY <1>1 DEF Hook
  <2>2. hook' = [hook EXCEPT ![h].pc = "connect", ![h].line = l] /\ hook[h].pc = "idle"
        /\ UNCHANGED <<storeVars, histVars, sock>>
    BY <1>4 DEF RunConfig, netVars
  <2>3. l \in Requests \cup {NoLine} /\ l.op # "submit"
    BY Lines DEF UiLine
  <2> HIDE DEF l
  <2>4. hook' = [hook EXCEPT ![h].pc = "connect", ![h].todo = t, ![h].line = l]
    BY <1>1, <2>2 DEF Hook
  <2> QED BY <2>1, <2>2, <2>3, <2>4, HookRuns
<1> QED BY <1>2, <1>3, <1>4, Connects, FailsToConnect, Sends, Receives, GivesUp DEF ClientStep

(* The parts of the invariant that are about clients and connections *)
NetPart ==
  /\ ProcessTyped /\ BacklogTyped /\ SockTyped /\ HookTyped /\ NetInv /\ Budget
  /\ \A c \in Clients : LinesFit(hook[c], sock[c])
  /\ \A h \in Enrich : Knows(h, hook[h], sock[h])

(* Hooks that have not run yet are not created *)
LEMMA BudgetKept ==
  ASSUME TypeOK, Budget, UNCHANGED edited,
         \A d \in Dirty : hook'[d].pc = "idle" => hook[d].pc = "idle"
  PROVE  Budget'
<1> DEFINE idle == {d \in Dirty : hook[d].pc = "idle"}
           still == {d \in Dirty : hook'[d].pc = "idle"}
<1>1. IsFiniteSet(idle) /\ still \subseteq idle
  BY Constants, FS_Subset
<1>2. Cardinality(still) <= Cardinality(idle) /\ Cardinality(still) \in Nat /\ Cardinality(idle) \in Nat
  BY <1>1, FS_Subset, FS_CardinalityType
<1>3. \A f \in Sources : edited[f] \in Nat /\ edited[f] + Cardinality(idle) <= MaxEdits
  BY TypeParts, Constants DEF Budget, HistTyped, Edits
<1> HIDE DEF idle, still
<1>4. \A f \in Sources : edited'[f] + Cardinality(still) <= MaxEdits
  BY <1>2, <1>3, Constants
<1> QED BY <1>4 DEF Budget, still

(* A hook that runs has spent its edit *)
LEMMA BudgetSpent ==
  ASSUME TypeOK, Budget, NEW h \in Dirty, NEW g \in Sources, hook[h].pc = "idle", hook'[h].pc # "idle",
         edited' = [edited EXCEPT ![g] = @ + 1],
         \A d \in Dirty : d # h => hook'[d] = hook[d]
  PROVE  Budget'
<1> DEFINE idle == {d \in Dirty : hook[d].pc = "idle"}
           still == {d \in Dirty : hook'[d].pc = "idle"}
<1>1. IsFiniteSet(idle) /\ still = idle \ {h} /\ h \in idle
  BY Constants, FS_Subset
<1>2. Cardinality(still) = Cardinality(idle) - 1 /\ Cardinality(idle) \in Nat
  BY <1>1, FS_RemoveElement, FS_CardinalityType
<1>3. \A f \in Sources : edited[f] \in Nat /\ edited[f] + Cardinality(idle) <= MaxEdits
  BY TypeParts, Constants DEF Budget, HistTyped, Edits
<1>4. \A f \in Sources : edited'[f] <= edited[f] + 1 /\ edited'[f] \in Nat
  BY <1>3, TypeParts DEF HistTyped, Edits
<1> HIDE DEF idle, still
<1>5. \A f \in Sources : edited'[f] + Cardinality(still) <= MaxEdits
  BY <1>2, <1>3, <1>4, Constants
<1> QED BY <1>5 DEF Budget, still

LEMMA ClientNet ==
  ASSUME ClientsInv, NEW h \in Clients, ClientStep(h), HistTyped', Moves
  PROVE  NetPart'
<1>0. /\ TypeOK /\ SockTyped /\ HookTyped /\ BacklogTyped /\ ProcessTyped /\ HistTyped /\ NetInv
      /\ Budget
  BY TypeParts DEF ClientsInv
<1>1. PICK new \in Hook, s \in Sock :
        /\ hook' = [hook EXCEPT ![h] = new]
        /\ sock' = [sock EXCEPT ![h] = s]
        /\ LinesFit(new, s)'
        /\ h \in Enrich => Knows(h, new, s)'
        /\ new.pc # "idle"
        /\ new.pc = "connect" => hook[h].pc = "idle"
  BY ClientActs DEF Acts
<1>2. /\ hook' \in [Clients -> Hook] /\ sock' \in [Clients -> Sock]
      /\ hook'[h] = new /\ sock'[h] = s
      /\ \A c \in Clients : c # h => hook'[c] = hook[c] /\ sock'[c] = sock[c]
  BY <1>0, <1>1 DEF SockTyped, HookTyped
<1>3. UNCHANGED <<phase, starts, serving, asked>>
  BY DEF ClientStep, RunDirty, RunEnrich, RunConfig, Connect, ConnectFails, Send, Receive, GiveUp,
     netVars, histVars
<1>4. Connect(h) \/ backlog' = backlog
  BY DEF ClientStep, RunDirty, RunEnrich, RunConfig, ConnectFails, Send, Receive, GiveUp, netVars
<1>5. ASSUME Connect(h)
      PROVE  /\ backlog' = Append(backlog, h) /\ hook[h].pc = "connect"
             /\ new.pc \in {"send", "done"}
             /\ \A i \in DOMAIN backlog : backlog[i] # h
  BY <1>0, <1>2, <1>5, Connects DEF Connect, NetInv
<1>6. BacklogTyped' /\ NetInv'
  <2>1. CASE backlog' = backlog
    BY <1>0, <1>1, <1>2, <2>1 DEF BacklogTyped, NetInv
  <2>2. CASE Connect(h)
    <3>1. backlog \in Seq(Clients) /\ backlog' = Append(backlog, h)
      BY <1>0, <1>5, <2>2 DEF BacklogTyped
    <3>2. /\ Len(backlog) \in Nat /\ DOMAIN backlog = 1 .. Len(backlog)
          /\ backlog' \in Seq(Clients) /\ DOMAIN backlog' = 1 .. (Len(backlog) + 1)
          /\ \A i \in 1 .. Len(backlog) : backlog'[i] = backlog[i]
          /\ backlog'[Len(backlog) + 1] = h
      BY <3>1
    <3>3. IsInjective(backlog')
      BY <1>0, <1>5, <2>2, <3>2 DEF BacklogTyped, IsInjective
    <3>4. NetInv'
      BY <1>0, <1>2, <1>5, <2>2, <3>2 DEF NetInv
    <3> QED BY <3>2, <3>3, <3>4 DEF BacklogTyped
  <2> QED BY <1>4, <2>1, <2>2
<1>7. Budget'
  <2>1. CASE edited' = edited
    <3>1. \A d \in Dirty : hook'[d].pc = "idle" => hook[d].pc = "idle"
      BY <1>1, <1>2, Constants
    <3> QED BY <1>0, <2>1, <3>1, BudgetKept
  <2>2. ASSUME h \in Dirty, NEW g \in Sources, RunDirty(h, g) PROVE Budget'
    <3>1. hook[h].pc = "idle" /\ edited' = [edited EXCEPT ![g] = @ + 1]
      BY <2>2 DEF RunDirty
    <3>2. \A d \in Dirty : d # h => hook'[d] = hook[d]
      BY <1>2, Constants
    <3> QED BY <1>0, <1>1, <1>2, <2>2, <3>1, <3>2, BudgetSpent
  <2> QED BY <2>1, <2>2 DEF ClientStep, RunEnrich, RunConfig, Connect, ConnectFails, Send, Receive,
             GiveUp, histVars
<1>8. ASSUME NEW c \in Clients PROVE LinesFit(hook[c], sock[c])'
  <2>1. CASE c = h
    BY <1>1, <1>2, <2>1 DEF LinesFit
  <2>2. CASE c # h
    BY <1>0, <1>2, <2>2, LinesKept DEF ClientsInv
  <2> QED BY <2>1, <2>2
<1>9. ASSUME NEW e \in Enrich PROVE Knows(e, hook[e], sock[e])'
  <2>0. e \in Clients
    BY Constants
  <2>1. CASE e = h
    BY <1>1, <1>2, <2>1 DEF Knows, Silent, Asks, Hears
  <2>2. CASE e # h
    <3>1. asked'[e] = asked[e]
      BY <1>3
    <3> QED BY <1>0, <1>2, <2>0, <2>2, <3>1, KnowsKept DEF ClientsInv
  <2> QED BY <2>1, <2>2
<1> QED BY <1>0, <1>2, <1>3, <1>6, <1>7, <1>8, <1>9
        DEF NetPart, SockTyped, HookTyped, ProcessTyped

-----------------------------------------------------------------------------
(* The server *)

(* Steps that leave every client's state and answer alone *)
LEMMA QuietNet ==
  ASSUME ClientsInv, HistTyped', Moves, UNCHANGED <<hook, edited, asked>>,
         ProcessTyped', BacklogTyped', SockTyped',
         \A i \in DOMAIN backlog' : \E k \in DOMAIN backlog : backlog[k] = backlog'[i],
         \A c \in Clients : /\ sock'[c].response = sock[c].response
                            /\ sock'[c].request \in {sock[c].request, NoLine}
  PROVE  NetPart'
<1>0. TypeOK /\ HookTyped /\ NetInv /\ Budget
  BY TypeParts DEF ClientsInv
<1>1. HookTyped' /\ NetInv'
  BY <1>0 DEF HookTyped, NetInv
<1>2. Budget'
  BY <1>0, BudgetKept
<1>3. \A c \in Clients : LinesFit(hook[c], sock[c])'
  BY <1>0, LinesKept DEF ClientsInv
<1>4. ASSUME NEW e \in Enrich PROVE Knows(e, hook[e], sock[e])'
  <2>1. e \in Clients /\ asked'[e] = asked[e] /\ hook'[e] = hook[e]
    BY Constants
  <2> QED BY <1>0, <2>1, KnowsKept DEF ClientsInv
<1> QED BY <1>1, <1>2, <1>3, <1>4 DEF NetPart

(* The client c in state k whose request the server has read, and its      *)
(* connection s once the answer r is written                               *)
Served(c, k, s, r) ==
  /\ c = serving /\ c \in Clients /\ Line # NoLine
  /\ k = hook[c] /\ s = [sock[c] EXCEPT !.request = NoLine, !.response = r]

LEMMA SomeServed ==
  ASSUME serving \in Clients, Line.op # "none", NEW r
  PROVE  \E c, k, s : Served(c, k, s, r)
<1>1. Line # NoLine
  BY DEF NoLine
<1>2. Served(serving, hook[serving], [sock[serving] EXCEPT !.request = NoLine, !.response = r], r)
  BY <1>1, Zenon DEF Served
<1> QED BY <1>2, Zenon

LEMMA ServedClient ==
  ASSUME ClientsInv, NEW r \in Responses, NEW c, NEW k, NEW s, Served(c, k, s, r)
  PROVE  /\ k \in Hook /\ s \in Sock /\ s.request = NoLine /\ s.response = r
         /\ k.pc \in {"await", "failed"}
         /\ k.pc = "await" => Line = k.line
         /\ k.line.op = "submit" => k.line.edit <= edited[k.line.file]
         /\ c \in Enrich => Silent(c, k) /\ Asks(c, k)
<1>1. /\ LinesFit(hook[c], sock[c]) /\ hook[c] \in Hook /\ sock[c] \in Sock
      /\ c \in Enrich => Knows(c, hook[c], sock[c])
  BY ClientFields DEF Served
<1>2. s \in Sock /\ s.request = NoLine /\ s.response = r
  BY <1>1 DEF Served, Sock
<1> QED BY <1>1, <1>2 DEF Served, LinesFit, Line, Knows

(* The server answers the request it has read *)
LEMMA AnswerNet ==
  ASSUME ClientsInv, HistTyped', Moves, NEW r \in Responses, NEW c, NEW k, NEW s,
         Served(c, k, s, r), Answers(r), edited' = edited,
         \A e \in Enrich : e # c => asked'[e] = asked[e],
         c \in Enrich => Knows(c, k, s)'
  PROVE  NetPart'
<1>0. TypeOK /\ HookTyped /\ NetInv /\ Budget /\ BacklogTyped /\ ProcessTyped /\ HistTyped
  BY TypeParts DEF ClientsInv
<1>1. /\ s \in Sock /\ s.request = NoLine /\ s.response = r /\ k.pc \in {"await", "failed"}
      /\ k.line.op = "submit" => k.line.edit <= edited[k.line.file]
  BY ServedClient
<1>2. c = serving /\ c \in Clients /\ serving # Nobody /\ k = hook[c]
  BY Constants DEF Served
<1>3. /\ SockTyped' /\ serving' = serving /\ UNCHANGED <<phase, starts, backlog, hook>>
      /\ \A d \in Clients : sock'[d] = IF d = serving
           THEN [sock[d] EXCEPT !.request = NoLine, !.response = r] ELSE sock[d]
  BY <1>0, <1>2, SockAnswered
<1>4. sock'[c] = s /\ hook'[c] = k /\ \A d \in Clients : d # c => sock'[d] = sock[d]
  BY <1>2, <1>3 DEF Served
<1>5. HookTyped' /\ NetInv' /\ BacklogTyped' /\ ProcessTyped'
  BY <1>0, <1>3 DEF HookTyped, NetInv, BacklogTyped, ProcessTyped
<1>6. Budget'
  BY <1>0, <1>3, BudgetKept
<1>7. ASSUME NEW d \in Clients PROVE LinesFit(hook[d], sock[d])'
  <2>1. CASE d = c
    <3>1. LinesFit(k, s)'
      BY <1>1 DEF LinesFit, NoLine
    <3> QED BY <1>4, <2>1, <3>1 DEF LinesFit
  <2>2. CASE d # c
    BY <1>0, <1>3, <1>4, <2>2, LinesKept DEF ClientsInv
  <2> QED BY <2>1, <2>2
<1>8. ASSUME NEW e \in Enrich PROVE Knows(e, hook[e], sock[e])'
  <2>0. e \in Clients
    BY Constants
  <2>1. CASE e = c
    BY <1>4, <2>1 DEF Knows, Silent, Asks, Hears
  <2>2. CASE e # c
    BY <1>0, <1>3, <1>4, <2>0, <2>2, KnowsKept DEF ClientsInv
  <2> QED BY <2>1, <2>2
<1> QED BY <1>3, <1>5, <1>6, <1>7, <1>8 DEF NetPart

(* What an enrichment knew besides the answer, when its files' history did *)
(* not go back                                                             *)
LEMMA StillKnows ==
  ASSUME TypeOK, HistTyped', Moves, NEW c \in Enrich, NEW k \in Hook, NEW s \in Sock,
         Silent(c, k), Asks(c, k), asked'[c] = asked[c]
  PROVE  /\ Silent(c, k)' /\ Asks(c, k)'
         /\ k.pc \in {"send", "await"} => /\ FileIn(k.line)' = FileIn(k.line)
                                          /\ FileIn(k.line) \in Sources
<1>0. HistTyped /\ c \in Clients
  BY TypeParts, Constants
<1>1. \A f \in Sources : /\ scanned[f] \in Int /\ scanned'[f] \in Int /\ asked[c][f] \in Nat
                         /\ scanned[f] <= scanned'[f]
  BY <1>0, Constants DEF HistTyped, Edits, Moves
<1>2. k.line \in Requests \cup {NoLine}
  BY DEF Hook
<1>3. Silent(c, k)'
  BY <1>1 DEF Silent
<1> DEFINE g == FileIn(k.line)
<1>4. k.pc \in {"send", "await"} =>
        g \in Sources /\ FileIn(k.line)' = g /\ asked[c][g] \in Nat
  <2> SUFFICES ASSUME k.pc \in {"send", "await"}
               PROVE  g \in Sources /\ FileIn(k.line)' = g /\ asked[c][g] \in Nat
    OBVIOUS
  <2>1. g \in Sources
    BY DEF Asks
  <2>2. k.line.op = "promote" => k.line.job \in JobIds /\ key[k.line.job] = g
    BY <1>2, RequestKinds DEF FileIn
  <2>3. k.line.op = "promote" => key'[k.line.job] = g
    BY <2>1, <2>2, SourceIsKey DEF Moves
  <2>4. FileIn(k.line)' = g
    BY <2>3 DEF FileIn
  <2> QED BY <1>1, <2>1, <2>4
<1>5. Asks(c, k)'
  <2> SUFFICES ASSUME k.pc \in {"send", "await"}, k.line.op = "promote"
               PROVE  Covers(k.line.job, g, asked[c][g])'
    BY <1>4 DEF Asks
  <2>1. k.line.job \in JobIds /\ key[k.line.job] = g /\ Covers(k.line.job, g, asked[c][g])
    BY <1>2, RequestKinds DEF FileIn, Asks
  <2>2. PICK j \in JobIds, f \in Sources, n \in Nat : j = k.line.job /\ f = g /\ n = asked[c][g]
    BY <1>4, <2>1
  <2>3. Covers(j, f, n)'
    BY <1>0, <2>1, <2>2, CoversKept
  <2> QED BY <1>4, <2>2, <2>3 DEF Covers
<1> QED BY <1>3, <1>4, <1>5

LEMMA SubmitNet ==
  ASSUME ClientsInv, HistTyped', Moves, HandleSubmit
  PROVE  NetPart'
<1>0. TypeOK /\ TableInv
  BY DEF ClientsInv
<1>1. serving # Nobody /\ Line.op = "submit" /\ UNCHANGED <<edited, asked>>
  BY DEF HandleSubmit, Reads
<1>2. serving \in Clients
  BY <1>0, <1>1, LineTyped
<1>3. PICK r \in Responses : Answers(r) /\ r.op = "job"
  BY <1>0, AnswerTyped
<1>4. PICK c, k, s : Served(c, k, s, r)
  BY <1>1, <1>2, SomeServed
<1>5. /\ k \in Hook /\ s \in Sock /\ s.response = r /\ k.pc \in {"await", "failed"}
      /\ (k.pc = "await" => Line = k.line) /\ (c \in Enrich => Silent(c, k) /\ Asks(c, k))
  BY <1>4, ServedClient
<1>6. ASSUME c \in Enrich PROVE Knows(c, k, s)'
  <2>1. Silent(c, k)' /\ Asks(c, k)'
    BY <1>0, <1>1, <1>5, <1>6, StillKnows
  <2>2. Hears(c, k, s)'
    BY <1>1, <1>3, <1>5 DEF Hears
  <2> QED BY <2>1, <2>2 DEF Knows
<1>7. \A e \in Enrich : e # c => asked'[e] = asked[e]
  BY <1>1
<1> QED BY <1>1, <1>3, <1>4, <1>6, <1>7, AnswerNet

LEMMA PromoteNet ==
  ASSUME ClientsInv, HistTyped', Moves, HandlePromote
  PROVE  NetPart'
<1>0. TypeOK /\ TableInv /\ StoreTypeOK /\ HistTyped
  BY TypeParts DEF ClientsInv
<1>1. /\ serving # Nobody /\ Line.op = "promote" /\ UNCHANGED <<edited, asked, scanned, status>>
      /\ Answers(JobLine(Line.job, status[Line.job]))
  BY DEF HandlePromote, Reads, histVars, promote
<1>2. serving \in Clients /\ Line.job \in JobIds /\ status[Line.job] \in Statuses
  BY <1>0, <1>1, LineTyped, RequestKinds DEF StoreTypeOK
<1>3. PICK r \in Responses : /\ Answers(r) /\ r # NoLine /\ r.op = "job" /\ r.job = Line.job
                             /\ r.status = status[Line.job]
  BY <1>1, <1>2, Answer
<1>4. PICK c, k, s : Served(c, k, s, r)
  BY <1>1, <1>2, SomeServed
<1>5. /\ k \in Hook /\ s \in Sock /\ s.response = r /\ k.pc \in {"await", "failed"}
      /\ (k.pc = "await" => Line = k.line) /\ (c \in Enrich => Silent(c, k) /\ Asks(c, k))
  BY <1>4, ServedClient
<1>6. ASSUME c \in Enrich PROVE Knows(c, k, s)'
  <2>1. /\ Silent(c, k)' /\ Asks(c, k)'
        /\ k.pc \in {"send", "await"} => FileIn(k.line)' = FileIn(k.line)
    BY <1>0, <1>1, <1>5, <1>6, StillKnows
  <2>2. k.pc = "await" /\ r.status = "succeeded" =>
          asked[c][FileIn(k.line)] <= scanned[FileIn(k.line)]
    BY <1>1, <1>3, <1>5, <1>6 DEF Asks, Covers
  <2>3. Hears(c, k, s)'
    BY <1>1, <1>3, <1>5, <2>1, <2>2 DEF Hears
  <2> QED BY <2>1, <2>3 DEF Knows
<1>7. \A e \in Enrich : e # c => asked'[e] = asked[e]
  BY <1>1
<1> QED BY <1>1, <1>3, <1>4, <1>6, <1>7, AnswerNet

LEMMA ListNet ==
  ASSUME ClientsInv, HistTyped', Moves, HandleList
  PROVE  NetPart'
<1>0. TypeOK /\ TableInv /\ StoreTypeOK /\ HistTyped
  BY TypeParts DEF ClientsInv
<1>1. /\ serving # Nobody /\ Line.op = "list" /\ UNCHANGED <<edited, scanned, upTo, key, status>>
      /\ asked' = [asked EXCEPT ![serving][Line.file] = recorded[Line.file]]
  BY DEF HandleList, Reads, storeVars, jobs
<1>2. serving \in Clients /\ Line.file \in Sources
  BY <1>0, <1>1, LineTyped, RequestKinds
<1>3. PICK f \in Sources, n \in Nat : f = Line.file /\ n = recorded[f]
  BY <1>0, <1>2, Constants DEF HistTyped, Edits
<1>4. PICK j \in JobIds \cup {NoJob} :
        /\ j = LatestJob(f)
        /\ j = NoJob => n = 0
        /\ j # NoJob => j \in JobIds /\ key[j] = f /\ Covers(j, f, n)
  BY <1>0, <1>3, LatestIs DEF JobsOf
<1>5. PICK st \in Statuses : st = IF j = NoJob THEN "absent" ELSE status[j]
  BY <1>0, <1>4 DEF StoreTypeOK, Statuses
<1>6. PICK r \in Responses : Answers(r) /\ r.op = "job" /\ r.job = j /\ r.status = st
  <2>1. Answers(JobLine(j, st))
    BY <1>3, <1>4, <1>5 DEF HandleList
  <2> QED BY <2>1, Answer
<1>7. PICK c, k, s : Served(c, k, s, r)
  BY <1>1, <1>2, SomeServed
<1>8. /\ k \in Hook /\ s \in Sock /\ s.response = r /\ k.pc \in {"await", "failed"}
      /\ (k.pc = "await" => Line = k.line) /\ (c \in Enrich => Silent(c, k) /\ Asks(c, k))
      /\ c = serving
  <2>1. c = serving
    BY <1>7 DEF Served
  <2> QED BY <1>7, <2>1, ServedClient
<1>9. \A e \in Enrich : e # c => asked'[e] = asked[e]
  BY <1>0, <1>1, <1>8 DEF HistTyped
<1>10. ASSUME c \in Enrich PROVE Knows(c, k, s)'
  <2>1. asked'[c][f] = n /\ \A g \in Sources : g # f => asked'[c][g] = asked[c][g]
    BY <1>0, <1>1, <1>3, <1>8, <1>10 DEF HistTyped, Edits
  <2>2. k.said[f] = "unasked"
    BY <1>1, <1>3, <1>8, <1>10 DEF Silent, Asks, FileIn
  <2>3. Silent(c, k)'
    BY <1>1, <1>8, <1>10, <2>1, <2>2 DEF Silent
  <2>4. k.pc = "await" => k.line.op = "list" /\ FileIn(k.line) = f /\ FileIn(k.line)' = f
    BY <1>1, <1>3, <1>8 DEF FileIn
  <2>5. Asks(c, k)'
    BY <1>8, <1>10, <2>4 DEF Asks
  <2>6. j # NoJob => Covers(j, f, n)'
    BY <1>1, <1>4 DEF Covers, IsExecuting
  <2>7. st = "succeeded" => n <= scanned'[f]
    BY <1>1, <1>4, <1>5 DEF Covers
  <2>8. Hears(c, k, s)'
    <3> SUFFICES ASSUME k.pc = "await" PROVE Hears(c, k, s)'
      BY DEF Hears
    <3>1. asked'[c][FileIn(k.line)'] = n
      BY <2>1, <2>4
    <3> QED BY <1>1, <1>4, <1>6, <1>8, <2>4, <2>6, <2>7, <3>1 DEF Hears
  <2> QED BY <2>3, <2>5, <2>8 DEF Knows
<1> QED BY <1>1, <1>6, <1>7, <1>9, <1>10, AnswerNet

(* Only a config command asks for the config UI *)
LEMMA UiAnswerNet ==
  ASSUME ClientsInv, HistTyped', Moves, UNCHANGED <<edited, asked>>, serving # Nobody,
         Line.op = "open_config_ui", NEW r \in Responses, Answers(r)
  PROVE  NetPart'
<1>0. TypeOK /\ serving \in Clients
  BY LineTyped DEF ClientsInv
<1>1. PICK c, k, s : Served(c, k, s, r)
  BY <1>0, SomeServed
<1>2. /\ k \in Hook /\ s \in Sock /\ s.response = r /\ k.pc \in {"await", "failed"}
      /\ (k.pc = "await" => Line = k.line) /\ (c \in Enrich => Silent(c, k) /\ Asks(c, k))
  BY <1>1, ServedClient
<1>3. ASSUME c \in Enrich PROVE Knows(c, k, s)'
  <2>1. k.pc = "failed"
    BY <1>2, <1>3 DEF Asks
  <2>2. Silent(c, k)' /\ Asks(c, k)'
    BY <1>0, <1>2, <1>3, StillKnows
  <2> QED BY <2>1, <2>2 DEF Knows, Hears
<1>4. \A e \in Enrich : e # c => asked'[e] = asked[e]
  OBVIOUS
<1> QED BY <1>1, <1>3, <1>4, AnswerNet

LEMMA ServerNet ==
  ASSUME ClientsInv, HistTyped', Moves, Server
  PROVE  NetPart'
<1>0. TypeOK /\ SockTyped /\ BacklogTyped /\ UiInv
  BY TypeParts DEF ClientsInv
<1>1. SockTyped' /\ BacklogTyped' /\ ProcessTyped'
  BY ServerTyped
<1>2. CASE HandleOpenConfigUi
  <2>1. serving # Nobody /\ Line.op = "open_config_ui" /\ UNCHANGED <<edited, asked>>
    BY <1>2 DEF HandleOpenConfigUi, Reads, histVars
  <2>2. ASSUME NEW r \in Responses, Answers(r) PROVE NetPart'
    BY <2>1, <2>2, UiAnswerNet
  <2>3. ASSUME UNCHANGED <<clock, phase, starts, netVars, hook>> PROVE NetPart'
    <3>1. UNCHANGED <<backlog, sock, hook>>
      BY <2>3 DEF netVars
    <3> QED BY <1>1, <2>1, <3>1, QuietNet
  <2> QED BY <1>2, <2>2, <2>3, Answer DEF HandleOpenConfigUi
<1>3. CASE SpawnEnds
  <2>1. serving # Nobody /\ Line.op = "open_config_ui" /\ UNCHANGED <<edited, asked>>
    BY <1>0, <1>3 DEF SpawnEnds, ReportAccepted, ReportRefused, UiInv, histVars
  <2> QED BY <1>3, <2>1, UiAnswerNet, Answer DEF SpawnEnds
<1>4. CASE Accept
  <2>1. /\ backlog' = Tail(backlog) /\ backlog # <<>> /\ UNCHANGED <<hook, edited, asked>>
        /\ sock' = [sock EXCEPT ![Head(backlog)].end = "served"]
    BY <1>4 DEF Accept, histVars
  <2>2. backlog \in Seq(Clients)
    BY <1>0 DEF BacklogTyped
  <2>3. /\ Len(backlog) \in Nat /\ DOMAIN backlog = 1 .. Len(backlog)
        /\ DOMAIN backlog' = 1 .. (Len(backlog) - 1)
        /\ \A i \in 1 .. (Len(backlog) - 1) : backlog'[i] = backlog[i + 1]
    BY <2>1, <2>2
  <2>4. \A i \in DOMAIN backlog' : i + 1 \in DOMAIN backlog /\ backlog[i + 1] = backlog'[i]
    BY <2>3
  <2>5. \A c \in Clients : sock'[c].response = sock[c].response /\ sock'[c].request = sock[c].request
    BY <1>0, <2>1 DEF SockTyped, Sock
  <2> QED BY <1>1, <2>1, <2>4, <2>5, QuietNet
<1>5. CASE Release
  <2>1. /\ UNCHANGED <<backlog, hook, edited, asked>>
        /\ sock' = [sock EXCEPT ![serving].end = "closed"]
    BY <1>5 DEF Release, histVars
  <2>2. \A c \in Clients : sock'[c].response = sock[c].response /\ sock'[c].request = sock[c].request
    BY <1>0, <2>1 DEF SockTyped, Sock
  <2> QED BY <1>1, <2>1, <2>2, QuietNet
<1> QED BY <1>2, <1>3, <1>4, <1>5, SubmitNet, PromoteNet, ListNet DEF Server, HandleLine

LEMMA NetStep ==
  ASSUME ClientsInv, [Next]_vars, HistTyped', Moves
  PROVE  NetPart'
<1>0. TypeOK /\ SockTyped /\ BacklogTyped /\ ProcessTyped
  BY TypeParts DEF ClientsInv
<1>1. ASSUME UNCHANGED <<netVars, hook, edited, asked>>, ProcessTyped'
      PROVE  NetPart'
  <2>1. UNCHANGED <<backlog, serving, sock>>
    BY <1>1 DEF netVars
  <2>2. BacklogTyped' /\ SockTyped'
    BY <1>0, <2>1 DEF BacklogTyped, SockTyped
  <2> QED BY <1>1, <2>1, <2>2, QuietNet
<1>2. UNCHANGED <<phase, starts>> => ProcessTyped'
  BY <1>0 DEF ProcessTyped
<1>3. ASSUME NEW j, PublishProvider(j) \/ Claim(j) \/ Finish(j) \/ Cancel(j)
      PROVE  NetPart'
  BY <1>1, <1>2, <1>3 DEF PublishProvider, Claim, Finish, Cancel, histVars
<1>4. CASE Serve \/ Start
  <2>1. UNCHANGED <<netVars, hook, edited, asked>>
    BY <1>4 DEF Serve, Start, histVars
  <2>2. ProcessTyped'
    BY <1>0, <1>4, Constants DEF Serve, Start, ProcessTyped
  <2> QED BY <1>1, <2>1, <2>2
<1>5. CASE Stop
  <2>1. /\ backlog' = <<>> /\ serving' = Nobody /\ phase' = "down" /\ starts' = starts
        /\ sock' = [c \in Clients |-> [sock[c] EXCEPT !.end = "closed", !.request = NoLine]]
        /\ UNCHANGED <<hook, edited, asked>>
    BY <1>5 DEF Stop, histVars
  <2>2. ASSUME NEW c \in Clients
        PROVE  /\ sock'[c] \in Sock /\ sock'[c].response = sock[c].response
               /\ sock'[c].request = NoLine
    BY <1>0, <2>1 DEF SockTyped, Sock
  <2>3. SockTyped'
    BY <2>1, <2>2 DEF SockTyped
  <2>4. BacklogTyped' /\ ProcessTyped' /\ DOMAIN backlog' = {}
    <3>1. BacklogTyped' /\ DOMAIN backlog' = {}
      <4>1. <<>> \in Seq(Clients) /\ IsInjective(<<>>) /\ DOMAIN <<>> = {}
        BY DEF IsInjective
      <4> QED BY <2>1, <4>1 DEF BacklogTyped
    <3>2. ProcessTyped'
      BY <1>0, <2>1 DEF ProcessTyped
    <3> QED BY <3>1, <3>2
  <2> QED BY <2>1, <2>2, <2>3, <2>4, QuietNet
<1>6. CASE ClientExits
  BY <1>1, <1>2, <1>6 DEF ClientExits, histVars
<1>7. CASE UNCHANGED vars
  BY <1>1, <1>2, <1>7 DEF vars, histVars
<1>8. ASSUME NEW h \in Clients, ClientStep(h) PROVE NetPart'
  BY <1>8, ClientNet
<1>9. (\E h \in Dirty, f \in Sources : RunDirty(h, f)) => \E h \in Clients : ClientStep(h)
  BY Constants DEF ClientStep
<1>10. (\E h \in Enrich, p \in Projects, fs \in SUBSET Files : RunEnrich(h, {p} \X fs))
         => \E h \in Clients : ClientStep(h)
  BY Constants, Zenon DEF ClientStep
<1>11. (\E c \in UiClients, m \in Modes : RunConfig(c, m)) => \E h \in Clients : ClientStep(h)
  BY Constants DEF ClientStep
<1>12. (\E c \in Clients : Connect(c) \/ ConnectFails(c) \/ Send(c) \/ Receive(c) \/ GiveUp(c))
         => \E h \in Clients : ClientStep(h)
  BY DEF ClientStep
<1> QED BY <1>3, <1>4, <1>5, <1>6, <1>7, <1>8, <1>9, <1>10, <1>11, <1>12, ServerNet
        DEF Next, Daemon, Jobs

LEMMA StepKeepsInvariant ==
  ASSUME ClientsInv, [Next]_vars
  PROVE  ClientsInv'
<1>0. TypeOK /\ TableInv
  BY DEF ClientsInv
<1>1. HistTyped' /\ Moves
  BY <1>0, HistStep, StepMoves
<1>2. NetPart'
  BY <1>1, NetStep
<1>3. UiTypeOK(1 .. MaxStarts)' /\ UiInv'
  BY UiStep
<1>4. TableInv' /\ StoreTypeOK'
  BY <1>0, TableStep, TableKept
<1>5. TypeOK'
  BY <1>1, <1>2, <1>3, <1>4
     DEF NetPart, TypeOK, ProcessTyped, BacklogTyped, SockTyped, HookTyped, HistTyped, Sock, Hook, Edits
<1> QED BY <1>2, <1>3, <1>4, <1>5 DEF ClientsInv, NetPart

-----------------------------------------------------------------------------
(* The initial states *)

LEMMA InitTable ==
  ASSUME Init
  PROVE  StoreTypeOK /\ TableInv
<1> USE JobStoreAssumption DEF JobIds, Times, NotRegistered, NoProgress, LastStage
<1>0. \A f \in Sources : recorded[f] = 0 /\ edited[f] = 0 /\ scanned[f] = 0
  BY DEF Init, Zero
<1>1. CASE StoreInit
  <2>1. StoreTypeOK
    BY <1>1 DEF StoreInit, StoreTypeOK, Statuses, NoJob
  <2>2. StoreInv /\ OneExecuting
    BY <1>1 DEF StoreInit, StoreInv, Allocated, UniqueIndexes, RowChecks, OneLiveFullScan,
       SuccessorIsLater, SupersededIsCovered, OneExecuting, IsPending, IsExecuting, IsTerminal,
       Executing, Terminal, NoJob
  <2>3. SameClock
    BY <1>1 DEF StoreInit, SameClock
  <2>4. \A f \in Sources : JobsOf(f) = {}
    BY <1>1, SourceIsKey DEF StoreInit, JobsOf
  <2>5. \A f \in Sources : Latest(f) /\ Newer(f)
    BY <1>0, <2>4 DEF Latest, Newer
  <2> QED BY <2>1, <2>2, <2>3, <2>5 DEF TableInv
<1>2. ASSUME NEW p \in Projects, NEW g \in Files, StoreOfEarlierDay(p, g)
      PROVE  StoreTypeOK /\ TableInv
  <2>0. 1 \in JobIds /\ <<p, g>> \in Projects \X Targets /\ <<p, g>> # NoKey
    BY <1>2 DEF StoreOfEarlierDay, Targets, NoKey
  <2>1. StoreTypeOK
    BY <1>2, <2>0 DEF StoreOfEarlierDay, StoreTypeOK, Statuses, Terminal, NoJob
  <2>2. /\ status[1] = "succeeded" /\ key[1] = <<p, g>> /\ created[1] = 0 /\ clock = 0
        /\ started = {1} /\ finished = {1} /\ lastId = 1
        /\ \A j \in JobIds : by[j] = NoJob
        /\ \A j \in JobIds : j # 1 => status[j] = "absent" /\ key[j] = NoKey
        /\ \A q \in Projects : projects[q] \in {NotRegistered, 0}
    BY <1>2, <2>0 DEF StoreOfEarlierDay
  <2>3. StoreInv /\ OneExecuting
    BY <2>0, <2>2 DEF StoreInv, Allocated, UniqueIndexes, RowChecks, OneLiveFullScan,
       SuccessorIsLater, SupersededIsCovered, OneExecuting, IsPending, IsExecuting, IsTerminal,
       Executing, Terminal
  <2>4. SameClock
    BY <2>2 DEF SameClock
  <2>5. ASSUME NEW f \in Sources PROVE JobsOf(f) \subseteq {1}
    BY <2>2, SourceIsKey DEF JobsOf
  <2>6. ASSUME NEW f \in Sources PROVE Latest(f)
    <3>1. CASE JobsOf(f) = {}
      BY <1>0, <3>1 DEF Latest
    <3>2. CASE 1 \in JobsOf(f)
      <4>1. Covers(1, f, recorded[f])
        BY <1>0, <2>2 DEF Covers, IsExecuting, Executing
      <4>2. \A k \in JobsOf(f) : k <= 1
        BY <2>5
      <4> QED BY <3>2, <4>1, <4>2 DEF Latest
    <3> QED BY <2>5, <3>1, <3>2
  <2>7. ASSUME NEW f \in Sources PROVE Newer(f)
    BY <2>5 DEF Newer
  <2> QED BY <2>1, <2>3, <2>4, <2>6, <2>7 DEF TableInv
<1> QED BY <1>1, <1>2 DEF Init

LEMMA InitNet ==
  ASSUME Init
  PROVE  NetPart /\ HistTyped
<1>1. HistTyped
  BY Constants DEF Init, HistTyped, Edits, Zero
<1>2. ProcessTyped
  BY Constants DEF Init, ProcessTyped
<1>3. BacklogTyped /\ DOMAIN backlog = {}
  BY DEF Init, BacklogTyped, IsInjective
<1>4. Closed \in Sock /\ Closed.request = NoLine /\ Closed.response = NoLine
  BY DEF Closed, Sock
<1>5. serving = Nobody /\ sock = [c \in Clients |-> Closed]
  BY DEF Init
<1>6. SockTyped
  BY <1>4, <1>5 DEF SockTyped
<1>7. PICK cast \in Casts : hook = [c \in Clients |-> IF c \in cast.clients THEN Idle ELSE Failed]
  BY DEF Init
<1>8. HookTyped /\ \A c \in Clients : hook[c] \in {Idle, Failed}
  BY <1>7, StillHooks DEF HookTyped
<1>9. NetInv
  BY <1>3 DEF NetInv
<1>10. Budget
  <2> DEFINE idle == {h \in Dirty : hook[h].pc = "idle"}
  <2>1. IsFiniteSet(Dirty) /\ idle \subseteq Dirty
    BY Constants
  <2>2. Cardinality(idle) <= Cardinality(Dirty) /\ Cardinality(idle) \in Nat
    BY <2>1, FS_Subset, FS_CardinalityType
  <2>3. \A f \in Sources : edited[f] = 0
    BY DEF Init, Zero
  <2> HIDE DEF idle
  <2>4. \A f \in Sources : edited[f] + Cardinality(idle) <= MaxEdits
    BY <2>2, <2>3 DEF MaxEdits
  <2> QED BY <2>4 DEF Budget, idle
<1>11. NoLine.op = "none"
  BY DEF NoLine
<1>12. ASSUME NEW c \in Clients PROVE LinesFit(hook[c], sock[c])
  <2>1. sock[c] = Closed /\ hook[c].line = NoLine /\ hook[c].pc # "await"
    BY <1>5, <1>8, StillHooks
  <2> QED BY <1>4, <1>11, <2>1 DEF LinesFit
<1>13. ASSUME NEW h \in Enrich PROVE Knows(h, hook[h], sock[h])
  <2>1. /\ hook[h].pc \in {"idle", "failed"} /\ hook[h].todo = {}
        /\ \A f \in Sources : hook[h].said[f] = "unasked"
    BY <1>8, StillHooks, Constants
  <2> QED BY <2>1 DEF Knows, Silent, Asks, Hears
<1> QED BY <1>1, <1>2, <1>3, <1>6, <1>8, <1>9, <1>10, <1>12, <1>13 DEF NetPart

LEMMA InitInvariant ==
  ASSUME Init
  PROVE  ClientsInv
<1>1. StoreTypeOK /\ TableInv /\ NetPart /\ HistTyped
  BY InitTable, InitNet
<1>2. /\ slot = 0 /\ spawning = 0 /\ child = [c \in Children |-> NoChild]
      /\ phase = "opened" /\ serving = Nobody
  BY DEF Init, UiInit
<1>3. UiTypeOK(1 .. MaxStarts)
  BY <1>2, Constants DEF UiTypeOK
<1>4. UiInv
  BY <1>2 DEF UiInv, OneConfigUi
<1>5. TypeOK
  BY <1>1, <1>3, TypeParts DEF NetPart
<1> QED BY <1>1, <1>4, <1>5 DEF ClientsInv, NetPart

-----------------------------------------------------------------------------
(* What is proved *)

(* The invariant of clients, connections, job table and config UI *)
THEOREM ClientsInvariant == Spec => []ClientsInv
<1>1. Init => ClientsInv
  BY InitInvariant
<1>2. ClientsInv /\ [Next]_vars => ClientsInv'
  BY StepKeepsInvariant
<1> QED BY <1>1, <1>2, PTL DEF Spec

(* Clients, connections, job table and config UI stay well typed: a hook   *)
(* never counts more edits than there were hooks, and no connection waits  *)
(* twice in the backlog of the listener (server.rs, hook_client.rs).       *)
THEOREM ClientsTyped == Spec => []TypeOK
<1>1. ClientsInv => TypeOK
  BY DEF ClientsInv
<1> QED BY <1>1, ClientsInvariant, PTL

(* An enrichment that prints no freshness signal for a file is right: the  *)
(* edits recorded when the server answered it were seen by a scan that     *)
(* succeeded, however the jobs, other hooks and restarts of the daemon     *)
(* come between latest_job, promote and submit (hook_client.rs:558).       *)
THEOREM SilenceCorrect == Spec => []SilenceMeansScanned
<1>1. ClientsInv => SilenceMeansScanned
  BY DEF ClientsInv, Knows, Silent, SilenceMeansScanned
<1> QED BY <1>1, ClientsInvariant, PTL

(* At most one config UI of a daemon runs, for any number of opens,        *)
(* refused reports and restarts (ui_host.rs:113, ui_host.rs:216).          *)
THEOREM OneUiCorrect == Spec => []OneConfigUi
<1>1. ClientsInv => OneConfigUi
  BY DEF ClientsInv, UiInv
<1> QED BY <1>1, ClientsInvariant, PTL
=============================================================================
