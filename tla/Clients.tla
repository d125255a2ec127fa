------------------------------- MODULE Clients ------------------------------
(***************************************************************************)
(* The hooks of the editor (remy-cc/src/hook_client.rs) and the config     *)
(* command, as clients of the IPC server (remy-cc/src/server.rs), over the *)
(* job table (JobStore) and the config UI host (UiHost).                   *)
(*                                                                         *)
(* The server reads one connection at a time, line by line; a client that  *)
(* connects meanwhile waits in the backlog of the listener.  A hook gives  *)
(* up 100 ms after it has sent a request, but the line it wrote stays in   *)
(* the socket and the server still reads it.  Between the requests of a    *)
(* hook the jobs go on: they are claimed, finished and cancelled.          *)
(*                                                                         *)
(* The clock does not move here: of the jobs of a file the latest is the   *)
(* last one inserted.  (List orders by created_at; a clock set back may    *)
(* make it answer with an older job.)  The scheduler thread and its worker *)
(* are the subject of Daemon; what clients see of them are the steps of    *)
(* JobStore.                                                               *)
(***************************************************************************)
EXTENDS JobStore, UiHost, Sequences, SequencesExt

CONSTANTS
  Dirty,      \* runs of the dirty hook (PostToolUse of Edit and Write)
  Enrich,     \* runs of the enrichment hook (PreToolUse of Read, Glob, Grep)
  UiClients,  \* runs of `remy-cc config`
  Casts,      \* [clients, scanned]: who runs side by side, and over which job table
  Nobody,     \* no connection is being served
  MaxStarts   \* bound: how often the daemon starts

VARIABLES
  phase,      \* "down", "opened" (state.db is open), "up" (serving)
  starts,     \* how often the daemon has started
  backlog,    \* connections not accepted yet
  serving,    \* the client whose connection handle_connection reads
  sock,       \* the connection of each client
  hook,       \* the process of each client
  edited,     \* history: how many edits each file has seen
  recorded,   \* history: the last edit of each file a handled submission was for
  asked,      \* history: `recorded` when the server last answered a hook about a file
  upTo,       \* history: the edits a job's scan has seen when it was claimed
  scanned     \* history: the last edit of each file a succeeded scan has seen

netVars == <<backlog, serving, sock>>
histVars == <<edited, recorded, asked, upTo, scanned>>
vars == <<storeVars, clock, uiVars, phase, starts, netVars, hook, histVars>>

Hooks == Dirty \cup Enrich
Clients == Hooks \cup UiClients
MaxEdits == Cardinality(Dirty)

ASSUME ClientsAssumption ==
  /\ Dirty \cap Enrich = {} /\ Hooks \cap UiClients = {}
  /\ IsFiniteSet(Dirty)
  /\ Nobody \notin Clients
  /\ 1 \in Priorities
  /\ MaxStarts \in Nat \ {0} /\ MaxChildren \in Nat
  /\ Casts \subseteq [clients : SUBSET Clients, scanned : BOOLEAN]

(* A request names a file together with its project *)
Sources == Projects \X Files

NoLine == [op |-> "none"]
SubmitLine(f, prio, n) == [op |-> "submit", file |-> f, prio |-> prio, edit |-> n]
ListLine(f) == [op |-> "list", file |-> f]
PromoteLine(j) == [op |-> "promote", job |-> j]
UiLine(m) == [op |-> "open_config_ui", mode |-> m]
JobLine(j, st) == [op |-> "job", job |-> j, status |-> st]
ErrorLine == [op |-> "error"]
UiReady == [op |-> "config_ui"]

Requests == {SubmitLine(f, prio, n) : f \in Sources, prio \in Priorities, n \in 0 .. MaxEdits}
              \cup {ListLine(f) : f \in Sources} \cup {PromoteLine(j) : j \in JobIds}
              \cup {UiLine(m) : m \in Modes}
Responses == {JobLine(j, st) : j \in JobIds \cup {NoJob}, st \in Statuses}
               \cup {ErrorLine, UiReady}

\* end: what the server's side of the connection is
Closed == [end |-> "closed", open |-> FALSE, request |-> NoLine, response |-> NoLine]
Signals == {"unasked", "silent", "pending", "running", "retrying"}
Idle == [pc |-> "idle", todo |-> {}, line |-> NoLine, said |-> [f \in Sources |-> "unasked"]]
Failed == [Idle EXCEPT !.pc = "failed"]
Zero == [f \in Sources |-> 0]

(* A state database that has seen one scan of a file *)
StoreOfEarlierDay(p, f) ==
  /\ MaxJobs > 0
  /\ status = [j \in JobIds |-> IF j = 1 THEN "succeeded" ELSE "absent"]
  /\ key = [j \in JobIds |-> IF j = 1 THEN <<p, f>> ELSE NoKey]
  /\ created = [j \in JobIds |-> 0]
  /\ priority = [j \in JobIds |-> 0]
  /\ progress = [j \in JobIds |-> IF j = 1 THEN LastStage ELSE NoProgress]
  /\ started = {1}
  /\ finished = {1}
  /\ by = [j \in JobIds |-> NoJob]
  /\ lastId = 1
  /\ projects = [q \in Projects |-> IF q = p THEN 0 ELSE NotRegistered]
  /\ clock = 0

Init ==
  /\ UiInit
  /\ phase = "opened"
  /\ starts = 1
  /\ backlog = <<>>
  /\ serving = Nobody
  /\ sock = [c \in Clients |-> Closed]
  /\ \E cast \in Casts :
       /\ hook = [c \in Clients |-> IF c \in cast.clients THEN Idle ELSE Failed]
       /\ IF cast.scanned THEN \E p \in Projects, f \in Files : StoreOfEarlierDay(p, f)
                           ELSE StoreInit
  /\ edited = Zero
  /\ recorded = Zero
  /\ asked = [h \in Enrich |-> Zero]
  /\ upTo = [j \in JobIds |-> Zero]
  /\ scanned = Zero

TypeOK ==
  /\ StoreTypeOK
  /\ UiTypeOK(1 .. MaxStarts)
  /\ phase \in {"down", "opened", "up"}
  /\ starts \in 1 .. MaxStarts
  /\ backlog \in Seq(Clients) /\ IsInjective(backlog)
  /\ serving \in Clients \cup {Nobody}
  /\ sock \in [Clients -> [end : {"closed", "queued", "served"}, open : BOOLEAN,
                           request : Requests \cup {NoLine},
                           response : Responses \cup {NoLine}]]
  /\ hook \in [Clients -> [pc : {"idle", "connect", "send", "await", "done", "failed"},
                           todo : SUBSET Sources, line : Requests \cup {NoLine},
                           said : [Sources -> Signals]]]
  /\ edited \in [Sources -> 0 .. MaxEdits] /\ recorded \in [Sources -> 0 .. MaxEdits]
  /\ scanned \in [Sources -> 0 .. MaxEdits]
  /\ asked \in [Enrich -> [Sources -> 0 .. MaxEdits]]
  /\ upTo \in [JobIds -> [Sources -> 0 .. MaxEdits]]

-----------------------------------------------------------------------------
(* The jobs go on: scheduler and worker, as the table sees them *)

Claim(j) ==
  /\ phase = "up"
  /\ \A k \in JobIds : ~IsExecuting(k)
  /\ claim_next_pending(j)
  /\ upTo' = [upTo EXCEPT ![j] = edited]
  /\ UNCHANGED <<clock, uiVars, phase, starts, netVars, hook, edited, recorded, asked, scanned>>

FilesOf(j) == {f \in Sources : key[j] \in {f, <<f[1], FullScan>>}}

Finish(j) ==
  /\ phase = "up"
  /\ \/ /\ complete(j, "succeeded")
        /\ scanned' = [f \in Sources |-> IF f \in FilesOf(j) /\ upTo[j][f] > scanned[f]
                                       THEN upTo[j][f] ELSE scanned[f]]
     \/ /\ complete(j, "failed") \/ confirm_cancelled(j)
        /\ UNCHANGED scanned
  /\ UNCHANGED <<clock, uiVars, phase, starts, netVars, hook, edited, recorded, asked, upTo>>

Cancel(j) ==
  /\ phase = "up"
  /\ CancelPending(j) \/ CancelRunning(j)
  /\ UNCHANGED <<clock, uiVars, phase, starts, netVars, hook, histVars>>

-----------------------------------------------------------------------------
(* The daemon: the sockets and the slot go with the process, the table stays *)

(* A newly published provider schedules a full scan, once *)
PublishProvider(p) ==
  /\ phase = "opened"
  /\ \A j \in JobIds : key[j] # <<p, FullScan>>
  /\ FullScanInserted(p)
  /\ UNCHANGED <<clock, uiVars, phase, starts, netVars, hook, histVars>>

Serve ==
  /\ phase = "opened"
  /\ phase' = "up"
  /\ UNCHANGED <<storeVars, clock, uiVars, starts, netVars, hook, histVars>>

(* A kill, a shutdown request or a fatal error of the state database *)
Stop ==
  /\ phase = "up"
  /\ phase' = "down"
  /\ UiHostEnds
  /\ backlog' = <<>>
  /\ serving' = Nobody
  /\ sock' = [c \in Clients |-> [sock[c] EXCEPT !.end = "closed", !.request = NoLine]]
  /\ UNCHANGED <<storeVars, clock, starts, hook, histVars>>

Start ==
  /\ phase = "down"
  /\ starts < MaxStarts
  /\ phase' = "opened"
  /\ starts' = starts + 1
  /\ recover
  /\ UNCHANGED <<clock, uiVars, netVars, hook, histVars>>

-----------------------------------------------------------------------------
(* serve and handle_connection *)

Accept ==
  /\ phase = "up"
  /\ serving = Nobody
  /\ backlog # <<>>
  /\ serving' = Head(backlog)
  /\ backlog' = Tail(backlog)
  /\ sock' = [sock EXCEPT ![Head(backlog)].end = "served"]
  /\ UNCHANGED <<storeVars, clock, uiVars, phase, starts, hook, histVars>>

Line == sock[serving].request

Reads(op) == serving # Nobody /\ spawning = 0 /\ Line.op = op

Answers(response) ==
  /\ sock' = [sock EXCEPT ![serving].request = NoLine,
                          ![serving].response = response]
  /\ UNCHANGED <<clock, phase, starts, backlog, serving, hook>>

(* The job a submission was recorded in *)
RecordedIn(f) ==
  IF lastId' # lastId THEN lastId' ELSE CHOOSE j \in PendingFor(f[1], f[2]) : TRUE

HandleSubmit ==
  /\ Reads("submit")
  /\ submit(Line.file[1], Line.file[2], Line.prio)
  /\ recorded' = [recorded EXCEPT ![Line.file] = IF @ < Line.edit THEN Line.edit ELSE @]
  /\ LET j == RecordedIn(Line.file) IN Answers(JobLine(j, status'[j]))
  /\ UNCHANGED <<uiVars, edited, asked, upTo, scanned>>

HandlePromote ==
  /\ Reads("promote")
  /\ promote(Line.job, 1)
  /\ Answers(JobLine(Line.job, status[Line.job]))
  /\ UNCHANGED <<uiVars, histVars>>

(* ListJobs with limit 1: ORDER BY created_at DESC, id DESC *)
JobsOf(f) == {j \in JobIds : key[j] = f}

(* Mutant: the oldest job is answered *)
OldestJob(f) == IF JobsOf(f) = {} THEN NoJob ELSE CHOOSE j \in JobsOf(f) : \A k \in JobsOf(f) : j <= k

LatestJob(f) ==
  IF JobsOf(f) = {} THEN NoJob
  ELSE CHOOSE j \in JobsOf(f) : \A k \in JobsOf(f) :
         \/ created[k] < created[j]
         \/ created[k] = created[j] /\ k <= j

HandleList ==
  /\ Reads("list")
  /\ LET j == LatestJob(Line.file) IN
       Answers(JobLine(j, IF j = NoJob THEN "absent" ELSE status[j]))
  /\ asked' = [asked EXCEPT ![serving][Line.file] = recorded[Line.file]]
  /\ UNCHANGED <<storeVars, uiVars, edited, recorded, upTo, scanned>>

HandleOpenConfigUi ==
  /\ Reads("open_config_ui")
  /\ \/ OpenReady(Line.mode) /\ Answers(UiReady)
     \/ (OpenConflict(Line.mode) \/ OpenRefused(Line.mode)) /\ Answers(ErrorLine)
     \/ OpenSpawns(Line.mode, starts) /\ UNCHANGED <<clock, phase, starts, netVars, hook>>
  /\ UNCHANGED <<storeVars, histVars>>

(* The server waits in `spawn` until the child has reported or is given up *)
SpawnEnds ==
  /\ serving # Nobody
  /\ \/ ReportAccepted /\ Answers(UiReady)
     \/ ReportRefused /\ Answers(ErrorLine)
  /\ UNCHANGED <<storeVars, histVars>>

HandleLine == HandleSubmit \/ HandlePromote \/ HandleList \/ HandleOpenConfigUi

(* Mutant: no read timeout, the server only leaves a connection at its end *)
ReleasesOnlyAtEof ==
  /\ serving # Nobody /\ spawning = 0 /\ Line = NoLine
  /\ ~sock[serving].open
  /\ sock' = [sock EXCEPT ![serving].end = "closed"]
  /\ serving' = Nobody
  /\ UNCHANGED <<storeVars, clock, uiVars, phase, starts, backlog, hook, histVars>>

(* End of file, or nothing to read for IO_TIMEOUT *)
Release ==
  /\ serving # Nobody /\ spawning = 0 /\ Line = NoLine
  /\ sock' = [sock EXCEPT ![serving].end = "closed"]
  /\ serving' = Nobody
  /\ UNCHANGED <<storeVars, clock, uiVars, phase, starts, backlog, hook, histVars>>

-----------------------------------------------------------------------------
(* The clients *)

(* Mutant: the dirty hook submits at a priority the contract does not have *)
RunDirtyUrgently(h, f) ==
  /\ hook[h].pc = "idle"
  /\ edited' = [edited EXCEPT ![f] = @ + 1]
  /\ hook' = [hook EXCEPT ![h].pc = "connect", ![h].line = SubmitLine(f, 2, edited'[f])]
  /\ UNCHANGED <<storeVars, clock, uiVars, phase, starts, netVars, recorded, asked, upTo, scanned>>

(* The tool has written the file when the dirty hook runs *)
RunDirty(h, f) ==
  /\ hook[h].pc = "idle"
  /\ edited' = [edited EXCEPT ![f] = @ + 1]
  /\ hook' = [hook EXCEPT ![h].pc = "connect", ![h].line = SubmitLine(f, 0, edited'[f])]
  /\ UNCHANGED <<storeVars, clock, uiVars, phase, starts, netVars, recorded, asked, upTo, scanned>>

(* The file that is read, and the files it imports *)
RunEnrich(h, targets) ==
  /\ hook[h].pc = "idle"
  /\ targets # {}
  /\ hook' = [hook EXCEPT ![h].pc = "connect", ![h].todo = targets]
  /\ UNCHANGED <<storeVars, clock, uiVars, phase, starts, netVars, histVars>>

RunConfig(c, m) ==
  /\ hook[c].pc = "idle"
  /\ hook' = [hook EXCEPT ![c].pc = "connect", ![c].line = UiLine(m)]
  /\ UNCHANGED <<storeVars, clock, uiVars, phase, starts, netVars, histVars>>

(* The next file of an enrichment, or its end; others have a line to send *)
Turn(h) ==
  \/ /\ h \notin Enrich
     /\ hook' = [hook EXCEPT ![h].pc = "send"]
  \/ \E f \in hook[h].todo :
       hook' = [hook EXCEPT ![h].pc = "send", ![h].line = ListLine(f), ![h].todo = @ \ {f}]
  \/ /\ h \in Enrich /\ hook[h].todo = {}
     /\ hook' = [hook EXCEPT ![h].pc = "done"]

(* IpcConnection::connect; the kernel completes it while the server is busy *)
Connect(h) ==
  /\ hook[h].pc = "connect"
  /\ phase = "up"
  /\ backlog' = Append(backlog, h)
  /\ sock' = [sock EXCEPT ![h] = [Closed EXCEPT !.end = "queued", !.open = TRUE]]
  /\ Turn(h)
  /\ UNCHANGED <<storeVars, clock, uiVars, phase, starts, serving, histVars>>

(* No endpoint files, refused, or not within 35 ms: an enrichment goes on  *)
(* without the freshness signal, the edit of a dirty hook stays unrecorded *)
ConnectFails(h) ==
  /\ hook[h].pc = "connect"
  /\ hook' = [hook EXCEPT ![h] = IF h \in Enrich THEN [@ EXCEPT !.pc = "done", !.todo = {}] ELSE Failed]
  /\ UNCHANGED <<storeVars, clock, uiVars, phase, starts, netVars, histVars>>

(* IpcConnection::request *)
Send(h) ==
  /\ hook[h].pc = "send"
  /\ sock' = [sock EXCEPT ![h].request = IF sock[h].end = "closed" THEN NoLine ELSE hook[h].line]
  /\ hook' = [hook EXCEPT ![h].pc = "await"]
  /\ UNCHANGED <<storeVars, clock, uiVars, phase, starts, backlog, serving, histVars>>

(* The connection was closed, or READ_TIMEOUT has passed: the client closes  *)
(* its end, an enrichment prints nothing                                     *)
GiveUp(h) ==
  /\ hook[h].pc = "await"
  /\ hook' = [hook EXCEPT ![h] = Failed]
  /\ sock' = [sock EXCEPT ![h].open = FALSE, ![h].response = NoLine]
  /\ UNCHANGED <<storeVars, clock, uiVars, phase, starts, backlog, serving, histVars>>

Response(h) == sock[h].response

job_action(st) ==
  CASE st = "succeeded" -> "none"
    [] st = "pending" -> "promote"
    [] st = "running" -> "running"
    [] OTHER -> "retry"

Signal(h, f, signal) ==
  [hook[h] EXCEPT !.said[f] = signal, !.line = NoLine]

Continue(h, state) ==
  \/ \E f \in state.todo :
       hook' = [hook EXCEPT ![h] = [state EXCEPT !.pc = "send", !.line = ListLine(f),
                                                 !.todo = @ \ {f}]]
  \/ state.todo = {} /\ hook' = [hook EXCEPT ![h] = [state EXCEPT !.pc = "done"]]

SendNext(h, line) == hook' = [hook EXCEPT ![h].pc = "send", ![h].line = line]

apply_job_state(h, f, j, st, promoted) ==
  CASE job_action(st) = "none" -> Continue(h, Signal(h, f, "silent"))
    [] job_action(st) = "running" -> Continue(h, Signal(h, f, "running"))
    [] job_action(st) = "promote" ->
         IF promoted THEN Continue(h, Signal(h, f, "pending")) ELSE SendNext(h, PromoteLine(j))
    [] OTHER -> SendNext(h, SubmitLine(f, 1, 0))

FileOf(h) == IF hook[h].line.op = "promote" THEN key[hook[h].line.job] ELSE hook[h].line.file

ReceiveEnrich(h) ==
  LET line == hook[h].line
      f == FileOf(h)
      answer == Response(h) IN
  CASE line.op = "submit" -> Continue(h, Signal(h, f, "retrying"))
    [] line.op # "submit" /\ answer.job = NoJob -> Continue(h, Signal(h, f, "silent"))
    [] OTHER -> apply_job_state(h, f, answer.job, answer.status, line.op = "promote")

Receive(h) ==
  /\ hook[h].pc = "await"
  /\ Response(h) # NoLine
  /\ IF h \in Enrich THEN ReceiveEnrich(h) ELSE hook' = [hook EXCEPT ![h].pc = "done"]
  /\ sock' = [sock EXCEPT ![h].response = NoLine, ![h].open = hook'[h].pc # "done"]
  /\ UNCHANGED <<storeVars, clock, uiVars, phase, starts, backlog, serving, histVars>>

ClientExits == ChildExits /\ UNCHANGED <<storeVars, clock, phase, starts, netVars, hook, histVars>>

-----------------------------------------------------------------------------
Daemon == (\E p \in Projects : PublishProvider(p)) \/ Serve \/ Stop \/ Start
Jobs == \E j \in JobIds : Claim(j) \/ Finish(j) \/ Cancel(j)
Server == Accept \/ HandleLine \/ SpawnEnds \/ Release

Next ==
  \/ Daemon \/ Jobs \/ Server \/ ClientExits
  \/ \E h \in Dirty, f \in Sources : RunDirty(h, f)
  \/ \E h \in Enrich, p \in Projects, fs \in SUBSET Files : RunEnrich(h, {p} \X fs)
  \/ \E c \in UiClients, m \in Modes : RunConfig(c, m)
  \/ \E c \in Clients : Connect(c) \/ ConnectFails(c) \/ Send(c) \/ Receive(c) \/ GiveUp(c)

Spec == Init /\ [][Next]_vars

(* The server thread is never idle when it has something to do: a blocking  *)
(* read returns at the latest after IO_TIMEOUT, a wait for the report of a  *)
(* config UI after report_timeout.                                          *)
FairSpec == Spec /\ WF_vars(Accept) /\ WF_vars(HandleLine) /\ WF_vars(SpawnEnds) /\ WF_vars(Release)

-----------------------------------------------------------------------------
(***************************************************************************)
(* Invariant: an enrichment that prints no freshness signal for a file is  *)
(* right.  Every edit of the file that was recorded when the server        *)
(* answered the hook has been seen by a scan that succeeded, whatever the  *)
(* jobs did between latest_job, promote and submit (hook_client.rs:558).   *)
(***************************************************************************)
SilenceMeansScanned ==
  \A h \in Enrich, f \in Sources :
    hook[h].said[f] = "silent" => asked[h][f] <= scanned[f]

(***************************************************************************)
(* Invariant: at most one config UI of a daemon is running, the one in the *)
(* slot or the one that has not reported yet: a child that was refused     *)
(* (ui_host.rs:216) does not go on beside the next one, and a conflicting  *)
(* open does not replace the one that runs (ui_host.rs:113).               *)
(***************************************************************************)
OneConfigUi ==
  \A c \in Children : Running(c) /\ child[c].daemon = starts /\ phase = "up"
                      => c \in {slot, spawning}

(***************************************************************************)
(* Liveness: a line in a socket is read, although the server reads one     *)
(* connection at a time and may be waiting for an idle client or for a     *)
(* config UI (server.rs:50), and although its sender may be gone: what a   *)
(* hook submitted before it gave up is recorded, unless the daemon stops.  *)
(***************************************************************************)
LinesAreRead ==
  \A c \in Clients : sock[c].request # NoLine ~> sock[c].request = NoLine
=============================================================================
