------------------------------ MODULE ScanIndex -----------------------------
(***************************************************************************)
(* A project's logic index and the scanner processes that write it         *)
(* (remy-cc/scanner-core/src: scan.rs, writer.rs, lock.rs, discovery.rs).  *)
(* The daemon's workers, the command line and the agent's hooks all start  *)
(* scanners; they exclude one another by a file lock, may time out on it,  *)
(* fail or be killed at any step, while sources and configuration change   *)
(* under them.                                                             *)
(*                                                                         *)
(* The rows of a source are abstracted to the content they were parsed     *)
(* from and to whether the parser that wrote them is current.  What        *)
(* postprocessing derives from them is the subject of Postprocess.         *)
(***************************************************************************)
EXTENDS Integers, FiniteSets

CONSTANTS
  Scanners,    \* processes
  Files,       \* paths under the project root
  Parsable,    \* those with an extension of a supported language
  Contents,    \* what a file may hold
  Unreadable,  \* contents that cannot be read or decoded
  Absent,      \* no such file, no such row
  NoScanner,
  Requests,    \* lists of files a scan may be asked for
  InitialDbs,  \* what earlier versions of the scanner may have left
  MaxScans,    \* bound: scans started
  MaxEdits     \* bound: changes of sources or configuration

ASSUME IndexAssumption ==
  /\ Parsable \subseteq Files
  /\ Unreadable \subseteq Contents
  /\ Absent \notin Contents
  /\ NoScanner \notin Scanners
  /\ Requests \subseteq SUBSET Files
  /\ MaxScans \in Nat /\ MaxEdits \in Nat

VARIABLES
  disk,      \* content of each file
  excluded,  \* files the configuration excludes
  db,        \* logic_index.db
  bak,       \* logic_index.db.bak: whether it holds authored summaries
  lock,      \* holder of .claude/logic_index_scan.lock
  pc,        \* where each scanner is
  args,      \* its arguments and the configuration it loaded
  found,     \* what discovery returned to it
  rebuilt,   \* OpenOutcome::Rebuilt
  todo,      \* files still to be parsed
  work,      \* the rows of files, inside its transaction
  dirty,     \* history: files whose content or exclusion changed since it started
  scans, edits

env == <<disk, excluded, edits>>
history == <<dirty, scans>>
index == <<db, bak>>
local == <<args, found, rebuilt, todo, work>>
vars == <<disk, excluded, db, bak, lock, pc, args, found, rebuilt, todo, work, dirty,
          scans, edits>>

Row == {Absent} \cup [content : Contents \ Unreadable, identity : {"outdated", "current"}]
Rows == [Files -> Row]
NoRows == [f \in Files |-> Absent]

Versions == {"none", "old", "current", "newer"}

(* Without tables a database is as good as absent *)
Db == [tables : BOOLEAN, version : Versions, rows : Rows, authored : BOOLEAN]
NoDb == [tables |-> FALSE, version |-> "none", rows |-> NoRows, authored |-> FALSE]
EmptyDb == [tables |-> TRUE, version |-> "none", rows |-> NoRows, authored |-> FALSE]

ASSUME InitialDbAssumption ==
  \A d \in InitialDbs : /\ d \in Db
                        /\ \A f \in Files \ Parsable : d.rows[f] = Absent
                        /\ ~d.tables => d = NoDb

Args == [full : BOOLEAN, requested : SUBSET Files, excluded : SUBSET Files]
NoArgs == [full |-> FALSE, requested |-> {}, excluded |-> {}]

Opening == {"opening", "backing_up", "removing", "creating", "stamping"}
Locked == {"locked", "beginning", "scanning"} \cup Opening
Steps == {"idle", "waiting"} \cup Locked

-----------------------------------------------------------------------------
(* A scanner returns or dies; either way the lock is free again *)
Exit(p) ==
  /\ pc' = [pc EXCEPT ![p] = "idle"]
  /\ lock' = IF lock = p THEN NoScanner ELSE lock
  /\ args' = [args EXCEPT ![p] = NoArgs]
  /\ found' = [found EXCEPT ![p] = {}]
  /\ rebuilt' = [rebuilt EXCEPT ![p] = FALSE]
  /\ todo' = [todo EXCEPT ![p] = {}]
  /\ work' = [work EXCEPT ![p] = NoRows]
  /\ dirty' = [dirty EXCEPT ![p] = {}]

(* scan_full, scan_files: the configuration is loaded before the lock is   *)
(* requested.                                                              *)
Start(p, full, requested) ==
  /\ pc[p] = "idle"
  /\ scans < MaxScans
  /\ scans' = scans + 1
  /\ pc' = [pc EXCEPT ![p] = "waiting"]
  /\ args' = [args EXCEPT ![p] = [full |-> full, requested |-> requested, excluded |-> excluded]]
  /\ dirty' = [dirty EXCEPT ![p] = {}]
  /\ UNCHANGED <<env, index, lock, found, rebuilt, todo, work>>

(* Mutant: the lock is not waited for *)
AcquireWithoutLock(p) ==
  /\ pc[p] = "waiting"
  /\ lock' = p
  /\ pc' = [pc EXCEPT ![p] = "locked"]
  /\ UNCHANGED <<env, index, local, dirty, scans>>

(* acquire_project_scan_lock *)
Acquire(p) ==
  /\ pc[p] = "waiting"
  /\ lock = NoScanner
  /\ lock' = p
  /\ pc' = [pc EXCEPT ![p] = "locked"]
  /\ UNCHANGED <<env, index, local, dirty, scans>>

AcquireTimesOut(p) ==
  /\ pc[p] = "waiting"
  /\ lock # NoScanner
  /\ Exit(p)
  /\ UNCHANGED <<env, index, scans>>

Discovered(p) == {f \in Parsable \ args[p].excluded : disk[f] # Absent}

(* A full scan walks the tree before it opens the database *)
Discover(p) ==
  /\ pc[p] = "locked"
  /\ pc' = [pc EXCEPT ![p] = "opening"]
  /\ found' = [found EXCEPT ![p] = IF args[p].full THEN Discovered(p) ELSE {}]
  /\ UNCHANGED <<env, index, lock, args, rebuilt, todo, work, history>>

-----------------------------------------------------------------------------
(* open_db *)

(* Where open_db may go from the schema it finds; a newer one it refuses.  *)
(* A query of the version that fails counts as one that finds none         *)
OpenOutcomes ==
  IF ~db.tables THEN {"creating"}
  ELSE {"backing_up"} \cup (CASE db.version = "current" -> {"beginning"}
                              [] db.version = "newer" -> {"refused"}
                              [] OTHER -> {})

Open(p) ==
  /\ pc[p] = "opening"
  /\ \E next \in OpenOutcomes \ {"refused"} : pc' = [pc EXCEPT ![p] = next]
  /\ UNCHANGED <<env, index, lock, local, history>>

OpenRefused(p) ==
  /\ pc[p] = "opening"
  /\ "refused" \in OpenOutcomes
  /\ Exit(p)
  /\ UNCHANGED <<env, index, scans>>

(* Mutant: the backup is skipped when there is one already *)
BackupOnce(p) ==
  /\ pc[p] = "backing_up"
  /\ UNCHANGED bak
  /\ pc' = [pc EXCEPT ![p] = "removing"]
  /\ UNCHANGED <<env, db, lock, local, history>>

(* backup_and_rebuild *)
Backup(p) ==
  /\ pc[p] = "backing_up"
  /\ bak' = db.authored
  /\ pc' = [pc EXCEPT ![p] = "removing"]
  /\ UNCHANGED <<env, db, lock, local, history>>

Remove(p) ==
  /\ pc[p] = "removing"
  /\ db' = NoDb
  /\ rebuilt' = [rebuilt EXCEPT ![p] = TRUE]
  /\ pc' = [pc EXCEPT ![p] = "creating"]
  /\ UNCHANGED <<env, bak, lock, args, found, todo, work, history>>

(* create_current_schema: the tables, then in a statement of its own the   *)
(* version                                                                 *)
CreateTables(p) ==
  /\ pc[p] = "creating"
  /\ db' = EmptyDb
  /\ pc' = [pc EXCEPT ![p] = "stamping"]
  /\ UNCHANGED <<env, bak, lock, local, history>>

StampVersion(p) ==
  /\ pc[p] = "stamping"
  /\ db' = [tables |-> db.tables, version |-> "current", rows |-> db.rows, authored |-> db.authored]
  /\ pc' = [pc EXCEPT ![p] = "beginning"]
  /\ UNCHANGED <<env, bak, lock, local, history>>

-----------------------------------------------------------------------------
(* The transaction of a scan *)

BeginFull(p) ==
  /\ pc[p] = "beginning" /\ args[p].full
  /\ work' = [work EXCEPT ![p] = db.rows]
  /\ todo' = [todo EXCEPT ![p] = found[p]]
  /\ pc' = [pc EXCEPT ![p] = "scanning"]
  /\ UNCHANGED <<env, index, lock, args, found, rebuilt, history>>

(* identity_invalid_paths *)
IdentityInvalid(rows) ==
  {f \in Parsable : rows[f] # Absent /\ rows[f].identity # "current"}

(* scan_files: rows that are now excluded go, outdated rows join the       *)
(* requested files, and after a rebuild so does the whole tree.            *)
Targets(p) ==
  (args[p].requested \cup IdentityInvalid(db.rows)
     \cup (IF rebuilt[p] THEN Discovered(p) ELSE {})) \ args[p].excluded

Gone(p) == args[p].excluded \cup {f \in Targets(p) : disk[f] = Absent}

BeginFiles(p) ==
  /\ pc[p] = "beginning" /\ ~args[p].full
  /\ work' = [work EXCEPT ![p] = [f \in Files |-> IF f \in Gone(p) THEN Absent ELSE db.rows[f]]]
  /\ todo' = [todo EXCEPT ![p] = {f \in Targets(p) \cap Parsable : disk[f] # Absent}]
  /\ pc' = [pc EXCEPT ![p] = "scanning"]
  /\ UNCHANGED <<env, index, lock, args, found, rebuilt, history>>

Readable(f) == disk[f] \in Contents \ Unreadable

(* Mutant: what is read is stored, decoded or not *)
ParseOneUnchecked(p, f) ==
  /\ pc[p] = "scanning"
  /\ f \in todo[p]
  /\ todo' = [todo EXCEPT ![p] = @ \ {f}]
  /\ work' = [work EXCEPT ![p][f] = [content |-> disk[f], identity |-> "current"]]
  /\ UNCHANGED <<env, index, lock, pc, args, found, rebuilt, history>>

(* parse_one, and write_file_facts with its result: of a file that cannot  *)
(* be read the rows stay as they are                                       *)
ParseOne(p, f) ==
  /\ pc[p] = "scanning"
  /\ f \in todo[p]
  /\ todo' = [todo EXCEPT ![p] = @ \ {f}]
  /\ work' = IF Readable(f)
               THEN [work EXCEPT ![p][f] = [content |-> disk[f], identity |-> "current"]]
               ELSE work
  /\ UNCHANGED <<env, index, lock, pc, args, found, rebuilt, history>>

(* Mutant: a full scan keeps the rows of files it did not discover *)
SweepNothing(p) == work[p]

(* The rows a full scan did not discover go before the commit *)
Swept(p) ==
  [f \in Files |-> IF args[p].full /\ f \notin found[p] THEN Absent ELSE work[p][f]]

Commit(p) ==
  /\ pc[p] = "scanning"
  /\ todo[p] = {}
  /\ db' = [tables |-> db.tables, version |-> db.version, rows |-> Swept(p),
            authored |-> db.authored]
  /\ Exit(p)
  /\ UNCHANGED <<env, bak, scans>>

(* A step fails, a parse worker panics, or the process is killed: the      *)
(* transaction is rolled back and the lock released.                       *)
Abort(p) ==
  /\ pc[p] # "idle"
  /\ Exit(p)
  /\ UNCHANGED <<env, index, scans>>

-----------------------------------------------------------------------------
(* The user and the agent edit sources and configuration at any time.      *)

Edit(f, c) ==
  /\ edits < MaxEdits
  /\ disk[f] # c
  /\ disk' = [disk EXCEPT ![f] = c]
  /\ dirty' = [p \in Scanners |-> IF pc[p] = "idle" THEN {} ELSE dirty[p] \cup {f}]
  /\ edits' = edits + 1
  /\ UNCHANGED <<excluded, index, lock, pc, local, scans>>

ToggleExclusion(f) ==
  /\ edits < MaxEdits
  /\ excluded' = IF f \in excluded THEN excluded \ {f} ELSE excluded \cup {f}
  /\ dirty' = [p \in Scanners |-> IF pc[p] = "idle" THEN {} ELSE dirty[p] \cup {f}]
  /\ edits' = edits + 1
  /\ UNCHANGED <<disk, index, lock, pc, local, scans>>

-----------------------------------------------------------------------------
Init ==
  /\ disk \in [Files -> Contents \cup {Absent}]
  /\ excluded = {}
  /\ db \in InitialDbs
  /\ bak = FALSE
  /\ lock = NoScanner
  /\ pc = [p \in Scanners |-> "idle"]
  /\ args = [p \in Scanners |-> NoArgs]
  /\ found = [p \in Scanners |-> {}]
  /\ rebuilt = [p \in Scanners |-> FALSE]
  /\ todo = [p \in Scanners |-> {}]
  /\ work = [p \in Scanners |-> NoRows]
  /\ dirty = [p \in Scanners |-> {}]
  /\ scans = 0 /\ edits = 0

Begin(p) == \/ \E fs \in Requests : Start(p, FALSE, fs)
            \/ Start(p, TRUE, {})

(* What a scanner does once started, unless it fails or is killed *)
Step(p) ==
  \/ Acquire(p) \/ AcquireTimesOut(p) \/ Discover(p)
  \/ Open(p) \/ OpenRefused(p) \/ Backup(p) \/ Remove(p) \/ CreateTables(p)
  \/ StampVersion(p)
  \/ BeginFull(p) \/ BeginFiles(p)
  \/ \E f \in Files : ParseOne(p, f)
  \/ Commit(p)

Next ==
  \/ \E p \in Scanners : Begin(p) \/ Step(p) \/ Abort(p)
  \/ \E f \in Files : \/ \E c \in Contents \cup {Absent} : Edit(f, c)
                       \/ ToggleExclusion(f)

Spec == Init /\ [][Next]_vars

-----------------------------------------------------------------------------
TypeOK ==
  /\ disk \in [Files -> Contents \cup {Absent}]
  /\ excluded \subseteq Files
  /\ db \in Db
  /\ bak \in BOOLEAN
  /\ lock \in Scanners \cup {NoScanner}
  /\ pc \in [Scanners -> Steps]
  /\ args \in [Scanners -> Args]
  /\ found \in [Scanners -> SUBSET Files]
  /\ rebuilt \in [Scanners -> BOOLEAN]
  /\ todo \in [Scanners -> SUBSET Files]
  /\ work \in [Scanners -> Rows]
  /\ dirty \in [Scanners -> SUBSET Files]
  /\ scans \in 0 .. MaxScans /\ edits \in 0 .. MaxEdits

(***************************************************************************)
(* Invariant: whatever a scanner in its transaction has not itself written *)
(* or removed is what the database holds now, so that its commit undoes no *)
(* other scanner's work (lock.rs: "mutual exclusion holds in both          *)
(* directions").                                                           *)
(***************************************************************************)
NoLostUpdate ==
  \A p \in Scanners : pc[p] = "scanning" =>
    \A f \in Files : \/ work[p][f] = db.rows[f]
                     \/ work[p][f] = Absent
                     \/ work[p][f].identity = "current" /\ f \in Parsable \ todo[p]

(* The files a scan answers for *)
Scope(p) ==
  IF args[p].full \/ rebuilt[p] THEN Files
  ELSE args[p].requested \cup args[p].excluded \cup IdentityInvalid(db.rows)

(* What the rows of f should be, given what they were *)
Expected(f, row) ==
  IF f \in excluded \/ f \notin Parsable \/ disk[f] = Absent THEN Absent
  ELSE IF Readable(f) THEN [content |-> disk[f], identity |-> "current"]
  ELSE row

(***************************************************************************)
(* Action property: when a scan commits, every file it answers for, and    *)
(* that did not change since the scan loaded its configuration, is indexed *)
(* as it is on disk (scan_full: "a full scan converges the database after  *)
(* exclusions change or files disappear"); the other files keep their      *)
(* rows.  This holds whatever state earlier scans, rebuilds or kills left. *)
(***************************************************************************)
ScanConverges ==
  [][\A p \in Scanners : Commit(p) =>
       \A f \in Files :
         IF f \in Scope(p)
           THEN f \in dirty[p] \/ db'.rows[f] = Expected(f, db.rows[f])
           ELSE db'.rows[f] = db.rows[f]]_vars

(***************************************************************************)
(* Action property: a database of a newer schema is never written into.    *)
(* It stays as it is, or goes as a whole when its version could not be     *)
(* read (open_db, backup_and_rebuild).                                     *)
(***************************************************************************)
NewerIsNotWritten == [][db.version = "newer" => db' \in {db, NoDb}]_vars

(***************************************************************************)
(* Action property: authored summaries leave the database only once the    *)
(* backup holds them (backup_and_rebuild: "Rebuild aborted to avoid data   *)
(* loss").                                                                 *)
(***************************************************************************)
BackedUpBeforeRemoval == [][db.authored /\ ~db'.authored => bak]_vars
=============================================================================
