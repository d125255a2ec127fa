----------------------------- MODULE ScanProofs -----------------------------
(***************************************************************************)
(* What scans leave in the index, for any number of scanners and files and *)
(* whatever database they find; and, at the end, that a scan that commits  *)
(* has seen every file once, for any set of files and parse workers.       *)
(***************************************************************************)
EXTENDS ScanIndex, ParsePool, TLAPS

LockInv == \A p \in Scanners : pc[p] \in Locked <=> lock = p

DbInv ==
  /\ ~db.tables => db = NoDb
  /\ \A f \in Files \ Parsable : db.rows[f] = Absent

(* What the holder of the lock knows of the database *)
OpenInv(p) ==
  /\ pc[p] \in {"backing_up", "removing"} => db.tables
  /\ pc[p] = "removing" /\ db.authored => bak
  /\ pc[p] = "creating" => db = NoDb
  /\ pc[p] = "stamping" => db = EmptyDb
  /\ pc[p] \in {"beginning", "scanning"} => db.tables /\ db.version = "current"
  /\ rebuilt[p] => /\ pc[p] \in {"creating", "stamping", "beginning", "scanning"}
                   /\ db.rows = NoRows

(* Of a file that did not change, the loaded configuration and the         *)
(* discovery are accurate                                                  *)
ViewInv(p) ==
  /\ pc[p] # "idle" =>
       \A f \in Files \ dirty[p] : f \in args[p].excluded <=> f \in excluded
  /\ pc[p] \in Locked \ {"locked"} /\ args[p].full =>
       /\ found[p] \subseteq Parsable
       /\ \A f \in Parsable \ dirty[p] :
            f \in found[p] <=> f \notin excluded /\ disk[f] # Absent

(* A transaction under way: files to be parsed have their old rows, files  *)
(* outside the scope keep theirs, and the others are as they should be     *)
WorkInv(p) ==
  pc[p] = "scanning" =>
    /\ todo[p] \subseteq Scope(p) \cap Parsable
    /\ args[p].full => todo[p] \subseteq found[p]
    /\ \A f \in todo[p] : /\ work[p][f] = db.rows[f]
                          /\ f \notin dirty[p] => f \notin excluded /\ disk[f] # Absent
    /\ \A f \in Files \ Scope(p) : work[p][f] = db.rows[f]
    /\ \A f \in Scope(p) \ (dirty[p] \cup todo[p]) :
         (args[p].full /\ f \notin found[p]) \/ work[p][f] = Expected(f, db.rows[f])
    /\ \A f \in Files \ Parsable : work[p][f] = Absent
    /\ \A f \in Files : \/ work[p][f] = db.rows[f]
                        \/ work[p][f] = Absent
                        \/ work[p][f].identity = "current" /\ f \in Parsable \ todo[p]

ScannerInv(p) == OpenInv(p) /\ ViewInv(p) /\ WorkInv(p)

IndexInv == TypeOK /\ LockInv /\ DbInv /\ \A p \in Scanners : ScannerInv(p)

-----------------------------------------------------------------------------
LEMMA EmptyType == NoRows \in Rows /\ NoDb \in Db /\ EmptyDb \in Db /\ NoArgs \in Args
<1>1. NoRows \in Rows
  BY DEF NoRows, Rows, Row
<1>2. NoDb \in Db /\ EmptyDb \in Db
  BY <1>1 DEF NoDb, EmptyDb, Db, Versions
<1>3. NoArgs \in Args
  BY DEF NoArgs, Args
<1> QED BY <1>1, <1>2, <1>3

LEMMA IndexInit == Init => IndexInv
<1> SUFFICES ASSUME Init PROVE IndexInv
  OBVIOUS
<1>1. TypeOK
  <2>1. scans \in 0 .. MaxScans /\ edits \in 0 .. MaxEdits
    BY IndexAssumption DEF Init
  <2>2. db \in Db /\ excluded \subseteq Files /\ bak \in BOOLEAN
    BY InitialDbAssumption DEF Init
  <2>3. rebuilt \in [Scanners -> BOOLEAN] /\ pc \in [Scanners -> Steps]
    BY DEF Init, Steps
  <2>4. /\ args \in [Scanners -> Args]
        /\ work \in [Scanners -> Rows]
    BY EmptyType DEF Init
  <2> QED BY <2>1, <2>2, <2>3, <2>4 DEF Init, TypeOK
<1>2. LockInv
  BY IndexAssumption DEF Init, LockInv, Locked, Opening
<1>3. DbInv
  BY InitialDbAssumption DEF Init, DbInv
<1>4. ASSUME NEW p \in Scanners PROVE ScannerInv(p)
  BY DEF Init, ScannerInv, OpenInv, ViewInv, WorkInv, Locked, Opening
<1> QED BY <1>1, <1>2, <1>3, <1>4 DEF IndexInv

-----------------------------------------------------------------------------
(* Types *)

ScannerStep(p) == Begin(p) \/ Step(p) \/ Abort(p)

LEMMA ExitType ==
  ASSUME TypeOK, NEW p \in Scanners, Exit(p)
  PROVE  /\ lock' \in Scanners \cup {NoScanner}
         /\ pc' \in [Scanners -> Steps]
         /\ args' \in [Scanners -> Args]
         /\ found' \in [Scanners -> SUBSET Files]
         /\ rebuilt' \in [Scanners -> BOOLEAN]
         /\ todo' \in [Scanners -> SUBSET Files]
         /\ work' \in [Scanners -> Rows]
         /\ dirty' \in [Scanners -> SUBSET Files]
  BY EmptyType DEF TypeOK, Exit, Steps

LEMMA SweptType ==
  ASSUME TypeOK, NEW p \in Scanners
  PROVE  Swept(p) \in Rows
  BY DEF TypeOK, Swept, Rows, Row

LEMMA StepType ==
  ASSUME TypeOK, NEW p \in Scanners, ScannerStep(p)
  PROVE  TypeOK'
<1> USE DEF env, index, local, history
<1>1. CASE \E fs \in Requests : Start(p, FALSE, fs)
  BY <1>1, IndexAssumption DEF Start, TypeOK, Args, Steps
<1>2. CASE Start(p, TRUE, {})
  BY <1>2, IndexAssumption DEF Start, TypeOK, Args, Steps
<1>3. CASE Acquire(p)
  BY <1>3 DEF Acquire, TypeOK, Steps, Locked
<1>4. CASE AcquireTimesOut(p) \/ OpenRefused(p) \/ Abort(p)
  BY <1>4, ExitType DEF AcquireTimesOut, OpenRefused, Abort, TypeOK
<1>5. CASE Discover(p)
  BY <1>5, IndexAssumption DEF Discover, Discovered, TypeOK, Steps, Locked, Opening
<1>6. CASE Open(p)
  BY <1>6 DEF Open, OpenOutcomes, TypeOK, Steps, Locked, Opening
<1>7. CASE Backup(p)
  BY <1>7 DEF Backup, TypeOK, Db, Steps, Locked, Opening
<1>8. CASE Remove(p)
  BY <1>8, EmptyType DEF Remove, TypeOK, Steps, Locked, Opening
<1>9. CASE CreateTables(p)
  BY <1>9, EmptyType DEF CreateTables, TypeOK, Db, Steps, Locked, Opening
<1>10. CASE StampVersion(p)
  BY <1>10 DEF StampVersion, TypeOK, Db, Versions, Steps, Locked, Opening
<1>11. CASE BeginFull(p)
  BY <1>11 DEF BeginFull, TypeOK, Db, Steps, Locked
<1>12. CASE BeginFiles(p)
  <2>1. [f \in Files |-> IF f \in Gone(p) THEN Absent ELSE db.rows[f]] \in Rows
    BY DEF TypeOK, Db, Rows, Row
  <2> QED BY <1>12, <2>1, IndexAssumption DEF BeginFiles, TypeOK, Steps, Locked
<1>13. ASSUME NEW f \in Files, ParseOne(p, f) PROVE TypeOK'
  <2>1. work' \in [Scanners -> Rows]
    BY <1>13 DEF ParseOne, Readable, TypeOK, Rows, Row
  <2> QED BY <1>13, <2>1 DEF ParseOne, TypeOK
<1>14. CASE Commit(p)
  <2>1. db' \in Db
    BY <1>14, SweptType DEF Commit, TypeOK, Db
  <2> QED BY <1>14, <2>1, ExitType DEF Commit, TypeOK
<1> QED BY <1>1, <1>2, <1>3, <1>4, <1>5, <1>6, <1>7, <1>8, <1>9, <1>10, <1>11, <1>12, <1>13,
           <1>14 DEF ScannerStep, Begin, Step

-----------------------------------------------------------------------------
(* What a step of one scanner leaves alone *)

Frame(p) ==
  /\ UNCHANGED <<disk, excluded>>
  /\ \A q \in Scanners \ {p} :
       /\ pc'[q] = pc[q] /\ args'[q] = args[q] /\ found'[q] = found[q]
       /\ rebuilt'[q] = rebuilt[q] /\ todo'[q] = todo[q] /\ work'[q] = work[q]
       /\ dirty'[q] = dirty[q]
  /\ (db' = db /\ bak' = bak) \/ pc[p] \in Locked

LEMMA StepFrame ==
  ASSUME TypeOK, NEW p \in Scanners, ScannerStep(p)
  PROVE  Frame(p)
<1> USE DEF env, index, local, history, TypeOK, Frame, Locked, Opening
<1>1. CASE \E fs \in Requests : Start(p, FALSE, fs)
  BY <1>1 DEF Start
<1>2. CASE Start(p, TRUE, {})
  BY <1>2 DEF Start
<1>3. CASE Acquire(p) \/ Discover(p) \/ Open(p) \/ Backup(p)
  BY <1>3 DEF Acquire, Discover, Open, Backup
<1>4. CASE AcquireTimesOut(p) \/ OpenRefused(p) \/ Abort(p) \/ Commit(p)
  BY <1>4 DEF AcquireTimesOut, OpenRefused, Abort, Commit, Exit
<1>5. CASE Remove(p) \/ CreateTables(p) \/ StampVersion(p)
  BY <1>5 DEF Remove, CreateTables, StampVersion
<1>6. CASE BeginFull(p) \/ BeginFiles(p)
  BY <1>6 DEF BeginFull, BeginFiles
<1>7. ASSUME NEW f \in Files, ParseOne(p, f) PROVE Frame(p)
  BY <1>7 DEF ParseOne
<1> QED BY <1>1, <1>2, <1>3, <1>4, <1>5, <1>6, <1>7 DEF ScannerStep, Begin, Step

LEMMA StepLock ==
  ASSUME TypeOK, LockInv, NEW p \in Scanners, ScannerStep(p)
  PROVE  LockInv'
<1>1. \/ lock' = lock /\ (pc'[p] \in Locked <=> pc[p] \in Locked)
      \/ lock = NoScanner /\ lock' = p /\ pc'[p] \in Locked
      \/ lock' = (IF lock = p THEN NoScanner ELSE lock) /\ pc'[p] \notin Locked
  <2> USE DEF env, index, local, history, TypeOK, Locked, Opening
  <2>1. CASE \E fs \in Requests : Start(p, FALSE, fs)
    BY <2>1 DEF Start
  <2>2. CASE Start(p, TRUE, {})
    BY <2>2 DEF Start
  <2>3. CASE Acquire(p) \/ Discover(p) \/ Open(p) \/ Backup(p)
    BY <2>3 DEF Acquire, Discover, Open, OpenOutcomes, Backup
  <2>4. CASE AcquireTimesOut(p) \/ OpenRefused(p) \/ Abort(p) \/ Commit(p)
    BY <2>4 DEF AcquireTimesOut, OpenRefused, Abort, Commit, Exit
  <2>5. CASE Remove(p) \/ CreateTables(p) \/ StampVersion(p)
    BY <2>5 DEF Remove, CreateTables, StampVersion
  <2>6. CASE BeginFull(p) \/ BeginFiles(p)
    BY <2>6 DEF BeginFull, BeginFiles
  <2>7. CASE \E f \in Files : ParseOne(p, f)
    BY <2>7 DEF ParseOne
  <2> QED BY <2>1, <2>2, <2>3, <2>4, <2>5, <2>6, <2>7 DEF ScannerStep, Begin, Step
<1> QED BY <1>1, StepFrame, IndexAssumption DEF Frame, LockInv

(* The others do not notice: who holds the lock sees the database alone *)
LEMMA OthersKeepInv ==
  ASSUME IndexInv, NEW p \in Scanners, ScannerStep(p), NEW q \in Scanners, q # p
  PROVE  ScannerInv(q)'
<1>1. Frame(p)
  BY StepFrame DEF IndexInv
<1>2. pc[q] \in Locked => db' = db /\ bak' = bak
  BY <1>1, IndexAssumption DEF IndexInv, LockInv, Frame
<1>3. ScannerInv(q)
  BY DEF IndexInv
<1>4. OpenInv(q)'
  BY <1>1, <1>2, <1>3 DEF Frame, ScannerInv, OpenInv, Locked, Opening
<1>5. ViewInv(q)'
  BY <1>1, <1>3 DEF Frame, ScannerInv, ViewInv
<1>6. WorkInv(q)'
  <2> SUFFICES ASSUME pc'[q] = "scanning" PROVE WorkInv(q)'
    BY DEF WorkInv
  <2>1. db' = db
    BY <1>1, <1>2 DEF Frame, Locked
  <2>2. Scope(q)' = Scope(q)
    BY <1>1, <2>1 DEF Frame, Scope, IdentityInvalid
  <2>3. \A f \in Files : Expected(f, db.rows[f])' = Expected(f, db.rows[f])
    BY <1>1, <2>1 DEF Frame, Expected, Readable
  <2> QED BY <1>1, <1>3, <2>1, <2>2, <2>3, IndexAssumption
      DEF Frame, ScannerInv, WorkInv, Scope, IndexInv, TypeOK, Args, IdentityInvalid
<1> QED BY <1>4, <1>5, <1>6 DEF ScannerInv

-----------------------------------------------------------------------------
(* The scanner that takes the step, action by action *)

LEMMA ScopeType ==
  ASSUME IndexInv, NEW p \in Scanners
  PROVE  Scope(p) \subseteq Files
  BY IndexAssumption DEF IndexInv, TypeOK, Scope, IdentityInvalid, Args

LEMMA IdleInv ==
  ASSUME NEW p \in Scanners, pc'[p] = "idle", rebuilt'[p] = FALSE
  PROVE  ScannerInv(p)'
  BY DEF ScannerInv, OpenInv, ViewInv, WorkInv, Locked, Opening

LEMMA StartInv ==
  ASSUME IndexInv, NEW p \in Scanners, NEW full \in BOOLEAN, NEW fs \in SUBSET Files,
         Start(p, full, fs)
  PROVE  ScannerInv(p)'
<1> USE DEF IndexInv, TypeOK, env, index
<1>1. pc'[p] = "waiting" /\ ~rebuilt'[p]
  BY DEF Start, ScannerInv, OpenInv
<1>2. ViewInv(p)'
  BY DEF Start, ViewInv, Locked, Opening, Args
<1> QED BY <1>1, <1>2 DEF ScannerInv, OpenInv, WorkInv

LEMMA AcquireInv ==
  ASSUME IndexInv, NEW p \in Scanners, Acquire(p)
  PROVE  ScannerInv(p)'
<1> USE DEF IndexInv, TypeOK, env, index, local
<1>1. pc'[p] = "locked" /\ ~rebuilt'[p]
  BY DEF Acquire, ScannerInv, OpenInv
<1>2. ViewInv(p)'
  BY DEF Acquire, ScannerInv, ViewInv, Locked, Opening
<1> QED BY <1>1, <1>2 DEF ScannerInv, OpenInv, WorkInv

LEMMA DiscoverInv ==
  ASSUME IndexInv, NEW p \in Scanners, Discover(p)
  PROVE  ScannerInv(p)'
<1> USE DEF IndexInv, TypeOK, env, index, history
<1>1. pc'[p] = "opening" /\ ~rebuilt'[p]
  BY DEF Discover, ScannerInv, OpenInv
<1>2. ViewInv(p)'
  BY IndexAssumption DEF Discover, Discovered, ScannerInv, ViewInv, Locked, Opening
<1> QED BY <1>1, <1>2 DEF ScannerInv, OpenInv, WorkInv

(* The steps of open_db and of the rebuild *)
LEMMA OpeningInv ==
  ASSUME IndexInv, NEW p \in Scanners,
         Open(p) \/ Backup(p) \/ Remove(p) \/ CreateTables(p) \/ StampVersion(p)
  PROVE  ScannerInv(p)'
<1> USE DEF IndexInv, TypeOK, env, index, local, history
<1>1. /\ pc'[p] \in {"backing_up", "removing", "creating", "stamping", "beginning"}
      /\ pc[p] \in Opening
  BY DEF Open, OpenOutcomes, Backup, Remove, CreateTables, StampVersion, Opening
<1>2. ViewInv(p)'
  BY <1>1 DEF Open, Backup, Remove, CreateTables, StampVersion, ScannerInv, ViewInv, Locked,
              Opening
<1>3. OpenInv(p)'
  <2> USE DEF ScannerInv, OpenInv
  <2>1. CASE Open(p)
    BY <2>1 DEF Open, OpenOutcomes, DbInv, Db, Versions
  <2>2. CASE Backup(p)
    BY <2>2 DEF Backup
  <2>3. CASE Remove(p)
    BY <2>3 DEF Remove, NoDb
  <2>4. CASE CreateTables(p)
    BY <2>4 DEF CreateTables, EmptyDb
  <2>5. CASE StampVersion(p)
    BY <2>5 DEF StampVersion, EmptyDb
  <2> QED BY <2>1, <2>2, <2>3, <2>4, <2>5
<1> QED BY <1>1, <1>2, <1>3 DEF ScannerInv, WorkInv

LEMMA BeginFullInv ==
  ASSUME IndexInv, NEW p \in Scanners, BeginFull(p)
  PROVE  ScannerInv(p)'
<1> USE DEF IndexInv, TypeOK, env, index, history
<1>1. OpenInv(p)'
  BY DEF BeginFull, ScannerInv, OpenInv
<1>2. ViewInv(p)'
  BY DEF BeginFull, ScannerInv, ViewInv, Locked, Opening
<1>3. WorkInv(p)'
  <2>1. Scope(p)' = Files /\ args'[p].full
    BY DEF BeginFull, Scope
  <2>2. found'[p] \subseteq Parsable /\ todo'[p] = found'[p] /\ work'[p] = db'.rows
    BY DEF BeginFull, ScannerInv, ViewInv, Locked
  <2>3. \A f \in found'[p] \ dirty'[p] : f \notin excluded' /\ disk'[f] # Absent
    BY <1>2, <2>1, <2>2 DEF BeginFull, ViewInv, Locked
  <2>4. \A f \in Files \ Parsable : db'.rows[f] = Absent
    BY DEF BeginFull, DbInv
  <2> QED BY <2>1, <2>2, <2>3, <2>4, IndexAssumption DEF WorkInv
<1> QED BY <1>1, <1>2, <1>3 DEF ScannerInv

LEMMA BeginFilesInv ==
  ASSUME IndexInv, NEW p \in Scanners, BeginFiles(p)
  PROVE  ScannerInv(p)'
<1> USE DEF IndexInv, TypeOK, env, index, history
<1>1. OpenInv(p)'
  BY DEF BeginFiles, ScannerInv, OpenInv
<1>2. ViewInv(p)'
  BY DEF BeginFiles, ScannerInv, ViewInv, Locked, Opening
<1>3. WorkInv(p)'
  <2>1. /\ Scope(p)' = Scope(p) /\ ~args'[p].full
        /\ \A f \in Files : Expected(f, db.rows[f])' = Expected(f, db.rows[f])
    BY DEF BeginFiles, Scope, IdentityInvalid, Expected, Readable
  <2>2. /\ todo'[p] = {f \in Targets(p) \cap Parsable : disk[f] # Absent}
        /\ \A f \in Files : work'[p][f] = IF f \in Gone(p) THEN Absent ELSE db.rows[f]
    BY DEF BeginFiles
  <2>3. Targets(p) \subseteq Scope(p) /\ Gone(p) \subseteq Scope(p) /\ Scope(p) \subseteq Files
    BY IndexAssumption DEF Targets, Gone, Scope, Discovered, IdentityInvalid, Args
  <2>4. \A f \in Files \ dirty[p] : f \in args[p].excluded <=> f \in excluded
    BY DEF BeginFiles, ScannerInv, ViewInv
  <2>5. \A f \in todo'[p] : /\ f \notin Gone(p)
                            /\ f \notin dirty[p] => f \notin excluded
    BY <2>2, <2>3, <2>4 DEF Targets, Gone
  <2>6. \A f \in Files \ Parsable : work'[p][f] = Absent
    BY <2>2 DEF DbInv
  <2>7. ASSUME NEW f \in Scope(p), f \notin dirty[p], f \notin todo'[p]
        PROVE  work'[p][f] = Expected(f, db.rows[f])
    <3>1. CASE f \in excluded
      BY <2>2, <2>3, <2>4, <2>7, <3>1 DEF Gone, Expected
    <3>2. CASE f \notin Parsable
      BY <2>3, <2>6, <3>2 DEF Expected
    <3>3. CASE f \notin excluded /\ f \in Targets(p) /\ f \in Parsable
      BY <2>2, <2>3, <2>7, <3>3 DEF Gone, Expected
    <3>4. CASE f \notin excluded /\ f \notin Targets(p) /\ f \in Parsable
      <4>1. f \notin args[p].excluded
        BY <2>3, <2>4, <2>7, <3>4
      <4>2. rebuilt[p] /\ disk[f] = Absent
        BY <3>4, <4>1, <2>7 DEF Targets, Scope, Discovered, BeginFiles
      <4>3. db.rows[f] = Absent
        BY <2>3, <4>2 DEF ScannerInv, OpenInv, NoRows
      <4> QED BY <2>2, <2>3, <4>2, <4>3 DEF Expected
    <3> QED BY <3>1, <3>2, <3>3, <3>4
  <2>8. /\ UNCHANGED <<disk, excluded, db, dirty, args>>
    BY DEF BeginFiles
  <2> QED BY <2>1, <2>2, <2>3, <2>5, <2>6, <2>7, <2>8 DEF WorkInv
<1> QED BY <1>1, <1>2, <1>3 DEF ScannerInv

LEMMA ParseOneInv ==
  ASSUME IndexInv, NEW p \in Scanners, NEW f \in Files, ParseOne(p, f)
  PROVE  ScannerInv(p)'
<1> USE DEF IndexInv, TypeOK, env, index, history
<1>1. OpenInv(p)'
  BY DEF ParseOne, ScannerInv, OpenInv
<1>2. ViewInv(p)'
  BY DEF ParseOne, ScannerInv, ViewInv
<1>3. WorkInv(p)'
  <2>1. /\ Scope(p)' = Scope(p)
        /\ \A g \in Files : Expected(g, db.rows[g])' = Expected(g, db.rows[g])
    BY DEF ParseOne, Scope, IdentityInvalid, Expected, Readable
  <2>2. WorkInv(p) /\ pc[p] = "scanning" /\ f \in todo[p]
    BY DEF ParseOne, ScannerInv
  <2>3. /\ todo'[p] = todo[p] \ {f}
        /\ \A g \in Files \ {f} : work'[p][g] = work[p][g]
        /\ work'[p][f] = IF Readable(f) THEN [content |-> disk[f], identity |-> "current"]
                                        ELSE work[p][f]
    BY DEF ParseOne, Rows
  <2>4. f \in Scope(p) \cap Parsable /\ work[p][f] = db.rows[f]
    BY <2>2 DEF WorkInv
  <2>5. f \notin dirty[p] => work'[p][f] = Expected(f, db.rows[f])
    BY <2>2, <2>3, <2>4 DEF WorkInv, Expected
  <2>6. \/ work'[p][f] = db.rows[f]
        \/ work'[p][f].identity = "current" /\ f \in Parsable \ todo'[p]
    BY <2>3, <2>4
  <2>7. UNCHANGED <<disk, excluded, db, dirty, args, found>>
    BY DEF ParseOne
  <2>8. \A g \in Scope(p) \ (dirty[p] \cup todo'[p]) :
          (args[p].full /\ g \notin found[p]) \/ work'[p][g] = Expected(g, db.rows[g])
    BY <2>2, <2>3, <2>5, ScopeType DEF WorkInv
  <2>9. \A g \in Files : \/ work'[p][g] = db.rows[g]
                         \/ work'[p][g] = Absent
                         \/ work'[p][g].identity = "current" /\ g \in Parsable \ todo'[p]
    BY <2>2, <2>3, <2>6 DEF WorkInv
  <2>10. /\ \A g \in Files \ Scope(p) : work'[p][g] = db.rows[g]
         /\ \A g \in Files \ Parsable : work'[p][g] = Absent
    BY <2>2, <2>3, <2>4 DEF WorkInv
  <2>11. /\ todo'[p] \subseteq Scope(p) \cap Parsable
         /\ args[p].full => todo'[p] \subseteq found[p]
         /\ \A g \in todo'[p] : /\ work'[p][g] = db.rows[g]
                                /\ g \notin dirty[p] => g \notin excluded /\ disk[g] # Absent
    BY <2>2, <2>3 DEF WorkInv
  <2> HIDE DEF IndexInv, TypeOK
  <2> QED BY <2>1, <2>7, <2>8, <2>9, <2>10, <2>11, ScopeType DEF WorkInv
<1> QED BY <1>1, <1>2, <1>3 DEF ScannerInv

(* Every step of a scanner, for itself *)
LEMMA SelfInv ==
  ASSUME IndexInv, NEW p \in Scanners, ScannerStep(p)
  PROVE  ScannerInv(p)'
<1>1. CASE \E fs \in Requests : Start(p, FALSE, fs)
  BY <1>1, StartInv, IndexAssumption
<1>2. CASE Start(p, TRUE, {})
  BY <1>2, StartInv
<1>3. CASE AcquireTimesOut(p) \/ OpenRefused(p) \/ Abort(p) \/ Commit(p)
  <2>1. pc'[p] = "idle" /\ rebuilt'[p] = FALSE
    BY <1>3 DEF AcquireTimesOut, OpenRefused, Abort, Commit, Exit, IndexInv, TypeOK
  <2> QED BY <2>1, IdleInv
<1>4. CASE Acquire(p) \/ Discover(p) \/ BeginFull(p) \/ BeginFiles(p)
  BY <1>4, AcquireInv, DiscoverInv, BeginFullInv, BeginFilesInv
<1>5. CASE Open(p) \/ Backup(p) \/ Remove(p) \/ CreateTables(p) \/ StampVersion(p)
  BY <1>5, OpeningInv
<1>6. CASE \E f \in Files : ParseOne(p, f)
  BY <1>6, ParseOneInv
<1> QED BY <1>1, <1>2, <1>3, <1>4, <1>5, <1>6 DEF ScannerStep, Begin, Step

(* The five ways a step treats the database *)
LEMMA DbSteps ==
  ASSUME NEW p \in Scanners, ScannerStep(p)
  PROVE  db' = db \/ Remove(p) \/ CreateTables(p) \/ StampVersion(p) \/ Commit(p)
  BY DEF ScannerStep, Begin, Step, Start, Acquire, AcquireTimesOut, Discover, Open, OpenRefused,
         Backup, BeginFull, BeginFiles, ParseOne, Abort, index

LEMMA StepDb ==
  ASSUME IndexInv, NEW p \in Scanners, ScannerStep(p)
  PROVE  DbInv'
<1>1. CASE db' = db
  BY <1>1 DEF IndexInv, DbInv
<1>2. CASE Remove(p)
  BY <1>2, IndexAssumption DEF Remove, DbInv, NoDb, NoRows
<1>3. CASE CreateTables(p)
  BY <1>3, IndexAssumption DEF CreateTables, DbInv, EmptyDb, NoRows
<1>4. CASE StampVersion(p)
  BY <1>4 DEF StampVersion, IndexInv, ScannerInv, OpenInv, EmptyDb, DbInv
<1>5. CASE Commit(p)
  <2>1. db.tables /\ \A f \in Files \ Parsable : work[p][f] = Absent
    BY <1>5 DEF Commit, IndexInv, ScannerInv, OpenInv, WorkInv
  <2>2. db'.tables = db.tables /\ db'.rows = Swept(p)
    BY <1>5 DEF Commit
  <2> QED BY <2>1, <2>2 DEF DbInv, Swept
<1> QED BY <1>1, <1>2, <1>3, <1>4, <1>5, DbSteps

(* Edits make files dirty for every scanner under way *)
LEMMA EditInv ==
  ASSUME IndexInv, NEW f \in Files,
         (\E c \in Contents \cup {Absent} : Edit(f, c)) \/ ToggleExclusion(f)
  PROVE  IndexInv'
<1>1. /\ UNCHANGED <<db, bak, lock, pc, args, found, rebuilt, todo, work, scans>>
      /\ \A g \in Files \ {f} : disk'[g] = disk[g] /\ (g \in excluded' <=> g \in excluded)
      /\ \A q \in Scanners : pc[q] # "idle" => dirty'[q] = dirty[q] \cup {f}
  BY DEF Edit, ToggleExclusion, index, local, IndexInv, TypeOK
<1>2. TypeOK'
  <2>1. edits' \in 0 .. MaxEdits
    BY IndexAssumption DEF Edit, ToggleExclusion, IndexInv, TypeOK
  <2>2. disk' \in [Files -> Contents \cup {Absent}] /\ excluded' \subseteq Files
    BY DEF Edit, ToggleExclusion, IndexInv, TypeOK
  <2>3. dirty' \in [Scanners -> SUBSET Files]
    BY DEF Edit, ToggleExclusion, IndexInv, TypeOK
  <2> QED BY <1>1, <2>1, <2>2, <2>3 DEF IndexInv, TypeOK
<1>3. LockInv' /\ DbInv'
  BY <1>1 DEF IndexInv, LockInv, DbInv
<1>4. ASSUME NEW q \in Scanners PROVE ScannerInv(q)'
  <2>1. OpenInv(q)'
    BY <1>1 DEF IndexInv, ScannerInv, OpenInv
  <2>2. ViewInv(q)'
    <3> SUFFICES ASSUME pc[q] # "idle" PROVE ViewInv(q)'
      BY <1>1 DEF ViewInv, Locked, Opening
    <3>1. ViewInv(q)
      BY DEF IndexInv, ScannerInv
    <3> QED BY <1>1, <3>1, IndexAssumption DEF ViewInv
  <2>3. WorkInv(q)'
    <3> SUFFICES ASSUME pc[q] = "scanning" PROVE WorkInv(q)'
      BY <1>1 DEF WorkInv
    <3>1. WorkInv(q) /\ Scope(q)' = Scope(q) /\ Scope(q) \subseteq Files
      BY <1>1, ScopeType DEF IndexInv, ScannerInv, Scope, IdentityInvalid
    <3>2. \A g \in Files \ {f} : Expected(g, db.rows[g])' = Expected(g, db.rows[g])
      BY <1>1 DEF Expected, Readable
    <3>3. dirty'[q] = dirty[q] \cup {f}
      BY <1>1
    <3> QED BY <1>1, <3>1, <3>2, <3>3 DEF WorkInv
  <2> QED BY <2>1, <2>2, <2>3 DEF ScannerInv
<1> QED BY <1>2, <1>3, <1>4 DEF IndexInv

-----------------------------------------------------------------------------
LEMMA StutterInv ==
  ASSUME IndexInv, UNCHANGED vars
  PROVE  IndexInv'
<1>1. TypeOK' /\ LockInv' /\ DbInv'
  BY DEF IndexInv, vars, TypeOK, LockInv, DbInv
<1>2. ASSUME NEW q \in Scanners PROVE ScannerInv(q)'
  BY DEF IndexInv, vars, ScannerInv, OpenInv, ViewInv, WorkInv, Scope, IdentityInvalid, Expected,
         Readable
<1> QED BY <1>1, <1>2 DEF IndexInv

(***************************************************************************)
(* The inductive invariant: the holder of the lock knows the database, and *)
(* in a transaction every file that did not change is as it should be or   *)
(* still to be parsed.                                                     *)
(***************************************************************************)
THEOREM IndexInvariance == Spec => []IndexInv
<1>1. IndexInv /\ [Next]_vars => IndexInv'
  <2> SUFFICES ASSUME IndexInv, [Next]_vars PROVE IndexInv'
    OBVIOUS
  <2>1. ASSUME NEW p \in Scanners, ScannerStep(p) PROVE IndexInv'
    <3>1. TypeOK' /\ LockInv' /\ DbInv'
      BY <2>1, StepType, StepLock, StepDb DEF IndexInv
    <3>2. ASSUME NEW q \in Scanners PROVE ScannerInv(q)'
      BY <2>1, SelfInv, OthersKeepInv
    <3> QED BY <3>1, <3>2 DEF IndexInv
  <2>2. CASE UNCHANGED vars
    BY <2>2, StutterInv
  <2> QED BY <2>1, <2>2, EditInv DEF Next, ScannerStep
<1> QED BY IndexInit, <1>1, PTL DEF Spec

(* Types, for any scanners, files and contents. *)
THEOREM IndexTypeCorrect == Spec => []TypeOK
<1>1. IndexInv => TypeOK
  BY DEF IndexInv
<1> QED BY IndexInvariance, <1>1, PTL

(* The scan lock is enough: no commit undoes another scanner's work. *)
THEOREM UpdatesCorrect == Spec => []NoLostUpdate
<1>1. IndexInv => NoLostUpdate
  BY DEF IndexInv, ScannerInv, WorkInv, NoLostUpdate
<1> QED BY IndexInvariance, <1>1, PTL

(***************************************************************************)
(* Every committed scan leaves the files it answers for, and that did not  *)
(* change meanwhile, indexed as they are on disk, and the others untouched,*)
(* whatever database it found.                                             *)
(***************************************************************************)
THEOREM ConvergenceCorrect == Spec => ScanConverges
<1>1. IndexInv /\ [Next]_vars =>
        [\A p \in Scanners : Commit(p) =>
           \A f \in Files :
             IF f \in Scope(p)
               THEN f \in dirty[p] \/ db'.rows[f] = Expected(f, db.rows[f])
               ELSE db'.rows[f] = db.rows[f]]_vars
  <2> SUFFICES ASSUME IndexInv, NEW p \in Scanners, Commit(p), NEW f \in Files
               PROVE  IF f \in Scope(p)
                        THEN f \in dirty[p] \/ db'.rows[f] = Expected(f, db.rows[f])
                        ELSE db'.rows[f] = db.rows[f]
    OBVIOUS
  <2>1. WorkInv(p) /\ ViewInv(p) /\ pc[p] = "scanning" /\ todo[p] = {}
    BY DEF IndexInv, ScannerInv, Commit
  <2>2. db'.rows[f] = IF args[p].full /\ f \notin found[p] THEN Absent ELSE work[p][f]
    BY DEF Commit, Swept
  <2>3. CASE args[p].full /\ f \notin found[p]
    <3>1. f \in Scope(p)
      BY <2>3 DEF Scope
    <3>2. f \in dirty[p] \/ Expected(f, db.rows[f]) = Absent
      BY <2>1, <2>3 DEF ViewInv, Locked, Expected
    <3> QED BY <2>2, <2>3, <3>1, <3>2
  <2>4. CASE ~(args[p].full /\ f \notin found[p])
    BY <2>1, <2>2, <2>4 DEF WorkInv
  <2> QED BY <2>3, <2>4
<1> QED BY IndexInvariance, <1>1, PTL DEF Spec, ScanConverges

(* A database of a newer schema is never written into, only refused or     *)
(* removed as a whole (open_db, backup_and_rebuild).                       *)
THEOREM NewerCorrect == Spec => NewerIsNotWritten
<1>1. IndexInv /\ [Next]_vars => [db.version = "newer" => db' \in {db, NoDb}]_vars
  <2> SUFFICES ASSUME IndexInv, Next, db.version = "newer" PROVE db' \in {db, NoDb}
    BY DEF vars
  <2>1. ASSUME NEW p \in Scanners, ScannerStep(p) PROVE db' \in {db, NoDb}
    BY <2>1, DbSteps DEF IndexInv, ScannerInv, OpenInv, Remove, CreateTables, StampVersion, Commit,
                         NoDb, EmptyDb
  <2> QED BY <2>1 DEF Next, ScannerStep, Edit, ToggleExclusion, index
<1> QED BY IndexInvariance, <1>1, PTL DEF Spec, NewerIsNotWritten

(* Authored summaries leave the database only once the backup holds them. *)
THEOREM BackupCorrect == Spec => BackedUpBeforeRemoval
<1>1. IndexInv /\ [Next]_vars => [db.authored /\ ~db'.authored => bak]_vars
  <2> SUFFICES ASSUME IndexInv, Next, db.authored, ~db'.authored PROVE bak
    BY DEF vars
  <2>1. ASSUME NEW p \in Scanners, ScannerStep(p) PROVE bak
    BY <2>1, DbSteps DEF IndexInv, ScannerInv, OpenInv, Remove, CreateTables, StampVersion, Commit,
                         NoDb, EmptyDb
  <2> QED BY <2>1 DEF Next, ScannerStep, Edit, ToggleExclusion, index
<1> QED BY IndexInvariance, <1>1, PTL DEF Spec, BackedUpBeforeRemoval

-----------------------------------------------------------------------------
(* The parse pool *)

(* A worker that took a file and has not passed it on *)
Busy(w) == stage[w] \in {"parsing", "sending", "panicked"}

(* A file is in at most one place: queued, with a worker, in flight, or    *)
(* with the writer                                                         *)
OnePlace ==
  /\ \A w \in Workers : Busy(w) =>
       /\ task[w] \in Batch
       /\ task[w] \notin queue
       /\ received[task[w]] = 0
       /\ \A v \in Workers : <<task[w], v>> \notin channel
       /\ \A v \in Workers : Busy(v) /\ task[v] = task[w] => v = w
  /\ \A f \in queue : /\ received[f] = 0
                      /\ \A w \in Workers : <<f, w>> \notin channel
  /\ \A f \in Batch, w \in Workers : <<f, w>> \in channel =>
       /\ received[f] = 0
       /\ \A v \in Workers : <<f, v>> \in channel => v = w

(* No file is lost, unless the scan failed *)
NoFileLost ==
  writer # "failed" => \A f \in Batch :
    \/ f \in queue
    \/ \E w \in Workers : Busy(w) /\ task[w] = f
    \/ \E w \in Workers : <<f, w>> \in channel
    \/ received[f] = 1

(* What the writer has observed stays true *)
Observed ==
  /\ (\E w \in Workers : stage[w] = "done") /\ writer # "failed" => queue = {}
  /\ writer \in {"joining", "finishing", "committed"} =>
       channel = {} /\ \A w \in Workers : stage[w] \in Ended
  /\ writer \in {"finishing", "committed"} => \A w \in Workers : stage[w] = "done"

PoolInv == PoolTypeOK /\ OnePlace /\ NoFileLost /\ Observed

LEMMA PoolStart == PoolInit => PoolInv
  BY PoolAssumption DEF PoolInit, PoolInv, PoolTypeOK, OnePlace, NoFileLost, Observed, Busy

LEMMA TakeInv ==
  ASSUME PoolInv, NEW w \in Workers, Take(w)
  PROVE  PoolInv'
<1> USE DEF PoolInv
<1>1. PICK f \in queue : task' = [task EXCEPT ![w] = f] /\ queue' = queue \ {f}
  BY DEF Take
<1>2. PoolTypeOK'
  BY <1>1 DEF PoolTypeOK, Take
<1>3. OnePlace'
  BY <1>1 DEF OnePlace, PoolTypeOK, Take, Busy
<1>4. NoFileLost'
  BY <1>1 DEF NoFileLost, PoolTypeOK, Take, Busy
<1>5. Observed'
  BY <1>1 DEF Observed, PoolTypeOK, Take, Ended
<1> QED BY <1>2, <1>3, <1>4, <1>5

LEMMA SendInv ==
  ASSUME PoolInv, NEW w \in Workers, Send(w)
  PROVE  PoolInv'
<1> USE DEF PoolInv
<1>1. Busy(w) /\ task[w] \in Batch
  BY DEF Send, Busy, OnePlace
<1>2. PoolTypeOK'
  BY <1>1 DEF PoolTypeOK, Send
<1>3. OnePlace'
  BY <1>1 DEF OnePlace, PoolTypeOK, Send, Busy
<1>4. NoFileLost'
  BY <1>1 DEF NoFileLost, PoolTypeOK, Send, Busy
<1>5. Observed'
  BY DEF Observed, PoolTypeOK, Send, Ended, ReceiverAlive
<1> QED BY <1>2, <1>3, <1>4, <1>5

(* The steps of a worker that move no file *)
LEMMA OtherWorkerInv ==
  ASSUME PoolInv, NEW w \in Workers,
         NoMoreFiles(w) \/ Parsed(w) \/ Panics(w) \/ SendFails(w)
  PROVE  PoolInv'
<1> USE DEF PoolInv, NoMoreFiles, Parsed, Panics, SendFails
<1>1. UNCHANGED <<queue, task, channel, received, writer>>
  OBVIOUS
<1>2. PoolTypeOK'
  BY <1>1 DEF PoolTypeOK
<1>3. \A v \in Workers : Busy(v)' => Busy(v)
  BY DEF Busy, PoolTypeOK
<1>4. OnePlace'
  BY <1>1, <1>3 DEF OnePlace, PoolTypeOK
<1>5. writer # "failed" => \A v \in Workers : Busy(v) => Busy(v)'
  BY DEF Busy, PoolTypeOK, Observed, Ended, ReceiverAlive
<1>6. NoFileLost'
  BY <1>1, <1>5 DEF NoFileLost
<1>7. Observed'
  BY <1>1 DEF Observed, PoolTypeOK, Ended, ReceiverAlive
<1> QED BY <1>2, <1>4, <1>6, <1>7

LEMMA ReceiveInv ==
  ASSUME PoolInv, Receive
  PROVE  PoolInv'
<1> USE DEF PoolInv
<1>1. PICK m \in channel : /\ channel' = channel \ {m}
                           /\ received' = [received EXCEPT ![m[1]] = @ + 1]
  BY DEF Receive
<1>2. PICK f \in Batch, v \in Workers : m = <<f, v>>
  BY <1>1 DEF PoolTypeOK
<1>3. UNCHANGED <<queue, stage, task, writer>> /\ writer = "receiving"
  BY DEF Receive
<1>4. received[f] = 0 /\ received'[f] = 1
  BY <1>1, <1>2 DEF PoolTypeOK, OnePlace
<1>5. \A g \in Batch \ {f} : received'[g] = received[g]
  BY <1>1, <1>2 DEF PoolTypeOK
<1>6. PoolTypeOK'
  BY <1>1, <1>2, <1>3 DEF PoolTypeOK
<1>7. OnePlace'
  <2>1. f \notin queue /\ \A w \in Workers : Busy(w) => task[w] # f
    BY <1>1, <1>2 DEF OnePlace
  <2>2. \A w \in Workers : <<f, w>> \notin channel'
    BY <1>1, <1>2 DEF OnePlace
  <2>3. channel' \subseteq channel
    BY <1>1
  <2>4. \A w \in Workers : Busy(w)' <=> Busy(w)
    BY <1>3 DEF Busy
  <2> QED BY <1>3, <1>5, <2>1, <2>2, <2>3, <2>4 DEF OnePlace, PoolTypeOK
<1>8. NoFileLost'
  BY <1>1, <1>2, <1>3, <1>4, <1>5 DEF NoFileLost, Busy, PoolTypeOK
<1>9. Observed'
  BY <1>3 DEF Observed
<1> QED BY <1>6, <1>7, <1>8, <1>9

LEMMA OtherWriterInv ==
  ASSUME PoolInv, WriteFails \/ Disconnected \/ Join \/ Finish
  PROVE  PoolInv'
<1> USE DEF PoolInv
<1>1. CASE WriteFails
  BY <1>1 DEF WriteFails, PoolTypeOK, OnePlace, NoFileLost, Observed, Busy, Ended
<1>2. CASE Disconnected
  BY <1>2 DEF Disconnected, PoolTypeOK, OnePlace, NoFileLost, Observed, Busy, Ended
<1>3. CASE Join
  BY <1>3 DEF Join, PoolTypeOK, OnePlace, NoFileLost, Observed, Busy, Ended
<1>4. CASE Finish
  BY <1>4 DEF Finish, PoolTypeOK, OnePlace, NoFileLost, Observed, Busy, Ended
<1> QED BY <1>1, <1>2, <1>3, <1>4

(***************************************************************************)
(* The inductive invariant: every file is in one place, and none is lost   *)
(* unless the scan failed.                                                 *)
(***************************************************************************)
THEOREM PoolInvariance == PoolSpec => []PoolInv
<1>1. PoolInv /\ [PoolNext]_poolVars => PoolInv'
  <2> SUFFICES ASSUME PoolInv, [PoolNext]_poolVars PROVE PoolInv'
    OBVIOUS
  <2>1. CASE UNCHANGED poolVars
    BY <2>1 DEF poolVars, PoolInv, PoolTypeOK, OnePlace, NoFileLost, Observed, Busy
  <2>2. CASE WriterStep
    BY <2>2, ReceiveInv, OtherWriterInv DEF WriterStep
  <2>3. ASSUME NEW w \in Workers, WorkerStep(w) PROVE PoolInv'
    BY <2>3, TakeInv, SendInv, OtherWorkerInv DEF WorkerStep
  <2> QED BY <2>1, <2>2, <2>3 DEF PoolNext
<1> QED BY PoolStart, <1>1, PTL DEF PoolSpec

(* Types, for any files and workers. *)
THEOREM PoolTypeCorrect == PoolSpec => []PoolTypeOK
  BY PoolInvariance, PTL DEF PoolInv

(***************************************************************************)
(* No scan commits without the outcome of every file: at the commit no     *)
(* worker is busy, the channel and the queue are empty, so each file is    *)
(* where the invariant leaves it, with the writer.                         *)
(***************************************************************************)
THEOREM CommitCorrect == PoolSpec => []CommitIsComplete
<1>1. PoolInv => CommitIsComplete
  BY PoolAssumption DEF PoolInv, NoFileLost, Observed, CommitIsComplete, Busy, PoolTypeOK
<1> QED BY PoolInvariance, <1>1, PTL
=============================================================================
