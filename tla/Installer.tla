------------------------------ MODULE Installer -----------------------------
(***************************************************************************)
(* The installer of Remy-CC: install, update, uninstall and the cleanup of *)
(* a legacy installation, run by processes that share the managed files,   *)
(* the manifest, settings.json, the register of deferred deletions and the *)
(* install lock, next to a user who edits the same files.                  *)
(*                                                                         *)
(* Files stand for the managed paths, a content for the bytes (or their    *)
(* digest) found there.  There is no journal: the manifest is the commit   *)
(* point, and a process may be killed between any two steps.               *)
(***************************************************************************)
EXTENDS Naturals, Settings

CONSTANTS
  Procs, NoProc,
  Files,          \* managed paths
  Bin, Desc,      \* bin/remy-cc and runtime/python.json, under the remy root
  Versions,       \* releases, as naturals
  Ships,          \* Ships[v][f]: what release v deploys at f, or Absent
  Absent, User,   \* no file; bytes of the user's own
  DescContent,    \* the descriptor of the interpreter found
  LegacyRecords,  \* what the v1/v2 manifest records, Absent where nothing or no hash
  InitialStates,  \* records [disk, held, manifest, settings, legacy, budget]
  UserHooks, UserAllows,   \* hooks and permissions the user adds or removes
  MaxOps, MaxUser, MaxCrashes    \* bounds: operations, acts of the user, kills

Contents == {Ships[v][f] : v \in Versions, f \in Files} \cup
            {LegacyRecords[f] : f \in Files} \cup {Absent, User, DescContent}
Placed == [Files -> Contents]
RemyRoot == {Bin, Desc}

ASSUME InstallerAssumption ==
  /\ NoProc \notin Procs
  /\ {Bin, Desc} \subseteq Files /\ Bin # Desc
  /\ Versions \subseteq Nat
  /\ Absent \notin {User, DescContent}
  /\ \A f \in Files : LegacyRecords[f] # User
  /\ \A v \in Versions : Ships[v][Bin] \notin {Absent, User} /\ Ships[v][Desc] = Absent

HeldStates == {"free", "image", "pinned"}
Hooks ==
  Template.hooks \cup UserHooks
    \cup UNION {s.settings.hooks \cup s.manifest.claim.hooks : s \in InitialStates}
Allows ==
  Template.allow \cup UserAllows
    \cup UNION {s.settings.allow \cup s.manifest.claim.allow : s \in InitialStates}
Documents == [ok : BOOLEAN, hooks : SUBSET Hooks, allow : SUBSET Allows]
Claims == [hooks : SUBSET Hooks, allow : SUBSET Allows]
Manifests == [schema : {0, 2, 3, 4}, files : Placed, claim : Claims]
Budgets == [ops : Nat, user : Nat, kills : Nat]

ASSUME InitialAssumption ==
  \A s \in InitialStates :
    /\ s.disk \in Placed
    /\ s.held \in [Files -> HeldStates]
    /\ s.manifest \in Manifests
    /\ s.settings \in Documents
    /\ s.budget \in Budgets

VARIABLES
  disk,      \* content of every managed path
  bak,       \* the .bak copies
  held,      \* how another program holds the path: free, image (may be renamed), pinned
  asides,    \* paths with a displaced .old-<pid> residue beside them
  pending,   \* pending_deletes.json: residues, each <<path, "target" or "aside">>
  stranded,  \* residues whose registration failed and was warned about
  manifest,  \* manifest.json
  settings,  \* settings.json
  own,       \* history: permissions the user granted while no claim covered them
  legacy,    \* .installer_manifest.json: none, present or bak
  mcp,       \* whether .claude.json registers the binary
  lock,      \* who holds install.lock
  at,        \* where each process is
  job,       \* its parameters and plan; history: what others touched since its check
  half,      \* history: the plan of the install killed last, if nothing happened since
  budget     \* operations, acts of the user and kills so far

files == <<disk, bak, held, asides, pending, stranded>>
shared == <<files, manifest, settings, own, legacy, mcp, half>>
vars == <<shared, lock, at, job, budget>>

NoFiles == [f \in Files |-> Absent]
NoManifest == [schema |-> 0, files |-> NoFiles, claim |-> NoClaim]
NoSettings == [ok |-> TRUE, hooks |-> {}, allow |-> {}]

Idle == [op |-> "none", version |-> 0, python |-> FALSE, source |-> "download",
         stage |-> "first", purge |-> FALSE, seen |-> NoFiles, approved |-> NoFiles,
         plan |-> NoFiles, writes |-> {}, removals |-> {},
         merged |-> NoSettings, claim |-> NoClaim, touched |-> {}]

Init ==
  /\ \E s \in InitialStates :
       /\ disk = s.disk /\ held = s.held /\ manifest = s.manifest
       /\ settings = s.settings /\ legacy = s.legacy
       /\ own = s.settings.allow \ s.manifest.claim.allow
       /\ budget = s.budget
  /\ bak = NoFiles
  /\ asides = {} /\ pending = {} /\ stranded = {}
  /\ mcp = FALSE
  /\ lock = NoProc
  /\ at = [p \in Procs |-> "idle"]
  /\ job = [p \in Procs |-> Idle]
  /\ half = NoFiles

-----------------------------------------------------------------------------
(* Control of a process *)

Goes(p, from, to) == at[p] = from /\ at' = [at EXCEPT ![p] = to]

(* Process p continues with job j; whoever works from an earlier look at   *)
(* the paths fs has an outdated view of them                               *)
JobsAfter(p, j, fs) ==
  [q \in Procs |-> IF q = p THEN j
                   ELSE IF at[q] # "idle" THEN [job[q] EXCEPT !.touched = @ \cup fs] ELSE job[q]]
Sets(p, j) == job' = [job EXCEPT ![p] = j]
SetsAnd(p, j, fs) == job' = JobsAfter(p, j, fs)

Unlock(p) == lock' = IF lock = p THEN NoProc ELSE lock

EndsAfter(p, fs) == at' = [at EXCEPT ![p] = "idle"] /\ SetsAnd(p, Idle, fs) /\ Unlock(p)
Ends(p) == EndsAfter(p, {})

Enter(p, j) ==
  /\ budget.ops < MaxOps
  /\ budget' = [budget EXCEPT !.ops = @ + 1]
  /\ Goes(p, "idle", "lock")
  /\ Sets(p, j)
  /\ UNCHANGED <<shared, lock>>

(* remy-cc install, from a downloaded binary or from the deployed one      *)
RunInstall(p) ==
  \E python \in BOOLEAN, source \in {"download", "deployed"}, v \in Versions :
    /\ source = "deployed" => disk[Bin] = Ships[v][Bin]
    /\ Enter(p, [Idle EXCEPT !.op = "install", !.version = v, !.python = python, !.source = source])

(* remy-cc update, past the probe, the download, the checksum and the run  *)
(* of the new binary; a failure before that point changes nothing.  The    *)
(* release must not be older than the binary that runs.                    *)
RunUpdate(p) ==
  \E v, w \in Versions, python \in BOOLEAN :
    /\ disk[Bin] = Ships[v][Bin]
    /\ w > v
    /\ Enter(p, [Idle EXCEPT !.op = "update", !.version = w, !.python = python, !.source = "deployed"])

RunUninstall(p) ==
  \E purge \in BOOLEAN : Enter(p, [Idle EXCEPT !.op = "uninstall", !.purge = purge])

(* lock::acquire: one attempt *)
Acquire(p) ==
  /\ lock = NoProc
  /\ lock' = p
  /\ Goes(p, "lock", CASE job[p].op = "uninstall" -> "load"
                       [] job[p].op = "update" /\ job[p].stage = "first" -> "swap"
                       [] OTHER -> "preflight")
  /\ UNCHANGED <<shared, job, budget>>

LockBusy(p) ==
  /\ at[p] = "lock"
  /\ lock # NoProc
  /\ Ends(p)
  /\ UNCHANGED <<shared, budget>>

-----------------------------------------------------------------------------
(* Deferred deletion *)

(* remove_file of the registered residues: a held one stays registered,    *)
(* and so does a displaced image that still runs                           *)
Swept(running) ==
  {r \in pending : IF r[2] = "aside" THEN r[1] \notin running ELSE held[r[1]] = "free"}

SweptFrom(where, running) == {r[1] : r \in {s \in Swept(running) : s[2] = where}}
SweptDisk(running) ==
  [f \in Files |-> IF f \in SweptFrom("target", running) THEN Absent ELSE disk[f]]

(* Mutant: the path is registered without saying which of the two it is *)
RegisterPath(residue) == pending' = pending \cup {residue[1]} /\ UNCHANGED stranded

(* register_or_warn: the register is rewritten, or a warning names the path *)
Register(residue) ==
  \/ pending' = pending \cup {residue} /\ UNCHANGED stranded
  \/ stranded' = stranded \cup {residue} /\ UNCHANGED pending

(* rename of a path to its .old-<pid> name, which a pinned file refuses *)
Displace(f) ==
  /\ held[f] = "image"
  /\ disk' = [disk EXCEPT ![f] = Absent]
  /\ held' = [held EXCEPT ![f] = "free"]
  /\ asides' = asides \cup {f}
  /\ Register(<<f, "aside">>)

(* remove_or_defer *)
Remove(f) ==
  \/ /\ held[f] = "free"
     /\ disk' = [disk EXCEPT ![f] = Absent]
     /\ UNCHANGED <<held, asides, pending, stranded>>
  \/ Displace(f)
  \/ /\ held[f] = "pinned"
     /\ Register(<<f, "target">>)
     /\ UNCHANGED <<disk, held, asides>>

-----------------------------------------------------------------------------
(* The preflight of an install *)

(* The embedded artifacts of the release that runs *)
PlannedContents(j, f) == Ships[j.version][f]
(* The binary is read where it runs from *)
PlannedBinary(j, d) == IF j.source = "deployed" THEN d[Bin] ELSE Ships[j.version][Bin]
(* An interpreter that is not found plans no descriptor *)
PlannedDescriptor(j) == IF j.python THEN DescContent ELSE Absent

PlanOf(j, d) ==
  [f \in Files |-> CASE f = Desc -> PlannedDescriptor(j)
                     [] f = Bin -> PlannedBinary(j, d)
                     [] OTHER -> PlannedContents(j, f)]

(* manifest::load: there is none, or it passes the validation of its schema *)
ManifestLoads == manifest.schema \in {0, 3, 4}

(* Mutant: a target that already holds the new content counts as changed *)
ManagedChangedStrict(plan, d, record) ==
  {f \in Files : /\ plan[f] # Absent /\ d[f] # Absent
                 /\ record[f] # Absent /\ d[f] # record[f]}

ManagedChanged(plan, d, record) ==
  {f \in Files : /\ plan[f] # Absent /\ d[f] \notin {Absent, plan[f]}
                 /\ record[f] # Absent /\ d[f] # record[f]}

Unrecorded(plan, d, record) ==
  {f \in Files : plan[f] # Absent /\ d[f] \notin {Absent, plan[f]} /\ record[f] = Absent}

ObsoleteModified(plan, d, record) ==
  {f \in Files : plan[f] = Absent /\ record[f] # Absent /\ d[f] \notin {Absent, record[f]}}

ApprovedChanged(plan, d, record, approved) ==
  {f \in Unrecorded(plan, d, record) : approved[f] \notin {Absent, d[f]}}

(* Mutant: what is not recorded is overwritten without being asked for *)
NoConflicts(plan, d, record, approved) == {}

Conflicts(plan, d, record, approved) ==
  {f \in Unrecorded(plan, d, record) : approved[f] = Absent}

(* The checks that come before the list of conflicts is reported *)
Sound(plan, d, approved) ==
  /\ ManifestLoads
  /\ plan[Bin] # Absent
  /\ ManagedChanged(plan, d, manifest.files) = {}
  /\ ApprovedChanged(plan, d, manifest.files, approved) = {}

FilesAccepted(plan, d, approved) ==
  /\ Sound(plan, d, approved)
  /\ Conflicts(plan, d, manifest.files, approved) = {}
  /\ ObsoleteModified(plan, d, manifest.files) = {}

SettingsAccepted == Mergeable(settings, manifest.claim)

(* The ops::install call of a process returns without a conflict.  After a *)
(* legacy cleanup that is the rehearsal, and the install is run again.     *)
ReturnsAfter(p, fs) ==
  IF job[p].stage = "cleaned"
    THEN /\ at' = [at EXCEPT ![p] = "lock"]
         /\ Unlock(p)
         /\ SetsAnd(p, [Idle EXCEPT !.op = job[p].op, !.version = job[p].version,
                                    !.python = job[p].python, !.source = job[p].source,
                                    !.stage = "final"], fs)
    ELSE EndsAfter(p, fs)
Returns(p) == ReturnsAfter(p, {})

(* The sweep, which every install begins with, whatever follows *)
Sweeps(p, running) ==
  /\ at[p] = "preflight"
  /\ disk' = SweptDisk(running)
  /\ asides' = asides \ SweptFrom("aside", running)
  /\ pending' = pending \ Swept(running)
  /\ UNCHANGED <<bak, held, stranded>>

Accept(p) ==
  \E running \in SUBSET asides :
    LET d == SweptDisk(running)
        plan == PlanOf(job[p], d)
    IN /\ Sweeps(p, running)
       /\ FilesAccepted(plan, d, job[p].approved)
       /\ SettingsAccepted
       /\ at' = [at EXCEPT ![p] = "write"]
       /\ SetsAnd(p, [job[p] EXCEPT
            !.touched = {},
            !.plan = plan,
            !.seen = d,
            !.writes = {f \in Files : plan[f] \notin {Absent, d[f]}},
            !.removals = {f \in Files : /\ plan[f] = Absent /\ manifest.files[f] # Absent
                                        /\ d[f] = manifest.files[f]},
            !.merged = Merged(settings, manifest.claim),
            !.claim = ClaimAfter(settings, manifest.claim)], SweptFrom("target", running))
       /\ half' = NoFiles
       /\ UNCHANGED <<manifest, settings, own, legacy, mcp, lock, budget>>

(* Any refusal but the conflict list; the conflict list again at the end *)
Refuse(p) ==
  \E running \in SUBSET asides :
    LET d == SweptDisk(running)
        plan == PlanOf(job[p], d)
        conflicts == Conflicts(plan, d, manifest.files, job[p].approved)
    IN /\ Sweeps(p, running)
       /\ \/ ~Sound(plan, d, job[p].approved)
          \/ conflicts # {} /\ (job[p].stage = "final" \/ job[p].op = "update")
          \/ conflicts = {} /\ ObsoleteModified(plan, d, manifest.files) # {}
          \/ conflicts = {} /\ ~SettingsAccepted
       /\ ReturnsAfter(p, SweptFrom("target", running))
       /\ UNCHANGED <<manifest, settings, own, legacy, mcp, half, budget>>

(* The list of conflicts goes back to run_install, the lock with it *)
ReportConflicts(p) ==
  \E running \in SUBSET asides :
    LET d == SweptDisk(running)
        plan == PlanOf(job[p], d)
        conflicts == Conflicts(plan, d, manifest.files, job[p].approved)
    IN /\ Sweeps(p, running)
       /\ Sound(plan, d, job[p].approved)
       /\ conflicts # {}
       /\ job[p].stage # "final" /\ job[p].op = "install"
       /\ at' = [at EXCEPT ![p] = "conflict"]
       /\ SetsAnd(p, [job[p] EXCEPT !.seen = [f \in Files |-> IF f \in conflicts THEN d[f] ELSE Absent]],
                  SweptFrom("target", running))
       /\ Unlock(p)
       /\ UNCHANGED <<manifest, settings, own, legacy, mcp, half, budget>>

-----------------------------------------------------------------------------
(* resolve_conflicts: the ladder of an interactive install *)

(* The user refuses, or nobody can be asked *)
Decline(p) ==
  /\ at[p] \in {"conflict", "legacyPrompt"}
  /\ Ends(p)
  /\ UNCHANGED <<shared, budget>>

(* legacy::inspect: the files identical to what the old manifest records *)
InspectLegacy(p) ==
  /\ job[p].stage = "first" /\ legacy = "present"
  /\ Goes(p, "conflict", "legacyPrompt")
  /\ Sets(p, [job[p] EXCEPT !.touched = {}, !.removals =
       {f \in Files : LegacyRecords[f] # Absent /\ disk[f] = LegacyRecords[f]}])
  /\ UNCHANGED <<shared, lock, budget>>

(* legacy::execute, under the install lock: files that cannot be deleted   *)
(* are warned about                                                        *)
ExecuteLegacy(p) ==
  LET deleted == {f \in job[p].removals : held[f] = "free"}
  IN /\ lock = NoProc
     /\ Goes(p, "legacyPrompt", "lock")
     /\ disk' = [f \in Files |-> IF f \in deleted THEN Absent ELSE disk[f]]
     /\ settings' = IF deleted = {} THEN settings ELSE WithoutDeadHooks(settings)
     /\ legacy' = "bak"
     /\ SetsAnd(p, [job[p] EXCEPT !.stage = "cleaned", !.removals = {}], deleted \cup {"settings"})
     /\ half' = NoFiles
     /\ UNCHANGED <<bak, held, asides, pending, stranded, manifest, own, mcp, lock, budget>>

(* The overwrite of what remains is approved, content by content *)
ApproveOverwrites(p) ==
  /\ job[p].stage = "cleaned" \/ legacy # "present"
  /\ Goes(p, "conflict", "lock")
  /\ Sets(p, [job[p] EXCEPT !.stage = "final", !.approved = job[p].seen])
  /\ UNCHANGED <<shared, lock, budget>>

-----------------------------------------------------------------------------
(* The writes of an install *)

(* fs::copy to .bak comes first, for a file taken over *)
BackedUp(p, f) ==
  IF job[p].approved[f] # Absent /\ disk[f] # Absent THEN [bak EXCEPT ![f] = disk[f]] ELSE bak

(* rename_over of a target that is in use *)
MoveAside(p, f) ==
  /\ at[p] = "write"
  /\ f \in job[p].writes
  /\ Displace(f)
  /\ bak' = BackedUp(p, f)
  /\ SetsAnd(p, job[p], {f})
  /\ half' = NoFiles
  /\ UNCHANGED <<manifest, settings, own, legacy, mcp, lock, at, budget>>

(* Mutant: a target that cannot be replaced is skipped *)
WriteFileOrSkip(p, f) ==
  /\ at[p] = "write"
  /\ f \in job[p].writes
  /\ disk' = [disk EXCEPT ![f] = IF held[f] = "free" THEN job[p].plan[f] ELSE @]
  /\ bak' = BackedUp(p, f)
  /\ SetsAnd(p, [job[p] EXCEPT !.writes = @ \ {f}], {f})
  /\ half' = NoFiles
  /\ UNCHANGED <<held, asides, pending, stranded, manifest, settings, own, legacy, mcp, lock, at,
                 budget>>

(* staged_write or deploy_binary: a stage file renamed into place *)
WriteFile(p, f) ==
  /\ at[p] = "write"
  /\ f \in job[p].writes
  /\ held[f] = "free"
  /\ disk' = [disk EXCEPT ![f] = job[p].plan[f]]
  /\ bak' = BackedUp(p, f)
  /\ SetsAnd(p, [job[p] EXCEPT !.writes = @ \ {f}], {f})
  /\ half' = NoFiles
  /\ UNCHANGED <<held, asides, pending, stranded, manifest, settings, own, legacy, mcp, lock, at,
                 budget>>

(* The document merged at the preflight, whatever the file holds by now *)
WriteSettings(p) ==
  /\ job[p].writes = {}
  /\ Goes(p, "write", "remove")
  /\ settings' = job[p].merged
  /\ SetsAnd(p, job[p], {"settings"})
  /\ half' = NoFiles
  /\ UNCHANGED <<files, manifest, own, legacy, mcp, lock, budget>>

(* An obsolete file of an install, a recorded one of an uninstall *)
RemoveFile(p, f) ==
  /\ at[p] = "remove"
  /\ f \in job[p].removals
  /\ IF disk[f] = Absent THEN UNCHANGED <<disk, held, asides, pending, stranded>> ELSE Remove(f)
  /\ SetsAnd(p, [job[p] EXCEPT !.removals = @ \ {f}], {f})
  /\ half' = NoFiles
  /\ UNCHANGED <<bak, manifest, settings, own, legacy, mcp, lock, at, budget>>

Commit(p) ==
  /\ job[p].op # "uninstall" /\ job[p].removals = {}
  /\ Goes(p, "remove", "postCommit")
  /\ manifest' = [schema |-> 4, files |-> job[p].plan, claim |-> job[p].claim]
  /\ SetsAnd(p, job[p], {"manifest"})
  /\ half' = NoFiles
  /\ UNCHANGED <<files, settings, own, legacy, mcp, lock, budget>>

(* post_commit: the legacy manifest is set aside, .claude.json registers   *)
(* the server; what fails is only warned about                             *)
PostCommit(p) ==
  /\ at[p] = "postCommit"
  /\ legacy' = IF legacy \in {"present", "unreadable"} THEN "bak" ELSE legacy
  /\ mcp' \in {mcp, TRUE}
  /\ Returns(p)
  /\ UNCHANGED <<files, manifest, settings, own, half, budget>>

(* The plan of an install that ends before its commit *)
Unfinished(p) ==
  IF at[p] \in {"write", "remove"} /\ job[p].op # "uninstall" /\ job[p].approved = NoFiles
     /\ job[p].touched = {}
    THEN job[p].plan
    ELSE half

(* A write fails: the disk is full, the file is pinned *)
IoError(p) ==
  /\ at[p] \in {"write", "swapIn"}
  /\ half' = Unfinished(p)
  /\ Returns(p)
  /\ UNCHANGED <<files, manifest, settings, own, legacy, mcp, budget>>

(* The process is killed; the OS releases its lock *)
Kill(p) ==
  /\ at[p] # "idle"
  /\ budget.kills < MaxCrashes
  /\ budget' = [budget EXCEPT !.kills = @ + 1]
  /\ half' = Unfinished(p)
  /\ Ends(p)
  /\ UNCHANGED <<files, manifest, settings, own, legacy, mcp>>

-----------------------------------------------------------------------------
(* Uninstall *)

LoadRecords(p) ==
  /\ manifest.schema \in {3, 4}
  /\ Goes(p, "load", "remove")
  /\ Sets(p, [job[p] EXCEPT !.touched = {}, !.removals = {f \in Files : manifest.files[f] # Absent},
                            !.claim = manifest.claim])
  /\ half' = NoFiles
  /\ UNCHANGED <<files, manifest, settings, own, legacy, mcp, lock, budget>>

(* No manifest, one that does not load, or a daemon that still runs *)
RefuseUninstall(p) ==
  /\ at[p] = "load"
  /\ Ends(p)
  /\ UNCHANGED <<shared, budget>>

RemoveClaim(p) ==
  /\ job[p].op = "uninstall" /\ job[p].removals = {}
  /\ Goes(p, "remove", "removeManifest")
  /\ settings' = Unclaimed(settings, job[p].claim)
  /\ SetsAnd(p, job[p], {"settings"})
  /\ half' = NoFiles
  /\ UNCHANGED <<files, manifest, own, legacy, mcp, lock, budget>>

RemoveManifest(p) ==
  /\ at[p] = "removeManifest"
  /\ manifest' = NoManifest
  /\ IF job[p].purge
       THEN at' = [at EXCEPT ![p] = "purge"] /\ Unlock(p) /\ SetsAnd(p, job[p], {"manifest"})
       ELSE EndsAfter(p, {"manifest"})
  /\ half' = NoFiles
  /\ UNCHANGED <<files, settings, own, legacy, mcp, budget>>

(* remove_dir_all of the remy root, after the lock is released: with the   *)
(* directory goes the lock file, whoever holds it                          *)
Purge(p) ==
  LET gone == {f \in RemyRoot : held[f] = "free"}
  IN /\ at[p] = "purge"
     /\ disk' = [f \in Files |-> IF f \in gone THEN Absent ELSE disk[f]]
     /\ asides' = asides \ gone
     /\ pending' = {}
     /\ manifest' = NoManifest
     /\ lock' = NoProc
     /\ at' = [at EXCEPT ![p] = "idle"]
     /\ SetsAnd(p, Idle, gone \cup {"manifest"})
     /\ half' = NoFiles
     /\ UNCHANGED <<bak, held, stranded, settings, own, legacy, mcp, budget>>

-----------------------------------------------------------------------------
(* Update: swap_binary, then the installer of the new binary *)

SwapAside(p) ==
  /\ Goes(p, "swap", "swapIn")
  /\ IF disk[Bin] = Absent THEN UNCHANGED <<disk, held, asides, pending, stranded>>
       ELSE /\ held[Bin] # "pinned"
            /\ disk' = [disk EXCEPT ![Bin] = Absent]
            /\ held' = [held EXCEPT ![Bin] = "free"]
            /\ asides' = asides \cup {Bin}
            /\ Register(<<Bin, "aside">>)
  /\ half' = NoFiles
  /\ SetsAnd(p, job[p], {Bin})
  /\ UNCHANGED <<bak, manifest, settings, own, legacy, mcp, lock, budget>>

SwapRefused(p) ==
  /\ at[p] = "swap"
  /\ held[Bin] = "pinned"
  /\ Ends(p)
  /\ UNCHANGED <<shared, budget>>

SwapIn(p) ==
  /\ Goes(p, "swapIn", "child")
  /\ disk' = [disk EXCEPT ![Bin] = Ships[job[p].version][Bin]]
  /\ SetsAnd(p, job[p], {Bin})
  /\ Unlock(p)
  /\ half' = NoFiles
  /\ UNCHANGED <<bak, held, asides, pending, stranded, manifest, settings, own, legacy, mcp, budget>>

(* The deployed binary runs its own install --non-interactive *)
RunChild(p) ==
  /\ at[p] = "child"
  /\ IF disk[Bin] = Ships[job[p].version][Bin]
       THEN /\ at' = [at EXCEPT ![p] = "lock"]
            /\ Sets(p, [job[p] EXCEPT !.stage = "final"])
            /\ UNCHANGED lock
       ELSE Ends(p)
  /\ UNCHANGED <<shared, budget>>

-----------------------------------------------------------------------------
(* The user, and the programs that use the files *)

UserActs(fs) ==
  /\ budget.user < MaxUser
  /\ budget' = [budget EXCEPT !.user = @ + 1]
  /\ job' = JobsAfter(NoProc, Idle, fs)
  /\ UNCHANGED <<bak, asides, pending, stranded, manifest, legacy, mcp, lock, at>>

UserEdits(f) ==
  /\ held[f] = "free"
  /\ \E c \in {Absent, User} \ {disk[f]} : disk' = [disk EXCEPT ![f] = c]
  /\ half' = NoFiles
  /\ UserActs({f})
  /\ UNCHANGED <<held, settings, own>>

(* A running binary can be renamed, a file opened exclusively cannot *)
UserHolds(f) ==
  /\ disk[f] # Absent
  /\ \E h \in (IF f = Bin THEN {"free", "image", "pinned"} ELSE {"free", "pinned"}) \ {held[f]} :
       held' = [held EXCEPT ![f] = h]
  /\ UserActs({})
  /\ UNCHANGED <<disk, settings, own, half>>

Toggled(S, e) == IF e \in S THEN S \ {e} ELSE S \cup {e}

UserConfigures ==
  /\ settings.ok
  /\ \/ \E h \in UserHooks :
          settings' = [settings EXCEPT !.hooks = Toggled(@, h)] /\ UNCHANGED own
     \/ \E a \in UserAllows :
          /\ settings' = [settings EXCEPT !.allow = Toggled(@, a)]
          /\ own' = IF a \in settings.allow THEN own \ {a}
                    ELSE IF a \in manifest.claim.allow \/ \E p \in Procs : at[p] # "idle" THEN own
                    ELSE own \cup {a}
  /\ half' = NoFiles
  /\ UserActs({"settings"})
  /\ UNCHANGED <<disk, held>>

-----------------------------------------------------------------------------
(* remy-cc verify: the issues it reports, but for the version of a daemon  *)
VerifyIssues ==
  (IF manifest.schema = 4 THEN {} ELSE {"manifest"})
    \cup {f \in Files : manifest.schema = 4 /\ manifest.files[f] \notin {Absent, disk[f]}}
    \cup (IF manifest.schema = 4 /\ ~ClaimHolds(settings, manifest.claim) THEN {"settings"} ELSE {})
    \cup (IF disk[Desc] = DescContent THEN {} ELSE {"descriptor"})

Step(p) ==
  \/ RunInstall(p) \/ RunUpdate(p) \/ RunUninstall(p)
  \/ Acquire(p) \/ LockBusy(p)
  \/ Accept(p) \/ Refuse(p) \/ ReportConflicts(p)
  \/ Decline(p) \/ InspectLegacy(p) \/ ExecuteLegacy(p) \/ ApproveOverwrites(p)
  \/ \E f \in Files : MoveAside(p, f) \/ WriteFile(p, f) \/ RemoveFile(p, f)
  \/ WriteSettings(p) \/ Commit(p) \/ PostCommit(p)
  \/ LoadRecords(p) \/ RefuseUninstall(p) \/ RemoveClaim(p) \/ RemoveManifest(p) \/ Purge(p)
  \/ SwapAside(p) \/ SwapRefused(p) \/ SwapIn(p) \/ RunChild(p)
  \/ IoError(p) \/ Kill(p)

Next ==
  \/ \E p \in Procs : Step(p)
  \/ \E f \in Files : UserEdits(f) \/ UserHolds(f)
  \/ UserConfigures

Spec == Init /\ [][Next]_vars

-----------------------------------------------------------------------------
(* Properties *)

Residues == Files \X {"target", "aside"}

Places == {"idle", "lock", "load", "swap", "swapIn", "child", "preflight", "conflict", "legacyPrompt",
           "write", "remove", "removeManifest", "postCommit", "purge"}
Marks == Files \cup {"settings", "manifest"}
Jobs == [op : {"none", "install", "update", "uninstall"}, version : Versions \cup {0},
         python : BOOLEAN, source : {"download", "deployed"}, stage : {"first", "cleaned", "final"},
         purge : BOOLEAN, seen : Placed, approved : Placed, plan : Placed,
         writes : SUBSET Files, removals : SUBSET Files,
         merged : Documents, claim : Claims, touched : SUBSET Marks]

(* Managed paths, register, manifest, settings and processes keep their    *)
(* types.                                                                  *)
TypeOK ==
  /\ disk \in Placed /\ bak \in Placed /\ half \in Placed
  /\ held \in [Files -> HeldStates]
  /\ asides \subseteq Files
  /\ pending \subseteq Residues /\ stranded \subseteq Residues
  /\ manifest \in Manifests
  /\ settings \in Documents
  /\ own \subseteq Allows
  /\ lock \in Procs \cup {NoProc}
  /\ at \in [Procs -> Places]
  /\ job \in [Procs -> Jobs]
  /\ budget \in Budgets

Deferred(f) == <<f, "target">> \in pending \cup stranded

(* A descriptor is not expected after a failed probe *)
Excused(p) == IF job[p].python /\ Desc \notin job[p].touched THEN {} ELSE {"descriptor"}

(* Right after an install commits, verify finds no issue, and what an      *)
(* install or an uninstall stops managing is gone or registered (or        *)
(* reported) for deferred deletion; except for paths that somebody else    *)
(* changed meanwhile, and unless another process replaced the manifest,    *)
(* which it can only do once a purge has taken the lock file away.         *)
SuccessMatchesDisk ==
  [][\A p \in Procs :
       /\ Commit(p) =>
            /\ VerifyIssues' \subseteq job[p].touched \cup Excused(p)
            /\ "manifest" \in job[p].touched \/ \A f \in Files \ job[p].touched :
                 manifest.files[f] # Absent /\ job[p].plan[f] = Absent => disk[f] = Absent \/ Deferred(f)
       /\ RemoveManifest(p) =>
            \/ "manifest" \in job[p].touched
            \/ \A f \in Files \ job[p].touched :
                 manifest.files[f] = Absent \/ disk[f] = Absent \/ Deferred(f)]_vars

(* An install, an update or a legacy cleanup never makes the user's own    *)
(* bytes disappear from a path without a .bak of them, unless the path is  *)
(* registered for deletion, was written after the check (or the manifest   *)
(* was), holds a binary that an install recorded as it found it, or an     *)
(* uninstall is under way.                                                 *)
UserFilesKept ==
  [][\A f \in Files :
       disk[f] = User /\ disk'[f] # User /\ budget'.user = budget.user =>
         \/ bak'[f] = User
         \/ <<f, "target">> \in pending \/ manifest.files[f] = User
         \/ \E p \in Procs : /\ at[p] # "idle"
                             /\ {f, "manifest"} \cap job[p].touched # {} \/ job[p].op = "uninstall"]_vars

(* A permission the user granted himself survives every merge and every    *)
(* removal of the claim.                                                   *)
UserPermissionsKept == settings.ok => own \subseteq settings.allow

(* After an install was killed or failed and nothing else happened, its    *)
(* files never block the rerun; neither does settings.json when the        *)
(* manifest on disk already claims this installer's hooks.                 *)
RerunOfUpgradeAccepted ==
  half # NoFiles =>
    /\ FilesAccepted(half, disk, NoFiles)
    /\ manifest.claim.hooks = Template.hooks => SettingsAccepted
=============================================================================
