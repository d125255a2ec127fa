--------------------------- MODULE InstallerProofs --------------------------
(***************************************************************************)
(* Proofs about the installer, for any number of processes and operations, *)
(* acts of the user and kills.  Mutual exclusion is not used: a purge      *)
(* takes the lock file away from whoever holds it.  What a process knows   *)
(* about the disk, the settings and the manifest it knows of the paths     *)
(* nobody else has touched since it looked, and that is what is proved.    *)
(***************************************************************************)
EXTENDS Installer, TLAPS

Touched(q, x) == x \in job[q].touched

Installing(q) == at[q] \in {"write", "remove"} /\ job[q].op # "uninstall"
Uninstalling(q) == at[q] \in {"remove", "removeManifest"} /\ job[q].op = "uninstall"

(* Where a process is tells what it runs *)
Fits(l, j) ==
  /\ l = "idle" => j = Idle
  /\ l # "idle" => j.op \in {"install", "update", "uninstall"}
  /\ l \in {"load", "removeManifest", "purge"} => j.op = "uninstall"
  /\ l \in {"preflight", "conflict", "legacyPrompt", "write", "postCommit", "swap", "swapIn", "child"}
       => j.op # "uninstall"
  /\ l \in {"swap", "swapIn", "child"} => j.op = "update" /\ j.stage = "first"
  /\ j.op \in {"install", "update"} => j.version \in Versions
  /\ l = "removeManifest" => j.removals = {}
  /\ l = "remove" /\ j.op # "uninstall" => j.writes = {}

Control(q) == Fits(at[q], job[q])

(* The binary that an update is about to move aside is a released one *)
ReplacesRelease(q) ==
  at[q] \in {"lock", "swap", "swapIn"} /\ job[q].op = "update" /\ job[q].stage = "first"
    => Touched(q, Bin) \/ disk[Bin] # User

(* What the cleanup of a legacy installation deletes is what it looked at *)
RemovesLegacy(q) ==
  at[q] = "legacyPrompt" =>
    \A f \in job[q].removals : Touched(q, f) \/ disk[f] = LegacyRecords[f]

(* Every planned file is in place or still to be written, and replaces     *)
(* bytes of the user only if he approved or an install recorded them       *)
Writes(q) ==
  Installing(q) => \A f \in Files :
    /\ f \in job[q].writes => job[q].plan[f] # Absent
    /\ ~Touched(q, f) /\ job[q].plan[f] # Absent /\ f \notin job[q].writes
         => disk[f] = job[q].plan[f]
    /\ ~Touched(q, f) /\ f \in job[q].writes /\ disk[f] = User
         => job[q].approved[f] # Absent \/ Touched(q, "manifest") \/ manifest.files[f] = User

(* Every obsolete file is as recorded and still to be removed, or gone, or *)
(* registered                                                              *)
Removes(q) ==
  Installing(q) => \A f \in Files :
    /\ f \in job[q].removals => job[q].plan[f] = Absent
    /\ ~Touched(q, f) /\ ~Touched(q, "manifest") =>
         /\ f \in job[q].removals => disk[f] \in {Absent, manifest.files[f]}
         /\ job[q].plan[f] = Absent /\ manifest.files[f] # Absent
              => f \in job[q].removals \/ disk[f] = Absent \/ Deferred(f)

(* The claim to be recorded is part of the settings to be written *)
Settles(q) ==
  /\ at[q] = "write" => ClaimHolds(job[q].merged, job[q].claim)
  /\ Installing(q) /\ at[q] = "remove" /\ ~Touched(q, "settings")
       => ClaimHolds(settings, job[q].claim)
  /\ Installing(q) /\ job[q].python => job[q].plan[Desc] = DescContent

(* What a rerun without approvals asks of the files, path by path *)
FilesFit(plan, d, m) ==
  /\ m.schema \in {0, 3, 4}
  /\ plan[Bin] # Absent
  /\ \A f \in Files :
       /\ plan[f] # Absent => d[f] \in {Absent, plan[f], m.files[f]}
       /\ plan[f] = Absent /\ m.files[f] # Absent => d[f] \in {Absent, m.files[f]}

(* An install that nobody disturbed could be run again *)
Acceptable(plan, d, m, doc) ==
  /\ FilesFit(plan, d, m)
  /\ m.claim.hooks = Template.hooks => Mergeable(doc, m.claim)

Resumable(q) ==
  Installing(q) /\ job[q].approved = NoFiles /\ job[q].touched = {} =>
    /\ Acceptable(job[q].plan, disk, manifest, settings)
    /\ at[q] = "write" => Acceptable(job[q].plan, disk, manifest, job[q].merged)

(* Every recorded file is still to be removed, or gone, or registered *)
Clears(q) ==
  Uninstalling(q) /\ ~Touched(q, "manifest") =>
    \A f \in Files : ~Touched(q, f) /\ manifest.files[f] # Absent
      => f \in job[q].removals \/ disk[f] = Absent \/ Deferred(f)

(* No claim, stored or about to be, covers a permission of the user's own *)
Permits(q) ==
  /\ at[q] \in {"write", "remove"} => own \cap job[q].claim.allow = {}
  /\ at[q] = "write" => own \subseteq job[q].merged.allow

View(q) ==
  /\ Control(q)
  /\ ReplacesRelease(q)
  /\ RemovesLegacy(q)
  /\ Writes(q)
  /\ Removes(q)
  /\ Settles(q)
  /\ Resumable(q)
  /\ Clears(q)
  /\ Permits(q)

SharedTyped ==
  /\ disk \in Placed /\ bak \in Placed /\ half \in Placed
  /\ held \in [Files -> HeldStates]
  /\ asides \subseteq Files
  /\ pending \subseteq Residues /\ stranded \subseteq Residues
  /\ manifest \in Manifests
  /\ settings \in Documents
  /\ own \subseteq Allows
  /\ lock \in Procs \cup {NoProc}
  /\ budget \in Budgets

SharedInv ==
  /\ SharedTyped
  /\ own \cap manifest.claim.allow = {}
  /\ UserPermissionsKept
  /\ RerunOfUpgradeAccepted

InstallerInv ==
  /\ TypeOK
  /\ SharedInv
  /\ \A q \in Procs : View(q)

-----------------------------------------------------------------------------
(* Types *)

LEMMA IdleTyped == NoFiles \in Placed /\ Idle \in Jobs /\ NoManifest \in Manifests
<1>1. NoFiles \in Placed
  BY DEF NoFiles, Placed, Contents
<1>2. NoClaim \in Claims /\ NoSettings \in Documents
  BY DEF NoClaim, Claims, NoSettings, Documents
<1>3. Idle \in Jobs
  BY <1>1, <1>2 DEF Idle, Jobs
<1> QED BY <1>1, <1>2, <1>3 DEF NoManifest, Manifests

(* The jobs of the others only learn what was touched. *)
SameJob(j, k) ==
  /\ j.op = k.op /\ j.version = k.version /\ j.python = k.python /\ j.source = k.source
  /\ j.stage = k.stage /\ j.purge = k.purge /\ j.seen = k.seen /\ j.approved = k.approved
  /\ j.plan = k.plan /\ j.writes = k.writes /\ j.removals = k.removals
  /\ j.merged = k.merged /\ j.claim = k.claim

LEMMA TouchTyped ==
  ASSUME NEW j \in Jobs, NEW fs \in SUBSET Marks
  PROVE  /\ [j EXCEPT !.touched = @ \cup fs] \in Jobs
         /\ SameJob([j EXCEPT !.touched = @ \cup fs], j)
         /\ [j EXCEPT !.touched = @ \cup fs].touched = j.touched \cup fs
BY DEF Jobs, SameJob

LEMMA JobsAfterTyped ==
  ASSUME at \in [Procs -> Places], job \in [Procs -> Jobs],
         NEW p, NEW j, p \in Procs => j \in Jobs, NEW fs \in SUBSET Marks
  PROVE  /\ JobsAfter(p, j, fs) \in [Procs -> Jobs]
         /\ p \in Procs => JobsAfter(p, j, fs)[p] = j
         /\ \A q \in Procs \ {p} :
              /\ SameJob(JobsAfter(p, j, fs)[q], job[q])
              /\ job[q].touched \subseteq JobsAfter(p, j, fs)[q].touched
              /\ at[q] = "idle" => JobsAfter(p, j, fs)[q] = job[q]
              /\ at[q] # "idle" => fs \subseteq JobsAfter(p, j, fs)[q].touched
<1>1. ASSUME NEW q \in Procs \ {p}
      PROVE  /\ JobsAfter(p, j, fs)[q] \in Jobs
             /\ SameJob(JobsAfter(p, j, fs)[q], job[q])
             /\ job[q].touched \subseteq JobsAfter(p, j, fs)[q].touched
             /\ at[q] = "idle" => JobsAfter(p, j, fs)[q] = job[q]
             /\ at[q] # "idle" => fs \subseteq JobsAfter(p, j, fs)[q].touched
  <2>1. CASE at[q] = "idle"
    <3>1. JobsAfter(p, j, fs)[q] = job[q]
      BY <2>1 DEF JobsAfter
    <3> QED BY <2>1, <3>1 DEF SameJob
  <2>2. CASE at[q] # "idle"
    <3>1. JobsAfter(p, j, fs)[q] = [job[q] EXCEPT !.touched = @ \cup fs]
      BY <2>2 DEF JobsAfter
    <3>2. job[q] \in Jobs
      OBVIOUS
    <3> QED BY <2>2, <3>1, <3>2, TouchTyped
  <2> QED BY <2>1, <2>2
<1>2. p \in Procs => JobsAfter(p, j, fs)[p] = j
  BY DEF JobsAfter
<1>3. JobsAfter(p, j, fs) \in [Procs -> Jobs]
  <2>1. \A q \in Procs : JobsAfter(p, j, fs)[q] \in Jobs
    BY <1>1, <1>2
  <2>2. JobsAfter(p, j, fs) = [q \in Procs |-> JobsAfter(p, j, fs)[q]]
    BY DEF JobsAfter
  <2> QED BY <2>1, <2>2
<1> QED BY <1>1, <1>2, <1>3

(* Setting the job of one process touches nothing. *)
LEMMA SetsTouchesNothing ==
  ASSUME job \in [Procs -> Jobs], NEW p \in Procs, NEW j, Sets(p, j)
  PROVE  job' = JobsAfter(p, j, {})
<1>1. \A q \in Procs : [job[q] EXCEPT !.touched = @ \cup {}] = job[q]
  BY DEF Jobs
<1> QED BY <1>1 DEF Sets, JobsAfter

-----------------------------------------------------------------------------
(* What a step of p leaves of the view of process q *)
Frame(q) ==
  /\ at'[q] = at[q]
  /\ SameJob(job'[q], job[q])
  /\ job[q].touched \subseteq job'[q].touched
  /\ at[q] = "idle" => job'[q] = job[q]
  /\ at[q] # "idle" =>
       /\ \A f \in Files : f \notin job'[q].touched => disk'[f] = disk[f]
       /\ "manifest" \notin job'[q].touched =>
            /\ manifest' = manifest
            /\ \A f \in Files : f \notin job'[q].touched => (Deferred(f) => Deferred(f)')
       /\ "settings" \notin job'[q].touched => settings' = settings
       /\ own' \subseteq own

(* What somebody who touches fs, and no more, leaves alone *)
Spares(fs) ==
  /\ \A f \in Files \ fs : disk'[f] = disk[f]
  /\ "manifest" \notin fs =>
       manifest' = manifest /\ \A f \in Files \ fs : Deferred(f) => Deferred(f)'
  /\ "settings" \notin fs => settings' = settings
  /\ \A q \in Procs : at[q] # "idle" => own' \subseteq own

LEMMA OthersFramed ==
  ASSUME TypeOK, NEW p, NEW j, p \in Procs => j \in Jobs, NEW fs \in SUBSET Marks,
         job' = JobsAfter(p, j, fs),
         \A q \in Procs \ {p} : at'[q] = at[q],
         Spares(fs)
  PROVE  \A q \in Procs \ {p} : Frame(q)
<1> TAKE q \in Procs \ {p}
<1>1. /\ SameJob(job'[q], job[q])
      /\ job[q].touched \subseteq job'[q].touched
      /\ at[q] = "idle" => job'[q] = job[q]
      /\ at[q] # "idle" => fs \subseteq job'[q].touched
  <2>1. at \in [Procs -> Places] /\ job \in [Procs -> Jobs]
    BY DEF TypeOK
  <2>2. \A r \in Procs \ {p} :
          /\ SameJob(JobsAfter(p, j, fs)[r], job[r])
          /\ job[r].touched \subseteq JobsAfter(p, j, fs)[r].touched
          /\ at[r] = "idle" => JobsAfter(p, j, fs)[r] = job[r]
          /\ at[r] # "idle" => fs \subseteq JobsAfter(p, j, fs)[r].touched
    BY <2>1, JobsAfterTyped
  <2> QED BY <2>2
<1>2. ASSUME at[q] # "idle"
      PROVE  /\ \A f \in Files : f \notin job'[q].touched => disk'[f] = disk[f]
             /\ "manifest" \notin job'[q].touched =>
                  /\ manifest' = manifest
                  /\ \A f \in Files : f \notin job'[q].touched => (Deferred(f) => Deferred(f)')
             /\ "settings" \notin job'[q].touched => settings' = settings
             /\ own' \subseteq own
  BY <1>1, <1>2 DEF Spares
<1> QED BY <1>1, <1>2 DEF Frame

(* What a process knows survives the steps of the others. *)
LEMMA ViewKept ==
  ASSUME TypeOK, TypeOK', NEW q \in Procs, View(q), Frame(q)
  PROVE  View(q)'
<1> USE DEF View, Frame, SameJob, Touched, Installing, Uninstalling
<1>0. job[q] \in Jobs /\ job'[q] \in Jobs /\ disk \in Placed /\ disk' \in Placed
  BY DEF TypeOK
<1>1. Control(q)'
  BY DEF Control, Fits
<1>2. ReplacesRelease(q)'
  BY InstallerAssumption DEF ReplacesRelease
<1>3. RemovesLegacy(q)'
  BY <1>0 DEF RemovesLegacy, Jobs
<1>4. Writes(q)'
  BY DEF Writes
<1>5. Removes(q)'
  BY DEF Removes
<1>6. Settles(q)'
  BY DEF Settles
<1>7. Resumable(q)'
  <2>1. ASSUME Installing(q), job'[q].touched = {}
        PROVE  disk' = disk /\ manifest' = manifest /\ settings' = settings
    BY <1>0, <2>1 DEF Placed
  <2> QED BY <2>1 DEF Resumable
<1>8. Clears(q)'
  BY DEF Clears
<1>9. Permits(q)'
  BY DEF Permits
<1> QED BY <1>1, <1>2, <1>3, <1>4, <1>5, <1>6, <1>7, <1>8, <1>9

LEMMA JobsTyped ==
  ASSUME TypeOK, SharedTyped', at' \in [Procs -> Places],
         NEW p, NEW j, p \in Procs => j \in Jobs, NEW fs \in SUBSET Marks,
         job' = JobsAfter(p, j, fs)
  PROVE  TypeOK'
<1>1. at \in [Procs -> Places] /\ job \in [Procs -> Jobs]
  BY DEF TypeOK
<1>2. job' \in [Procs -> Jobs]
  BY <1>1, JobsAfterTyped
<1> QED BY <1>2 DEF TypeOK, SharedTyped

(* A step of process p keeps the invariant when it keeps the part that is  *)
(* about p and about the shared files.                                     *)
LEMMA StepKeeps ==
  ASSUME InstallerInv, NEW p \in Procs, NEW l \in Places, NEW j \in Jobs, NEW fs \in SUBSET Marks,
         at' = [at EXCEPT ![p] = l],
         job' = JobsAfter(p, j, fs),
         Spares(fs),
         SharedInv',
         View(p)'
  PROVE  InstallerInv'
<1>1. at' \in [Procs -> Places] /\ \A q \in Procs \ {p} : at'[q] = at[q]
  BY DEF InstallerInv, TypeOK
<1>2. TypeOK'
  BY <1>1, JobsTyped DEF InstallerInv, SharedInv
<1>3. \A q \in Procs \ {p} : Frame(q)
  BY <1>1, OthersFramed DEF InstallerInv
<1>4. \A q \in Procs \ {p} : View(q)'
  BY <1>2, <1>3, ViewKept DEF InstallerInv
<1> QED BY <1>2, <1>4 DEF InstallerInv

(* So does an act of the user. *)
LEMMA UserKeeps ==
  ASSUME InstallerInv, NEW fs \in SUBSET Marks, UserActs(fs), Spares(fs), SharedInv'
  PROVE  InstallerInv'
<1>1. at' \in [Procs -> Places] /\ \A q \in Procs \ {NoProc} : at'[q] = at[q]
  BY DEF InstallerInv, TypeOK, UserActs
<1>2. job' = JobsAfter(NoProc, Idle, fs) /\ NoProc \notin Procs
  BY InstallerAssumption DEF UserActs
<1>3. TypeOK'
  BY <1>1, <1>2, JobsTyped DEF InstallerInv, SharedInv
<1>4. \A q \in Procs \ {NoProc} : Frame(q)
  BY <1>1, <1>2, OthersFramed DEF InstallerInv
<1>5. \A q \in Procs \ {NoProc} : View(q)'
  BY <1>3, <1>4, ViewKept DEF InstallerInv
<1> QED BY <1>2, <1>3, <1>5 DEF InstallerInv

(* A process that is neither writing, nor removing, nor asked about a      *)
(* legacy installation has nothing to be right about but the binary an     *)
(* update replaces.                                                        *)
BlankPlaces == {"idle", "lock", "load", "swap", "swapIn", "child", "preflight", "conflict",
                "postCommit", "purge"}
SwapsRelease(l, j, d) ==
  l \in {"lock", "swap", "swapIn"} /\ j.op = "update" /\ j.stage = "first"
    => Bin \in j.touched \/ d[Bin] # User

LEMMA BlankKeeps ==
  ASSUME InstallerInv, NEW p \in Procs, NEW l \in BlankPlaces, NEW j \in Jobs,
         NEW fs \in SUBSET Marks,
         at' = [at EXCEPT ![p] = l],
         job' = JobsAfter(p, j, fs),
         Spares(fs),
         SharedInv',
         Fits(l, j), SwapsRelease(l, j, disk')
  PROVE  InstallerInv'
<1>0. l \in Places
  BY DEF BlankPlaces, Places
<1>1. at \in [Procs -> Places] /\ job \in [Procs -> Jobs]
  BY DEF InstallerInv, TypeOK
<1>2. at'[p] = l /\ job'[p] = j
  BY <1>1, JobsAfterTyped
<1>3. Control(p)' /\ ReplacesRelease(p)'
  BY <1>2 DEF Control, ReplacesRelease, SwapsRelease, Touched
<1>4. at'[p] \notin {"legacyPrompt", "write", "remove", "removeManifest"}
  BY <1>2 DEF BlankPlaces
<1>5. View(p)'
  BY <1>3, <1>4 DEF View, RemovesLegacy, Writes, Removes, Settles, Resumable, Clears, Permits,
                    Installing, Uninstalling
<1> QED BY <1>0, <1>5, StepKeeps

-----------------------------------------------------------------------------
(* Steps that change no shared file *)

LEMMA FitMeans ==
  ASSUME NEW plan, NEW d, NEW record
  PROVE  (/\ ManagedChanged(plan, d, record) = {}
          /\ ApprovedChanged(plan, d, record, NoFiles) = {}
          /\ Conflicts(plan, d, record, NoFiles) = {}
          /\ ObsoleteModified(plan, d, record) = {})
         <=> \A f \in Files :
               /\ plan[f] # Absent => d[f] \in {Absent, plan[f], record[f]}
               /\ plan[f] = Absent /\ record[f] # Absent => d[f] \in {Absent, record[f]}
<1>1. \A f \in Files : NoFiles[f] = Absent
  BY DEF NoFiles
<1> QED BY <1>1 DEF ManagedChanged, ApprovedChanged, Unrecorded, Conflicts, ObsoleteModified

LEMMA RerunMeans ==
  RerunOfUpgradeAccepted <=> (half # NoFiles => Acceptable(half, disk, manifest, settings))
BY FitMeans DEF RerunOfUpgradeAccepted, Acceptable, FilesAccepted, Sound, ManifestLoads, FilesFit,
                SettingsAccepted

LEMMA RerunMeansNext ==
  RerunOfUpgradeAccepted' <=> (half' # NoFiles => Acceptable(half', disk', manifest', settings'))
BY FitMeans DEF RerunOfUpgradeAccepted, Acceptable, FilesAccepted, Sound, ManifestLoads, FilesFit,
                SettingsAccepted

LEMMA QuietShared ==
  ASSUME InstallerInv, NEW p \in Procs, UNCHANGED <<files, manifest, settings, own>>,
         half' \in {half, NoFiles, Unfinished(p)},
         lock' \in Procs \cup {NoProc}, budget' \in Budgets
  PROVE  SharedInv' /\ Spares({})
<1> USE DEF files
<1>1. Spares({})
  BY DEF Spares, Deferred
<1>2. job[p] \in Jobs
  BY DEF InstallerInv, TypeOK
<1>3. SharedTyped'
  BY <1>2, IdleTyped DEF InstallerInv, SharedInv, SharedTyped, Unfinished, Jobs
<1>4. RerunOfUpgradeAccepted'
  <2>3. CASE half' = half
    BY <2>3, RerunMeans, RerunMeansNext DEF InstallerInv, SharedInv
  <2>4. CASE half' = NoFiles
    BY <2>4 DEF RerunOfUpgradeAccepted, NoFiles
  <2>5. CASE half' = Unfinished(p) /\ half' # half
    <3>1. /\ Installing(p) /\ job[p].approved = NoFiles /\ job[p].touched = {}
          /\ half' = job[p].plan
      BY <2>5 DEF Unfinished, Installing
    <3>2. Acceptable(job[p].plan, disk, manifest, settings)
      BY <3>1 DEF InstallerInv, View, Resumable
    <3> QED BY <3>1, <3>2, RerunMeansNext
  <2> QED BY <2>3, <2>4, <2>5
<1> QED BY <1>1, <1>3, <1>4 DEF InstallerInv, SharedInv, UserPermissionsKept

LEMMA UnlockTyped ==
  ASSUME TypeOK, NEW p \in Procs, Unlock(p)
  PROVE  lock' \in Procs \cup {NoProc}
BY DEF TypeOK, Unlock

LEMMA SameJobs ==
  ASSUME TypeOK, NEW p \in Procs, UNCHANGED job
  PROVE  job' = JobsAfter(p, job[p], {})
<1>1. job \in [Procs -> Jobs]
  BY DEF TypeOK
<1>2. Sets(p, job[p])
  BY <1>1 DEF Sets
<1> QED BY <1>1, <1>2, SetsTouchesNothing

(* An operation that ends, and one whose rehearsal ends, have nothing to   *)
(* be right about.                                                         *)
LEMMA EndsKeeps ==
  ASSUME InstallerInv, NEW p \in Procs, NEW fs \in SUBSET Marks, EndsAfter(p, fs),
         Spares(fs), SharedInv'
  PROVE  InstallerInv'
<1>1. Fits("idle", Idle) /\ SwapsRelease("idle", Idle, disk')
  BY DEF Fits, SwapsRelease, Idle
<1>2. "idle" \in BlankPlaces /\ Idle \in Jobs
  BY IdleTyped DEF BlankPlaces
<1>3. at' = [at EXCEPT ![p] = "idle"] /\ job' = JobsAfter(p, Idle, fs)
  BY DEF EndsAfter, SetsAnd
<1> QED BY <1>1, <1>2, <1>3, BlankKeeps

LEMMA ReturnsKeeps ==
  ASSUME InstallerInv, NEW p \in Procs, at[p] # "idle", NEW fs \in SUBSET Marks,
         ReturnsAfter(p, fs), Spares(fs), SharedInv'
  PROVE  InstallerInv'
<1>1. CASE job[p].stage # "cleaned"
  BY <1>1, EndsKeeps DEF ReturnsAfter
<1>2. CASE job[p].stage = "cleaned"
  <2> DEFINE again == [Idle EXCEPT !.op = job[p].op, !.version = job[p].version,
                                   !.python = job[p].python, !.source = job[p].source,
                                   !.stage = "final"]
  <2>1. job[p] \in Jobs
    BY DEF InstallerInv, TypeOK
  <2>2. /\ again \in Jobs
        /\ again.op = job[p].op /\ again.version = job[p].version /\ again.stage = "final"
    BY <2>1, IdleTyped DEF Jobs
  <2>3. Fits("lock", again) /\ SwapsRelease("lock", again, disk')
    BY <2>2 DEF InstallerInv, View, Control, Fits, SwapsRelease
  <2>4. "lock" \in BlankPlaces
    BY DEF BlankPlaces
  <2>5. at' = [at EXCEPT ![p] = "lock"] /\ job' = JobsAfter(p, again, fs)
    BY <1>2 DEF ReturnsAfter, SetsAnd
  <2> HIDE DEF again
  <2> QED BY <2>2, <2>3, <2>4, <2>5, BlankKeeps
<1> QED BY <1>1, <1>2

(* A process that only moves on, to a place where it knows nothing. *)
LEMMA MovesOn ==
  ASSUME InstallerInv, NEW p \in Procs, NEW l \in BlankPlaces, NEW j \in Jobs,
         at' = [at EXCEPT ![p] = l],
         job' = JobsAfter(p, j, {}),
         UNCHANGED <<files, manifest, settings, own>>,
         half' \in {half, NoFiles, Unfinished(p)},
         lock' \in Procs \cup {NoProc}, budget' \in Budgets,
         Fits(l, j), SwapsRelease(l, j, disk)
  PROVE  InstallerInv'
<1>1. SharedInv' /\ Spares({})
  BY QuietShared
<1>2. disk' = disk
  BY DEF files
<1> QED BY <1>1, <1>2, BlankKeeps

LEMMA EnterKeeps ==
  ASSUME InstallerInv, NEW p \in Procs, NEW j \in Jobs, Enter(p, j),
         Fits("lock", j), SwapsRelease("lock", j, disk)
  PROVE  InstallerInv'
<1>1. budget' \in Budgets
  BY DEF InstallerInv, TypeOK, Budgets, Enter
<1>2. lock' \in Procs \cup {NoProc}
  BY DEF InstallerInv, TypeOK, Enter
<1>3. job' = JobsAfter(p, j, {})
  BY SetsTouchesNothing DEF Enter, InstallerInv, TypeOK
<1>4. /\ at' = [at EXCEPT ![p] = "lock"] /\ "lock" \in BlankPlaces
      /\ UNCHANGED <<files, manifest, settings, own>> /\ half' = half
  BY DEF Enter, Goes, BlankPlaces, shared
<1> QED BY <1>1, <1>2, <1>3, <1>4, MovesOn

LEMMA RunInstallKeeps ==
  ASSUME InstallerInv, NEW p \in Procs, RunInstall(p)
  PROVE  InstallerInv'
<1>1. PICK python \in BOOLEAN, source \in {"download", "deployed"}, v \in Versions :
        Enter(p, [Idle EXCEPT !.op = "install", !.version = v, !.python = python, !.source = source])
  BY DEF RunInstall
<1> DEFINE j == [Idle EXCEPT !.op = "install", !.version = v, !.python = python, !.source = source]
<1>2. j \in Jobs /\ j.op = "install" /\ j.version = v
  BY IdleTyped DEF Jobs
<1>3. Fits("lock", j) /\ SwapsRelease("lock", j, disk)
  BY <1>2 DEF Fits, SwapsRelease
<1>4. Enter(p, j)
  BY <1>1
<1> HIDE DEF j
<1> QED BY <1>2, <1>3, <1>4, EnterKeeps

LEMMA RunUpdateKeeps ==
  ASSUME InstallerInv, NEW p \in Procs, RunUpdate(p)
  PROVE  InstallerInv'
<1>1. PICK v \in Versions, w \in Versions, python \in BOOLEAN :
        /\ disk[Bin] = Ships[v][Bin]
        /\ Enter(p, [Idle EXCEPT !.op = "update", !.version = w, !.python = python,
                                 !.source = "deployed"])
  BY DEF RunUpdate
<1> DEFINE j == [Idle EXCEPT !.op = "update", !.version = w, !.python = python, !.source = "deployed"]
<1>2. j \in Jobs /\ j.op = "update" /\ j.version = w
  BY IdleTyped DEF Jobs
<1>3. disk[Bin] # User
  BY <1>1, InstallerAssumption
<1>4. Fits("lock", j) /\ SwapsRelease("lock", j, disk)
  BY <1>2, <1>3 DEF Fits, SwapsRelease
<1>5. Enter(p, j)
  BY <1>1
<1> HIDE DEF j
<1> QED BY <1>2, <1>4, <1>5, EnterKeeps

LEMMA RunUninstallKeeps ==
  ASSUME InstallerInv, NEW p \in Procs, RunUninstall(p)
  PROVE  InstallerInv'
<1>1. PICK purge \in BOOLEAN : Enter(p, [Idle EXCEPT !.op = "uninstall", !.purge = purge])
  BY DEF RunUninstall
<1> DEFINE j == [Idle EXCEPT !.op = "uninstall", !.purge = purge]
<1>2. j \in Jobs /\ j.op = "uninstall"
  BY IdleTyped DEF Jobs
<1>3. Fits("lock", j) /\ SwapsRelease("lock", j, disk)
  BY <1>2 DEF Fits, SwapsRelease
<1>4. Enter(p, j)
  BY <1>1
<1> HIDE DEF j
<1> QED BY <1>2, <1>3, <1>4, EnterKeeps

(* The record of a process, and that it fits where the process is *)
LEMMA JobOf ==
  ASSUME InstallerInv, NEW p \in Procs
  PROVE  /\ at[p] \in Places /\ job[p] \in Jobs /\ Fits(at[p], job[p])
         /\ SwapsRelease(at[p], job[p], disk)
         /\ lock \in Procs \cup {NoProc} /\ budget \in Budgets
         /\ TypeOK
<1>1. ReplacesRelease(p) /\ Control(p)
  BY DEF InstallerInv, View
<1> QED BY <1>1 DEF InstallerInv, TypeOK, Control, ReplacesRelease, SwapsRelease, Touched

LEMMA AcquireKeeps ==
  ASSUME InstallerInv, NEW p \in Procs, Acquire(p)
  PROVE  InstallerInv'
<1> DEFINE l == CASE job[p].op = "uninstall" -> "load"
                  [] job[p].op = "update" /\ job[p].stage = "first" -> "swap"
                  [] OTHER -> "preflight"
<1>1. job' = JobsAfter(p, job[p], {})
  BY JobOf, SameJobs DEF Acquire
<1>2. at[p] = "lock" /\ at' = [at EXCEPT ![p] = l]
  BY DEF Acquire, Goes
<1>3. l \in BlankPlaces /\ Fits(l, job[p]) /\ SwapsRelease(l, job[p], disk)
  BY <1>2, JobOf DEF BlankPlaces, Fits, SwapsRelease
<1>4. /\ UNCHANGED <<files, manifest, settings, own>> /\ half' = half
      /\ lock' \in Procs \cup {NoProc} /\ budget' \in Budgets
  BY JobOf DEF Acquire, shared
<1> HIDE DEF l
<1> QED BY <1>1, <1>2, <1>3, <1>4, JobOf, MovesOn

LEMMA EndsQuietly ==
  ASSUME InstallerInv, NEW p \in Procs, Ends(p), UNCHANGED <<files, manifest, settings, own>>,
         half' \in {half, NoFiles, Unfinished(p)}, budget' \in Budgets
  PROVE  InstallerInv'
<1>1. lock' \in Procs \cup {NoProc}
  BY JobOf, UnlockTyped DEF Ends, EndsAfter
<1>2. SharedInv' /\ Spares({})
  BY <1>1, QuietShared
<1> QED BY <1>2, EndsKeeps DEF Ends

LEMMA GiveUpKeeps ==
  ASSUME InstallerInv, NEW p \in Procs,
         LockBusy(p) \/ Decline(p) \/ RefuseUninstall(p) \/ SwapRefused(p)
  PROVE  InstallerInv'
<1>1. Ends(p) /\ UNCHANGED <<files, manifest, settings, own>> /\ half' = half /\ budget' = budget
  BY DEF LockBusy, Decline, RefuseUninstall, SwapRefused, shared
<1> QED BY <1>1, JobOf, EndsQuietly

LEMMA KillKeeps ==
  ASSUME InstallerInv, NEW p \in Procs, Kill(p)
  PROVE  InstallerInv'
<1>1. budget' \in Budgets
  BY JobOf DEF Kill, Budgets
<1> QED BY <1>1, EndsQuietly DEF Kill

LEMMA ReturnsQuietly ==
  ASSUME InstallerInv, NEW p \in Procs, at[p] # "idle", Returns(p),
         UNCHANGED <<files, manifest, settings, own, budget>>,
         half' \in {half, NoFiles, Unfinished(p)}
  PROVE  InstallerInv'
<1>1. Unlock(p)
  BY DEF Returns, ReturnsAfter, EndsAfter
<1>2. lock' \in Procs \cup {NoProc} /\ budget' \in Budgets
  BY <1>1, JobOf, UnlockTyped
<1>3. SharedInv' /\ Spares({})
  BY <1>2, QuietShared
<1> QED BY <1>3, ReturnsKeeps DEF Returns

LEMMA ReturnKeeps ==
  ASSUME InstallerInv, NEW p \in Procs, PostCommit(p) \/ IoError(p)
  PROVE  InstallerInv'
<1>1. /\ at[p] # "idle" /\ Returns(p)
      /\ UNCHANGED <<files, manifest, settings, own, budget>>
      /\ half' \in {half, NoFiles, Unfinished(p)}
  BY DEF PostCommit, IoError
<1> QED BY <1>1, ReturnsQuietly

LEMMA ApproveKeeps ==
  ASSUME InstallerInv, NEW p \in Procs, ApproveOverwrites(p)
  PROVE  InstallerInv'
<1> DEFINE j == [job[p] EXCEPT !.stage = "final", !.approved = job[p].seen]
<1>1. /\ j \in Jobs /\ j.op = job[p].op /\ j.version = job[p].version /\ j.stage = "final"
  BY JobOf DEF Jobs
<1>2. at[p] = "conflict" /\ at' = [at EXCEPT ![p] = "lock"] /\ Sets(p, j)
  BY DEF ApproveOverwrites, Goes
<1> HIDE DEF j
<1>3. Fits("lock", j) /\ SwapsRelease("lock", j, disk) /\ "lock" \in BlankPlaces
  BY <1>1, <1>2, JobOf DEF Fits, SwapsRelease, BlankPlaces
<1>4. job' = JobsAfter(p, j, {})
  BY <1>2, SetsTouchesNothing DEF InstallerInv, TypeOK
<1>5. /\ UNCHANGED <<files, manifest, settings, own>> /\ half' = half
      /\ lock' \in Procs \cup {NoProc} /\ budget' \in Budgets
  BY JobOf DEF ApproveOverwrites, shared
<1> QED BY <1>1, <1>2, <1>3, <1>4, <1>5, MovesOn

LEMMA RunChildKeeps ==
  ASSUME InstallerInv, NEW p \in Procs, RunChild(p)
  PROVE  InstallerInv'
<1>1. UNCHANGED <<files, manifest, settings, own>> /\ half' = half /\ budget' \in Budgets
  BY JobOf DEF RunChild, shared
<1>2. CASE disk[Bin] # Ships[job[p].version][Bin]
  BY <1>1, <1>2, EndsQuietly DEF RunChild
<1>3. CASE disk[Bin] = Ships[job[p].version][Bin]
  <2> DEFINE j == [job[p] EXCEPT !.stage = "final"]
  <2>1. /\ j \in Jobs /\ j.op = job[p].op /\ j.version = job[p].version /\ j.stage = "final"
    BY JobOf DEF Jobs
  <2>2. at[p] = "child" /\ at' = [at EXCEPT ![p] = "lock"] /\ Sets(p, j) /\ lock' = lock
    BY <1>3 DEF RunChild
  <2> HIDE DEF j
  <2>3. Fits("lock", j) /\ SwapsRelease("lock", j, disk) /\ "lock" \in BlankPlaces
    BY <2>1, <2>2, JobOf DEF Fits, SwapsRelease, BlankPlaces
  <2>4. job' = JobsAfter(p, j, {})
    BY <2>2, SetsTouchesNothing DEF InstallerInv, TypeOK
  <2> QED BY <1>1, <2>1, <2>2, <2>3, <2>4, JobOf, MovesOn
<1> QED BY <1>2, <1>3

LEMMA Carries ==
  ASSUME NEW p \in Procs, NEW j, NEW fs
  PROVE  JobsAfter(p, j, fs)[p] = j
BY DEF JobsAfter

LEMMA InspectKeeps ==
  ASSUME InstallerInv, NEW p \in Procs, InspectLegacy(p)
  PROVE  InstallerInv'
<1> DEFINE found == {f \in Files : LegacyRecords[f] # Absent /\ disk[f] = LegacyRecords[f]}
           j == [job[p] EXCEPT !.touched = {}, !.removals = found]
<1>1. j \in Jobs /\ j.op = job[p].op /\ j.version = job[p].version /\ j.removals = found
  BY JobOf DEF Jobs
<1>a. \A f \in found : disk[f] = LegacyRecords[f]
  OBVIOUS
<1>2. at[p] = "conflict" /\ at' = [at EXCEPT ![p] = "legacyPrompt"] /\ Sets(p, j)
  BY DEF InspectLegacy, Goes
<1> HIDE DEF j, found
<1>3. job' = JobsAfter(p, j, {}) /\ "legacyPrompt" \in Places
  BY <1>2, SetsTouchesNothing DEF InstallerInv, TypeOK, Places
<1>4. at'[p] = "legacyPrompt" /\ job'[p] = j
  <2>1. at'[p] = "legacyPrompt"
    BY <1>2, JobOf DEF TypeOK
  <2>2. job'[p] = j
    BY <1>3, Carries
  <2> QED BY <2>1, <2>2
<1>5. /\ UNCHANGED <<files, manifest, settings, own>> /\ half' = half
      /\ lock' \in Procs \cup {NoProc} /\ budget' \in Budgets
  BY JobOf DEF InspectLegacy, shared
<1>6. SharedInv' /\ Spares({})
  BY <1>5, QuietShared
<1>7. Control(p)' /\ RemovesLegacy(p)'
  <2>1. Fits("legacyPrompt", j)
    BY <1>1, <1>2, JobOf DEF Fits
  <2>2. \A f \in j.removals : disk'[f] = LegacyRecords[f]
    BY <1>1, <1>a, <1>5 DEF files
  <2> QED BY <1>4, <2>1, <2>2 DEF Control, RemovesLegacy
<1>8. View(p)'
  BY <1>4, <1>7 DEF View, ReplacesRelease, Writes, Removes, Settles, Resumable, Clears, Permits,
                    Installing, Uninstalling
<1> QED BY <1>1, <1>2, <1>3, <1>6, <1>8, StepKeeps

LEMMA LoadKeeps ==
  ASSUME InstallerInv, NEW p \in Procs, LoadRecords(p)
  PROVE  InstallerInv'
<1> DEFINE found == {f \in Files : manifest.files[f] # Absent}
           j == [job[p] EXCEPT !.touched = {}, !.removals = found, !.claim = manifest.claim]
<1>0. manifest.claim \in Claims
  BY DEF InstallerInv, TypeOK, Manifests
<1>1. j \in Jobs /\ j.op = job[p].op /\ j.removals = found /\ j.claim = manifest.claim
  BY <1>0, JobOf DEF Jobs
<1>a. \A f \in Files : manifest.files[f] # Absent => f \in found
  OBVIOUS
<1>2. at[p] = "load" /\ at' = [at EXCEPT ![p] = "remove"] /\ Sets(p, j)
  BY DEF LoadRecords, Goes
<1> HIDE DEF j, found
<1>3. job' = JobsAfter(p, j, {}) /\ "remove" \in Places
  BY <1>2, SetsTouchesNothing DEF InstallerInv, TypeOK, Places
<1>4. at'[p] = "remove" /\ job'[p] = j /\ job[p].op = "uninstall"
  <2>1. at'[p] = "remove"
    BY <1>2, JobOf DEF TypeOK
  <2>2. job'[p] = j
    BY <1>3, Carries
  <2>3. job[p].op = "uninstall"
    BY <1>2, JobOf DEF Fits
  <2> QED BY <2>1, <2>2, <2>3
<1>5. /\ UNCHANGED <<files, manifest, settings, own>> /\ half' = NoFiles
      /\ lock' \in Procs \cup {NoProc} /\ budget' \in Budgets
  BY JobOf DEF LoadRecords
<1>6. SharedInv' /\ Spares({})
  BY <1>5, QuietShared
<1>7. Control(p)' /\ Clears(p)'
  <2>1. Fits("remove", j)
    BY <1>1, <1>4 DEF Fits
  <2>2. \A f \in Files : manifest'.files[f] # Absent => f \in j.removals
    BY <1>1, <1>a, <1>5
  <2> QED BY <1>4, <2>1, <2>2 DEF Control, Clears
<1>8. Permits(p)'
  BY <1>1, <1>4, <1>5 DEF InstallerInv, SharedInv, Permits
<1>9. View(p)'
  BY <1>1, <1>4, <1>7, <1>8 DEF View, ReplacesRelease, RemovesLegacy, Writes, Removes, Settles,
                                Resumable, Installing
<1> QED BY <1>1, <1>2, <1>3, <1>6, <1>9, StepKeeps

-----------------------------------------------------------------------------
(* The sweep of the deferred deletions *)

(* A file that disappears blocks no rerun. *)
LEMMA FitKept ==
  ASSUME NEW plan, NEW d, NEW e, NEW m, FilesFit(plan, d, m),
         \A f \in Files : e[f] \in {Absent, d[f], plan[f]} /\ (plan[f] = Absent => e[f] \in {Absent, d[f]})
  PROVE  FilesFit(plan, e, m)
BY DEF FilesFit

LEMMA SweepKeeps ==
  ASSUME InstallerInv, NEW p \in Procs, NEW running \in SUBSET asides, Sweeps(p, running),
         UNCHANGED <<manifest, settings, own, budget>>,
         half' \in {half, NoFiles}, lock' \in Procs \cup {NoProc}
  PROVE  /\ SharedInv'
         /\ Spares(SweptFrom("target", running))
         /\ SweptFrom("target", running) \in SUBSET Marks
         /\ SweptDisk(running) \in Placed
<1>1. /\ disk \in Placed /\ half \in Placed /\ asides \subseteq Files
      /\ pending \subseteq Residues /\ SharedTyped
  BY DEF InstallerInv, SharedInv, SharedTyped
<1>2. Swept(running) \subseteq pending
  BY DEF Swept
<1>3. SweptFrom("target", running) \subseteq Files
  BY <1>1, <1>2 DEF SweptFrom, Residues
<1>4. SweptDisk(running) \in Placed
  BY <1>1 DEF SweptDisk, Placed, Contents
<1>5. \A f \in Files : disk'[f] \in {Absent, disk[f]}
  BY DEF Sweeps, SweptDisk
<1>6. Spares(SweptFrom("target", running))
  <2>1. \A f \in Files \ SweptFrom("target", running) : disk'[f] = disk[f]
    BY DEF Sweeps, SweptDisk
  <2>2. \A f \in Files \ SweptFrom("target", running) : <<f, "target">> \notin Swept(running)
    BY DEF SweptFrom
  <2>3. \A f \in Files \ SweptFrom("target", running) : Deferred(f) => Deferred(f)'
    BY <2>2 DEF Sweeps, Deferred
  <2> QED BY <2>1, <2>3 DEF Spares
<1>7. SharedTyped'
  <2>1. asides' \subseteq Files /\ pending' \subseteq Residues
    BY <1>1 DEF Sweeps
  <2>2. disk' \in Placed /\ UNCHANGED <<bak, held, stranded>>
    BY <1>4 DEF Sweeps
  <2> QED BY <1>1, <2>1, <2>2, IdleTyped DEF SharedTyped
<1>8. RerunOfUpgradeAccepted'
  <2>1. CASE half' = NoFiles
    BY <2>1, RerunMeansNext
  <2>2. CASE half' = half /\ half # NoFiles
    <3>1. Acceptable(half, disk, manifest, settings)
      BY <2>2, RerunMeans DEF InstallerInv, SharedInv
    <3>2. FilesFit(half, disk', manifest)
      BY <1>5, <3>1, FitKept DEF Acceptable
    <3> QED BY <2>2, <3>1, <3>2, RerunMeansNext DEF Acceptable
  <2> QED BY <2>1, <2>2
<1>9. SharedInv'
  BY <1>7, <1>8 DEF InstallerInv, SharedInv, UserPermissionsKept
<1>10. SweptFrom("target", running) \in SUBSET Marks
  BY <1>3 DEF Marks
<1> QED BY <1>4, <1>6, <1>9, <1>10

LEMMA RefuseKeeps ==
  ASSUME InstallerInv, NEW p \in Procs, Refuse(p)
  PROVE  InstallerInv'
<1>1. PICK running \in SUBSET asides :
        /\ Sweeps(p, running)
        /\ ReturnsAfter(p, SweptFrom("target", running))
        /\ UNCHANGED <<manifest, settings, own, half, budget>>
  BY DEF Refuse
<1>2. Unlock(p) /\ at[p] # "idle"
  BY <1>1 DEF ReturnsAfter, EndsAfter, Sweeps
<1>3. lock' \in Procs \cup {NoProc}
  BY <1>2, JobOf, UnlockTyped
<1>4. /\ SharedInv' /\ Spares(SweptFrom("target", running))
      /\ SweptFrom("target", running) \in SUBSET Marks
  BY <1>1, <1>3, SweepKeeps
<1> QED BY <1>1, <1>2, <1>4, ReturnsKeeps

LEMMA ReportKeeps ==
  ASSUME InstallerInv, NEW p \in Procs, ReportConflicts(p)
  PROVE  InstallerInv'
<1> DEFINE conflicts(d) == Conflicts(PlanOf(job[p], d), d, manifest.files, job[p].approved)
           seen(d) == [f \in Files |-> IF f \in conflicts(d) THEN d[f] ELSE Absent]
<1>1. PICK running \in SUBSET asides :
        /\ Sweeps(p, running)
        /\ at' = [at EXCEPT ![p] = "conflict"]
        /\ SetsAnd(p, [job[p] EXCEPT !.seen = seen(SweptDisk(running))], SweptFrom("target", running))
        /\ Unlock(p)
        /\ UNCHANGED <<manifest, settings, own, half, budget>>
  BY DEF ReportConflicts
<1> DEFINE j == [job[p] EXCEPT !.seen = seen(SweptDisk(running))]
<1>2. lock' \in Procs \cup {NoProc}
  BY <1>1, JobOf, UnlockTyped
<1>3. /\ SharedInv' /\ Spares(SweptFrom("target", running))
      /\ SweptFrom("target", running) \in SUBSET Marks
      /\ SweptDisk(running) \in Placed
  BY <1>1, <1>2, SweepKeeps
<1> HIDE DEF conflicts
<1>4. seen(SweptDisk(running)) \in Placed
  BY <1>3 DEF Placed, Contents
<1>5. job' = JobsAfter(p, j, SweptFrom("target", running)) /\ at[p] = "preflight"
  BY <1>1 DEF SetsAnd, Sweeps
<1> HIDE DEF seen
<1>6. j \in Jobs /\ j.op = job[p].op /\ j.version = job[p].version
  BY <1>4, JobOf DEF Jobs
<1> HIDE DEF j
<1>7. Fits("conflict", j) /\ SwapsRelease("conflict", j, disk') /\ "conflict" \in BlankPlaces
  BY <1>5, <1>6, JobOf DEF Fits, SwapsRelease, BlankPlaces
<1> QED BY <1>1, <1>3, <1>5, <1>6, <1>7, BlankKeeps

-----------------------------------------------------------------------------
(* Steps that leave a process with nothing to be right about *)

LEMMA NoRerun ==
  ASSUME SharedTyped', half' = NoFiles, own' \cap manifest'.claim.allow = {}, UserPermissionsKept'
  PROVE  SharedInv'
BY RerunMeansNext DEF SharedInv

LEMMA Permissions ==
  ASSUME InstallerInv
  PROVE  /\ own \cap manifest.claim.allow = {} /\ (settings.ok => own \subseteq settings.allow)
         /\ SharedTyped
BY DEF InstallerInv, SharedInv, UserPermissionsKept

LEMMA GoneTyped ==
  ASSUME NEW d \in Placed, NEW gone
  PROVE  [f \in Files |-> IF f \in gone THEN Absent ELSE d[f]] \in Placed
BY DEF Placed, Contents

LEMMA ExecuteLegacyKeeps ==
  ASSUME InstallerInv, NEW p \in Procs, ExecuteLegacy(p)
  PROVE  InstallerInv'
<1> DEFINE deleted == {f \in job[p].removals : held[f] = "free"}
           j == [job[p] EXCEPT !.stage = "cleaned", !.removals = {}]
           fs == deleted \cup {"settings"}
<1>1. /\ j \in Jobs /\ j.op = job[p].op /\ j.version = job[p].version /\ j.stage = "cleaned"
      /\ job[p].removals \subseteq Files
  BY JobOf DEF Jobs
<1>2. /\ at[p] = "legacyPrompt" /\ at' = [at EXCEPT ![p] = "lock"]
      /\ job' = JobsAfter(p, j, fs)
      /\ disk' = [f \in Files |-> IF f \in deleted THEN Absent ELSE disk[f]]
      /\ settings' \in {settings, WithoutDeadHooks(settings)}
      /\ half' = NoFiles
      /\ UNCHANGED <<bak, held, asides, pending, stranded, manifest, own, lock, budget>>
  BY DEF ExecuteLegacy, Goes, SetsAnd
<1>3. fs \in SUBSET Marks /\ "settings" \in fs
  BY <1>1 DEF Marks
<1>a. \A f \in Files \ fs : disk'[f] = disk[f]
  BY <1>2
<1> HIDE DEF j, deleted
<1>4. Fits("lock", j) /\ SwapsRelease("lock", j, disk') /\ "lock" \in BlankPlaces
  BY <1>1, <1>2, JobOf DEF Fits, SwapsRelease, BlankPlaces
<1>5. Spares(fs)
  BY <1>2, <1>3, <1>a DEF Spares, Deferred
<1>6. /\ settings' \in Documents
      /\ settings'.ok = settings.ok /\ settings'.allow = settings.allow
  <2>1. settings \in Documents
    BY Permissions DEF SharedTyped
  <2> QED BY <1>2, <2>1 DEF WithoutDeadHooks, Documents
<1>7. disk' \in Placed
  BY <1>2, Permissions, GoneTyped DEF SharedTyped
<1>8. SharedTyped'
  BY <1>2, <1>6, <1>7, Permissions, IdleTyped DEF SharedTyped
<1>9. SharedInv'
  BY <1>2, <1>6, <1>8, NoRerun, Permissions DEF UserPermissionsKept
<1> HIDE DEF fs
<1> QED BY <1>1, <1>2, <1>3, <1>4, <1>5, <1>9, BlankKeeps

LEMMA CommitKeeps ==
  ASSUME InstallerInv, NEW p \in Procs, Commit(p)
  PROVE  InstallerInv'
<1> DEFINE m == [schema |-> 4, files |-> job[p].plan, claim |-> job[p].claim]
<1>1. m \in Manifests /\ m.claim = job[p].claim
  BY JobOf DEF Manifests, Jobs
<1>2. /\ at[p] = "remove" /\ job[p].op # "uninstall" /\ at' = [at EXCEPT ![p] = "postCommit"]
      /\ job' = JobsAfter(p, job[p], {"manifest"})
      /\ manifest' = m /\ half' = NoFiles
      /\ UNCHANGED <<files, settings, own, lock, budget>>
  BY DEF Commit, Goes, SetsAnd
<1> HIDE DEF m
<1>3. own \cap m.claim.allow = {}
  BY <1>1, <1>2 DEF InstallerInv, View, Permits
<1>4. SharedTyped'
  BY <1>1, <1>2, Permissions, IdleTyped DEF SharedTyped, files
<1>5. SharedInv'
  BY <1>2, <1>3, <1>4, NoRerun, Permissions DEF UserPermissionsKept
<1>6. {"manifest"} \in SUBSET Marks /\ Spares({"manifest"})
  BY <1>2 DEF Marks, Spares, files
<1>7. /\ Fits("postCommit", job[p]) /\ SwapsRelease("postCommit", job[p], disk')
      /\ "postCommit" \in BlankPlaces
  BY <1>2, JobOf DEF Fits, SwapsRelease, BlankPlaces
<1> QED BY <1>2, <1>5, <1>6, <1>7, JobOf, BlankKeeps

LEMMA RemoveManifestKeeps ==
  ASSUME InstallerInv, NEW p \in Procs, RemoveManifest(p)
  PROVE  InstallerInv'
<1>1. /\ manifest' = NoManifest /\ half' = NoFiles
      /\ UNCHANGED <<files, settings, own, budget>>
      /\ Unlock(p) /\ at[p] = "removeManifest"
  BY DEF RemoveManifest, EndsAfter
<1>2. lock' \in Procs \cup {NoProc}
  BY <1>1, JobOf, UnlockTyped
<1>3. SharedTyped'
  BY <1>1, <1>2, Permissions, IdleTyped DEF SharedTyped, files
<1>4. NoManifest.claim.allow = {}
  BY DEF NoManifest, NoClaim
<1>5. SharedInv'
  BY <1>1, <1>3, <1>4, NoRerun, Permissions DEF UserPermissionsKept
<1>6. {"manifest"} \in SUBSET Marks /\ Spares({"manifest"})
  BY <1>1 DEF Marks, Spares, files
<1>7. CASE ~job[p].purge
  BY <1>5, <1>6, <1>7, EndsKeeps DEF RemoveManifest
<1>8. CASE job[p].purge
  <2>1. at' = [at EXCEPT ![p] = "purge"] /\ job' = JobsAfter(p, job[p], {"manifest"})
    BY <1>8 DEF RemoveManifest, SetsAnd
  <2>2. Fits("purge", job[p]) /\ SwapsRelease("purge", job[p], disk') /\ "purge" \in BlankPlaces
    BY <1>1, JobOf DEF Fits, SwapsRelease, BlankPlaces
  <2> QED BY <1>5, <1>6, <2>1, <2>2, JobOf, BlankKeeps
<1> QED BY <1>7, <1>8

LEMMA PurgeKeeps ==
  ASSUME InstallerInv, NEW p \in Procs, Purge(p)
  PROVE  InstallerInv'
<1> DEFINE gone == {f \in RemyRoot : held[f] = "free"}
           fs == gone \cup {"manifest"}
<1>1. /\ at' = [at EXCEPT ![p] = "idle"] /\ job' = JobsAfter(p, Idle, fs)
      /\ disk' = [f \in Files |-> IF f \in gone THEN Absent ELSE disk[f]]
      /\ asides' = asides \ gone /\ pending' = {}
      /\ manifest' = NoManifest /\ lock' = NoProc /\ half' = NoFiles
      /\ UNCHANGED <<bak, held, stranded, settings, own, budget>>
  BY DEF Purge, SetsAnd
<1>2. fs \in SUBSET Marks /\ "manifest" \in fs
  BY InstallerAssumption DEF Marks, RemyRoot
<1>3. \A f \in Files \ fs : disk'[f] = disk[f]
  BY <1>1
<1> HIDE DEF gone
<1>4. Spares(fs)
  BY <1>1, <1>2, <1>3 DEF Spares
<1>5. disk' \in Placed
  BY <1>1, Permissions, GoneTyped DEF SharedTyped
<1>6. SharedTyped'
  BY <1>1, <1>5, Permissions, IdleTyped DEF SharedTyped
<1>7. NoManifest.claim.allow = {}
  BY DEF NoManifest, NoClaim
<1>8. SharedInv'
  BY <1>1, <1>6, <1>7, NoRerun, Permissions DEF UserPermissionsKept
<1>9. Fits("idle", Idle) /\ SwapsRelease("idle", Idle, disk') /\ "idle" \in BlankPlaces /\ Idle \in Jobs
  BY IdleTyped DEF Fits, SwapsRelease, Idle, BlankPlaces
<1> HIDE DEF fs
<1> QED BY <1>1, <1>2, <1>4, <1>8, <1>9, BlankKeeps

-----------------------------------------------------------------------------
(* Steps on one file *)

LEMMA FileChanged ==
  ASSUME InstallerInv, NEW f \in Files,
         disk' \in Placed, \A g \in Files \ {f} : disk'[g] = disk[g],
         bak' \in Placed, held' \in [Files -> HeldStates], asides' \subseteq Files,
         pending' \subseteq Residues, stranded' \subseteq Residues,
         pending \subseteq pending', stranded \subseteq stranded',
         UNCHANGED <<manifest, settings, own, budget>>,
         lock' \in Procs \cup {NoProc}, half' = NoFiles
  PROVE  /\ SharedInv'
         /\ {f} \in SUBSET Marks
         /\ Spares({f})
         /\ \A g \in Files : Deferred(g) => Deferred(g)'
<1>1. SharedTyped'
  BY Permissions, IdleTyped DEF SharedTyped
<1>2. SharedInv'
  BY <1>1, NoRerun, Permissions DEF UserPermissionsKept
<1>3. \A g \in Files : Deferred(g) => Deferred(g)'
  BY DEF Deferred
<1>4. Spares({f}) /\ {f} \in SUBSET Marks
  BY <1>3 DEF Spares, Marks
<1> QED BY <1>2, <1>3, <1>4

LEMMA Registered ==
  ASSUME SharedTyped, NEW f \in Files, NEW where \in {"target", "aside"}, Register(<<f, where>>)
  PROVE  /\ pending' \subseteq Residues /\ stranded' \subseteq Residues
         /\ pending \subseteq pending' /\ stranded \subseteq stranded'
         /\ <<f, where>> \in pending' \cup stranded'
<1>1. <<f, where>> \in Residues
  BY DEF Residues
<1> QED BY <1>1 DEF SharedTyped, Register

LEMMA FileWritten ==
  ASSUME disk \in Placed, NEW f \in Files, NEW c \in Contents, disk' = [disk EXCEPT ![f] = c]
  PROVE  /\ disk' \in Placed
         /\ disk'[f] = c
         /\ \A g \in Files \ {f} : disk'[g] = disk[g]
BY DEF Placed

LEMMA HeldFreed ==
  ASSUME SharedTyped, NEW f \in Files, held' = [held EXCEPT ![f] = "free"]
  PROVE  held' \in [Files -> HeldStates]
BY DEF SharedTyped, HeldStates

(* What a removal leaves of the file: nothing, or a registered residue *)
LEMMA Removed ==
  ASSUME SharedTyped, NEW f \in Files,
         Displace(f) \/ Remove(f)
           \/ (disk[f] = Absent /\ UNCHANGED <<disk, held, asides, pending, stranded>>)
  PROVE  /\ disk' \in Placed /\ held' \in [Files -> HeldStates] /\ asides' \subseteq Files
         /\ pending' \subseteq Residues /\ stranded' \subseteq Residues
         /\ pending \subseteq pending' /\ stranded \subseteq stranded'
         /\ \A g \in Files \ {f} : disk'[g] = disk[g]
         /\ disk'[f] \in {disk[f], Absent}
         /\ disk'[f] = Absent \/ Deferred(f)'
<1>1. disk \in Placed /\ Absent \in Contents /\ asides \subseteq Files
  BY DEF SharedTyped, Contents
<1>2. CASE Displace(f)
  <2>1. /\ disk' = [disk EXCEPT ![f] = Absent] /\ held' = [held EXCEPT ![f] = "free"]
        /\ asides' = asides \cup {f} /\ Register(<<f, "aside">>)
    BY <1>2 DEF Displace
  <2>2. /\ pending' \subseteq Residues /\ stranded' \subseteq Residues
        /\ pending \subseteq pending' /\ stranded \subseteq stranded'
    BY <2>1, Registered
  <2>3. disk' \in Placed /\ disk'[f] = Absent /\ \A g \in Files \ {f} : disk'[g] = disk[g]
    BY <1>1, <2>1, FileWritten
  <2>4. held' \in [Files -> HeldStates]
    BY <2>1, HeldFreed
  <2> QED BY <1>1, <2>1, <2>2, <2>3, <2>4
<1>3. CASE held[f] = "free" /\ disk' = [disk EXCEPT ![f] = Absent]
           /\ UNCHANGED <<held, asides, pending, stranded>>
  <2>1. disk' \in Placed /\ disk'[f] = Absent /\ \A g \in Files \ {f} : disk'[g] = disk[g]
    BY <1>1, <1>3, FileWritten
  <2> QED BY <1>3, <2>1 DEF SharedTyped
<1>4. CASE Register(<<f, "target">>) /\ UNCHANGED <<disk, held, asides>>
  <2>1. /\ pending' \subseteq Residues /\ stranded' \subseteq Residues
        /\ pending \subseteq pending' /\ stranded \subseteq stranded'
        /\ <<f, "target">> \in pending' \cup stranded'
    BY <1>4, Registered
  <2> QED BY <1>4, <2>1 DEF SharedTyped, Deferred
<1>5. CASE disk[f] = Absent /\ UNCHANGED <<disk, held, asides, pending, stranded>>
  BY <1>5 DEF SharedTyped
<1> QED BY <1>2, <1>3, <1>4, <1>5 DEF Remove

LEMMA SwapAsideKeeps ==
  ASSUME InstallerInv, NEW p \in Procs, SwapAside(p)
  PROVE  InstallerInv'
<1>0. Bin \in Files /\ Absent # User /\ SharedTyped /\ disk \in Placed /\ Absent \in Contents
  BY InstallerAssumption, Permissions DEF SharedTyped, Contents
<1>1. /\ at[p] = "swap" /\ at' = [at EXCEPT ![p] = "swapIn"]
      /\ job' = JobsAfter(p, job[p], {Bin}) /\ half' = NoFiles
      /\ UNCHANGED <<bak, manifest, settings, own, lock, budget>>
  BY DEF SwapAside, Goes, SetsAnd
<1>2. /\ disk' \in Placed /\ held' \in [Files -> HeldStates] /\ asides' \subseteq Files
      /\ pending' \subseteq Residues /\ stranded' \subseteq Residues
      /\ pending \subseteq pending' /\ stranded \subseteq stranded'
      /\ \A g \in Files \ {Bin} : disk'[g] = disk[g]
      /\ disk'[Bin] = Absent
  <2>1. CASE disk[Bin] = Absent
    BY <1>0, <2>1 DEF SwapAside, SharedTyped
  <2>2. CASE disk[Bin] # Absent
    <3>1. /\ disk' = [disk EXCEPT ![Bin] = Absent] /\ held' = [held EXCEPT ![Bin] = "free"]
          /\ asides' = asides \cup {Bin} /\ Register(<<Bin, "aside">>)
      BY <2>2 DEF SwapAside
    <3>2. /\ pending' \subseteq Residues /\ stranded' \subseteq Residues
          /\ pending \subseteq pending' /\ stranded \subseteq stranded'
      BY <1>0, <3>1, Registered
    <3>3. asides' \subseteq Files
      BY <1>0, <3>1 DEF SharedTyped
    <3>4. disk' \in Placed /\ disk'[Bin] = Absent /\ \A g \in Files \ {Bin} : disk'[g] = disk[g]
      BY <1>0, <3>1, FileWritten
    <3>5. held' \in [Files -> HeldStates]
      BY <1>0, <3>1, HeldFreed
    <3> QED BY <3>2, <3>3, <3>4, <3>5
  <2> QED BY <2>1, <2>2
<1>3. bak' \in Placed /\ lock' \in Procs \cup {NoProc}
  BY <1>0, <1>1 DEF SharedTyped
<1>4. SharedInv' /\ {Bin} \in SUBSET Marks /\ Spares({Bin})
  BY <1>0, <1>1, <1>2, <1>3, FileChanged
<1>5. Fits("swapIn", job[p]) /\ SwapsRelease("swapIn", job[p], disk') /\ "swapIn" \in BlankPlaces
  BY <1>0, <1>1, <1>2, JobOf DEF Fits, SwapsRelease, BlankPlaces
<1> QED BY <1>1, <1>4, <1>5, JobOf, BlankKeeps

LEMMA SwapInKeeps ==
  ASSUME InstallerInv, NEW p \in Procs, SwapIn(p)
  PROVE  InstallerInv'
<1> DEFINE c == Ships[job[p].version][Bin]
<1>1. /\ at[p] = "swapIn" /\ at' = [at EXCEPT ![p] = "child"]
      /\ disk' = [disk EXCEPT ![Bin] = c]
      /\ job' = JobsAfter(p, job[p], {Bin}) /\ half' = NoFiles /\ Unlock(p)
      /\ UNCHANGED <<bak, held, asides, pending, stranded, manifest, settings, own, budget>>
  BY DEF SwapIn, Goes, SetsAnd
<1>2. Bin \in Files /\ SharedTyped /\ disk \in Placed
  BY InstallerAssumption, Permissions DEF SharedTyped
<1>3. c \in Contents
  <2>1. job[p].version \in Versions
    BY <1>1, JobOf DEF Fits
  <2> QED BY <1>2, <2>1 DEF Contents
<1> HIDE DEF c
<1>4. disk' \in Placed /\ \A g \in Files \ {Bin} : disk'[g] = disk[g]
  BY <1>1, <1>2, <1>3, FileWritten
<1>5. lock' \in Procs \cup {NoProc}
  BY <1>1, JobOf, UnlockTyped
<1>6. /\ bak' \in Placed /\ held' \in [Files -> HeldStates] /\ asides' \subseteq Files
      /\ pending' \subseteq Residues /\ stranded' \subseteq Residues
      /\ pending \subseteq pending' /\ stranded \subseteq stranded'
  BY <1>1, <1>2 DEF SharedTyped
<1>7. SharedInv' /\ {Bin} \in SUBSET Marks /\ Spares({Bin})
  BY <1>1, <1>2, <1>4, <1>5, <1>6, FileChanged
<1>8. Fits("child", job[p]) /\ SwapsRelease("child", job[p], disk') /\ "child" \in BlankPlaces
  BY <1>1, JobOf DEF Fits, SwapsRelease, BlankPlaces
<1> QED BY <1>1, <1>7, <1>8, JobOf, BlankKeeps

(* A job that went on with its writes and removals *)
Continues(j, k) ==
  /\ j.op = k.op /\ j.version = k.version /\ j.python = k.python /\ j.stage = k.stage
  /\ j.approved = k.approved /\ j.plan = k.plan /\ j.merged = k.merged /\ j.claim = k.claim
  /\ j.touched = k.touched

(* The step of a process on file f: it is moved aside before it is         *)
(* written, written, or removed                                            *)
WorksOn(p, f, j) ==
  \/ /\ at[p] = "write" /\ f \in job[p].writes
     /\ j.writes = job[p].writes /\ j.removals = job[p].removals
     /\ disk'[f] \in {disk[f], Absent}
  \/ /\ at[p] = "write" /\ f \in job[p].writes
     /\ j.writes = job[p].writes \ {f} /\ j.removals = job[p].removals
     /\ disk'[f] = job[p].plan[f]
  \/ /\ at[p] = "remove" /\ f \in job[p].removals
     /\ j.writes = job[p].writes /\ j.removals = job[p].removals \ {f}
     /\ disk'[f] \in {disk[f], Absent}
     /\ disk'[f] = Absent \/ Deferred(f)'

LEMMA WorksView ==
  ASSUME InstallerInv, NEW p \in Procs, NEW f \in Files, NEW j \in Jobs,
         at'[p] = at[p], job'[p] = j, Continues(j, job[p]), WorksOn(p, f, j),
         UNCHANGED <<manifest, settings, own>>,
         \A g \in Files \ {f} : disk'[g] = disk[g],
         \A g \in Files : Deferred(g) => Deferred(g)'
  PROVE  View(p)'
<1> USE DEF Touched, Installing
<1>0. View(p) /\ job[p] \in Jobs /\ Absent # User
  BY JobOf, InstallerAssumption DEF InstallerInv
<1>1. Control(p)'
  BY JobOf DEF Control, Fits, Continues, WorksOn
<1>2. ReplacesRelease(p)' /\ RemovesLegacy(p)'
  BY DEF ReplacesRelease, RemovesLegacy, WorksOn
<1>3. Writes(p)'
  <2>1. ASSUME Installing(p), NEW g \in Files
        PROVE  /\ g \in j.writes => j.plan[g] # Absent
               /\ g \notin j.touched /\ j.plan[g] # Absent /\ g \notin j.writes => disk'[g] = j.plan[g]
               /\ g \notin j.touched /\ g \in j.writes /\ disk'[g] = User
                    => j.approved[g] # Absent \/ "manifest" \in j.touched \/ manifest.files[g] = User
    <3>1. /\ g \in job[p].writes => job[p].plan[g] # Absent
          /\ g \in job[p].removals => job[p].plan[g] = Absent
          /\ g \notin job[p].touched /\ job[p].plan[g] # Absent /\ g \notin job[p].writes
               => disk[g] = job[p].plan[g]
          /\ g \notin job[p].touched /\ g \in job[p].writes /\ disk[g] = User
               => job[p].approved[g] # Absent \/ "manifest" \in job[p].touched
                    \/ manifest.files[g] = User
      BY <1>0, <2>1 DEF View, Writes, Removes
    <3>2. CASE g = f
      BY <1>0, <3>1, <3>2 DEF Continues, WorksOn
    <3>3. CASE g # f
      BY <3>1, <3>3 DEF Continues, WorksOn
    <3> QED BY <3>2, <3>3
  <2> QED BY <2>1 DEF Writes, Continues
<1>4. Removes(p)'
  <2>1. ASSUME Installing(p), NEW g \in Files
        PROVE  /\ g \in j.removals => j.plan[g] = Absent
               /\ g \notin j.touched /\ "manifest" \notin j.touched =>
                    /\ g \in j.removals => disk'[g] \in {Absent, manifest.files[g]}
                    /\ j.plan[g] = Absent /\ manifest.files[g] # Absent
                         => g \in j.removals \/ disk'[g] = Absent \/ Deferred(g)'
    <3>1. /\ g \in job[p].writes => job[p].plan[g] # Absent
          /\ g \in job[p].removals => job[p].plan[g] = Absent
          /\ g \notin job[p].touched /\ "manifest" \notin job[p].touched =>
               /\ g \in job[p].removals => disk[g] \in {Absent, manifest.files[g]}
               /\ job[p].plan[g] = Absent /\ manifest.files[g] # Absent
                    => g \in job[p].removals \/ disk[g] = Absent \/ Deferred(g)
      BY <1>0, <2>1 DEF View, Writes, Removes
    <3>2. CASE g = f
      BY <3>1, <3>2 DEF Continues, WorksOn
    <3>3. CASE g # f
      BY <3>1, <3>3 DEF Continues, WorksOn
    <3> QED BY <3>2, <3>3
  <2> QED BY <2>1 DEF Removes, Continues
<1>5. Settles(p)'
  BY <1>0 DEF View, Settles, Continues
<1>6. Resumable(p)'
  <2>1. ASSUME Installing(p), FilesFit(job[p].plan, disk, manifest)
        PROVE  FilesFit(job[p].plan, disk', manifest)
    <3>1. f \in job[p].removals => job[p].plan[f] = Absent
      BY <1>0, <2>1 DEF View, Removes
    <3>2. f \in job[p].writes => job[p].plan[f] # Absent
      BY <1>0, <2>1 DEF View, Writes
    <3>3. \A g \in Files : /\ disk'[g] \in {Absent, disk[g], job[p].plan[g]}
                           /\ job[p].plan[g] = Absent => disk'[g] \in {Absent, disk[g]}
      BY <3>1, <3>2 DEF WorksOn
    <3> QED BY <2>1, <3>3, FitKept
  <2> QED BY <1>0, <2>1 DEF View, Resumable, Continues, Acceptable
<1>7. Clears(p)'
  BY <1>0 DEF View, Clears, Continues, WorksOn, Uninstalling
<1>8. Permits(p)'
  BY <1>0 DEF View, Permits, Continues
<1> QED BY <1>1, <1>2, <1>3, <1>4, <1>5, <1>6, <1>7, <1>8 DEF View

LEMMA Stays ==
  ASSUME TypeOK, NEW p \in Procs, UNCHANGED at
  PROVE  at' = [at EXCEPT ![p] = at[p]]
BY DEF TypeOK

LEMMA BackedUpTyped ==
  ASSUME InstallerInv, NEW p, NEW f \in Files
  PROVE  BackedUp(p, f) \in Placed
<1>1. disk \in Placed /\ bak \in Placed
  BY Permissions DEF SharedTyped
<1> QED BY <1>1 DEF BackedUp, Placed

(* A step on one file keeps the invariant. *)
LEMMA WorksKeeps ==
  ASSUME InstallerInv, NEW p \in Procs, NEW f \in Files, NEW j \in Jobs,
         UNCHANGED at, job' = JobsAfter(p, j, {f}), Continues(j, job[p]), WorksOn(p, f, j),
         UNCHANGED <<manifest, settings, own, lock, budget>>, half' = NoFiles,
         disk' \in Placed, \A g \in Files \ {f} : disk'[g] = disk[g],
         bak' \in Placed, held' \in [Files -> HeldStates], asides' \subseteq Files,
         pending' \subseteq Residues, stranded' \subseteq Residues,
         pending \subseteq pending', stranded \subseteq stranded'
  PROVE  InstallerInv'
<1>1. lock' \in Procs \cup {NoProc}
  BY JobOf
<1>2. /\ SharedInv' /\ {f} \in SUBSET Marks /\ Spares({f})
      /\ \A g \in Files : Deferred(g) => Deferred(g)'
  BY <1>1, FileChanged
<1>3. job'[p] = j
  BY Carries
<1>4. View(p)'
  BY <1>2, <1>3, WorksView
<1>5. at' = [at EXCEPT ![p] = at[p]] /\ at[p] \in Places
  BY JobOf, Stays
<1> QED BY <1>2, <1>4, <1>5, StepKeeps

LEMMA MoveAsideKeeps ==
  ASSUME InstallerInv, NEW p \in Procs, NEW f \in Files, MoveAside(p, f)
  PROVE  InstallerInv'
<1>1. /\ at[p] = "write" /\ f \in job[p].writes /\ Displace(f) /\ bak' = BackedUp(p, f)
      /\ job' = JobsAfter(p, job[p], {f}) /\ half' = NoFiles
      /\ UNCHANGED at /\ UNCHANGED <<manifest, settings, own, lock, budget>>
  BY DEF MoveAside, SetsAnd
<1>2. /\ disk' \in Placed /\ held' \in [Files -> HeldStates] /\ asides' \subseteq Files
      /\ pending' \subseteq Residues /\ stranded' \subseteq Residues
      /\ pending \subseteq pending' /\ stranded \subseteq stranded'
      /\ \A g \in Files \ {f} : disk'[g] = disk[g]
      /\ disk'[f] \in {disk[f], Absent}
  BY <1>1, Permissions, Removed
<1>3. bak' \in Placed
  BY <1>1, BackedUpTyped
<1>4. Continues(job[p], job[p]) /\ WorksOn(p, f, job[p])
  BY <1>1, <1>2 DEF Continues, WorksOn
<1> QED BY <1>1, <1>2, <1>3, <1>4, JobOf, WorksKeeps

LEMMA WriteFileKeeps ==
  ASSUME InstallerInv, NEW p \in Procs, NEW f \in Files, WriteFile(p, f)
  PROVE  InstallerInv'
<1> DEFINE j == [job[p] EXCEPT !.writes = @ \ {f}]
<1>1. /\ at[p] = "write" /\ f \in job[p].writes /\ bak' = BackedUp(p, f)
      /\ disk' = [disk EXCEPT ![f] = job[p].plan[f]]
      /\ job' = JobsAfter(p, j, {f}) /\ half' = NoFiles
      /\ UNCHANGED at /\ UNCHANGED <<manifest, settings, own, lock, budget>>
      /\ UNCHANGED <<held, asides, pending, stranded>>
  BY DEF WriteFile, SetsAnd
<1>2. /\ j \in Jobs /\ Continues(j, job[p]) /\ job[p].plan \in Placed
      /\ j.writes = job[p].writes \ {f} /\ j.removals = job[p].removals
  BY JobOf DEF Jobs, Continues
<1> HIDE DEF j
<1>3. disk \in Placed /\ job[p].plan[f] \in Contents
  BY <1>2, Permissions DEF SharedTyped, Placed
<1>4. /\ disk' \in Placed /\ disk'[f] = job[p].plan[f]
      /\ \A g \in Files \ {f} : disk'[g] = disk[g]
  BY <1>1, <1>3, FileWritten
<1>5. /\ held' \in [Files -> HeldStates] /\ asides' \subseteq Files
      /\ pending' \subseteq Residues /\ stranded' \subseteq Residues
      /\ pending \subseteq pending' /\ stranded \subseteq stranded'
  BY <1>1, Permissions DEF SharedTyped
<1>6. bak' \in Placed
  BY <1>1, BackedUpTyped
<1>7. WorksOn(p, f, j)
  BY <1>1, <1>2, <1>4 DEF WorksOn
<1> QED BY <1>1, <1>2, <1>4, <1>5, <1>6, <1>7, WorksKeeps

LEMMA RemoveFileKeeps ==
  ASSUME InstallerInv, NEW p \in Procs, NEW f \in Files, RemoveFile(p, f)
  PROVE  InstallerInv'
<1> DEFINE j == [job[p] EXCEPT !.removals = @ \ {f}]
<1>1. /\ at[p] = "remove" /\ f \in job[p].removals
      /\ job' = JobsAfter(p, j, {f}) /\ half' = NoFiles
      /\ UNCHANGED at /\ UNCHANGED <<bak, manifest, settings, own, lock, budget>>
      /\ \/ disk[f] = Absent /\ UNCHANGED <<disk, held, asides, pending, stranded>>
         \/ Remove(f)
  BY DEF RemoveFile, SetsAnd
<1>2. /\ j \in Jobs /\ Continues(j, job[p])
      /\ j.writes = job[p].writes /\ j.removals = job[p].removals \ {f}
  BY JobOf DEF Jobs, Continues
<1> HIDE DEF j
<1>3. /\ disk' \in Placed /\ held' \in [Files -> HeldStates] /\ asides' \subseteq Files
      /\ pending' \subseteq Residues /\ stranded' \subseteq Residues
      /\ pending \subseteq pending' /\ stranded \subseteq stranded'
      /\ \A g \in Files \ {f} : disk'[g] = disk[g]
      /\ disk'[f] \in {disk[f], Absent}
      /\ disk'[f] = Absent \/ Deferred(f)'
  BY <1>1, Permissions, Removed
<1>4. bak' \in Placed
  BY <1>1, Permissions DEF SharedTyped
<1>5. WorksOn(p, f, j)
  BY <1>1, <1>2, <1>3 DEF WorksOn
<1> QED BY <1>1, <1>2, <1>3, <1>4, <1>5, WorksKeeps

-----------------------------------------------------------------------------
(* settings.json *)

LEMMA MergeTyped ==
  ASSUME NEW doc \in Documents, NEW prior
  PROVE  /\ Merged(doc, prior) \in Documents /\ Merged(doc, prior).ok = doc.ok
         /\ Merged(doc, prior).hooks = (doc.hooks \ Cleared(doc, prior)) \cup Template.hooks
         /\ Merged(doc, prior).allow = doc.allow \cup Template.allow
         /\ ClaimAfter(doc, prior) \in Claims
<1>1. Template.hooks \subseteq Hooks /\ Template.allow \subseteq Allows
  BY DEF Hooks, Allows
<1>2. /\ Merged(doc, prior) \in Documents /\ Merged(doc, prior).ok = doc.ok
      /\ Merged(doc, prior).hooks = (doc.hooks \ Cleared(doc, prior)) \cup Template.hooks
      /\ Merged(doc, prior).allow = doc.allow \cup Template.allow
  BY <1>1 DEF Merged, Documents
<1>3. ClaimAfter(doc, prior) \in Claims
  BY <1>1 DEF ClaimAfter, Claims
<1> QED BY <1>2, <1>3

(* What is recorded of a merge is part of what it wrote. *)
LEMMA MergedHolds ==
  ASSUME NEW doc \in Documents, NEW prior, doc.ok
  PROVE  ClaimHolds(Merged(doc, prior), ClaimAfter(doc, prior))
BY MergeTyped DEF ClaimHolds, ClaimAfter

(* The merge of this installer's own claim can be repeated. *)
LEMMA MergeRepeats ==
  ASSUME NEW doc \in Documents, NEW prior, Mergeable(doc, prior), prior.hooks = Template.hooks
  PROVE  Mergeable(Merged(doc, prior), prior)
<1> DEFINE new == Merged(doc, prior)
<1>1. /\ new.ok = doc.ok /\ new.hooks = (doc.hooks \ Cleared(doc, prior)) \cup Template.hooks
      /\ new.allow = doc.allow \cup Template.allow
  BY MergeTyped
<1> HIDE DEF new
<1>2. ClaimHolds(new, prior)
  BY <1>1 DEF Mergeable, ClaimHolds
<1>3. ASSUME NEW h \in Modified(new, prior)
      PROVE  FALSE
  <2>1. /\ h \in new.hooks /\ h \notin Cleared(new, prior)
        /\ h[1] \in TargetSlots /\ h[2] \in {Edited} \cup BinaryCommands
    BY <1>3 DEF Modified
  <2>2. h \notin prior.hooks
    BY <2>1 DEF Cleared
  <2>3. h \in doc.hooks \ Cleared(doc, prior)
    BY <1>1, <2>1, <2>2
  <2>4. h \in Modified(doc, prior)
    BY <2>1, <2>3 DEF Modified
  <2> QED BY <2>4 DEF Mergeable
<1> QED BY <1>2, <1>3 DEF Mergeable, new

LEMMA WriteSettingsKeeps ==
  ASSUME InstallerInv, NEW p \in Procs, WriteSettings(p)
  PROVE  InstallerInv'
<1>1. /\ at[p] = "write" /\ job[p].writes = {} /\ at' = [at EXCEPT ![p] = "remove"]
      /\ job' = JobsAfter(p, job[p], {"settings"})
      /\ settings' = job[p].merged /\ half' = NoFiles
      /\ UNCHANGED <<files, manifest, own, lock, budget>>
  BY DEF WriteSettings, Goes, SetsAnd
<1>2. View(p) /\ job[p] \in Jobs /\ job[p].op # "uninstall" /\ "remove" \in Places
  BY <1>1, JobOf DEF InstallerInv, Fits, Places
<1>3. at'[p] = "remove"
  BY <1>1, JobOf DEF TypeOK
<1>4. job'[p] = job[p]
  BY <1>1, Carries
<1>5. {"settings"} \in SUBSET Marks /\ Spares({"settings"})
  BY <1>1 DEF Marks, Spares, Deferred, files
<1>6. job[p].merged \in Documents
  BY <1>2 DEF Jobs
<1>7. SharedTyped'
  BY <1>1, <1>6, Permissions, IdleTyped DEF SharedTyped, files
<1>8. own \subseteq job[p].merged.allow
  BY <1>1, <1>2 DEF View, Permits
<1>9. SharedInv'
  BY <1>1, <1>7, <1>8, NoRerun, Permissions DEF UserPermissionsKept
<1>10. View(p)'
  <2> USE <1>1, <1>2, <1>3, <1>4 DEF Installing, Touched
  <2>1. Control(p)'
    BY JobOf DEF Control, Fits
  <2>2. Writes(p)'
    BY DEF View, Writes, files
  <2>3. Removes(p)'
    BY DEF View, Removes, files, Deferred
  <2>4. Settles(p)'
    BY DEF View, Settles
  <2>5. Resumable(p)'
    BY DEF View, Resumable, files
  <2>6. Permits(p)'
    BY DEF View, Permits
  <2>7. ReplacesRelease(p)' /\ RemovesLegacy(p)' /\ Clears(p)'
    BY DEF ReplacesRelease, RemovesLegacy, Clears, Uninstalling
  <2> QED BY <2>1, <2>2, <2>3, <2>4, <2>5, <2>6, <2>7 DEF View
<1> QED BY <1>1, <1>2, <1>5, <1>9, <1>10, StepKeeps

LEMMA RemoveClaimKeeps ==
  ASSUME InstallerInv, NEW p \in Procs, RemoveClaim(p)
  PROVE  InstallerInv'
<1>1. /\ at[p] = "remove" /\ job[p].op = "uninstall" /\ job[p].removals = {}
      /\ at' = [at EXCEPT ![p] = "removeManifest"]
      /\ job' = JobsAfter(p, job[p], {"settings"})
      /\ settings' = Unclaimed(settings, job[p].claim) /\ half' = NoFiles
      /\ UNCHANGED <<files, manifest, own, lock, budget>>
  BY DEF RemoveClaim, Goes, SetsAnd
<1>2. View(p) /\ job[p] \in Jobs /\ "removeManifest" \in Places /\ settings \in Documents
  BY <1>1, JobOf, Permissions DEF InstallerInv, Places, SharedTyped
<1>3. at'[p] = "removeManifest"
  BY <1>1, JobOf DEF TypeOK
<1>4. job'[p] = job[p]
  BY <1>1, Carries
<1>5. {"settings"} \in SUBSET Marks /\ Spares({"settings"})
  BY <1>1 DEF Marks, Spares, Deferred, files
<1>6. /\ settings' \in Documents
      /\ settings'.ok => settings.ok /\ settings'.allow = settings.allow \ job[p].claim.allow
  BY <1>1, <1>2 DEF Documents, Unclaimed
<1>7. SharedTyped'
  BY <1>1, <1>6, Permissions, IdleTyped DEF SharedTyped, files
<1>8. own \cap job[p].claim.allow = {}
  BY <1>1, <1>2 DEF View, Permits
<1>9. UserPermissionsKept'
  BY <1>1, <1>6, <1>8, Permissions DEF UserPermissionsKept
<1>10. SharedInv'
  BY <1>1, <1>7, <1>9, NoRerun, Permissions
<1>11. View(p)'
  <2> USE <1>1, <1>2, <1>3, <1>4 DEF Installing, Touched
  <2>1. Control(p)'
    BY JobOf DEF Control, Fits
  <2>2. Clears(p)'
    BY DEF View, Clears, files, Deferred, Uninstalling
  <2> QED BY <2>1, <2>2 DEF View, ReplacesRelease, RemovesLegacy, Writes, Removes, Settles, Resumable,
                            Permits
<1> QED BY <1>1, <1>2, <1>5, <1>10, <1>11, StepKeeps

-----------------------------------------------------------------------------
(* The preflight that accepts *)

LEMMA PlanTyped ==
  ASSUME NEW j \in Jobs, j.version \in Versions, NEW d \in Placed
  PROVE  PlanOf(j, d) \in Placed /\ (j.python => PlanOf(j, d)[Desc] = DescContent)
<1>1. Bin \in Files /\ Desc \in Files /\ Bin # Desc
  BY InstallerAssumption
<1>2. \A f \in Files : Ships[j.version][f] \in Contents
  BY DEF Contents
<1>3. d[Bin] \in Contents /\ Absent \in Contents /\ DescContent \in Contents
  BY <1>1 DEF Placed, Contents
<1>4. PlannedDescriptor(j) \in Contents
  BY <1>3 DEF PlannedDescriptor
<1>5. PlannedBinary(j, d) \in Contents
  BY <1>1, <1>2, <1>3 DEF PlannedBinary
<1>6. \A f \in Files : PlannedContents(j, f) \in Contents
  BY <1>2 DEF PlannedContents
<1>7. PlanOf(j, d) \in Placed
  BY <1>4, <1>5, <1>6 DEF PlanOf, Placed
<1>8. j.python => PlanOf(j, d)[Desc] = DescContent
  BY <1>1 DEF PlanOf, PlannedDescriptor
<1> QED BY <1>7, <1>8

(* What an accepted plan says of each path *)
LEMMA AcceptedMeans ==
  ASSUME NEW plan, NEW d, NEW approved, FilesAccepted(plan, d, approved), NEW f \in Files
  PROVE  /\ plan[f] # Absent /\ d[f] \notin {Absent, plan[f]}
              => approved[f] # Absent \/ (manifest.files[f] # Absent /\ d[f] = manifest.files[f])
         /\ plan[f] = Absent /\ manifest.files[f] # Absent => d[f] \in {Absent, manifest.files[f]}
BY DEF FilesAccepted, Sound, ManagedChanged, Conflicts, Unrecorded, ObsoleteModified

LEMMA AcceptKeeps ==
  ASSUME InstallerInv, NEW p \in Procs, Accept(p)
  PROVE  InstallerInv'
<1>1. PICK running \in SUBSET asides :
        /\ Sweeps(p, running)
        /\ FilesAccepted(PlanOf(job[p], SweptDisk(running)), SweptDisk(running), job[p].approved)
        /\ SettingsAccepted
        /\ at' = [at EXCEPT ![p] = "write"]
        /\ SetsAnd(p, [job[p] EXCEPT
             !.touched = {},
             !.plan = PlanOf(job[p], SweptDisk(running)),
             !.seen = SweptDisk(running),
             !.writes = {f \in Files : PlanOf(job[p], SweptDisk(running))[f]
                                         \notin {Absent, SweptDisk(running)[f]}},
             !.removals = {f \in Files : /\ PlanOf(job[p], SweptDisk(running))[f] = Absent
                                         /\ manifest.files[f] # Absent
                                         /\ SweptDisk(running)[f] = manifest.files[f]},
             !.merged = Merged(settings, manifest.claim),
             !.claim = ClaimAfter(settings, manifest.claim)], SweptFrom("target", running))
        /\ half' = NoFiles
        /\ UNCHANGED <<manifest, settings, own, lock, budget>>
  BY DEF Accept
<1> DEFINE d == SweptDisk(running)
           plan == PlanOf(job[p], d)
           new == Merged(settings, manifest.claim)
           claim == ClaimAfter(settings, manifest.claim)
           writes == {f \in Files : plan[f] \notin {Absent, d[f]}}
           removals == {f \in Files : /\ plan[f] = Absent /\ manifest.files[f] # Absent
                                      /\ d[f] = manifest.files[f]}
           j == [job[p] EXCEPT !.touched = {}, !.plan = plan, !.seen = d, !.writes = writes,
                               !.removals = removals, !.merged = new, !.claim = claim]
           fs == SweptFrom("target", running)
<1>2. /\ at' = [at EXCEPT ![p] = "write"] /\ job' = JobsAfter(p, j, fs)
      /\ at[p] = "preflight" /\ disk' = d /\ manifest' = manifest /\ settings' = settings /\ own' = own
  BY <1>1 DEF SetsAnd, Sweeps
<1>3. SharedInv' /\ Spares(fs) /\ fs \in SUBSET Marks /\ d \in Placed
  BY <1>1, JobOf, SweepKeeps
<1>4. job[p] \in Jobs /\ job[p].op # "uninstall" /\ job[p].version \in Versions /\ "write" \in Places
  BY <1>2, JobOf DEF Fits, Places
<1>5. plan \in Placed /\ (job[p].python => plan[Desc] = DescContent)
  BY <1>3, <1>4, PlanTyped
<1>6. settings \in Documents /\ new \in Documents /\ claim \in Claims
  BY Permissions, MergeTyped DEF SharedTyped
<1>w. \A f \in Files : f \in writes <=> plan[f] \notin {Absent, d[f]}
  OBVIOUS
<1>r. \A f \in Files : f \in removals <=> /\ plan[f] = Absent /\ manifest.files[f] # Absent
                                          /\ d[f] = manifest.files[f]
  OBVIOUS
<1>s. writes \in SUBSET Files /\ removals \in SUBSET Files
  OBVIOUS
<1>a. FilesAccepted(plan, d, job[p].approved) /\ Mergeable(settings, manifest.claim)
  BY <1>1 DEF SettingsAccepted
<1> HIDE DEF d, plan, new, claim, writes, removals, fs
<1>7. /\ j \in Jobs
      /\ j.op = job[p].op /\ j.version = job[p].version /\ j.python = job[p].python
      /\ j.approved = job[p].approved /\ j.touched = {} /\ j.plan = plan /\ j.writes = writes
      /\ j.removals = removals /\ j.merged = new /\ j.claim = claim
  BY <1>3, <1>4, <1>5, <1>6, <1>s DEF Jobs
<1> HIDE DEF j
<1>8. at'[p] = "write"
  BY <1>2, JobOf DEF TypeOK
<1>9. job'[p] = j
  BY <1>2, Carries
<1>10. Control(p)'
  BY <1>4, <1>7, <1>8, <1>9, <1>2, JobOf DEF Control, Fits
<1>11. Writes(p)'
  <2>1. ASSUME NEW f \in Files, f \in writes, d[f] = User
        PROVE  job[p].approved[f] # Absent \/ manifest.files[f] = User
    BY <1>w, <1>a, <2>1, AcceptedMeans, InstallerAssumption
  <2> QED BY <1>w, <1>2, <1>7, <1>9, <2>1 DEF Writes
<1>12. Removes(p)'
  <2>1. ASSUME NEW f \in Files, plan[f] = Absent, manifest.files[f] # Absent
        PROVE  f \in removals \/ d[f] = Absent
    BY <1>r, <1>a, <2>1, AcceptedMeans
  <2> QED BY <1>r, <1>2, <1>7, <1>9, <2>1 DEF Removes
<1>13. Settles(p)'
  <2>1. settings.ok
    BY <1>a DEF Mergeable, ClaimHolds
  <2>2. ClaimHolds(new, claim)
    BY <1>6, <2>1, MergedHolds DEF new, claim
  <2> QED BY <1>5, <1>7, <1>8, <1>9, <2>2 DEF Settles
<1>14. Resumable(p)'
  <2>1. ASSUME job[p].approved = NoFiles
        PROVE  /\ Acceptable(plan, d, manifest, settings)
               /\ Acceptable(plan, d, manifest, new)
    <3>1. FilesFit(plan, d, manifest)
      BY <1>a, <2>1, FitMeans DEF FilesAccepted, Sound, ManifestLoads, FilesFit
    <3>2. manifest.claim.hooks = Template.hooks => Mergeable(new, manifest.claim)
      BY <1>a, <1>6, MergeRepeats DEF new
    <3> QED BY <1>a, <3>1, <3>2 DEF Acceptable
  <2> QED BY <1>2, <1>7, <1>8, <1>9, <2>1 DEF Resumable
<1>15. Permits(p)'
  <2>1. own \cap manifest.claim.allow = {} /\ own \subseteq settings.allow
    BY <1>a, Permissions DEF Mergeable, ClaimHolds
  <2>2. own \cap claim.allow = {}
    BY <2>1 DEF claim, ClaimAfter
  <2>3. own \subseteq new.allow
    BY <1>6, <2>1, MergeTyped DEF new
  <2> QED BY <1>2, <1>7, <1>9, <2>2, <2>3 DEF Permits
<1>16. ReplacesRelease(p)' /\ RemovesLegacy(p)' /\ Clears(p)'
  BY <1>8 DEF ReplacesRelease, RemovesLegacy, Clears, Uninstalling
<1>17. View(p)'
  BY <1>10, <1>11, <1>12, <1>13, <1>14, <1>15, <1>16 DEF View
<1> QED BY <1>2, <1>3, <1>4, <1>7, <1>17, StepKeeps

-----------------------------------------------------------------------------
(* The user *)

LEMMA UserEditsKeeps ==
  ASSUME InstallerInv, NEW f \in Files, UserEdits(f)
  PROVE  InstallerInv'
<1>1. PICK c \in {Absent, User} : disk' = [disk EXCEPT ![f] = c]
  BY DEF UserEdits
<1>2. /\ UserActs({f}) /\ half' = NoFiles
      /\ UNCHANGED <<bak, held, asides, pending, stranded, manifest, settings, own, lock>>
      /\ budget' = [budget EXCEPT !.user = @ + 1]
  BY DEF UserEdits, UserActs
<1>3. c \in Contents /\ disk \in Placed /\ SharedTyped
  BY <1>1, Permissions DEF Contents, SharedTyped
<1>4. disk' \in Placed /\ \A g \in Files \ {f} : disk'[g] = disk[g]
  BY <1>1, <1>3, FileWritten
<1>5. budget' \in Budgets
  BY <1>2, <1>3 DEF Budgets, SharedTyped
<1>6. SharedTyped'
  BY <1>2, <1>3, <1>4, <1>5, IdleTyped DEF SharedTyped
<1>7. SharedInv'
  BY <1>2, <1>6, NoRerun, Permissions DEF UserPermissionsKept
<1>8. Spares({f}) /\ {f} \in SUBSET Marks
  BY <1>2, <1>4 DEF Spares, Deferred, Marks
<1> QED BY <1>2, <1>7, <1>8, UserKeeps

LEMMA UserHoldsKeeps ==
  ASSUME InstallerInv, NEW f \in Files, UserHolds(f)
  PROVE  InstallerInv'
<1>1. PICK h \in HeldStates : held' = [held EXCEPT ![f] = h]
  BY DEF UserHolds, HeldStates
<1>2. /\ UserActs({}) /\ UNCHANGED half
      /\ UNCHANGED <<disk, bak, asides, pending, stranded, manifest, settings, own, lock>>
      /\ budget' = [budget EXCEPT !.user = @ + 1]
  BY DEF UserHolds, UserActs
<1>3. SharedTyped
  BY Permissions
<1>4. held' \in [Files -> HeldStates]
  BY <1>1, <1>3 DEF SharedTyped
<1>5. budget' \in Budgets
  BY <1>2, <1>3 DEF Budgets, SharedTyped
<1>6. SharedTyped'
  BY <1>2, <1>3, <1>4, <1>5 DEF SharedTyped
<1>7. RerunOfUpgradeAccepted'
  BY <1>2, RerunMeans, RerunMeansNext DEF InstallerInv, SharedInv
<1>8. SharedInv'
  BY <1>2, <1>6, <1>7, Permissions DEF SharedInv, UserPermissionsKept
<1>9. Spares({}) /\ {} \in SUBSET Marks
  BY <1>2 DEF Spares, Deferred
<1> QED BY <1>2, <1>8, <1>9, UserKeeps

LEMMA UserConfiguresKeeps ==
  ASSUME InstallerInv, UserConfigures
  PROVE  InstallerInv'
<1>1. /\ settings.ok /\ half' = NoFiles /\ UserActs({"settings"})
      /\ UNCHANGED <<disk, bak, held, asides, pending, stranded, manifest, lock>>
      /\ budget' = [budget EXCEPT !.user = @ + 1]
  BY DEF UserConfigures, UserActs
<1>2. SharedTyped /\ settings \in Documents /\ own \subseteq Allows /\ own \subseteq settings.allow
  BY <1>1, Permissions DEF SharedTyped
<1>3. /\ settings' \in Documents /\ own' \subseteq Allows
      /\ own' \subseteq settings'.allow
      /\ own' \cap manifest.claim.allow = {}
      /\ \A q \in Procs : at[q] # "idle" => own' \subseteq own
  <2>1. CASE \E h \in UserHooks :
               settings' = [settings EXCEPT !.hooks = Toggled(@, h)] /\ UNCHANGED own
    <3>1. PICK h \in UserHooks :
            settings' = [settings EXCEPT !.hooks = Toggled(@, h)] /\ UNCHANGED own
      BY <2>1
    <3>2. h \in Hooks
      BY DEF Hooks
    <3>3. settings' \in Documents /\ settings'.allow = settings.allow
      BY <1>2, <3>1, <3>2 DEF Documents, Toggled
    <3> QED BY <1>2, <3>1, <3>3, Permissions
  <2>2. CASE \E a \in UserAllows :
               /\ settings' = [settings EXCEPT !.allow = Toggled(@, a)]
               /\ own' = IF a \in settings.allow THEN own \ {a}
                         ELSE IF a \in manifest.claim.allow \/ \E p \in Procs : at[p] # "idle"
                           THEN own ELSE own \cup {a}
    <3>1. PICK a \in UserAllows :
            /\ settings' = [settings EXCEPT !.allow = Toggled(@, a)]
            /\ own' = IF a \in settings.allow THEN own \ {a}
                      ELSE IF a \in manifest.claim.allow \/ \E p \in Procs : at[p] # "idle"
                        THEN own ELSE own \cup {a}
      BY <2>2
    <3>2. a \in Allows
      BY DEF Allows
    <3>3. settings' \in Documents /\ settings'.allow = Toggled(settings.allow, a)
      BY <1>2, <3>1, <3>2 DEF Documents, Toggled
    <3> QED BY <1>2, <3>1, <3>2, <3>3, Permissions DEF Toggled
  <2> QED BY <2>1, <2>2 DEF UserConfigures
<1>4. budget' \in Budgets
  BY <1>1, <1>2 DEF Budgets, SharedTyped
<1>5. SharedTyped'
  BY <1>1, <1>2, <1>3, <1>4, IdleTyped DEF SharedTyped
<1>6. SharedInv'
  BY <1>1, <1>3, <1>5, NoRerun DEF UserPermissionsKept
<1>7. Spares({"settings"}) /\ {"settings"} \in SUBSET Marks
  BY <1>1, <1>3 DEF Spares, Deferred, Marks
<1> QED BY <1>1, <1>6, <1>7, UserKeeps

-----------------------------------------------------------------------------
(* The invariant *)

LEMMA InitInv == Init => InstallerInv
<1> SUFFICES ASSUME Init PROVE InstallerInv
  OBVIOUS
<1>1. PICK s \in InitialStates :
        /\ disk = s.disk /\ held = s.held /\ manifest = s.manifest /\ settings = s.settings
        /\ own = s.settings.allow \ s.manifest.claim.allow /\ budget = s.budget
  BY DEF Init
<1>2. SharedTyped
  <2>1. own \subseteq Allows
    BY <1>1, InitialAssumption DEF Documents
  <2>2. lock \in Procs \cup {NoProc} /\ asides = {} /\ pending = {} /\ stranded = {}
    BY DEF Init
  <2>3. bak \in Placed /\ half \in Placed
    BY IdleTyped DEF Init
  <2> QED BY <1>1, <2>1, <2>2, <2>3, InitialAssumption DEF SharedTyped
<1>3. TypeOK
  <2>1. at \in [Procs -> Places]
    BY DEF Init, Places
  <2>2. job \in [Procs -> Jobs]
    BY IdleTyped DEF Init
  <2> QED BY <1>2, <2>1, <2>2 DEF TypeOK, SharedTyped
<1>4. RerunOfUpgradeAccepted
  BY RerunMeans DEF Init
<1>5. SharedInv
  BY <1>1, <1>2, <1>4 DEF SharedInv, UserPermissionsKept
<1>6. ASSUME NEW q \in Procs
      PROVE  View(q)
  <2>1. at[q] = "idle" /\ job[q] = Idle /\ Idle.op = "none"
    BY DEF Init, Idle
  <2>2. Control(q)
    BY <2>1 DEF Control, Fits
  <2> QED BY <2>1, <2>2 DEF View, ReplacesRelease, RemovesLegacy, Writes, Removes, Settles, Resumable,
                            Clears, Permits, Installing, Uninstalling
<1> QED BY <1>3, <1>5, <1>6 DEF InstallerInv

LEMMA StutterInv ==
  ASSUME InstallerInv, UNCHANGED vars
  PROVE  InstallerInv'
<1> USE DEF vars, shared, files
<1>1. TypeOK'
  BY DEF InstallerInv, TypeOK
<1>2. RerunOfUpgradeAccepted'
  BY RerunMeans, RerunMeansNext DEF InstallerInv, SharedInv
<1>3. SharedInv'
  BY <1>2 DEF InstallerInv, SharedInv, SharedTyped, UserPermissionsKept
<1>4. ASSUME NEW q \in Procs
      PROVE  View(q)'
  <2>1. Frame(q)
    BY DEF Frame, SameJob, Deferred
  <2> QED BY <1>1, <2>1, ViewKept DEF InstallerInv
<1> QED BY <1>1, <1>3, <1>4 DEF InstallerInv

LEMMA NextInv ==
  ASSUME InstallerInv, [Next]_vars
  PROVE  InstallerInv'
<1>1. CASE UNCHANGED vars
  BY <1>1, StutterInv
<1>2. ASSUME NEW p \in Procs, Step(p)
      PROVE  InstallerInv'
  <2>1. CASE RunInstall(p) \/ RunUpdate(p) \/ RunUninstall(p)
    BY <2>1, RunInstallKeeps, RunUpdateKeeps, RunUninstallKeeps
  <2>2. CASE Acquire(p)
    BY <2>2, AcquireKeeps
  <2>3. CASE LockBusy(p) \/ Decline(p) \/ RefuseUninstall(p) \/ SwapRefused(p)
    BY <2>3, GiveUpKeeps
  <2>4. CASE Accept(p)
    BY <2>4, AcceptKeeps
  <2>5. CASE Refuse(p) \/ ReportConflicts(p)
    BY <2>5, RefuseKeeps, ReportKeeps
  <2>6. CASE InspectLegacy(p) \/ ExecuteLegacy(p) \/ ApproveOverwrites(p)
    BY <2>6, InspectKeeps, ExecuteLegacyKeeps, ApproveKeeps
  <2>7. CASE \E f \in Files : MoveAside(p, f) \/ WriteFile(p, f) \/ RemoveFile(p, f)
    BY <2>7, MoveAsideKeeps, WriteFileKeeps, RemoveFileKeeps
  <2>8. CASE WriteSettings(p) \/ Commit(p)
    BY <2>8, WriteSettingsKeeps, CommitKeeps
  <2>9. CASE PostCommit(p) \/ IoError(p)
    BY <2>9, ReturnKeeps
  <2>10. CASE LoadRecords(p) \/ RemoveClaim(p) \/ RemoveManifest(p) \/ Purge(p)
    BY <2>10, LoadKeeps, RemoveClaimKeeps, RemoveManifestKeeps, PurgeKeeps
  <2>11. CASE SwapAside(p) \/ SwapIn(p) \/ RunChild(p)
    BY <2>11, SwapAsideKeeps, SwapInKeeps, RunChildKeeps
  <2>12. CASE Kill(p)
    BY <2>12, KillKeeps
  <2> QED BY <1>2, <2>1, <2>2, <2>3, <2>4, <2>5, <2>6, <2>7, <2>8, <2>9, <2>10, <2>11, <2>12 DEF Step
<1>3. CASE \E f \in Files : UserEdits(f) \/ UserHolds(f)
  BY <1>3, UserEditsKeeps, UserHoldsKeeps
<1>4. CASE UserConfigures
  BY <1>4, UserConfiguresKeeps
<1> QED BY <1>1, <1>2, <1>3, <1>4 DEF Next

(* What every process knows of the files nobody else touched, and what the *)
(* shared files promise, at any number of processes, operations, acts of   *)
(* the user and kills.                                                     *)
THEOREM InstallerInvariant == Spec => []InstallerInv
<1>1. Init => InstallerInv
  BY InitInv
<1>2. InstallerInv /\ [Next]_vars => InstallerInv'
  BY NextInv
<1> QED BY <1>1, <1>2, PTL DEF Spec

(* Managed paths, register, manifest, settings and processes keep their    *)
(* types in every run of the installer.                                    *)
THEOREM InstallerTyped == Spec => []TypeOK
<1>1. InstallerInv => TypeOK
  BY DEF InstallerInv
<1> QED BY <1>1, InstallerInvariant, PTL

(* A permission the user granted himself survives every merge of           *)
(* settings.json and every removal of a claim, also when two installers    *)
(* overlap after a purge.                                                  *)
THEOREM PermissionsCorrect == Spec => []UserPermissionsKept
<1>1. InstallerInv => UserPermissionsKept
  BY DEF InstallerInv, SharedInv
<1> QED BY <1>1, InstallerInvariant, PTL

(* An install that was killed or failed before its commit, with nothing    *)
(* happening since, can be run again: the preflight accepts the half       *)
(* written files, and the settings when the manifest claims these hooks.   *)
THEOREM RerunCorrect == Spec => []RerunOfUpgradeAccepted
<1>1. InstallerInv => RerunOfUpgradeAccepted
  BY DEF InstallerInv, SharedInv
<1> QED BY <1>1, InstallerInvariant, PTL

-----------------------------------------------------------------------------
(* What a commit and the end of an uninstall leave behind *)

LEMMA CommitMatches ==
  ASSUME InstallerInv, NEW p \in Procs, Commit(p)
  PROVE  /\ VerifyIssues' \subseteq job[p].touched \cup Excused(p)
         /\ "manifest" \in job[p].touched \/ \A f \in Files \ job[p].touched :
              manifest.files[f] # Absent /\ job[p].plan[f] = Absent => disk[f] = Absent \/ Deferred(f)
<1>1. /\ at[p] = "remove" /\ job[p].op # "uninstall" /\ job[p].removals = {}
      /\ manifest' = [schema |-> 4, files |-> job[p].plan, claim |-> job[p].claim]
      /\ disk' = disk /\ settings' = settings
  BY DEF Commit, Goes, files
<1>2. View(p) /\ Installing(p) /\ job[p].writes = {}
  BY <1>1, JobOf DEF InstallerInv, Installing, Fits
<1>3. manifest'.schema = 4 /\ manifest'.files = job[p].plan /\ manifest'.claim = job[p].claim
  BY <1>1
<1>4. \A f \in Files : f \notin job[p].touched /\ job[p].plan[f] # Absent => disk[f] = job[p].plan[f]
  BY <1>2 DEF View, Writes, Touched
<1>5. "settings" \notin job[p].touched => ClaimHolds(settings, job[p].claim)
  BY <1>1, <1>2 DEF View, Settles, Touched
<1>6. job[p].python /\ Desc \notin job[p].touched => disk[Desc] = DescContent
  <2>1. job[p].python => job[p].plan[Desc] = DescContent
    BY <1>2 DEF View, Settles
  <2>2. Desc \in Files /\ DescContent # Absent
    BY InstallerAssumption
  <2> QED BY <1>4, <2>1, <2>2
<1>7. ASSUME NEW x \in VerifyIssues'
      PROVE  x \in job[p].touched \cup Excused(p)
  <2>1. CASE x \in Files /\ manifest'.files[x] \notin {Absent, disk'[x]}
    BY <1>1, <1>3, <1>4, <2>1
  <2>2. CASE x = "settings" /\ ~ClaimHolds(settings', manifest'.claim)
    BY <1>1, <1>3, <1>5, <2>2
  <2>3. CASE x = "descriptor" /\ disk'[Desc] # DescContent
    BY <1>1, <1>6, <2>3 DEF Excused
  <2> QED BY <1>3, <1>7, <2>1, <2>2, <2>3 DEF VerifyIssues
<1>8. "manifest" \in job[p].touched \/ \A f \in Files \ job[p].touched :
        manifest.files[f] # Absent /\ job[p].plan[f] = Absent => disk[f] = Absent \/ Deferred(f)
  BY <1>1, <1>2 DEF View, Removes, Touched
<1> QED BY <1>7, <1>8

LEMMA UninstallMatches ==
  ASSUME InstallerInv, NEW p \in Procs, RemoveManifest(p)
  PROVE  \/ "manifest" \in job[p].touched
         \/ \A f \in Files \ job[p].touched :
              manifest.files[f] = Absent \/ disk[f] = Absent \/ Deferred(f)
<1>1. View(p) /\ Uninstalling(p) /\ job[p].removals = {}
  BY JobOf DEF InstallerInv, Uninstalling, Fits, RemoveManifest
<1> QED BY <1>1 DEF View, Clears, Touched

(* After a commit verify finds nothing but what others touched, and what   *)
(* an install or uninstall stops managing is gone or registered.           *)
THEOREM SuccessCorrect == Spec => SuccessMatchesDisk
<1>1. InstallerInv => \A p \in Procs :
        /\ Commit(p) =>
             /\ VerifyIssues' \subseteq job[p].touched \cup Excused(p)
             /\ "manifest" \in job[p].touched \/ \A f \in Files \ job[p].touched :
                  manifest.files[f] # Absent /\ job[p].plan[f] = Absent
                    => disk[f] = Absent \/ Deferred(f)
        /\ RemoveManifest(p) =>
             \/ "manifest" \in job[p].touched
             \/ \A f \in Files \ job[p].touched :
                  manifest.files[f] = Absent \/ disk[f] = Absent \/ Deferred(f)
  BY CommitMatches, UninstallMatches
<1> QED BY <1>1, InstallerInvariant, PTL DEF SuccessMatchesDisk

-----------------------------------------------------------------------------
(* What happens to bytes of the user *)

(* The excuses of a step that loses them *)
Answers(f) ==
  \/ bak'[f] = User
  \/ <<f, "target">> \in pending \/ manifest.files[f] = User
  \/ \E p \in Procs : /\ at[p] # "idle"
                      /\ {f, "manifest"} \cap job[p].touched # {} \/ job[p].op = "uninstall"

LEMMA SweepAnswers ==
  ASSUME InstallerInv, NEW p \in Procs, NEW running \in SUBSET asides, Sweeps(p, running),
         NEW f \in Files, disk'[f] # disk[f]
  PROVE  Answers(f)
<1>1. f \in SweptFrom("target", running)
  BY DEF Sweeps, SweptDisk
<1>2. PICK r \in pending : r[1] = f /\ r[2] = "target"
  BY <1>1 DEF SweptFrom, Swept
<1>3. r \in Residues
  BY Permissions DEF SharedTyped
<1>4. r = <<f, "target">>
  BY <1>2, <1>3 DEF Residues
<1> QED BY <1>2, <1>4 DEF Answers

LEMMA WorkAnswers ==
  ASSUME InstallerInv, NEW p \in Procs, NEW g \in Files,
         MoveAside(p, g) \/ WriteFile(p, g) \/ RemoveFile(p, g),
         NEW f \in Files, disk[f] = User, disk'[f] # User
  PROVE  Answers(f)
<1>1. View(p) /\ job[p] \in Jobs /\ SharedTyped /\ Absent # User /\ disk \in Placed /\ bak \in Placed
  BY JobOf, Permissions, InstallerAssumption DEF InstallerInv, SharedTyped
<1>2. f = g
  <2>1. CASE MoveAside(p, g) \/ RemoveFile(p, g)
    <3>1. Displace(g) \/ Remove(g)
            \/ (disk[g] = Absent /\ UNCHANGED <<disk, held, asides, pending, stranded>>)
      BY <2>1 DEF MoveAside, RemoveFile
    <3>2. \A h \in Files \ {g} : disk'[h] = disk[h]
      BY <1>1, <3>1, Removed
    <3> QED BY <3>2
  <2>2. CASE WriteFile(p, g)
    BY <1>1, <2>2 DEF WriteFile, Placed
  <2> QED BY <2>1, <2>2
<1>3. CASE MoveAside(p, g) \/ WriteFile(p, g)
  <2>1. at[p] = "write" /\ f \in job[p].writes /\ bak' = BackedUp(p, f)
    BY <1>2, <1>3 DEF MoveAside, WriteFile
  <2>2. Installing(p)
    BY <2>1, JobOf DEF Installing, Fits
  <2>3. \/ f \in job[p].touched \/ "manifest" \in job[p].touched
        \/ job[p].approved[f] # Absent \/ manifest.files[f] = User
    BY <1>1, <2>1, <2>2 DEF View, Writes, Touched
  <2>4. job[p].approved[f] # Absent => bak'[f] = User
    BY <1>1, <2>1 DEF BackedUp, Placed
  <2> QED BY <2>1, <2>3, <2>4 DEF Answers
<1>4. CASE RemoveFile(p, g)
  <2>1. at[p] = "remove" /\ f \in job[p].removals
    BY <1>2, <1>4 DEF RemoveFile
  <2>2. CASE job[p].op = "uninstall"
    BY <2>1, <2>2 DEF Answers
  <2>3. CASE job[p].op # "uninstall"
    <3>1. Installing(p)
      BY <2>1, <2>3 DEF Installing
    <3>2. \/ f \in job[p].touched \/ "manifest" \in job[p].touched
          \/ disk[f] \in {Absent, manifest.files[f]}
      BY <1>1, <2>1, <3>1 DEF View, Removes, Touched
    <3> QED BY <1>1, <2>1, <3>2 DEF Answers
  <2> QED BY <2>2, <2>3
<1> QED BY <1>3, <1>4

LEMMA SwapAnswers ==
  ASSUME InstallerInv, NEW p \in Procs, SwapAside(p) \/ SwapIn(p),
         NEW f \in Files, disk[f] = User, disk'[f] # User
  PROVE  Answers(f)
<1>1. disk \in Placed /\ Bin \in Files
  BY Permissions, InstallerAssumption DEF SharedTyped
<1>2. f = Bin
  BY <1>1 DEF SwapAside, SwapIn, Placed
<1>3. at[p] \in {"swap", "swapIn"}
  BY DEF SwapAside, SwapIn, Goes
<1>4. Bin \in job[p].touched
  BY <1>2, <1>3, JobOf DEF Fits, SwapsRelease
<1> QED BY <1>2, <1>3, <1>4 DEF Answers

LEMMA LegacyAnswers ==
  ASSUME InstallerInv, NEW p \in Procs, ExecuteLegacy(p),
         NEW f \in Files, disk[f] = User, disk'[f] # User
  PROVE  Answers(f)
<1>1. at[p] = "legacyPrompt" /\ f \in job[p].removals
  BY DEF ExecuteLegacy, Goes
<1>2. f \in job[p].touched \/ disk[f] = LegacyRecords[f]
  BY <1>1 DEF InstallerInv, View, RemovesLegacy, Touched
<1>3. f \in job[p].touched
  BY <1>2, InstallerAssumption
<1> QED BY <1>1, <1>3 DEF Answers

LEMMA StepAnswers ==
  ASSUME InstallerInv, NEW p \in Procs, Step(p),
         NEW f \in Files, disk[f] = User, disk'[f] # User
  PROVE  Answers(f)
<1>1. CASE Accept(p) \/ Refuse(p) \/ ReportConflicts(p)
  <2>1. PICK running \in SUBSET asides : Sweeps(p, running)
    BY <1>1 DEF Accept, Refuse, ReportConflicts
  <2> QED BY <2>1, SweepAnswers
<1>2. CASE \E g \in Files : MoveAside(p, g) \/ WriteFile(p, g) \/ RemoveFile(p, g)
  BY <1>2, WorkAnswers
<1>3. CASE SwapAside(p) \/ SwapIn(p)
  BY <1>3, SwapAnswers
<1>4. CASE ExecuteLegacy(p)
  BY <1>4, LegacyAnswers
<1>5. CASE Purge(p)
  <2>1. at[p] = "purge" /\ job[p].op = "uninstall"
    BY <1>5, JobOf DEF Purge, Fits
  <2> QED BY <2>1 DEF Answers
<1>6. CASE RunInstall(p) \/ RunUpdate(p) \/ RunUninstall(p)
  <2>1. disk' = disk
    BY <1>6 DEF RunInstall, RunUpdate, RunUninstall, Enter, shared, files
  <2> QED BY <2>1
<1>7. CASE \/ Acquire(p) \/ LockBusy(p) \/ Decline(p) \/ InspectLegacy(p) \/ ApproveOverwrites(p)
           \/ WriteSettings(p) \/ Commit(p) \/ PostCommit(p) \/ LoadRecords(p)
           \/ RefuseUninstall(p) \/ RemoveClaim(p) \/ RemoveManifest(p) \/ SwapRefused(p)
           \/ RunChild(p) \/ IoError(p) \/ Kill(p)
  <2>1. disk' = disk
    BY <1>7 DEF Acquire, LockBusy, Decline, InspectLegacy, ApproveOverwrites, WriteSettings, Commit,
                PostCommit, LoadRecords, RefuseUninstall, RemoveClaim, RemoveManifest, SwapRefused,
                RunChild, IoError, Kill, shared, files
  <2> QED BY <2>1
<1> QED BY <1>1, <1>2, <1>3, <1>4, <1>5, <1>6, <1>7 DEF Step

(* No install, update or cleanup makes bytes of the user disappear without *)
(* a copy, but for the cases the property names.                           *)
THEOREM UserFilesCorrect == Spec => UserFilesKept
<1>1. ASSUME InstallerInv, [Next]_vars
      PROVE  \A f \in Files :
               disk[f] = User /\ disk'[f] # User /\ budget'.user = budget.user => Answers(f)
  <2> SUFFICES ASSUME NEW f \in Files, disk[f] = User, disk'[f] # User, budget'.user = budget.user
               PROVE  Answers(f)
    OBVIOUS
  <2>1. CASE UNCHANGED vars
    BY <2>1 DEF vars, shared, files
  <2>2. CASE \E p \in Procs : Step(p)
    BY <1>1, <2>2, StepAnswers
  <2>3. ~ \E fs : UserActs(fs)
    <3>1. budget \in Budgets
      BY <1>1, Permissions DEF SharedTyped
    <3> QED BY <3>1 DEF UserActs, Budgets
  <2> QED BY <1>1, <2>1, <2>2, <2>3 DEF Next, UserEdits, UserHolds, UserConfigures
<1>2. InstallerInv /\ [Next]_vars => \A f \in Files :
        disk[f] = User /\ disk'[f] # User /\ budget'.user = budget.user =>
          \/ bak'[f] = User
          \/ <<f, "target">> \in pending \/ manifest.files[f] = User
          \/ \E p \in Procs : /\ at[p] # "idle"
                              /\ {f, "manifest"} \cap job[p].touched # {} \/ job[p].op = "uninstall"
  BY <1>1 DEF Answers
<1> QED BY <1>2, InstallerInvariant, PTL DEF UserFilesKept, Spec
=============================================================================
