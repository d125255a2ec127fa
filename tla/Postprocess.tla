----------------------------- MODULE Postprocess ----------------------------
(***************************************************************************)
(* The derived tables of the logic index (remy-cc/scanner-core/src:        *)
(* postprocess.rs, synth.rs, clusters.rs, with the writes of writer.rs     *)
(* that precede them).  A full scan recomputes resolved edges, inferred    *)
(* edges, file kinds and clusters from all facts; an incremental scan      *)
(* touches only what it takes to be affected and has to end in the same    *)
(* state.  A scan is one transaction, hence one step.                      *)
(*                                                                         *)
(* Of the synthesizers the model has the signal patterns (emit, connect);  *)
(* all four are recomputed globally by both kinds of scan.                 *)
(***************************************************************************)
EXTENDS CallResolution

CONSTANTS
  Contents,        \* what each source file may hold: Facts with emits and handles
  Group, SubGroup, \* the first path component of a file; the first two
  SynthFanoutCap, MinSymbols, CohesionPct, DensityPct, MaxSize, EntryCount,
  MaxEdited        \* bound: how many files change between two scans

ASSUME SourceAssumption ==
  \A f \in Files : \A s \in Contents[f] :
    s.row = TRUE /\ s.calls \subseteq Calls /\ s.bindings \subseteq Modules \X Names

VARIABLES
  rows,       \* the stored facts of each file
  resolved,   \* direct edges: callee_qualified, provenance and edge_candidates
  inferred,   \* inferred edges
  kinds,      \* files.kind_hint
  clusters    \* the clusters of each top-level group

vars == <<rows, resolved, inferred, kinds, clusters>>

Groups == {Group[f] : f \in Files}
NoKind == "none"

-----------------------------------------------------------------------------
(* synthesize_signal_pattern: emits and handles are pairs of a signal and  *)
(* the function that emits or handles it.                                  *)

Handlers(r, g) ==
  {q \in Files \X Symbols : r[q[1]].row /\ <<g, q[2]>> \in r[q[1]].handles}

Signalled(r) ==
  {x \in (Files \X Symbols) \X (Files \X Symbols) :
     /\ r[x[1][1]].row
     /\ x[1] # x[2]
     /\ \E e \in r[x[1][1]].emits :
          /\ e[2] = x[1][2]
          /\ x[2] \in Handlers(r, e[1])
          /\ Cardinality(Handlers(r, e[1])) <= SynthFanoutCap}

synth(r) == {[from |-> x[1][1], caller |-> x[1][2], to |-> x[2]] : x \in Signalled(r)}

-----------------------------------------------------------------------------
(* clusters.rs, from the facts r, the resolved edges d and the inferred i *)

IsResolved(x) == x # Unresolved

DirectInto(d, fs) == {e \in DOMAIN d : IsResolved(d[e]) /\ d[e].best[1] \in fs}
InferredInto(i, fs) == {e \in i : e.to[1] \in fs}

EdgesWithin(d, i, fs) ==
  Cardinality({e \in DirectInto(d, fs) : e[1] \in fs})
    + Cardinality({e \in InferredInto(i, fs) : e.from \in fs})

(* compute_kind_hint *)
KindOf(r, d, i, f) ==
  IF ~r[f].row THEN NoKind
  ELSE IF Cardinality(r[f].defs) < MinSymbols THEN "trivial"
  ELSE IF 100 * EdgesWithin(d, i, {f}) < CohesionPct * Cardinality(r[f].defs)
    THEN "low_cohesion"
  ELSE "cohesive"

Members(r, g) == {f \in Indexed(r) : Group[f] = g}

(* group_paths: a group of more than MaxSize files is split *)
ClusterFiles(r, g) ==
  IF Cardinality(Members(r, g)) > MaxSize
    THEN {{h \in Members(r, g) : SubGroup[h] = SubGroup[f]} : f \in Members(r, g)}
    ELSE {Members(r, g)}

References(d, i, q) ==
  Cardinality({e \in DOMAIN d : IsResolved(d[e]) /\ d[e].best = q})
    + Cardinality({e \in i : e.to = q})

(* The callees most referred to, from anywhere in the project.  Without    *)
(* one the code stores a mark made from the first file: here {}.           *)
EntrySymbols(d, i, fs) ==
  LET qs == {d[e].best : e \in DirectInto(d, fs)} \cup {e.to : e \in InferredInto(i, fs)}
      Leads(p, q) == \/ References(d, i, p) > References(d, i, q)
                     \/ References(d, i, p) = References(d, i, q) /\ Before(p, q)
  IN {q \in qs : Cardinality({p \in qs : Leads(p, q)}) < EntryCount}

ClustersOf(r, d, i, g) ==
  {[files |-> fs, entries |-> EntrySymbols(d, i, fs)] :
     fs \in {x \in ClusterFiles(r, g) :
               /\ Cardinality(x) >= 2
               /\ 100 * EdgesWithin(d, i, x) >= DensityPct * Cardinality(x)}}

-----------------------------------------------------------------------------
(* scan_full and postprocess::run *)

scan_full(new) ==
  /\ rows' = new
  /\ resolved' = [e \in Edges(new) |-> Resolve(new, e[1], e[2])]
  /\ inferred' = synth(new)
  /\ kinds' = [f \in Files |-> KindOf(new, resolved', inferred', f)]
  /\ clusters' = [g \in Groups |-> ClustersOf(new, resolved', inferred', g)]

-----------------------------------------------------------------------------
(* scan_files and postprocess::run_incremental *)

CalleeFiles(d, es) == {d[e].best[1] : e \in {x \in es \cap DOMAIN d : IsResolved(d[x])}}

(* Direct edges of the files that were not rewritten keep what they hold *)
Surviving(new) == [e \in {x \in DOMAIN resolved : rows[x[1]] = new[x[1]]} |-> resolved[e]]

InferredDiff(new) ==
  LET left == {e \in inferred : rows[e.from] = new[e.from]}
      made == synth(new)
  IN (left \ made) \cup (made \ left)

(* Mutant: the snapshots of the inferred edges are not compared *)
AffectedWithoutInferredEdges(new) ==
  Changed(rows, new) \cup {e[1] : e \in Targets(rows, new)}

(* Mutant: the files of the scan count only through their edges *)
AffectedWithoutTouchedFiles(new) ==
  {e[1] : e \in Targets(rows, new)} \cup {e.from : e \in InferredDiff(new)}

(* affected_files *)
Affected(new) ==
  LET targets == Targets(rows, new)
  IN Changed(rows, new)
       \cup {e[1] : e \in targets}
       \cup CalleeFiles(Surviving(new), targets)
       \cup CalleeFiles([e \in targets |-> Resolve(new, e[1], e[2])], targets)
       \cup {e.from : e \in InferredDiff(new)}
       \cup {e.to[1] : e \in InferredDiff(new)}

(* Mutant: the edges of a file that disappears stay in the table *)
ResolvedAfterWithoutDeletion(new) ==
  LET targets == Targets(rows, new)
  IN [e \in Edges(new) \cup DOMAIN resolved |->
        IF e \in targets THEN Resolve(new, e[1], e[2]) ELSE resolved[e]]

(* resolve_call_edges_filtered, and the edges write_file_facts and         *)
(* delete_file have removed                                                *)
ResolvedAfter(new) ==
  LET targets == Targets(rows, new)
  IN [e \in Edges(new) |-> IF e \in targets THEN Resolve(new, e[1], e[2]) ELSE resolved[e]]

scan_files(new) ==
  LET affected == Affected(new)
  IN /\ rows' = new
     /\ resolved' = ResolvedAfter(new)
     /\ inferred' = synth(new)
     /\ kinds' = [f \in Files |-> IF ~new[f].row THEN NoKind
                                  ELSE IF f \in affected
                                    THEN KindOf(new, resolved', inferred', f)
                                  ELSE kinds[f]]
     /\ clusters' = [g \in Groups |-> IF g \in {Group[f] : f \in affected}
                                        THEN ClustersOf(new, resolved', inferred', g)
                                        ELSE clusters[g]]

-----------------------------------------------------------------------------
FileStates(f) == Contents[f] \cup {NoRow}

Init ==
  /\ rows = [f \in Files |-> NoRow]
  /\ resolved = <<>>
  /\ inferred = {}
  /\ kinds = [f \in Files |-> NoKind]
  /\ clusters = [g \in Groups |-> {}]

(* Sources change, appear or disappear, and a scan follows: of these       *)
(* files, or of the whole project.                                         *)
NewRows ==
  {[f \in Files |-> IF f \in DOMAIN c THEN c[f] ELSE rows[f]] :
     c \in UNION {{x \in [fs -> UNION {FileStates(f) : f \in fs}] :
                      \A f \in fs : x[f] \in FileStates(f)} :
                    fs \in {y \in SUBSET Files : Cardinality(y) <= MaxEdited}}}

ScanFiles == \E new \in NewRows : scan_files(new)
ScanFull == \E new \in NewRows : scan_full(new)

Next == ScanFiles \/ ScanFull

Spec == Init /\ [][Next]_vars

TypeOK ==
  /\ DOMAIN rows = Files /\ \A f \in Files : rows[f] \in FileStates(f)
  /\ DOMAIN resolved = Edges(rows)
  /\ kinds \in [Files -> {NoKind, "trivial", "low_cohesion", "cohesive"}]
  /\ DOMAIN clusters = Groups

(***************************************************************************)
(* Invariant: the edges an incremental scan did not resolve again hold     *)
(* what a full scan of the same sources would give them: target, rank and  *)
(* candidates alike, although a symbol, a file or an import elsewhere came *)
(* or went (run_incremental, "must be byte-identical to run()").           *)
(***************************************************************************)
ResolutionIsGlobal ==
  \A e \in Edges(rows) : resolved[e] = Resolve(rows, e[1], e[2])

(***************************************************************************)
(* Invariant: kind_hint is the one a full scan computes, also for files    *)
(* whose only change is an edge that now resolves to or away from them     *)
(* (compute_file_kinds_for).                                               *)
(***************************************************************************)
KindsAreGlobal ==
  \A f \in Files : kinds[f] = KindOf(rows, resolved, inferred, f)

(***************************************************************************)
(* Invariant: the clusters, as sets of files, are those a full scan would  *)
(* detect: growth past the maximal size, density and disappearing files    *)
(* of a group are all seen (detect_clusters_for).                          *)
(***************************************************************************)
ClusterMembersAreGlobal ==
  \A g \in Groups :
    {c.files : c \in clusters[g]} = {c.files : c \in ClustersOf(rows, resolved, inferred, g)}
=============================================================================
