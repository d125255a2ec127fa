-------------------------- MODULE PostprocessProofs -------------------------
(***************************************************************************)
(* An incremental scan resolves again every call edge whose resolution can *)
(* have changed, for any files, symbols, imports and scores.               *)
(***************************************************************************)
EXTENDS Postprocess, FiniteSetTheorems, TLAPS

(* An edge the incremental scan leaves alone, from old to new *)
Untouched(old, new, f, call) ==
  /\ new[f].row
  /\ call \in new[f].calls
  /\ <<f, call>> \notin Targets(old, new)

LEMMA UntouchedFacts ==
  ASSUME NEW old, NEW new, NEW f \in Files, NEW call \in Calls, Untouched(old, new, f, call)
  PROVE  /\ old[f] = new[f]
         /\ f \notin ImportHosts(old, new)
         /\ call[1] \notin DeltaNames(old, new)
<1>1. <<f, call>> \in Edges(new)
  BY DEF Untouched, Edges
<1> QED BY <1>1 DEF Untouched, Targets, Changed

(* A file that changed neither had nor has a symbol of that name *)
LEMMA NamedUntouched ==
  ASSUME NEW old, NEW new, NEW n \in Names, n \notin DeltaNames(old, new), NEW fs
  PROVE  Named(new, fs, n) = Named(old, fs, n)
<1> SUFFICES ASSUME NEW q \in Files \X Symbols
             PROVE  q \in Named(new, fs, n) <=> q \in Named(old, fs, n)
  BY DEF Named
<1>1. q[1] \in Files
  OBVIOUS
<1>2. CASE old[q[1]] = new[q[1]]
  BY <1>2 DEF Named
<1>3. CASE old[q[1]] # new[q[1]]
  <2>1. n \notin NamesOf(old[q[1]]) /\ n \notin NamesOf(new[q[1]])
    BY <1>1, <1>3 DEF DeltaNames, Changed
  <2> QED BY <2>1 DEF Named, NamesOf
<1> QED BY <1>2, <1>3

(* The import bindings of a file that is no import host derive the same *)
LEMMA BindingsUntouched ==
  ASSUME NEW old, NEW new, NEW f \in Files, new[f].row, old[f] = new[f],
         f \notin ImportHosts(old, new), new[f].bindings \subseteq Modules \X Names
  PROVE  /\ Supplements(new, f) = Supplements(old, f)
         /\ Externals(new, f) = Externals(old, f)
<1>1. ASSUME NEW b \in new[f].bindings, b[1] \notin Stdlib
      PROVE  Hits(new, b[1]) = Hits(old, b[1])
  <2>1. Matches[b[1]] \cap AddedOrRemoved(old, new) = {}
    BY <1>1 DEF ImportHosts, Indexed
  <2>2. Matches[b[1]] \subseteq Files
    BY ResolutionAssumption
  <2> QED BY <2>1, <2>2 DEF Hits, Indexed, AddedOrRemoved
<1> QED BY <1>1 DEF Supplements, Externals

LEMMA ResolutionUntouched ==
  ASSUME NEW old, NEW new, NEW f \in Files, NEW call \in Calls, Untouched(old, new, f, call),
         new[f].bindings \subseteq Modules \X Names
  PROVE  Resolve(new, f, call) = Resolve(old, f, call)
<1>1. old[f] = new[f] /\ f \notin ImportHosts(old, new) /\ call[1] \notin DeltaNames(old, new)
  BY UntouchedFacts
<1>2. call[1] \in Names
  BY DEF Calls
<1>3. \A fs : Named(new, fs, call[1]) = Named(old, fs, call[1])
  BY <1>1, <1>2, NamedUntouched
<1>4. Supplements(new, f) = Supplements(old, f) /\ Externals(new, f) = Externals(old, f)
  BY <1>1, BindingsUntouched DEF Untouched
<1>5. SameFile(new, f, call[1]) = SameFile(old, f, call[1])
  BY <1>3 DEF SameFile
<1>6. Imported(new, f, call[1]) = Imported(old, f, call[1])
  BY <1>1, <1>3, <1>4, <1>5 DEF Imported
<1>7. Global(new, f, call[1]) = Global(old, f, call[1])
  BY <1>3 DEF Global
<1>8. Candidates(new, f, call) = Candidates(old, f, call)
  BY <1>4, <1>5, <1>6, <1>7 DEF Candidates
<1> QED BY <1>8 DEF Resolve

-----------------------------------------------------------------------------
(* The tables, and what of them a full scan would compute *)
RowsInv ==
  /\ rows \in [Files -> UNION {FileStates(f) : f \in Files}]
  /\ \A f \in Files : rows[f] \in FileStates(f)

ResolvedInv == resolved = [e \in Edges(rows) |-> Resolve(rows, e[1], e[2])]

KindsInv == kinds = [f \in Files |-> KindOf(rows, resolved, inferred, f)]

ClustersInv == DOMAIN clusters = Groups /\ ClusterMembersAreGlobal

TablesInv == RowsInv /\ ResolvedInv /\ KindsInv /\ ClustersInv

LEMMA NewRowsType ==
  ASSUME RowsInv, NEW new \in NewRows
  PROVE  /\ new \in [Files -> UNION {FileStates(f) : f \in Files}]
         /\ \A f \in Files : new[f] \in FileStates(f)
<1>1. PICK fs \in SUBSET Files : \E c \in [fs -> UNION {FileStates(f) : f \in fs}] :
        /\ \A f \in fs : c[f] \in FileStates(f)
        /\ new = [f \in Files |-> IF f \in DOMAIN c THEN c[f] ELSE rows[f]]
  BY DEF NewRows
<1>2. PICK c \in [fs -> UNION {FileStates(f) : f \in fs}] :
        /\ \A f \in fs : c[f] \in FileStates(f)
        /\ new = [f \in Files |-> IF f \in DOMAIN c THEN c[f] ELSE rows[f]]
  BY <1>1
<1>3. \A f \in Files : new[f] \in FileStates(f)
  BY <1>2 DEF RowsInv
<1> QED BY <1>2, <1>3

(* A row is absent, or one of the sources a file may hold *)
LEMMA StateFacts ==
  ASSUME NEW f \in Files, NEW s \in FileStates(f)
  PROVE  s.row => s.bindings \subseteq Modules \X Names
  BY SourceAssumption DEF FileStates, NoRow

LEMMA ResolvedStep ==
  ASSUME RowsInv, ResolvedInv, NEW new \in NewRows
  PROVE  ResolvedAfter(new) = [e \in Edges(new) |-> Resolve(new, e[1], e[2])]
<1> SUFFICES ASSUME NEW e \in Edges(new), e \notin Targets(rows, new)
             PROVE  resolved[e] = Resolve(new, e[1], e[2])
  BY DEF ResolvedAfter
<1>1. e[1] \in Files /\ e[2] \in Calls /\ e = <<e[1], e[2]>> /\ Untouched(rows, new, e[1], e[2])
  BY DEF Edges, Untouched
<1>2. rows[e[1]] = new[e[1]]
  BY <1>1 DEF Edges, Targets, Changed
<1>3. e \in Edges(rows)
  BY <1>2 DEF Edges
<1>4. new[e[1]].bindings \subseteq Modules \X Names
  BY <1>1, NewRowsType, StateFacts DEF Untouched
<1>5. Resolve(new, e[1], e[2]) = Resolve(rows, e[1], e[2])
  BY <1>1, <1>4, ResolutionUntouched
<1> QED BY <1>3, <1>5 DEF ResolvedInv

-----------------------------------------------------------------------------
(* Files the scan does not count as affected *)

LEMMA UnaffectedFile ==
  ASSUME NEW new, NEW f \in Files, f \notin Affected(new)
  PROVE  /\ rows[f] = new[f]
         /\ \A e \in Targets(rows, new) : e[1] # f
         /\ \A e \in InferredDiff(new) : e.from # f
  BY DEF Affected, Changed

(* have the edges among them that they had *)
LEMMA EdgesWithinUnaffected ==
  ASSUME ResolvedInv, NEW new \in NewRows, scan_files(new), NEW fs \in SUBSET Files,
         fs \cap Affected(new) = {}
  PROVE  EdgesWithin(resolved', inferred', fs) = EdgesWithin(resolved, inferred, fs)
<1>1. {e \in DirectInto(resolved', fs) : e[1] \in fs}
        = {e \in DirectInto(resolved, fs) : e[1] \in fs}
  <2>1. resolved' = ResolvedAfter(new)
    BY DEF scan_files
  <2>2. DOMAIN resolved' = Edges(new) /\ DOMAIN resolved = Edges(rows)
    BY <2>1 DEF ResolvedAfter, ResolvedInv
  <2>3. \A e \in Files \X Calls : e[1] \in fs => (e \in Edges(new) <=> e \in Edges(rows))
    BY UnaffectedFile DEF Edges
  <2>4. \A e \in Edges(new) : e[1] \in fs => resolved'[e] = resolved[e]
    BY <2>1, UnaffectedFile DEF ResolvedAfter
  <2>5. Edges(new) \subseteq Files \X Calls /\ Edges(rows) \subseteq Files \X Calls
    BY DEF Edges
  <2> QED BY <2>2, <2>3, <2>4, <2>5 DEF DirectInto
<1>2. {e \in InferredInto(inferred', fs) : e.from \in fs}
        = {e \in InferredInto(inferred, fs) : e.from \in fs}
  <2>1. inferred' = synth(new)
    BY DEF scan_files
  <2>2. ASSUME NEW e, e.from \in fs PROVE e \in inferred' <=> e \in inferred
    <3>1. rows[e.from] = new[e.from] /\ e \notin InferredDiff(new)
      BY <2>2, UnaffectedFile
    <3> QED BY <2>1, <3>1 DEF InferredDiff
  <2> QED BY <2>2 DEF InferredInto
<1> QED BY <1>1, <1>2 DEF EdgesWithin

LEMMA KindsStep ==
  ASSUME ResolvedInv, KindsInv, NEW new \in NewRows, scan_files(new)
  PROVE  KindsInv'
<1>1. \A f \in Files : f \notin Affected(new) =>
        KindOf(new, resolved', inferred', f) = KindOf(rows, resolved, inferred, f)
  <2> TAKE f \in Files
  <2> HAVE f \notin Affected(new)
  <2>1. EdgesWithin(resolved', inferred', {f}) = EdgesWithin(resolved, inferred, {f})
    BY EdgesWithinUnaffected
  <2>2. rows[f] = new[f]
    BY UnaffectedFile
  <2> QED BY <2>1, <2>2 DEF KindOf
<1>2. \A f \in Files : ~new[f].row => KindOf(new, resolved', inferred', f) = NoKind
  BY DEF KindOf
<1> QED BY <1>1, <1>2 DEF scan_files, KindsInv

-----------------------------------------------------------------------------
Dense(d, i, x) ==
  Cardinality(x) >= 2 /\ 100 * EdgesWithin(d, i, x) >= DensityPct * Cardinality(x)

LEMMA ClusterSets ==
  ASSUME NEW r, NEW d, NEW i, NEW g
  PROVE  {c.files : c \in ClustersOf(r, d, i, g)} = {x \in ClusterFiles(r, g) : Dense(d, i, x)}
<1> DEFINE Cluster(x) == [files |-> x, entries |-> EntrySymbols(d, i, x)]
           Sets == {x \in ClusterFiles(r, g) : Dense(d, i, x)}
<1>1. ClustersOf(r, d, i, g) = {Cluster(x) : x \in Sets}
  BY DEF ClustersOf, Dense
<1>2. \A x : Cluster(x).files = x
  OBVIOUS
<1> HIDE DEF Cluster, Sets
<1>3. {c.files : c \in {Cluster(x) : x \in Sets}} = Sets
  BY <1>2
<1> QED BY <1>1, <1>3 DEF Sets

(* A group without an affected file has the clusters it had, as sets of    *)
(* files                                                                   *)
LEMMA GroupUnaffected ==
  ASSUME ResolvedInv, NEW new \in NewRows, scan_files(new), NEW g \in Groups,
         g \notin {Group[f] : f \in Affected(new)}
  PROVE  {c.files : c \in ClustersOf(new, resolved', inferred', g)}
           = {c.files : c \in ClustersOf(rows, resolved, inferred, g)}
<1>1. \A f \in Files : Group[f] = g => f \notin Affected(new)
  OBVIOUS
<1>2. Members(new, g) = Members(rows, g)
  BY <1>1, UnaffectedFile DEF Members, Indexed
<1>3. ClusterFiles(new, g) = ClusterFiles(rows, g)
  BY <1>2 DEF ClusterFiles
<1>4. ASSUME NEW x \in ClusterFiles(rows, g)
      PROVE  EdgesWithin(resolved', inferred', x) = EdgesWithin(resolved, inferred, x)
  <2>1. x \subseteq Members(rows, g)
    BY <1>4 DEF ClusterFiles
  <2>2. x \in SUBSET Files /\ x \cap Affected(new) = {}
    BY <1>1, <2>1 DEF Members, Indexed
  <2> QED BY <2>2, EdgesWithinUnaffected
<1>5. \A x \in ClusterFiles(rows, g) :
        Dense(resolved', inferred', x) <=> Dense(resolved, inferred, x)
  BY <1>4 DEF Dense
<1>6. {x \in ClusterFiles(new, g) : Dense(resolved', inferred', x)}
        = {x \in ClusterFiles(rows, g) : Dense(resolved, inferred, x)}
  BY <1>3, <1>5
<1>7. {c.files : c \in ClustersOf(new, resolved', inferred', g)}
        = {x \in ClusterFiles(new, g) : Dense(resolved', inferred', x)}
  BY ClusterSets
<1>8. {c.files : c \in ClustersOf(rows, resolved, inferred, g)}
        = {x \in ClusterFiles(rows, g) : Dense(resolved, inferred, x)}
  BY ClusterSets
<1> QED BY <1>6, <1>7, <1>8

LEMMA ClustersStep ==
  ASSUME ResolvedInv, ClustersInv, NEW new \in NewRows, scan_files(new)
  PROVE  ClustersInv'
<1>1. rows' = new /\ DOMAIN clusters' = Groups
  BY DEF scan_files
<1>2. ASSUME NEW g \in Groups
      PROVE  {c.files : c \in clusters'[g]}
               = {c.files : c \in ClustersOf(rows', resolved', inferred', g)}
  <2>1. CASE g \in {Group[f] : f \in Affected(new)}
    BY <1>1, <2>1 DEF scan_files
  <2>2. CASE g \notin {Group[f] : f \in Affected(new)}
    <3>1. clusters'[g] = clusters[g]
      BY <2>2 DEF scan_files
    <3>2. {c.files : c \in clusters[g]} = {c.files : c \in ClustersOf(rows, resolved, inferred, g)}
      BY DEF ClustersInv, ClusterMembersAreGlobal
    <3> QED BY <1>1, <2>2, <3>1, <3>2, GroupUnaffected
  <2> QED BY <2>1, <2>2
<1> QED BY <1>1, <1>2 DEF ClustersInv, ClusterMembersAreGlobal

-----------------------------------------------------------------------------
LEMMA TablesInit == Init => TablesInv
<1> SUFFICES ASSUME Init PROVE TablesInv
  OBVIOUS
<1>1. Edges(rows) = {} /\ \A f \in Files : ~rows[f].row
  BY DEF Init, NoRow, Edges
<1>2. RowsInv
  BY DEF Init, RowsInv, FileStates
<1>3. ResolvedInv
  BY <1>1 DEF Init, ResolvedInv
<1>4. KindsInv
  BY <1>1 DEF Init, KindsInv, KindOf
<1>5. ClustersInv
  <2>1. ASSUME NEW g \in Groups PROVE ClusterFiles(rows, g) \subseteq {{}}
    <3>1. Members(rows, g) = {}
      BY <1>1 DEF Members, Indexed
    <3> QED BY <3>1 DEF ClusterFiles
  <2>2. Cardinality({}) = 0
    BY FS_EmptySet
  <2>3. ASSUME NEW g \in Groups
        PROVE  {c.files : c \in ClustersOf(rows, resolved, inferred, g)} = {}
    <3>1. ~Dense(resolved, inferred, {})
      BY <2>2 DEF Dense
    <3>2. {c.files : c \in ClustersOf(rows, resolved, inferred, g)}
            = {x \in ClusterFiles(rows, g) : Dense(resolved, inferred, x)}
      BY ClusterSets
    <3> QED BY <2>1, <3>1, <3>2
  <2> QED BY <2>3 DEF Init, ClustersInv, ClusterMembersAreGlobal
<1> QED BY <1>2, <1>3, <1>4, <1>5 DEF TablesInv

LEMMA FullStep ==
  ASSUME TablesInv, NEW new \in NewRows, scan_full(new)
  PROVE  TablesInv'
<1>1. RowsInv'
  BY NewRowsType DEF TablesInv, RowsInv, scan_full
<1>2. ResolvedInv' /\ KindsInv' /\ ClustersInv'
  BY DEF scan_full, ResolvedInv, KindsInv, ClustersInv, ClusterMembersAreGlobal
<1> QED BY <1>1, <1>2 DEF TablesInv

LEMMA IncrementalStep ==
  ASSUME TablesInv, NEW new \in NewRows, scan_files(new)
  PROVE  TablesInv'
<1>1. RowsInv'
  BY NewRowsType DEF TablesInv, RowsInv, scan_files
<1>2. ResolvedInv'
  BY ResolvedStep DEF TablesInv, scan_files, ResolvedInv
<1> QED BY <1>1, <1>2, KindsStep, ClustersStep DEF TablesInv

(* The invariant: edges, kinds and cluster members are those of a full scan. *)
THEOREM TablesInvariance == Spec => []TablesInv
<1>1. TablesInv /\ [Next]_vars => TablesInv'
  <2> SUFFICES ASSUME TablesInv, [Next]_vars PROVE TablesInv'
    OBVIOUS
  <2>1. CASE UNCHANGED vars
    BY <2>1 DEF vars, TablesInv, RowsInv, ResolvedInv, KindsInv, ClustersInv,
                ClusterMembersAreGlobal
  <2> QED BY <2>1, FullStep, IncrementalStep DEF Next, ScanFiles, ScanFull
<1> QED BY TablesInit, <1>1, PTL DEF Spec

(* Every table keeps its type: an edge row exists exactly for the calls of *)
(* the indexed files, also after an incremental scan of files that         *)
(* disappeared.                                                            *)
THEOREM TablesTyped == Spec => []TypeOK
<1>1. TablesInv => TypeOK
  <2> SUFFICES ASSUME TablesInv PROVE TypeOK
    OBVIOUS
  <2>1. DOMAIN rows = Files /\ \A f \in Files : rows[f] \in FileStates(f)
    BY DEF TablesInv, RowsInv
  <2>2. DOMAIN resolved = Edges(rows)
    BY DEF TablesInv, ResolvedInv
  <2>3. \A f \in Files :
          KindOf(rows, resolved, inferred, f) \in {NoKind, "trivial", "low_cohesion", "cohesive"}
    BY DEF KindOf
  <2>4. kinds \in [Files -> {NoKind, "trivial", "low_cohesion", "cohesive"}]
    BY <2>3 DEF TablesInv, KindsInv
  <2> QED BY <2>1, <2>2, <2>4 DEF TypeOK, TablesInv, ClustersInv
<1> QED BY TablesInvariance, <1>1, PTL

(***************************************************************************)
(* Whatever sequence of incremental and full scans led here, every call is *)
(* resolved as a full scan would: to touch only edges of changed files, of *)
(* import hosts and with names of the delta is enough.                     *)
(***************************************************************************)
THEOREM ResolutionCorrect == Spec => []ResolutionIsGlobal
<1>1. TablesInv => ResolutionIsGlobal
  BY DEF TablesInv, ResolvedInv, ResolutionIsGlobal
<1> QED BY TablesInvariance, <1>1, PTL

(* and so is every kind hint, *)
THEOREM KindsCorrect == Spec => []KindsAreGlobal
<1>1. TablesInv => KindsAreGlobal
  BY DEF TablesInv, KindsInv, KindsAreGlobal
<1> QED BY TablesInvariance, <1>1, PTL

(* and the membership of every cluster. *)
THEOREM ClusterMembersCorrect == Spec => []ClusterMembersAreGlobal
<1>1. TablesInv => ClusterMembersAreGlobal
  BY DEF TablesInv, ClustersInv
<1> QED BY TablesInvariance, <1>1, PTL
=============================================================================
