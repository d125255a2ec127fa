--------------------------- MODULE CallResolution ---------------------------
(***************************************************************************)
(* Resolution of call edges (remy-cc/scanner-core/src/postprocess.rs,      *)
(* derive_import_bindings and resolve_call_edges): which symbol of the     *)
(* index a call refers to, as a function of the stored facts.              *)
(*                                                                         *)
(* Paths and symbols are numbers, ordered as the strings they stand for: a *)
(* qualified name `path::name` is a pair, compared lexicographically.  An  *)
(* edge is a calling file and a call, its callee's name and form; the      *)
(* calling function plays no part in the resolution.                       *)
(***************************************************************************)
EXTENDS Integers, FiniteSets

CONSTANTS
  Files, Symbols,
  Names,           \* what a call can name
  AnswersTo,       \* the name and the short name of a symbol
  Modules,         \* Python modules that import statements name
  Stdlib,          \* those of the standard library
  Matches,         \* the paths whose suffix is the module's, per module
  LanguageOf,      \* the language of a path, by its extension
  ScoreSameFile, ScoreDirectImport, ScoreGlobal,
  FanoutCap        \* resolve_fanout_cap

ASSUME ResolutionAssumption ==
  /\ Files \subseteq Nat /\ Symbols \subseteq Nat
  /\ IsFiniteSet(Files) /\ IsFiniteSet(Symbols)
  /\ AnswersTo \in [Symbols -> SUBSET Names]
  /\ Stdlib \subseteq Modules
  /\ Matches \in [Modules -> SUBSET Files]
  /\ DOMAIN LanguageOf = Files
  /\ {ScoreSameFile, ScoreDirectImport, ScoreGlobal} \subseteq Int
  /\ FanoutCap \in Nat

Calls == Names \X {"name", "attribute"}

NoRow == [row |-> FALSE]

(* The columns of files, symbols and edges that resolution reads *)
Facts == [row : {TRUE}, defs : SUBSET Symbols, calls : SUBSET Calls,
          imports : SUBSET Files, bindings : SUBSET (Modules \X Names)]

Unresolved == [best |-> <<>>, provenance |-> "none", candidates |-> {}]

Indexed(rows) == {f \in Files : rows[f].row}

-----------------------------------------------------------------------------
(* derive_import_bindings *)

Hits(rows, m) == Matches[m] \cap Indexed(rows)

Supplements(rows, f) ==
  {h \in Files : \E b \in rows[f].bindings : b[1] \notin Stdlib /\ Hits(rows, b[1]) = {h}}

Externals(rows, f) ==
  {n \in Names : \E b \in rows[f].bindings :
                   b[2] = n /\ (b[1] \in Stdlib \/ Hits(rows, b[1]) = {})}

-----------------------------------------------------------------------------
(* resolve_call_edges *)

Before(q, r) == q[1] < r[1] \/ (q[1] = r[1] /\ q[2] < r[2])

First(qs, n) == {q \in qs : Cardinality({r \in qs : Before(r, q)}) < n}

(* SELECT ... FROM symbols WHERE file_path IN fs AND (name = n OR short_name = n) *)
Named(rows, fs, n) ==
  {q \in Files \X Symbols : /\ q[1] \in fs /\ rows[q[1]].row
                            /\ q[2] \in rows[q[1]].defs
                            /\ n \in AnswersTo[q[2]]}

SameFile(rows, f, n) == Named(rows, {f}, n)

Imported(rows, f, n) ==
  Named(rows, rows[f].imports \cup Supplements(rows, f), n) \ SameFile(rows, f, n)

Global(rows, f, n) ==
  First({q \in Named(rows, Files \ {f}, n) : LanguageOf[q[1]] = LanguageOf[f]}, FanoutCap)

Scored(qs, score) == {[q |-> q, score |-> score] : q \in qs}

Candidates(rows, f, call) ==
  LET near == Scored(SameFile(rows, f, call[1]), ScoreSameFile)
                \cup Scored(Imported(rows, f, call[1]), ScoreDirectImport)
  IN IF near # {} THEN near
     ELSE IF call[2] # "attribute" /\ call[1] \in Externals(rows, f) THEN {}
     ELSE Scored(Global(rows, f, call[1]), ScoreGlobal)

RanksBefore(c, d) == c.score > d.score \/ (c.score = d.score /\ Before(c.q, d.q))

Ranked(cs, n) == {c \in cs : Cardinality({d \in cs : RanksBefore(d, c)}) < n}

Provenance(cs, best, form) ==
  IF \/ \E c \in cs \ {best} : c.score = best.score
     \/ form = "attribute" /\ best.score < ScoreSameFile
    THEN "speculative"
  ELSE IF best.score >= ScoreDirectImport THEN "definite"
  ELSE "probable"

Resolve(rows, f, call) ==
  LET cs == Candidates(rows, f, call)
      best == CHOOSE c \in cs : \A d \in cs \ {c} : RanksBefore(c, d)
  IN IF cs = {} THEN Unresolved
     ELSE [best |-> best.q,
           provenance |-> Provenance(cs, best, call[2]),
           candidates |-> IF Cardinality(cs) > 1 THEN Ranked(cs, FanoutCap) ELSE {}]

Edges(rows) == {e \in Files \X Calls : rows[e[1]].row /\ e[2] \in rows[e[1]].calls}

-----------------------------------------------------------------------------
(* run_incremental: the edges to resolve again after `old` became `new`.   *)

Changed(old, new) == {f \in Files : old[f] # new[f]}

NamesOf(row) == IF row.row THEN UNION {AnswersTo[s] : s \in row.defs} ELSE {}

DeltaNames(old, new) ==
  UNION {NamesOf(old[f]) \cup NamesOf(new[f]) : f \in Changed(old, new)}

AddedOrRemoved(old, new) == {f \in Files : old[f].row # new[f].row}

(* Mutant: only files that disappear are taken for import hosts *)
ImportHostsOfRemoved(old, new) ==
  {f \in Indexed(new) : \E b \in new[f].bindings :
     b[1] \notin Stdlib /\ Matches[b[1]] \cap (Indexed(old) \ Indexed(new)) # {}}

(* import_binding_hosts *)
ImportHosts(old, new) ==
  {f \in Indexed(new) : \E b \in new[f].bindings :
     b[1] \notin Stdlib /\ Matches[b[1]] \cap AddedOrRemoved(old, new) # {}}

Targets(old, new) ==
  {e \in Edges(new) : \/ e[1] \in Changed(old, new)
                      \/ e[1] \in ImportHosts(old, new)
                      \/ e[2][1] \in DeltaNames(old, new)}
=============================================================================
