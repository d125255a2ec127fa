------------------------------ MODULE Freshness -----------------------------
(***************************************************************************)
(* The staleness probe of the MCP server (remy-cc/src/mcp/freshness.rs):   *)
(* once, before it serves, a session compares the index with git, or with  *)
(* the hashes of a sample of the indexed files when git does not tell, and *)
(* puts its verdict in front of every answer it gives until it ends.       *)
(*                                                                         *)
(* A source file is its text and the line ends it is written with.  The    *)
(* scanner hashes the text after it has translated the line ends           *)
(* (hashes.rs), the probe hashes the bytes: a hash is a text with its line *)
(* ends.  A scan that fails to read a file is left out.                    *)
(***************************************************************************)
EXTENDS Integers, Sequences, FiniteSets, FiniteSetsExt

CONSTANTS
  Files,       \* source files of the project
  Texts,       \* what a file may contain
  MaxCommits,  \* bound: commits after the first
  MaxEdits     \* bound: edits

LineEnds == {"lf", "crlf"}
Contents == [text : Texts, ends : LineEnds]
NoCommit == 0

VARIABLES
  tree,      \* the working tree: the content of each file that exists
  commits,   \* the history of the repository; empty when there is no git
  edits,
  index,     \* files.struct_hash of each indexed file
  meta,      \* meta.source_commit and meta.file_count
  session,   \* "off" or "serving"
  verdict,   \* the warning of the session
  changed,   \* history: the files that are not what their last scan read
  basis      \* history: `changed` when the session was started

vars == <<tree, commits, edits, index, meta, session, verdict, changed, basis>>

Quiet == "quiet"
Verdicts == {Quiet, "commit", "dirty", "sample"}

(* A new checkout, with or without git, that has never been scanned *)
Init ==
  /\ tree \in [Files -> Contents]
  /\ commits \in {<<>>, <<tree>>}
  /\ edits = 0
  /\ index = [f \in {} |-> 0]
  /\ meta = [commit |-> NoCommit, count |-> 1]
  /\ session = "off"
  /\ verdict = Quiet
  /\ changed = Files
  /\ basis = {}

HEAD == Len(commits)

-----------------------------------------------------------------------------
(* The user *)

Edit(f, content) ==
  /\ edits < MaxEdits
  /\ f \in DOMAIN tree => tree[f] # content
  /\ edits' = edits + 1
  /\ tree' = [g \in DOMAIN tree \cup {f} |-> IF g = f THEN content ELSE tree[g]]
  /\ changed' = changed \cup {f}
  /\ UNCHANGED <<commits, index, meta, session, verdict, basis>>

Delete(f) ==
  /\ edits < MaxEdits
  /\ f \in DOMAIN tree
  /\ edits' = edits + 1
  /\ tree' = [g \in DOMAIN tree \ {f} |-> tree[g]]
  /\ changed' = changed \cup {f}
  /\ UNCHANGED <<commits, index, meta, session, verdict, basis>>

Commit ==
  /\ commits # <<>> /\ Len(commits) <= MaxCommits
  /\ commits' = Append(commits, tree)
  /\ UNCHANGED <<tree, edits, index, meta, session, verdict, changed, basis>>

-----------------------------------------------------------------------------
(* The scanner *)

decode_source(content) == [content EXCEPT !.ends = "lf"]

(* run_full_scan: the rows of every discovered file, file_count, and the   *)
(* commit when there is git                                                *)
FullScan ==
  /\ tree # [f \in {} |-> 0]
  /\ index' = [f \in DOMAIN tree |-> decode_source(tree[f])]
  /\ meta' = [commit |-> IF commits = <<>> THEN meta.commit ELSE HEAD,
              count |-> Cardinality(DOMAIN tree)]
  /\ changed' = {}
  /\ UNCHANGED <<tree, commits, edits, session, verdict, basis>>

(* An incremental scan rewrites the row of its file, and nothing in meta   *)
(* but last_updated                                                        *)
IncrementalScan(f) ==
  /\ index # [g \in {} |-> 0]
  /\ index' = IF f \in DOMAIN tree
              THEN [g \in DOMAIN index \cup {f} |->
                      IF g = f THEN decode_source(tree[f]) ELSE index[g]]
              ELSE [g \in DOMAIN index \ {f} |-> index[g]]
  /\ changed' = changed \ {f}
  /\ UNCHANGED <<tree, commits, edits, meta, session, verdict, basis>>

-----------------------------------------------------------------------------
(* init_freshness *)

Dirty == {f \in Files : /\ f \in DOMAIN commits[HEAD]
                        /\ f \notin DOMAIN tree \/ tree[f] # commits[HEAD][f]}

(* More than 20 %, counted in files *)
Exceeds(part, whole) == 5 * part > whole

GitVerdict ==
  IF meta.commit # HEAD THEN "commit"
  ELSE IF Exceeds(Cardinality(Dirty), meta.count) THEN "dirty"
  ELSE Quiet

(* min(10, ceil(0.1 n)), at least 1 *)
sample_size == LET tenth == (Cardinality(DOMAIN index) + 9) \div 10
               IN IF tenth > 10 THEN 10 ELSE IF tenth < 1 THEN 1 ELSE tenth

Mismatches(sample) ==
  {f \in sample : f \notin DOMAIN tree \/ tree[f] # index[f]}

SampleVerdicts ==
  {IF Exceeds(Cardinality(Mismatches(sample)), sample_size) THEN "sample" ELSE Quiet :
     sample \in kSubset(sample_size, DOMAIN index)}

init_freshness ==
  IF commits # <<>> /\ meta.commit # NoCommit THEN {GitVerdict}
  ELSE IF DOMAIN index = {} THEN {Quiet}
  ELSE SampleVerdicts

Start ==
  /\ session = "off"
  /\ session' = "serving"
  /\ verdict' \in init_freshness
  /\ basis' = changed
  /\ UNCHANGED <<tree, commits, edits, index, meta, changed>>

End ==
  /\ session = "serving"
  /\ session' = "off"
  /\ verdict' = Quiet
  /\ UNCHANGED <<tree, commits, edits, index, meta, changed, basis>>

Next ==
  \/ \E f \in Files : Delete(f) \/ IncrementalScan(f) \/ \E c \in Contents : Edit(f, c)
  \/ Commit \/ FullScan \/ Start \/ End

Spec == Init /\ [][Next]_vars

-----------------------------------------------------------------------------
(***************************************************************************)
(* Invariant, stated by freshness.rs:2 (parity with the Python server) and *)
(* README.md:112 ("If >20% of files differ, a warning is prepended"): when *)
(* a session says that sampled files differ, a file has changed since it   *)
(* was scanned.                                                            *)
(***************************************************************************)
SampleWarningIsTrue == verdict = "sample" => basis # {}
=============================================================================
