------------------------------ MODULE Retrieval -----------------------------
(***************************************************************************)
(* Summaries, the search documents made of them, and query_navigate, which *)
(* has a language model rank such documents and caches the ranking         *)
(* (scanner-core/src/projection.rs, the parts of writer.rs and clusters.rs *)
(* that call it, remy-cc/src/mcp/navigate.rs, search.rs and common.rs).    *)
(*                                                                         *)
(* Three processes share the index: scans of the daemon's worker and the   *)
(* Python summarizer write it, each in transactions; the MCP server reads  *)
(* it one statement at a time and waits for the language model in between. *)
(* A text is a member of a small set; a hash is the document it is the     *)
(* hash of; the order of candidates is left out.                           *)
(***************************************************************************)
EXTENDS McpConfig, Integers, FiniteSets, FiniteSetsExt

CONSTANTS
  SymbolNodes, FileNodes, ClusterNodes,   \* the nodes that may be summarised
  Owner,         \* Owner[s]: the file of a symbol
  Bodies,        \* what a symbol's body may be, up to its hash
  Signature,     \* Signature[b]: what the document of a symbol shows of it
  Texts,         \* the short texts of summaries
  Statuses,      \* statuses the summarizer writes
  Relevant,      \* the texts the intent, one word, matches
  Alike,         \* Alike[channel]: the symbols whose names it matches
  Quota,         \* candidates of a kind
  Callers,       \* calls of query_navigate, one after the other or at once
  MaxVersions,   \* bound: summary versions of a node
  MaxWrites      \* bound: commits

Nodes == SymbolNodes \cup FileNodes \cup ClusterNodes
Absent == "absent"
NoDoc == [fact |-> Absent, short |-> Absent]

AVAILABLE_STATUSES == {"ok", "oversized_warn"}
SKIPPABLE_STATUSES == {"pending", "corrupt", "oversized_hard"}
BARRIER_STATUS == "stale"

ASSUME RetrievalAssumption ==
  /\ SymbolNodes \cap FileNodes = {} /\ SymbolNodes \cap ClusterNodes = {}
  /\ FileNodes \cap ClusterNodes = {}
  /\ Absent \notin Bodies \cup Texts
  /\ Statuses \subseteq AVAILABLE_STATUSES \cup SKIPPABLE_STATUSES
  /\ Owner \in [SymbolNodes -> FileNodes]
  /\ Alike \in [{"exact", "prefix", "fuzzy"} -> SUBSET SymbolNodes]
  /\ Quota \in Nat

VARIABLES
  body,       \* symbols.hash, Absent when there is no row
  files,      \* the table files
  members,    \* cluster_members of each cluster, {} when it does not exist
  versions,   \* summary_versions of each node, oldest first
  docs,       \* retrieval_documents
  cache,      \* judge_cache: from the key to the ranking
  nav,        \* the calls of query_navigate
  writes      \* commits so far

retrievalVars == <<body, files, members, versions, docs, cache, nav, writes>>
tables == <<body, files, members, versions, docs>>

Unclustered == [f \in FileNodes |-> Absent]

Idle == [pc |-> "idle", map |-> Unclustered, seen |-> {}, hits |-> {}, short |-> {},
         source |-> "llm", tries |-> 0]

Done == [Idle EXCEPT !.pc = "done"]

RetrievalInit ==
  /\ body = [s \in SymbolNodes |-> Absent]
  /\ files = {}
  /\ members = [c \in ClusterNodes |-> {}]
  /\ versions = [n \in Nodes |-> <<>>]
  /\ docs = [n \in Nodes |-> NoDoc]
  /\ cache = {}
  /\ nav = [k \in Callers |-> Idle]
  /\ writes = 0

-----------------------------------------------------------------------------
(* projection.rs.  A version carries, as history, what it was written for  *)

(* The newest version that decides: a stale one, or an available one *)
Deciding(vs) ==
  LET deciding == {i \in DOMAIN vs : vs[i].status \in AVAILABLE_STATUSES \cup {BARRIER_STATUS}}
  IN IF deciding = {} THEN 0 ELSE CHOOSE i \in deciding : \A j \in deciding : j <= i

(* Mutant: a stale version is skipped, not a barrier *)
select_current_summary_noBarrier(vs) ==
  LET available == {i \in DOMAIN vs : vs[i].status \in AVAILABLE_STATUSES}
  IN IF available = {} THEN 0 ELSE CHOOSE i \in available : \A j \in available : j <= i

(* select_current_summary: 0 when there is none *)
select_current_summary(vs) ==
  LET i == Deciding(vs)
  IN IF i # 0 /\ vs[i].status \in AVAILABLE_STATUSES THEN i ELSE 0

(* load_fact_document: what the document shows besides the summary *)
Fact(n, b, fs, ms) ==
  CASE n \in SymbolNodes -> IF b[n] = Absent THEN Absent ELSE Signature[b[n]]
    [] n \in FileNodes -> IF n \in fs THEN "file" ELSE Absent
    [] n \in ClusterNodes -> IF ms[n] # {} THEN "cluster" ELSE Absent

(* refresh_node *)
refresh_node(n, b, fs, ms, vs) ==
  LET fact == Fact(n, b, fs, ms)
      i == select_current_summary(vs)
  IN IF fact = Absent THEN NoDoc
     ELSE [fact |-> fact, short |-> IF i = 0 THEN Absent ELSE vs[i].text]

(* mark_current_summary_stale, on the versions *)
MarkStale(vs) ==
  LET i == select_current_summary(vs)
  IN IF i = 0 THEN vs ELSE [vs EXCEPT ![i].status = BARRIER_STATUS]

-----------------------------------------------------------------------------
(* The writers *)

Own(f) == {s \in SymbolNodes : Owner[s] = f}

(* Mutant: a symbol that was not there before counts as unchanged *)
AfterScan_newIsUnchanged(s, old, new, documented) ==
  LET kept == IF versions[s] = <<>> THEN <<>> ELSE MarkStale(versions[s])
  IN IF old \in {new, Absent} /\ versions[s] # <<>> THEN versions[s]
     ELSE IF documented THEN Append(kept, [text |-> new, status |-> "ok", of |-> new])
     ELSE kept

(* write_file_facts on the versions of a symbol the file now has: an       *)
(* unchanged symbol keeps its versions, another one loses its current      *)
(* summary, and a docstring or a small body makes the first new one        *)
AfterScan(s, old, new, documented) ==
  LET kept == IF versions[s] = <<>> THEN <<>> ELSE MarkStale(versions[s])
  IN IF old = new /\ versions[s] # <<>> THEN versions[s]
     ELSE IF documented THEN Append(kept, [text |-> new, status |-> "ok", of |-> new])
     ELSE kept

(* The cluster rebuild at the end of a scan: a cluster whose members       *)
(* changed loses its summary                                               *)
AfterRebuild(c, vs, ms) ==
  IF ms # {} /\ ms # members[c] THEN MarkStale(vs) ELSE vs

ScanFile(f) ==
  /\ writes < MaxWrites
  /\ \E new \in [Own(f) -> Bodies \cup {Absent}], documented \in SUBSET Own(f),
        ms \in [ClusterNodes -> SUBSET (files \cup {f})] :
       LET now == {s \in Own(f) : new[s] # Absent}
           before == {s \in Own(f) : body[s] # Absent}
           b == [s \in SymbolNodes |-> IF s \in Own(f) THEN new[s] ELSE body[s]]
           vs == [n \in Nodes |->
                    IF n \in now THEN AfterScan(n, body[n], new[n], n \in documented)
                    ELSE IF n = f /\ f \in files /\ now # before THEN MarkStale(versions[n])
                    ELSE IF n \in ClusterNodes THEN AfterRebuild(n, versions[n], ms[n])
                    ELSE versions[n]]
       IN /\ f \notin files \/ b # body \/ ms # members    \* file_unchanged
          /\ documented \subseteq now
          /\ \A n \in Nodes : Len(vs[n]) <= MaxVersions
          /\ body' = b
          /\ files' = files \cup {f}
          /\ members' = ms
          /\ versions' = vs
          /\ docs' = [n \in Nodes |->
                        IF n \in now \cup {f} \cup ClusterNodes
                        THEN refresh_node(n, b, files \cup {f}, ms, vs[n])
                        ELSE IF n \in before \ now THEN NoDoc
                        ELSE docs[n]]
  /\ writes' = writes + 1
  /\ UNCHANGED <<cache, nav>>

(* delete_file: the documents and the facts go, the versions stay *)
DeleteFile(f) ==
  /\ writes < MaxWrites /\ f \in files
  /\ body' = [s \in SymbolNodes |-> IF s \in Own(f) THEN Absent ELSE body[s]]
  /\ files' = files \ {f}
  /\ members' \in [ClusterNodes -> SUBSET (files \ {f})]
  /\ versions' = [n \in Nodes |-> IF n \in ClusterNodes
                                  THEN AfterRebuild(n, versions[n], members'[n])
                                  ELSE versions[n]]
  /\ docs' = [n \in Nodes |->
                IF n \in Own(f) \cup {f} THEN NoDoc
                ELSE IF n \in ClusterNodes
                THEN refresh_node(n, body', files', members', versions'[n])
                ELSE docs[n]]
  /\ writes' = writes + 1
  /\ UNCHANGED <<cache, nav>>

WrittenFor(n) == CASE n \in SymbolNodes -> body[n]
                   [] n \in FileNodes -> {s \in Own(n) : body[s] # Absent}
                   [] n \in ClusterNodes -> members[n]

(* The Python summarizer (external): write_summary_version appends a       *)
(* version and refreshes the document in one transaction.  A node whose    *)
(* facts went while the summary was made may get one too                   *)
Summarize(n, text, status) ==
  /\ writes < MaxWrites /\ Len(versions[n]) < MaxVersions
  /\ LET vs == Append(versions[n], [text |-> text, status |-> status, of |-> WrittenFor(n)])
     IN /\ versions' = [versions EXCEPT ![n] = vs]
        /\ docs' = [docs EXCEPT ![n] = refresh_node(n, body, files, members, vs)]
  /\ writes' = writes + 1
  /\ UNCHANGED <<body, files, members, cache, nav>>

-----------------------------------------------------------------------------
(* query_navigate.  A candidate is its node, the cluster and the text the  *)
(* model is shown, and the hash of the document.  The cluster comes from   *)
(* the map of files to clusters, Absent for "(unclustered)"                *)

ClusterOf(map, n) ==
  CASE n \in SymbolNodes -> map[Owner[n]]
    [] n \in FileNodes -> map[n]
    [] n \in ClusterNodes -> n

Candidate(map, n) ==
  [node |-> n, cluster |-> ClusterOf(map, n), short |-> docs[n].short, hash |-> docs[n]]

Matching(kind) == {n \in kind : docs[n] # NoDoc /\ docs[n].short \in Relevant}

(* The rows of a statement, or of a merge, up to its limit; their order is *)
(* left out, so any may be the first                                       *)
UpTo(limit, rows) ==
  IF Cardinality(rows) <= limit THEN {rows} ELSE kSubset(limit, rows)

NavStep(k, from, to) == nav[k].pc = from /\ nav' = [nav EXCEPT ![k] = to]

(* The rows of cluster_members, one for a file; nothing when it fails      *)
file_cluster_map ==
  {Unclustered} \cup
  {map \in [FileNodes -> ClusterNodes \cup {Absent}] :
     \A f \in FileNodes :
       LET homes == {c \in ClusterNodes : f \in members[c]}
       IN IF homes = {} THEN map[f] = Absent ELSE map[f] \in homes}

(* The map is read first, by a statement of its own                        *)
Navigate(k) ==
  /\ \E map \in file_cluster_map :
       NavStep(k, "idle", [Idle EXCEPT !.pc = "clusters", !.map = map])
  /\ UNCHANGED <<tables, cache, writes>>

(* navigate_doc_rows: one statement for the clusters, one for the files;   *)
(* a statement that fails finds none                                       *)
ReadClusters(k) ==
  /\ \E found \in UpTo(Quota, Matching(ClusterNodes)) \cup {{}} :
       NavStep(k, "clusters", [nav[k] EXCEPT !.pc = "files",
                                             !.seen = {Candidate(nav[k].map, n) : n \in found}])
  /\ UNCHANGED <<tables, cache, writes>>

ReadFiles(k) ==
  /\ \E found \in UpTo(Quota, Matching(FileNodes)) \cup {{}} :
       NavStep(k, "files", [nav[k] EXCEPT !.pc = "exact",
                                          !.seen = @ \cup {Candidate(nav[k].map, n) : n \in found}])
  /\ UNCHANGED <<tables, cache, writes>>

(* navigate_symbol_rows: three channels, each a statement over the symbols *)
(* there are now, and a fourth when these find none.  A failed statement   *)
(* finds none                                                              *)
NameRows(channel) == {s \in Alike[channel] : body[s] # Absent}
FtsRows == {s \in Matching(SymbolNodes) : body[s] # Absent}

Channel(k, from, rows, to) ==
  /\ \E found \in UpTo(Quota, rows) \cup {{}} :
       NavStep(k, from, [nav[k] EXCEPT !.pc = to, !.hits = @ \cup found])
  /\ UNCHANGED <<tables, cache, writes>>

search_exact(k) == Channel(k, "exact", NameRows("exact"), "prefix")
search_like(k) == Channel(k, "prefix", NameRows("prefix"), "bm25")
search_fuzzy(k) == Channel(k, "fuzzy", NameRows("fuzzy"), "docs")

merge_candidates(hits) == UpTo(Quota, hits)

(* The last channel, and the merge that follows it *)
search_fts(k) ==
  /\ \E found \in UpTo(Quota, FtsRows) \cup {{}} :
       \E kept \in merge_candidates(nav[k].hits \cup found) :
         NavStep(k, "bm25", [nav[k] EXCEPT !.pc = IF kept = {} THEN "fuzzy" ELSE "docs",
                                           !.hits = kept])
  /\ UNCHANGED <<tables, cache, writes>>

(* navigate_symbol_docs: the document of each hit, by a statement of its   *)
(* own; it may be gone                                                     *)
ReadSymbolDoc(k, s) ==
  /\ s \in nav[k].hits
  /\ NavStep(k, "docs", [nav[k] EXCEPT !.hits = @ \ {s},
                                       !.seen = @ \cup {Candidate(nav[k].map, s)}])
  /\ UNCHANGED <<tables, cache, writes>>

EndCandidates(k) ==
  /\ nav[k].hits = {}
  /\ NavStep(k, "docs", [nav[k] EXCEPT !.pc = IF nav[k].seen = {} THEN "corpus" ELSE "lookup"])
  /\ UNCHANGED <<tables, cache, writes>>

(* No candidate: collect_cluster_corpus reads the summaries of all         *)
(* clusters, cluster_fallback_candidates their hashes (the labels of       *)
(* clusters without a summary are left out)                                *)
ReadCorpus(k) ==
  /\ LET corpus == {c \in ClusterNodes : members[c] # {}}
         shown(c) == LET i == select_current_summary(versions[c])
                     IN IF i = 0 THEN Absent ELSE versions[c][i].text
     IN NavStep(k, "corpus",
                IF corpus = {} \/ ~llm_enabled THEN Done
                ELSE [nav[k] EXCEPT !.pc = "hashes",
                                    !.short = {<<c, shown(c)>> : c \in corpus}])
  /\ UNCHANGED <<tables, cache, writes>>

ReadHashes(k) ==
  /\ NavStep(k, "hashes",
             [nav[k] EXCEPT !.pc = "lookup", !.source = "llm-cluster-only",
                            !.seen = {[node |-> p[1], cluster |-> p[1], short |-> p[2],
                                       hash |-> docs[p[1]]] : p \in nav[k].short}])
  /\ UNCHANGED <<tables, cache, writes>>

(* Mutant: the key names the candidates only *)
CacheKey_nodesOnly(seen) == {c.node : c \in seen}

(* navigate_cache_key: the nodes and the hashes of their documents, which  *)
(* say nothing of the cluster of a file or a symbol.  The intent and top_k *)
(* are the same in every call here                                         *)
CacheKey(seen) == {<<c.node, c.hash>> : c \in seen}

(* build_navigate_prompt *)
Shown(seen) == {<<c.node, c.cluster, c.short>> : c \in seen}

Lookup(k) ==
  /\ NavStep(k, "lookup",
       IF \E e \in cache : e.key = CacheKey(nav[k].seen) THEN [nav[k] EXCEPT !.pc = "cached"]
       ELSE IF llm_enabled THEN [nav[k] EXCEPT !.pc = "asking"]
       ELSE Done)
  /\ UNCHANGED <<tables, cache, writes>>

AnswerFromCache(k) ==
  /\ NavStep(k, "cached", Done)
  /\ UNCHANGED <<tables, cache, writes>>

(* llm_call: a server or network error, or a truncated text, is tried      *)
(* again; the heuristic order is the answer when no ranking comes          *)
Retry(k) ==
  /\ nav[k].tries < llm_retry_limit
  /\ NavStep(k, "asking", [nav[k] EXCEPT !.tries = @ + 1])
  /\ UNCHANGED <<tables, cache, writes>>

NoRanking(k) ==
  /\ NavStep(k, "asking", Done)
  /\ UNCHANGED <<tables, cache, writes>>

(* A ranking: INSERT OR REPLACE under the key computed before the call.    *)
(* When that fails nobody notices: then the step is NoRanking              *)
StoreRanking(k) ==
  /\ NavStep(k, "asking", Done)
  /\ cache' = {e \in cache : e.key # CacheKey(nav[k].seen)} \cup
              {[key |-> CacheKey(nav[k].seen), of |-> Shown(nav[k].seen),
                source |-> nav[k].source]}
  /\ UNCHANGED <<tables, writes>>

-----------------------------------------------------------------------------
(* get_latest_summary (common.rs), as the fact tools read it: newest       *)
(* first, a stale version hides the older ones                             *)
get_latest_summary(n) ==
  LET visible == {i \in DOMAIN versions[n] :
                    /\ versions[n][i].status \in AVAILABLE_STATUSES
                    /\ \A j \in i..Len(versions[n]) :
                         j > i => versions[n][j].status \in SKIPPABLE_STATUSES}
  IN {versions[n][i] : i \in visible}

(* The fact tools: a statement for the rows, then one for the summary of   *)
(* each row.  A call leaves nothing behind, so a session makes one         *)

NotAsked == \A k \in Callers : nav[k] = Idle

(* Without rows, or with an error, that is the answer *)
ReadRows(k, from, rows) ==
  /\ \E found \in UpTo(Quota, rows) \cup {{}} :
       NavStep(k, from, IF found = {} THEN Done ELSE [Idle EXCEPT !.pc = "facts", !.hits = found])
  /\ UNCHANGED <<tables, cache, writes>>

resolve_symbol(s) == {s} \cap {t \in SymbolNodes : body[t] # Absent}

(* query_symbol and query_symbol_summary *)
query_symbol(k) ==
  /\ NotAsked
  /\ \E s \in SymbolNodes : ReadRows(k, "idle", resolve_symbol(s))

query_cluster_summary(k) ==
  /\ NotAsked
  /\ \E named \in SUBSET ClusterNodes : ReadRows(k, "idle", {c \in named : members[c] # {}})

(* Whether the file is indexed is asked before its symbols are read *)
query_file_summary(k) ==
  /\ NotAsked
  /\ \E f \in FileNodes :
       NavStep(k, "idle", IF f \in files THEN [Idle EXCEPT !.pc = "outline", !.hits = {f}] ELSE Done)
  /\ UNCHANGED <<tables, cache, writes>>

ReadOutline(k) == ReadRows(k, "outline", nav[k].hits)

ShowSummary(k, n) ==
  /\ n \in nav[k].hits
  /\ NavStep(k, "facts",
       LET shown == {<<n, v.text>> : v \in get_latest_summary(n)}
       IN [nav[k] EXCEPT !.hits = @ \ {n}, !.short = @ \cup shown,
                         !.pc = IF nav[k].hits = {n} THEN "done" ELSE "facts"])
  /\ UNCHANGED <<tables, cache, writes>>

-----------------------------------------------------------------------------
WriterNext ==
  \/ \E f \in FileNodes : ScanFile(f) \/ DeleteFile(f)
  \/ \E n \in Nodes, text \in Texts, status \in Statuses : Summarize(n, text, status)

NavigateNext ==
  \E k \in Callers :
       \/ Navigate(k) \/ ReadClusters(k) \/ ReadFiles(k)
       \/ search_exact(k) \/ search_like(k) \/ search_fts(k) \/ search_fuzzy(k)
       \/ \E s \in SymbolNodes : ReadSymbolDoc(k, s)
       \/ EndCandidates(k) \/ ReadCorpus(k) \/ ReadHashes(k) \/ Lookup(k)
       \/ AnswerFromCache(k) \/ Retry(k) \/ NoRanking(k) \/ StoreRanking(k)

FactsNext ==
  \E k \in Callers :
    \/ query_symbol(k) \/ query_cluster_summary(k) \/ query_file_summary(k) \/ ReadOutline(k)
    \/ \E n \in Nodes : ShowSummary(k, n)

-----------------------------------------------------------------------------
(***************************************************************************)
(* Invariant: after every commit the search documents say what the facts   *)
(* and the summaries say: a node has one exactly while it exists, and the  *)
(* summary in it is the one the fact tools would show (projection.rs       *)
(* refresh_node against common.rs get_latest_summary).                     *)
(***************************************************************************)
ProjectionIsCurrent ==
  \A n \in Nodes :
    LET fact == Fact(n, body, files, members)
    IN /\ docs[n].fact = fact
       /\ fact # Absent =>
            IF docs[n].short = Absent THEN get_latest_summary(n) = {}
            ELSE \E v \in get_latest_summary(n) : v.text = docs[n].short

(***************************************************************************)
(* Invariant: the summary shown for a symbol or a cluster was written for  *)
(* the body or the members it has now, also when it was removed and made   *)
(* again (writer.rs write_file_facts, clusters.rs).                        *)
(***************************************************************************)
SummaryIsOfThisCode ==
  \A n \in SymbolNodes \cup ClusterNodes :
    Fact(n, body, files, members) # Absent =>
      \A v \in get_latest_summary(n) : v.of = WrittenFor(n)

(* Which candidates a prompt had, with which texts: all but their clusters *)
TextsOf(shown) == {<<x[1], x[3]>> : x \in shown}

(***************************************************************************)
(* Invariant: a ranking answered from the cache was made by the language   *)
(* model for the candidates this call has read, with the same texts,       *)
(* whatever was committed while it was asked.  Nothing is said of the      *)
(* clusters of the candidates: the model may have been shown other ones,   *)
(* as a rebuild changes neither the document of a file or a symbol nor the *)
(* key.  The cluster fallback, which reads text and hash in two            *)
(* statements, is excepted (navigate.rs navigate_cache_key,                *)
(* build_navigate_prompt, query_navigate_impl).                            *)
(***************************************************************************)
CachedRankingSawSameTexts ==
  \A k \in Callers : (nav[k].pc = "cached" /\ nav[k].source = "llm") =>
    \A e \in cache : (e.key = CacheKey(nav[k].seen) /\ e.source = "llm")
                       => TextsOf(e.of) = TextsOf(Shown(nav[k].seen))
=============================================================================
