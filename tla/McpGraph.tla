------------------------------ MODULE McpGraph ------------------------------
(***************************************************************************)
(* The graph tools of the MCP server (remy-cc/src/mcp/graph.rs, deps.rs):  *)
(* callers, callees and impact walk the call graph level by level with SQL *)
(* statements, dependencies walks a snapshot of the import graph, and flow *)
(* loads the call graph and searches it from both ends.                    *)
(*                                                                         *)
(* The server reads over its own connection and opens no transaction, so a *)
(* scan of the daemon may commit between any two of its statements.  A     *)
(* commit is abstracted to what it does to the rows these tools read.      *)
(* Texts, line numbers and layers of the answers are left out.             *)
(***************************************************************************)
EXTENDS McpConfig, Integers, FiniteSets, FiniteSetsExt, SequencesExt

CONSTANTS
  Symbols,     \* qualified names
  Files,       \* source files
  FileOf,      \* FileOf[s]: the file part of a qualified name
  Names,       \* names a client asks for
  Named,       \* Named[n]: the qualified names with that name
  Hinted,      \* the names with a file or a class in front
  CallRows,    \* rows the table edges may hold
  ImportRows,  \* rows the import graph may hold
  Questions,   \* the calls a client makes: tool and arguments
  CHUNK,       \* parameters of one statement
  MaxCommits   \* bound: commits while a call is served

Tools == {"callers", "callees", "impact", "dependencies", "flow"}

ASSUME McpGraphAssumption ==
  /\ IsFiniteSet(Symbols)
  /\ FileOf \in [Symbols -> Files] /\ Named \in [Names -> SUBSET Symbols]
  /\ Hinted \subseteq Names
  /\ CallRows \subseteq [from : Symbols, to : Symbols, resolved : BOOLEAN, static : BOOLEAN]
  /\ ImportRows \subseteq [from : Files, to : Files, derived : BOOLEAN]
  /\ Questions \subseteq [tool : Tools, names : Seq(Names), files : SUBSET Files,
                           walks : Seq([dir : {"up", "down"}, depth : Int]),
                           depth : Int, visited : Int, static : BOOLEAN, ambiguous : BOOLEAN]
  /\ \A c \in Questions : /\ c.tool \in {"callers", "callees"} => c.names # <<>>
                          /\ c.tool # "flow" => c.walks # <<>>
  /\ CHUNK \in Nat \ {0}

VARIABLES
  edges,     \* rows of edges: callee_qualified (resolved) or edge_candidates
  symbols,   \* the table symbols
  imports,   \* files.imports, and what derive_import_bindings adds to it
  commits,   \* commits so far
  call,      \* the tool called and its arguments
  pc,        \* what the server does next
  walk,      \* the state of the walk
  plan,      \* the walks still to do: direction and depth
  flow,      \* the state of query_flow
  ever,      \* history: links that were in the graph at some time of the walk
  always,    \* history: links that were in it all the time
  dropped    \* history: a statement of the walk failed

index == <<edges, symbols, imports, commits>>
graphVars == <<edges, symbols, imports, commits, call, pc, walk, plan, flow,
               ever, always, dropped>>

None == "none"
AtMost(a, b) == IF a < b THEN a ELSE b

NoWalk == [seeds |-> {}, depth |-> 0, dir |-> "up", visited |-> {}, current |-> {},
           pending |-> {}, rows |-> {}, levels |-> <<>>, graph |-> {}]
NoFlow == [rows |-> {}, known |-> {}, resolved |-> <<>>, segments |-> <<>>,
           F |-> <<>>, B |-> <<>>, frontF |-> {}, frontB |-> {}, round |-> 0]

-----------------------------------------------------------------------------
(* The graph a call sees *)

(* prov_clause and the UNION with edge_candidates *)
Selected(row) == /\ call.static => row.static
                 /\ call.ambiguous \/ row.resolved

Pairs(rows) == {<<r.from, r.to>> : r \in rows}
CallPairs(rows) == Pairs({r \in rows : Selected(r)})

(* The column and the derivation are read one after the other, so which of *)
(* them knows an import is part of the link                                *)
ImportLinks(rows) == {<<r.from, r.to, r.derived>> : r \in rows}

GraphNow == IF call.tool = "dependencies" THEN ImportLinks(imports) ELSE CallPairs(edges)

(* One hop from the nodes: callers or importers (up), callees or imports   *)
Hop(pairs, dir, nodes) ==
  IF dir = "up" THEN {p[1] : p \in {q \in pairs : q[2] \in nodes}}
                ELSE {p[2] : p \in {q \in pairs : q[1] \in nodes}}

-----------------------------------------------------------------------------
(* Reference: the nodes d hops away *)

Reach(pairs, dir, nodes, depth) ==
  LET r[d \in 0..depth] == IF d = 0 THEN nodes ELSE Hop(pairs, dir, r[d - 1])
  IN r[depth]

-----------------------------------------------------------------------------
(* A commit of the daemon's worker: the scan of a file replaces its        *)
(* symbols, the calls and imports out of it, and the calls into it.  The   *)
(* imports derived for any file depend on which files there are            *)

Touches(row, f) == FileOf[row.from] = f \/ FileOf[row.to] = f

Serving == {"resolve", "seeds", "query", "imports", "derive", "symbols", "names"}

CommitIndex(f) ==
  /\ pc \in Serving      \* later commits are not seen by this call
  /\ commits < MaxCommits
  /\ commits' = commits + 1
  /\ \E own \in SUBSET {s \in Symbols : FileOf[s] = f} :
       symbols' = {s \in symbols : FileOf[s] # f} \cup own
  /\ \E new \in SUBSET {r \in CallRows : Touches(r, f)} :
       edges' = {r \in edges : ~Touches(r, f)} \cup {r \in new : r.to \in symbols'}
  /\ \E new \in SUBSET {r \in ImportRows : r.from = f \/ r.derived} :
       imports' = {r \in imports : r.from # f /\ ~r.derived} \cup new
  /\ edges' # edges \/ symbols' # symbols \/ imports' # imports
  /\ LET now == IF call.tool = "dependencies" THEN ImportLinks(imports')
                ELSE CallPairs(edges')
     IN ever' = ever \cup now /\ always' = always \cap now
  /\ UNCHANGED <<call, pc, walk, plan, flow, dropped>>

-----------------------------------------------------------------------------
(* A tool is called.  A call leaves nothing behind, so a session makes one *)

Ask(c) ==
  /\ pc = "idle"
  /\ call' = c
  /\ pc' = CASE c.tool \in {"callers", "callees"} -> "resolve"
             [] c.tool = "impact" -> "seeds"
             [] c.tool = "dependencies" -> "files"
             [] c.tool = "flow" -> IF Len(c.names) < 2 THEN "answered" ELSE "edges"
  /\ plan' = c.walks
  /\ walk' = [NoWalk EXCEPT !.pending = c.files]
  /\ ever' = {} /\ always' = {}
  /\ UNCHANGED <<index, flow, dropped>>

(* The first statement of a walk over the graph is next: bfs starts from   *)
(* the seeds                                                               *)
StartBfs(seeds, graph) ==
  LET depth == AtMost(Head(plan).depth, bfs_max_depth)
  IN /\ walk' = [seeds |-> seeds, depth |-> depth, dir |-> Head(plan).dir, visited |-> seeds,
                  current |-> seeds, pending |-> seeds, rows |-> {}, levels |-> <<>>,
                  graph |-> graph]
     /\ plan' = Tail(plan)
     /\ pc' = IF depth <= 0 THEN "walked" ELSE "query"

StartOf(seeds) == StartBfs(seeds, {}) /\ ever' = GraphNow /\ always' = GraphNow

(* resolve_targets: a qualified name is taken as it is, for another the    *)
(* symbols are read; a failed statement is an empty result                 *)
resolve_targets(n) == IF n \in Hinted THEN {Named[n]} ELSE {Named[n] \cap symbols, {}}

ResolveTargets ==
  /\ pc = "resolve"
  /\ \E seeds \in resolve_targets(call.names[1]) :
       IF seeds = {}
       THEN pc' = "answered" /\ UNCHANGED <<walk, plan, ever, always>>
       ELSE StartOf(seeds)
  /\ UNCHANGED <<index, call, flow, dropped>>

(* query_impact_impl: the symbols of one file after the other.  A file     *)
(* that is not indexed, or cannot be read, adds none                       *)
ReadSeeds(f) ==
  /\ pc = "seeds" /\ f \in walk.pending
  /\ \E own \in {{s \in symbols : FileOf[s] = f}, {}} :
       LET seeds == walk.seeds \cup own
           rest == walk.pending \ {f}
       IN IF rest # {}
          THEN /\ walk' = [walk EXCEPT !.seeds = seeds, !.pending = rest]
               /\ UNCHANGED <<pc, plan, ever, always>>
          ELSE IF seeds = {}
          THEN pc' = "answered" /\ UNCHANGED <<walk, plan, ever, always>>
          ELSE StartOf(seeds)
  /\ UNCHANGED <<index, call, flow, dropped>>

(* query_dependencies_impl: the files that are indexed *)
ResolveFiles ==
  /\ pc = "files"
  /\ \E found \in SUBSET call.files :
       /\ pc' = IF found = {} THEN "answered" ELSE "imports"
       /\ walk' = [walk EXCEPT !.seeds = found]
  /\ UNCHANGED <<index, call, plan, flow, ever, always, dropped>>

(* build_import_graph: two reads, each of which may fail unnoticed *)
ReadImports ==
  /\ pc = "imports"
  /\ pc' = "derive"
  /\ ever' = GraphNow /\ always' = GraphNow
  /\ \/ /\ walk' = [walk EXCEPT !.graph = ImportLinks({r \in imports : ~r.derived})]
        /\ UNCHANGED dropped
     \/ dropped' = TRUE /\ UNCHANGED walk
  /\ UNCHANGED <<index, call, plan, flow>>

DeriveBindings ==
  /\ pc = "derive"
  /\ \/ /\ StartBfs(walk.seeds, walk.graph \cup ImportLinks({r \in imports : r.derived}))
        /\ UNCHANGED dropped
     \/ StartBfs(walk.seeds, walk.graph) /\ dropped' = TRUE
  /\ UNCHANGED <<index, call, flow, ever, always>>

-----------------------------------------------------------------------------
(* bfs *)

(* Mutant: the rows of a chunk replace those of the chunks before *)
QueryChunk_lastChunkOnly ==
  /\ pc = "query" /\ call.tool # "dependencies" /\ walk.pending # {}
  /\ \E chunk \in kSubset(AtMost(CHUNK, Cardinality(walk.pending)), walk.pending) :
       walk' = [walk EXCEPT !.pending = @ \ chunk,
                            !.rows = Hop(CallPairs(edges), walk.dir, chunk)]
  /\ UNCHANGED <<index, call, pc, plan, flow, ever, always, dropped>>

(* One chunk of the current level, in the order of a hash set.  Its rows   *)
(* are dropped when the statement fails                                    *)
QueryChunk ==
  /\ pc = "query" /\ call.tool # "dependencies" /\ walk.pending # {}
  /\ \E chunk \in kSubset(AtMost(CHUNK, Cardinality(walk.pending)), walk.pending) :
       \/ /\ walk' = [walk EXCEPT !.pending = @ \ chunk,
                                  !.rows = @ \cup Hop(CallPairs(edges), walk.dir, chunk)]
          /\ UNCHANGED dropped
       \/ /\ walk' = [walk EXCEPT !.pending = @ \ chunk]
          /\ dropped' = TRUE
  /\ UNCHANGED <<index, call, pc, plan, flow, ever, always>>

(* The end of a level: the rows not seen before are the next one *)
NextLevel(rows) ==
  LET next == rows \ walk.visited
  IN /\ walk' = IF next = {} THEN [walk EXCEPT !.rows = {}]
                ELSE [walk EXCEPT !.visited = @ \cup next, !.current = next,
                                  !.pending = next, !.rows = {},
                                  !.levels = Append(@, next)]
     /\ pc' = IF next = {} \/ Len(walk.levels) + 1 = walk.depth THEN "walked" ELSE "query"
     /\ UNCHANGED <<index, call, plan, flow, ever, always, dropped>>

EndLevel ==
  /\ pc = "query" /\ call.tool # "dependencies" /\ walk.pending = {}
  /\ NextLevel(walk.rows)

(* bfs of deps.rs: a level of the snapshot *)
ImportLevel ==
  /\ pc = "query" /\ call.tool = "dependencies"
  /\ NextLevel(Hop(walk.graph, walk.dir, walk.current))

(* impact and dependencies: the second direction, from the same seeds; a   *)
(* walk over the snapshot has no statement to wait for                     *)
NextWalk ==
  /\ pc = "walked" /\ plan # <<>>
  /\ IF call.tool = "dependencies"
     THEN StartBfs(walk.seeds, walk.graph) /\ UNCHANGED <<ever, always, dropped>>
     ELSE StartOf(walk.seeds) /\ dropped' = FALSE
  /\ UNCHANGED <<index, call, flow>>

(* The answer has every level that was found, cut off where it is too long *)
Answer(tools) ==
  /\ pc = "walked" /\ plan = <<>> /\ call.tool \in tools
  /\ pc' = "answered"
  /\ walk' = NoWalk /\ ever' = {} /\ always' = {} /\ dropped' = FALSE
  /\ UNCHANGED <<index, call, plan, flow>>

format_bfs_result == Answer({"callers", "callees"})
format_impact_result == Answer({"impact"})
render_section == Answer({"dependencies"})

-----------------------------------------------------------------------------
(* query_flow_impl: load_graph reads the edges, then the symbols, and      *)
(* keeps the edges with both ends known                                    *)

LoadEdges ==
  /\ pc = "edges"
  /\ flow' = [NoFlow EXCEPT !.rows = {r \in edges : r.resolved /\ Selected(r)}]
  /\ pc' = "symbols"
  /\ UNCHANGED <<index, call, walk, plan, ever, always, dropped>>

(* An error, or a graph without edges, is the answer *)
LoadSymbols ==
  /\ pc = "symbols"
  /\ \/ LET rows == {r \in flow.rows : r.from \in symbols /\ r.to \in symbols}
        IN /\ flow' = [flow EXCEPT !.rows = rows, !.known = symbols]
           /\ pc' = IF rows = {} THEN "answered" ELSE "names"
     \/ pc' = "answered" /\ UNCHANGED flow
  /\ UNCHANGED <<index, call, walk, plan, ever, always, dropped>>

Degree(s) == Cardinality({r \in flow.rows : r.from = s}) + Cardinality({r \in flow.rows : r.to = s})
Calls == Pairs(flow.rows)
Neighbours(nodes) == Hop(Calls, "up", nodes) \cup Hop(Calls, "down", nodes)

(* Hops, at most two, from a candidate to a symbol resolved before *)
Apart(s) ==
  LET near == Neighbours({s})
      others == Range(flow.resolved) \ {None}
  IN IF near \cap others # {} THEN 1
     ELSE IF (near \cup Neighbours(near)) \cap others # {} THEN 2 ELSE 3

Closer(s, t) == Apart(s) < Apart(t) \/ (Apart(s) = Apart(t) /\ Degree(s) > Degree(t))

Known(s) == IF s \in flow.known THEN s ELSE None

(* resolve_flow_symbol: what a name may stand for.  The rows are read now, *)
(* the graph was loaded before.  Among equals the length of the name, the  *)
(* tokens of the other names and the row order decide: any of them         *)
resolve_flow_symbol(n) ==
  LET rows == Named[n] \cap symbols
      candidates == rows \cap flow.known
      connected == {s \in candidates : Apart(s) < 3}
  IN IF rows = {} THEN {None}
     ELSE IF n \in Hinted \/ Cardinality(rows) = 1 \/ candidates = {}
     THEN {Known(s) : s \in rows}
     ELSE IF connected # {} THEN {s \in connected : \A t \in connected : ~Closer(t, s)}
     ELSE candidates

ResolveName ==
  /\ pc = "names"
  /\ \E s \in resolve_flow_symbol(call.names[Len(flow.resolved) + 1]) \cup {None} :
       LET resolved == Append(flow.resolved, s)
       IN /\ flow' = [flow EXCEPT !.resolved = resolved]
          /\ pc' = IF Len(resolved) < Len(call.names) THEN "names"
                   ELSE IF Range(resolved) = {None} THEN "answered" ELSE "pair"
  /\ UNCHANGED <<index, call, walk, plan, ever, always, dropped>>

-----------------------------------------------------------------------------
(* bidir_bfs.  F[n] is the path the parents make from the source to n,     *)
(* B[n] the one from n to the target                                       *)

Source == flow.resolved[Len(flow.segments) + 1]
Target == flow.resolved[Len(flow.segments) + 2]
FlowDepth == AtMost(flow_max_depth, call.depth)
FlowVisited == AtMost(flow_max_visited, call.visited)

EndSegment(path) ==
  /\ flow' = [flow EXCEPT !.segments = Append(@, path)]
  /\ pc' = IF Len(flow.segments) + 2 = Len(flow.resolved) THEN "flowed" ELSE "pair"

StartPair ==
  /\ pc = "pair"
  /\ IF Source = None \/ Target = None THEN EndSegment(<<>>)
     ELSE IF Source = Target THEN EndSegment(<<Source>>)
     ELSE /\ flow' = [flow EXCEPT !.F = [n \in {Source} |-> <<n>>],
                                  !.B = [n \in {Target} |-> <<n>>],
                                  !.frontF = {Source}, !.frontB = {Target}, !.round = 0]
          /\ pc' = "round"
  /\ UNCHANGED <<index, call, walk, plan, ever, always, dropped>>

(* Out of rounds, over the budget, or nothing left to expand *)
GiveUp ==
  /\ pc = "round"
  /\ \/ flow.round >= FlowDepth
     \/ Cardinality(DOMAIN flow.F) + Cardinality(DOMAIN flow.B) > FlowVisited
     \/ flow.frontF = {} /\ flow.frontB = {}
  /\ EndSegment(<<>>)
  /\ UNCHANGED <<index, call, walk, plan, ever, always, dropped>>

Open == /\ flow.round < FlowDepth
        /\ Cardinality(DOMAIN flow.F) + Cardinality(DOMAIN flow.B) <= FlowVisited
        /\ flow.frontF # {} \/ flow.frontB # {}

(* reconstruct_path: the two halves that a call between them joins *)
Joined(p) == flow.F[p[1]] \o flow.B[p[2]]

(* The first contact ends the search; which one it is the order of the     *)
(* rows decides                                                            *)
ExpandForward ==
  /\ pc = "round" /\ Open
  /\ LET met == {p \in Calls : p[1] \in flow.frontF /\ p[2] \in DOMAIN flow.B}
         fresh == Hop(Calls, "down", flow.frontF) \ DOMAIN flow.F
     IN IF met # {}
        THEN \E p \in met : EndSegment(Joined(p))
        ELSE /\ \E parent \in [fresh -> flow.frontF] :
                  /\ \A n \in fresh : <<parent[n], n>> \in Calls
                  /\ flow' = [flow EXCEPT
                       !.F = [n \in DOMAIN flow.F \cup fresh |->
                                IF n \in fresh THEN Append(flow.F[parent[n]], n) ELSE flow.F[n]],
                       !.frontF = fresh]
             /\ pc' = "backward"
  /\ UNCHANGED <<index, call, walk, plan, ever, always, dropped>>

(* Mutant: the backward search does not look for a contact *)
ExpandBackward_noContact ==
  /\ pc = "backward"
  /\ LET fresh == Hop(Calls, "up", flow.frontB) \ DOMAIN flow.B
     IN \E parent \in [fresh -> flow.frontB] :
          /\ \A n \in fresh : <<n, parent[n]>> \in Calls
          /\ flow' = [flow EXCEPT
               !.B = [n \in DOMAIN flow.B \cup fresh |->
                        IF n \in fresh THEN <<n>> \o flow.B[parent[n]] ELSE flow.B[n]],
               !.frontB = fresh, !.round = @ + 1]
  /\ pc' = "round"
  /\ UNCHANGED <<index, call, walk, plan, ever, always, dropped>>

ExpandBackward ==
  /\ pc = "backward"
  /\ LET met == {p \in Calls : p[2] \in flow.frontB /\ p[1] \in DOMAIN flow.F}
         fresh == Hop(Calls, "up", flow.frontB) \ DOMAIN flow.B
     IN IF met # {}
        THEN \E p \in met : EndSegment(Joined(p))
        ELSE /\ \E parent \in [fresh -> flow.frontB] :
                  /\ \A n \in fresh : <<n, parent[n]>> \in Calls
                  /\ flow' = [flow EXCEPT
                       !.B = [n \in DOMAIN flow.B \cup fresh |->
                                IF n \in fresh THEN <<n>> \o flow.B[parent[n]] ELSE flow.B[n]],
                       !.frontB = fresh, !.round = @ + 1]
             /\ pc' = "round"
  /\ UNCHANGED <<index, call, walk, plan, ever, always, dropped>>

(* format_flow: the segments in order, with the breaks between them *)
AnswerFlow ==
  /\ pc = "flowed"
  /\ pc' = "answered"
  /\ flow' = NoFlow
  /\ UNCHANGED <<index, call, walk, plan, ever, always, dropped>>

GraphNext ==
  \/ \E c \in Questions : Ask(c)
  \/ \E f \in Files : CommitIndex(f) \/ ReadSeeds(f)
  \/ ResolveTargets \/ ResolveFiles \/ ReadImports \/ DeriveBindings
  \/ QueryChunk \/ EndLevel \/ ImportLevel \/ NextWalk
  \/ format_bfs_result \/ format_impact_result \/ render_section
  \/ LoadEdges \/ LoadSymbols \/ ResolveName \/ StartPair \/ GiveUp
  \/ ExpandForward \/ ExpandBackward \/ AnswerFlow

-----------------------------------------------------------------------------
(***************************************************************************)
(* Invariant: the levels a walk reports are levels of the index although   *)
(* scans commit between its statements.  A node of level d is d hops away  *)
(* over links the index held during the walk, no node is reported twice,   *)
(* and unless a statement failed no node is missing, or listed deeper,     *)
(* than the links that were there all the time make it (graph.rs bfs,      *)
(* deps.rs bfs).                                                           *)
(***************************************************************************)
WalkMatchesIndex ==
  pc = "walked" =>
    LET level(d) == walk.levels[d]
        upto(d) == walk.seeds \cup UNION {level(k) : k \in 1..AtMost(d, Len(walk.levels))}
    IN /\ \A d \in DOMAIN walk.levels :
            /\ level(d) \subseteq Reach(ever, walk.dir, walk.seeds, d)
            /\ level(d) \cap upto(d - 1) = {}
       /\ ~dropped => \A d \in 1..walk.depth :
            Reach(always, walk.dir, walk.seeds, d) \subseteq upto(d)

(***************************************************************************)
(* Invariant: the path between two symbols is a shortest one of the loaded *)
(* graph, and there is none only if none has at most 2 * max_depth calls   *)
(* or the searches from both ends see more than max_visited symbols        *)
(* (graph.rs bidir_bfs).                                                   *)
(***************************************************************************)
FlowIsShortest ==
  \A i \in DOMAIN flow.segments :
    LET path == flow.segments[i]
        src == flow.resolved[i]
        tgt == flow.resolved[i + 1]
        away(d) == tgt \in Reach(Calls, "down", {src}, d)
        seen == UNION {Reach(Calls, "down", {src}, d) : d \in 0..FlowDepth}
        seenBack == UNION {Reach(Calls, "up", {tgt}, d) : d \in 0..FlowDepth}
    IN (src # None /\ tgt # None) =>
         IF path = <<>>
         THEN \/ \A d \in 0..(2 * FlowDepth) : ~away(d)
              \/ Cardinality(seen) + Cardinality(seenBack) > FlowVisited
         ELSE /\ path[1] = src /\ Last(path) = tgt
              /\ \A k \in 1..(Len(path) - 1) : <<path[k], path[k + 1]>> \in Calls
              /\ \A d \in 0..(Len(path) - 2) : ~away(d)
=============================================================================
