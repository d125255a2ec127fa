----------------------------- MODULE McpServer ------------------------------
(***************************************************************************)
(* A session of the MCP server (remy-cc/src/mcp/mod.rs): it loads its      *)
(* configuration, stops when that disables it, and serves tools that share *)
(* nothing but the index.  A session is asked for the call graph, for      *)
(* ranked documents, for facts, or for nothing while the index changes: no *)
(* tool writes what a tool of another kind reads.                          *)
(***************************************************************************)
EXTENDS McpGraph, Retrieval

CONSTANTS
  Sessions,      \* what it is asked for: "graph", "navigate", "facts", "nothing"
  MaxDuring,     \* bound: commits in a session that navigates or reads facts
  StartCalls,    \* the call rows the index may start with
  StartImports   \* the import rows

ASSUME StartAssumption ==
  StartCalls \subseteq SUBSET CallRows /\ StartImports \subseteq SUBSET ImportRows

VARIABLE session   \* one of Sessions, or "disabled"

vars == <<session, cfg, graphVars, retrievalVars>>

Init ==
  /\ cfg \in Configurations
  /\ session \in IF server_enabled THEN Sessions ELSE {"disabled"}
  /\ symbols = Symbols
  /\ edges \in (IF session = "graph" THEN StartCalls ELSE {{}})
  /\ imports \in (IF session = "graph" THEN StartImports ELSE {{}})
  /\ commits = 0
  /\ call = [tool |-> None]
  /\ pc = "idle"
  /\ walk = NoWalk /\ plan = <<>> /\ flow = NoFlow
  /\ ever = {} /\ always = {} /\ dropped = FALSE
  /\ RetrievalInit

Next ==
  \/ session = "graph" /\ GraphNext /\ UNCHANGED <<session, cfg, retrievalVars>>
  \/ /\ \/ session \in {"navigate", "facts"} /\ writes < MaxDuring /\ WriterNext
        \/ session = "nothing" /\ WriterNext
        \/ session = "navigate" /\ NavigateNext
        \/ session = "facts" /\ FactsNext
     /\ UNCHANGED <<session, cfg, graphVars>>

Spec == Init /\ [][Next]_vars
=============================================================================
