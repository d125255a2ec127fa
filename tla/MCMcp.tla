------------------------------- MODULE MCMcp --------------------------------
(***************************************************************************)
(* Instance of McpServer: four symbols in two files, beside a third that   *)
(* has none; their calls form a chain with a shortcut, a way back and a    *)
(* call with two candidates; one scan commits while a graph tool runs.     *)
(* For navigate: one symbol, its file and a cluster, two bodies, which are *)
(* also the texts, two callers.                                            *)
(***************************************************************************)
EXTENDS McpServer, TLC

Field(default, valid) == [default |-> default, valid |-> valid]

(* Ranges scaled down from config.rs.  The limits of depth are met by the  *)
(* configurations, that of visited symbols by the question that asks for 3 *)
MCFIELDS == [REMY_MCP_SERVER_ENABLED |-> Field("true", {"true", "false"}),
             REMY_MCP_BFS_MAX_DEPTH |-> Field(3, 1..3),
             REMY_FLOW_MAX_DEPTH |-> Field(2, 1..2),
             REMY_FLOW_MAX_VISITED |-> Field(10, 4..10),
             REMY_LLM_API_KEY |-> Field("", {"", "key"}),
             REMY_LLM_RETRY_LIMIT |-> Field(1, 0..1)]

(* Of a project this layer sets the limits but not the key *)
MCLayers == {Nothing,
             [REMY_LLM_API_KEY |-> "key", REMY_MCP_BFS_MAX_DEPTH |-> 9, REMY_FLOW_MAX_DEPTH |-> 1,
              REMY_FLOW_MAX_VISITED |-> 4],
             [REMY_MCP_SERVER_ENABLED |-> "false"]}

MCSymbols == {"a", "b", "d", "e"}
MCFiles == {"f", "g", "h"}
MCFileOf == [s \in MCSymbols |-> IF s \in {"a", "b"} THEN "f" ELSE "g"]
MCNames == {"a", "e", "bd", "gd"}
MCNamed == [n \in MCNames |-> CASE n = "bd" -> {"b", "d"} [] n = "gd" -> {"d"} [] OTHER -> {n}]

Row(from, to, resolved, static) ==
  [from |-> from, to |-> to, resolved |-> resolved, static |-> static]
MCCallRows == {Row("a", "b", TRUE, TRUE), Row("b", "d", TRUE, TRUE), Row("d", "e", TRUE, FALSE),
               Row("b", "e", TRUE, TRUE), Row("e", "b", TRUE, TRUE), Row("a", "d", FALSE, TRUE)}
MCStartCalls == {MCCallRows, MCCallRows \ {Row("b", "e", TRUE, TRUE)}}

Import(from, to, derived) == [from |-> from, to |-> to, derived |-> derived]
MCImportRows == {Import("f", "g", FALSE), Import("f", "g", TRUE), Import("g", "f", TRUE)}
MCStartImports == {{Import("f", "g", TRUE), Import("g", "f", TRUE)}}

Walk(dir, depth) == [dir |-> dir, depth |-> depth]
Question(tool, names, paths, walks) ==
  [tool |-> tool, names |-> names, files |-> paths, walks |-> walks, depth |-> 2, visited |-> 9,
   static |-> FALSE, ambiguous |-> FALSE]
MCQuestions ==
  {Question("callers", <<"bd">>, {}, <<Walk("up", 3)>>),
   [Question("callees", <<"a">>, {}, <<Walk("down", 3)>>) EXCEPT !.ambiguous = TRUE],
   [Question("impact", <<>>, {"f"}, <<Walk("up", 1), Walk("down", 2)>>) EXCEPT !.static = TRUE],
   Question("impact", <<>>, {"g", "h"}, <<Walk("up", 2), Walk("down", 0)>>),
   Question("dependencies", <<>>, {"f"}, <<Walk("up", 2), Walk("down", 2)>>),
   Question("flow", <<"a", "e">>, {}, <<>>),
   [Question("flow", <<"a", "e">>, {}, <<>>) EXCEPT !.visited = 3],
   Question("flow", <<"gd", "bd", "a">>, {}, <<>>),
   Question("flow", <<"a">>, {}, <<>>)}

CallerSymmetry == Permutations(Callers)

MCOwner == [s \in {"s"} |-> "p"]
MCAlike == [exact |-> {}, prefix |-> {"s"}, fuzzy |-> {"s"}]
MCSignature == [t \in {"t1", "t2"} |-> "args"]
=============================================================================
