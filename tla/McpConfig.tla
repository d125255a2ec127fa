----------------------------- MODULE McpConfig ------------------------------
(***************************************************************************)
(* The configuration of the MCP server (remy-cc/src/mcp/config.rs): read   *)
(* once, before it serves.  Each field is the first valid one of the       *)
(* environment, the file of the project, the file of the user and the      *)
(* default; diagnostics are left out.                                      *)
(***************************************************************************)
EXTENDS Naturals, Sequences

CONSTANTS
  FIELDS,   \* FIELDS[key]: its default and the values its kind accepts
  Layers,   \* what a layer may say: functions on some of the keys
  Dirs      \* directories from the working directory up to the root

ASSUME McpConfigAssumption ==
  /\ \A key \in {"REMY_MCP_BFS_MAX_DEPTH", "REMY_FLOW_MAX_DEPTH", "REMY_FLOW_MAX_VISITED"} :
       key \in DOMAIN FIELDS /\ FIELDS[key].valid \subseteq Nat
  /\ \A key \in DOMAIN FIELDS : FIELDS[key].default \in FIELDS[key].valid
  /\ \A layer \in Layers : DOMAIN layer \subseteq DOMAIN FIELDS
  /\ Dirs \in Nat

VARIABLE cfg   \* the effective value of each field

PROJECT_FORBIDDEN_KEYS == {"REMY_LLM_API_KEY", "REMY_LLM_TLS_INSECURE"}
NoRoot == 0

(* discover_project_root: the first directory with a marker below the home *)
(* directory, where the search ends                                        *)
discover_project_root(marked, home) ==
  LET below == {d \in marked : \A e \in 1..d : e # home}
  IN IF below = {} THEN NoRoot ELSE CHOOSE d \in below : \A e \in below : d <= e

(* read_config_values: a file of the project may not set these keys.  A    *)
(* file that is missing or malformed is a layer without keys               *)
read_config_values(layer, project) ==
  [key \in DOMAIN layer \ (IF project THEN PROJECT_FORBIDDEN_KEYS ELSE {}) |-> layer[key]]

Nothing == [key \in {} |-> 0]

(* coerce succeeds *)
Accepts(key, layer) == key \in DOMAIN layer /\ layer[key] \in FIELDS[key].valid

load_from(env, project, user, root) ==
  LET layers == <<env,
                  IF root = NoRoot THEN Nothing ELSE read_config_values(project, TRUE),
                  read_config_values(user, FALSE),
                  [key \in DOMAIN FIELDS |-> FIELDS[key].default]>>
      first(key) == CHOOSE i \in 1..4 : /\ Accepts(key, layers[i])
                                        /\ \A j \in 1..(i - 1) : ~Accepts(key, layers[j])
  IN [key \in DOMAIN FIELDS |-> layers[first(key)][key]]

Configurations ==
  {load_from(env, project, user, discover_project_root(marked, home)) :
     env \in Layers, project \in Layers, user \in Layers,
     marked \in SUBSET (1..Dirs), home \in 1..(Dirs + 1)}

bfs_max_depth == cfg["REMY_MCP_BFS_MAX_DEPTH"]
flow_max_depth == cfg["REMY_FLOW_MAX_DEPTH"]
flow_max_visited == cfg["REMY_FLOW_MAX_VISITED"]
llm_enabled == cfg["REMY_LLM_API_KEY"] # ""
llm_retry_limit == cfg["REMY_LLM_RETRY_LIMIT"]
server_enabled == cfg["REMY_MCP_SERVER_ENABLED"] = "true"
=============================================================================
