------------------------------ MODULE Protocol ------------------------------
(***************************************************************************)
(* The request and response vocabulary of the Mapepire wire protocol, as   *)
(* the client sees it: which kind of reply slot a request opens, and how   *)
(* the dispatcher turns the ambiguous acknowledgements of a live daemon    *)
(* into the response variant its caller is waiting for.  Payloads are left *)
(* out; a response is represented by its variant.                          *)
(***************************************************************************)

(* protocol::Request, without Connect's and Sql's fields.                  *)
Request == { "Connect", "Sql", "PrepareSql", "PrepareSqlExecute", "Execute",
             "SqlMore", "SqlClose", "Cl", "GetVersion", "GetDbJob",
             "SetConfig", "GetTraceData", "Dove", "Ping", "Exit" }

(* protocol::Response.                                                     *)
Response == { "Connected", "Pong", "Exited", "QueryResult",
              "PreparedStatement", "SqlClosed", "ClResult", "Version",
              "DbJob", "ConfigSet", "TraceData", "DoveResult", "Error" }

(* transport::dispatcher::PendingKind.                                     *)
PendingKind == { "Connect", "Ping", "GetDbJob", "GetVersion", "PrepareSql",
                 "SetConfig", "SqlClose", "Exit", "GetTraceData", "Other" }

(* Requests that return rows, CL output or explain trees share one kind.   *)
pending_kind(request) == IF request \in PendingKind THEN request ELSE "Other"

(* A live daemon acknowledges with an untagged {id, success} (decoded as   *)
(* Pong) or {id, success, job} (decoded as Connected).  The kind of the    *)
(* outstanding request says what was meant.                                *)
remap_response(kind, response) ==
  CASE kind = "GetDbJob"     /\ response = "Connected" -> "DbJob"
    [] kind = "SetConfig"    /\ response = "Pong" -> "ConfigSet"
    [] kind = "SqlClose"     /\ response = "Pong" -> "SqlClosed"
    [] kind = "Exit"         /\ response = "Pong" -> "Exited"
    [] kind = "PrepareSql"   /\ response = "Pong" -> "PreparedStatement"
    [] kind = "GetTraceData" /\ response = "Pong" -> "TraceData"
    [] OTHER -> response

(* What the callers of `send' match on before they fall through to        *)
(* `unexpected': Job::execute_inner, prepare, ping, server_version,        *)
(* db_job_name, apply_trace, fetch_trace, visual_explain, cl, Query and    *)
(* the handshake.  SqlClose and Exit are fire-and-forget: any answer does. *)
accepted(request) ==
  CASE request = "Connect"      -> {"Connected", "Error"}
    [] request = "PrepareSql"   -> {"PreparedStatement", "Pong", "Error"}
    [] request = "Cl"           -> {"QueryResult", "ClResult", "Error"}
    [] request = "GetVersion"   -> {"Version"}
    [] request = "GetDbJob"     -> {"DbJob"}
    [] request = "SetConfig"    -> {"ConfigSet"}
    [] request = "GetTraceData" -> {"TraceData"}
    [] request = "Dove"         -> {"DoveResult", "Error"}
    [] request = "Ping"         -> {"Pong"}
    [] request \in {"SqlClose", "Exit"} -> Response
    [] OTHER                    -> {"QueryResult", "Error"}

(* External: how a daemon answers a request that succeeds, after decoding. *)
(* Each set has the live untagged form and the tagged form of the mock     *)
(* dialect, which decode_value both accepts.                               *)
daemon_answers(request) ==
  CASE request = "Connect"      -> {"Connected"}
    [] request = "PrepareSql"   -> {"Pong", "PreparedStatement"}
    [] request = "Cl"           -> {"QueryResult", "ClResult"}
    [] request = "GetVersion"   -> {"Version"}
    [] request = "GetDbJob"     -> {"Connected", "DbJob"}
    [] request = "SetConfig"    -> {"Pong", "ConfigSet"}
    [] request = "GetTraceData" -> {"Pong", "TraceData"}
    [] request = "Dove"         -> {"DoveResult"}
    [] request = "Ping"         -> {"Pong"}
    [] request = "SqlClose"     -> {"Pong", "SqlClosed"}
    [] request = "Exit"         -> {"Pong", "Exited"}
    [] OTHER                    -> {"QueryResult"}
=============================================================================
