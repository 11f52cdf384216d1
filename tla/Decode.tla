------------------------------- MODULE Decode -------------------------------
(***************************************************************************)
(* The life of one inbound JSON object: decode_value turns it into a       *)
(* Response or an error, the dispatcher routes that by id to the request   *)
(* it answers, and the method that sent the request makes its result of    *)
(* it.  The wire has two dialects: objects tagged with "type" (the mock    *)
(* dialect) and the untagged ones of a live daemon, which decode_value     *)
(* tells apart by the keys they have.                                      *)
(***************************************************************************)
EXTENDS Protocol

(* The keys decode_value and the bodies look at.  "dove" stands for vedata *)
(* or vemetadata, "trace" for tracedata or jtopentracedata.                *)
KnownKey == { "id", "has_results", "dove", "cont_id", "job", "version", "trace", "messages" }

(* Keys that nobody looks at: serde skips them (execution_time, metadata,  *)
(* sql_rc and whatever a later daemon adds).                               *)
CONSTANT OtherKey

ASSUME KeysAssumption == OtherKey \cap KnownKey = {}

Tag == { "connected", "pong", "exited", "query_result", "prepared_statement",
         "sql_closed", "cl_result", "version", "db_job", "config_set",
         "trace_data", "dove_result", "error", "unknown" }

(* `data' is absent, rows named_rows_from_wire can name, or rows it        *)
(* cannot; `success' is a boolean or absent.                               *)
Frame == [type : Tag \cup {"none"}, keys : SUBSET (KnownKey \cup OtherKey),
          data : {"absent", "good", "bad"}, success : {"true", "false", "absent"}]

(* What a frame decodes to: its variant, its success flag (TRUE where the  *)
(* variant has none), and whether it kept the request's id (or has the     *)
(* empty one).                                                             *)
Undecodable == [variant |-> "Undecodable", success |-> FALSE, id |-> FALSE]

VARIABLES
  request,   \* the outstanding request
  frame,     \* the object the daemon sent
  stage,     \* "read", "decoded", "routed" or "done"
  response,  \* what it decodes to, then what the slot's kind makes of it
  outcome    \* the result of the method that sent the request

vars == <<request, frame, stage, response, outcome>>

(* Keys that a tagged frame's body does not read are left out.             *)
Init ==
  /\ request \in Request
  /\ frame \in {f \in Frame :
       IF f.type = "none" THEN "messages" \notin f.keys
       ELSE /\ f.keys \cap {"has_results", "dove", "trace"} = {}
            /\ f.data # "absent" => f.type = "query_result"}
  /\ stage = "read" /\ response = Undecodable /\ outcome = "none"
-----------------------------------------------------------------------------
(* serde: a body needs its required fields, and rows that can be named.    *)
body(f, variant, required) ==
  IF required \subseteq f.keys /\ f.success # "absent"
     /\ (variant = "QueryResult" => f.data # "bad")
  THEN [variant |-> variant, success |-> f.success = "true", id |-> TRUE]
  ELSE Undecodable

(* The untagged variants that read their fields one by one.                *)
loose(f, variant) ==
  [variant |-> variant, success |-> f.success # "false", id |-> "id" \in f.keys]

decode_tagged(f) ==
  LET bare(variant, required) ==
        IF required \subseteq f.keys THEN loose([f EXCEPT !.success = "true"], variant)
        ELSE Undecodable
  IN CASE f.type = "connected"          -> bare("Connected", {"id", "job"})
       [] f.type = "pong"               -> bare("Pong", {"id"})
       [] f.type = "exited"             -> bare("Exited", {"id"})
       [] f.type = "query_result"       -> body(f, "QueryResult", {"id"})
       [] f.type = "prepared_statement" -> body(f, "PreparedStatement", {"id", "cont_id"})
       [] f.type = "sql_closed"         -> body(f, "SqlClosed", {"id"})
       [] f.type = "cl_result"          -> body(f, "ClResult", {"id", "messages"})
       [] f.type = "version"            -> body(f, "Version", {"id", "version"})
       [] f.type = "db_job"             -> body(f, "DbJob", {"id", "job"})
       [] f.type = "config_set"         -> body(f, "ConfigSet", {"id"})
       [] f.type = "trace_data"         -> body(f, "TraceData", {"id"})
       [] f.type = "dove_result"        -> body(f, "DoveResult", {"id"})
       [] f.type = "error"              -> body(f, "Error", {"id"})
       [] OTHER                         -> Undecodable

(* Mutant of decode_value: every failure is an Error.                      *)
decode_value_FailureIsError(f) ==
  IF f.type = "none" /\ f.success = "false" THEN body(f, "Error", {"id"})
  ELSE IF f.type # "none" THEN decode_tagged(f)
  ELSE IF f.data # "absent" \/ "has_results" \in f.keys THEN body(f, "QueryResult", {"id"})
  ELSE loose(f, "Pong")

(* Mutant of decode_value: rows are looked for before an explain tree.     *)
decode_value_RowsFirst(f) ==
  LET result == f.data # "absent" \/ "has_results" \in f.keys IN
  CASE f.type # "none"        -> decode_tagged(f)
    [] OTHER ->
  CASE result                 -> body(f, "QueryResult", {"id"})
    [] "dove" \in f.keys      -> body(f, "DoveResult", {"id"})
    [] f.success = "false"    -> body(f, "Error", {"id"})
    [] "cont_id" \in f.keys   -> body(f, "PreparedStatement", {"id"})
    [] "job" \in f.keys       -> loose(f, "Connected")
    [] "version" \in f.keys   -> loose(f, "Version")
    [] "trace" \in f.keys     -> loose(f, "TraceData")
    [] OTHER                  -> loose(f, "Pong")

(* Mutant of decode_value: a failure without a cause is taken for an ack.  *)
decode_value_FailureIsAck(f) ==
  IF f.type # "none" THEN decode_tagged(f) ELSE loose(f, "Pong")

(* The first of these that applies; the order is the whole point.          *)
decode_value(f) ==
  LET result == f.data # "absent" \/ "has_results" \in f.keys
      dove   == "dove" \in f.keys
  IN IF f.type # "none" THEN decode_tagged(f)
     ELSE IF f.success = "false"
          THEN body(f, IF dove THEN "DoveResult" ELSE IF result THEN "QueryResult" ELSE "Error",
                    {"id"})
     ELSE IF "cont_id" \in f.keys /\ ~result THEN body(f, "PreparedStatement", {"id"})
     ELSE IF dove                    THEN body(f, "DoveResult", {"id"})
     ELSE IF result                  THEN body(f, "QueryResult", {"id"})
     ELSE IF "job" \in f.keys        THEN loose(f, "Connected")
     ELSE IF "version" \in f.keys    THEN loose(f, "Version")
     ELSE IF "trace" \in f.keys      THEN loose(f, "TraceData")
     ELSE IF f.success = "true"      THEN loose(f, "Pong")
     ELSE Undecodable

(* serde_json::from_value::<Response>(value).                              *)
Deserialize ==
  /\ stage = "read"
  /\ response' = decode_value(frame)
  /\ stage' = "decoded"
  /\ UNCHANGED <<request, frame, outcome>>

(* Mutant of Route: an object that does not decode is dropped.             *)
RouteDecodedOnly ==
  /\ stage = "decoded"
  /\ IF response.id
     THEN /\ stage' = "routed"
          /\ response' = [response EXCEPT !.variant =
                            remap_response(pending_kind(request), response.variant)]
     ELSE stage' = "done" /\ UNCHANGED response
  /\ UNCHANGED <<request, frame, outcome>>

(* The dispatcher routes a response by its own id, and an object that does *)
(* not decode by the id the object has; an answer without one is dropped.  *)
Route ==
  /\ stage = "decoded"
  /\ IF response.id
     THEN /\ stage' = "routed"
          /\ response' = [response EXCEPT !.variant =
                            remap_response(pending_kind(request), response.variant)]
     ELSE /\ stage' = IF response = Undecodable /\ "id" \in frame.keys THEN "routed" ELSE "done"
          /\ UNCHANGED response
  /\ UNCHANGED <<request, frame, outcome>>

(* Methods that look at the success flag of the variant they wait for.     *)
checks_success == {"GetVersion", "GetDbJob", "SetConfig", "GetTraceData", "Dove"}

(* Destructors send these and ignore the result.                           *)
fire_and_forget == {"SqlClose", "Exit"}

(* The result of the method that sent the request; the tests are in order. *)
result_of(req, resp) ==
  IF req \in fire_and_forget                        THEN "Ignored"
  ELSE IF resp = Undecodable                        THEN "Protocol"
  ELSE IF resp.variant \notin accepted(req)         THEN "Protocol"
  ELSE IF resp.variant = "Error"                    THEN IF req = "Connect" THEN "Auth" ELSE "Server"
  ELSE IF req \in checks_success /\ ~resp.success   THEN "Server"
  ELSE "Ok"

Match ==
  /\ stage = "routed"
  /\ outcome' = result_of(request, response)
  /\ stage' = "done"
  /\ UNCHANGED <<request, frame, response>>

Next == Deserialize \/ Route \/ Match

Spec == Init /\ [][Next]_vars
-----------------------------------------------------------------------------
(* External: what a live daemon sends when a request succeeds, as the      *)
(* comments of decode.rs and dispatcher.rs record it.                      *)
live_answer(req, f) ==
  LET has(ks) == ks \subseteq f.keys
      only(ks) == f.keys \subseteq ks \cup OtherKey
      result == f.data # "absent" \/ "has_results" \in f.keys
  IN /\ f.type = "none" /\ has({"id"}) /\ f.data # "bad"
     /\ f.success = "true" \/ (req = "Cl" /\ f.success = "false")
     /\ req \in {"Sql", "PrepareSqlExecute", "Execute", "SqlMore", "Cl"} =>
          result /\ only({"id", "has_results", "cont_id", "job"})
     /\ req = "Dove"         => has({"dove"}) /\ only({"id", "dove", "has_results"})
     /\ req = "PrepareSql"   => ~result /\ only({"id", "cont_id"})
     /\ req = "Connect"      => ~result /\ has({"job"}) /\ only({"id", "job", "version"})
     /\ req = "GetDbJob"     => ~result /\ has({"job"}) /\ only({"id", "job"})
     /\ req = "GetVersion"   => ~result /\ has({"version"}) /\ only({"id", "version"})
     /\ req = "GetTraceData" => ~result /\ only({"id", "trace"})
     /\ req \in {"SetConfig", "Ping", "SqlClose", "Exit"} => ~result /\ only({"id"})

Settled == stage = "done" /\ outcome # "none"

(* An object that names the outstanding request settles it, whatever else  *)
(* it has or lacks; one that names no request settles nothing.             *)
OwnFrameSettles == stage = "done" => (Settled <=> "id" \in frame.keys)

(* Every success answer of a live daemon is understood: no order of the    *)
(* tests in decode_value and no remapping mistakes one for another.        *)
LiveAnswersUsable ==
  stage = "done" /\ live_answer(request, frame) => outcome \in {"Ok", "Ignored"}

(* A failure with no rows and no explain tree, untagged or of type error.  *)
(* Other types say what they are whatever success is: a query_result or a  *)
(* prepared_statement with success false is Ok to its method, as is an     *)
(* untagged failure with rows, and they are not spoken of here.            *)
BareFailure ==
  /\ frame.success = "false" /\ frame.data = "absent"
  /\ frame.type \in {"none", "error"} /\ frame.keys \cap {"has_results", "dove"} = {}

(* A bare failure never passes for the success of any method.              *)
BareFailureNeverOk == stage = "done" /\ BareFailure => outcome # "Ok"

(* A failed CL command keeps its job log: Job::cl returns Ok with          *)
(* success = false, "which does not throw"; only a bare failure is         *)
(* Error::Server.                                                          *)
JobLogKept ==
  /\ Settled /\ request = "Cl" /\ frame.type = "none" /\ frame.success = "false"
  /\ frame.data # "bad" /\ "dove" \notin frame.keys
  => outcome = IF frame.data = "good" \/ "has_results" \in frame.keys THEN "Ok" ELSE "Server"
=============================================================================
