----------------------------- MODULE ApiRequest -----------------------------
(***************************************************************************)
(* From an HTTP request to a VmmAction and back to a response              *)
(* (api_server/src/parsed_request.rs, request/*.rs, handle_request): the   *)
(* routing, the checks of every endpoint, and its metrics.  A URI is the   *)
(* sequence of what stands between its slashes.  A body deserializes or    *)
(* not; of its fields, it has the id, the action and whether those that    *)
(* the handlers look at are given: "plain", a "deprecated" one, "both" of  *)
(* an exclusive pair, or "nothing".                                        *)
(***************************************************************************)
EXTENDS Naturals, Sequences, FiniteSets

CONSTANTS Uris, Bodies, MaxRequests

NoBody == [present |-> FALSE, ok |-> FALSE, id |-> "", given |-> "nothing"]
Requests == [method : {"Get", "Put", "Patch"}, uri : Uris, body : Bodies]

Metrics == {"get", "put_actions", "put_boot_source", "put_drive", "put_logger", "put_machine_cfg", "put_metrics",
            "put_mmds", "put_network", "put_vsock", "patch_drive", "patch_machine_cfg", "patch_mmds", "patch_network",
            "none"}   \* "none": not counted

NoCounts == [m \in Metrics |-> 0]
NoRequest == [method |-> "none", uri |-> <<>>, body |-> NoBody]
Served == [action |-> "none", error |-> "served"]

VARIABLES
    last,              \* the last request
    parsed,            \* what try_from_request made of it
    response,          \* its answer: the status, and whether set_deprecation was called
    count, fails,      \* METRICS.{get,put,patch}_api_requests
    deprecated_http_api_calls,
    shutdown_flag,
    served             \* the number of requests
apireqvars == <<last, parsed, response, count, fails, deprecated_http_api_calls, shutdown_flag, served>>

-----------------------------------------------------------------------------
(* Parsing.  A result has the action or the error, the metric that counts   *)
(* the request and what is added to it, and whether parsing_info has a       *)
(* deprecation message.                                                      *)

Ok(metric, action) ==
    [action |-> action, error |-> "", metric |-> metric, failed |-> FALSE, counted |-> 1, deprecated |-> FALSE]
Err(metric, error) ==
    [action |-> "none", error |-> error, metric |-> metric, failed |-> TRUE, counted |-> 1, deprecated |-> FALSE]
\* An error that the metric of failures misses.
Missed(metric, error) == [Err(metric, error) EXCEPT !.failed = FALSE]
\* An accepted request with a deprecated field: deprecated_http_api_calls is
\* incremented and a message appended.
Deprecated(r, yes) == [r EXCEPT !.deprecated = yes /\ r.error = ""]

\* trim_start_matches and split_terminator
trim_start(uri) ==
    SubSeq(uri, 1 + Cardinality({k \in DOMAIN uri : \A j \in 1..k : uri[j] = ""}), Len(uri))
split_terminator(uri) ==
    IF uri # <<>> /\ uri[Len(uri)] = "" THEN SubSeq(uri, 1, Len(uri) - 1) ELSE uri
path_tokens(uri) == split_terminator(trim_start(uri))

checked_id(id) == CASE id = "" -> "EmptyID" [] id = "not-an-id" -> "InvalidID" [] OTHER -> ""

Second(tokens) == IF Len(tokens) > 1 THEN <<tokens[2]>> ELSE <<>>   \* Option<&&str>

parse_body(metric, b, action) == IF b.ok THEN Ok(metric, action) ELSE Err(metric, "SerdeJson")
parse_put_actions(b) ==
    parse_body("put_actions", b, CASE b.given = "plain" -> "FlushMetrics" [] b.given = "nothing" -> "StartMicroVm"
                                   [] OTHER -> "SendCtrlAltDel")

\* The requests on a device: the first check that fails, in the order of the
\* four handlers.
device_error(b, id) ==
    CASE id = <<>> -> "NoId"
      [] id # <<>> /\ checked_id(id[1]) # "" -> checked_id(id[1])
      [] id # <<>> /\ checked_id(id[1]) = "" /\ ~b.ok -> "SerdeJson"
      [] id # <<>> /\ checked_id(id[1]) = "" /\ b.ok /\ id[1] # b.id -> "Mismatch"
      [] OTHER -> ""
Checked(metric, error, result) ==
    IF error = "" THEN result ELSE IF error \in {"EmptyID", "InvalidID"} THEN Missed(metric, error) ELSE Err(metric, error)

parse_put_drive(b, id) == Checked("put_drive", device_error(b, id), Ok("put_drive", "InsertBlockDevice"))
parse_patch_drive(b, id) ==
    Checked("patch_drive", device_error(b, id),
            IF b.given = "nothing" THEN Err("patch_drive", "Generic") ELSE Ok("patch_drive", "UpdateBlockDevice"))
parse_put_net(b, id) == Checked("put_network", device_error(b, id), Ok("put_network", "InsertNetworkDevice"))

\* Adds to network_count where the others add to their metric of failures.
parse_patch_net(b, id) ==
    LET error == device_error(b, id)
    IN IF error \in {"NoId", "Mismatch"} THEN [Missed("patch_network", error) EXCEPT !.counted = 2]
       ELSE Checked("patch_network", error, Ok("patch_network", "UpdateNetworkInterface"))

parse_put_boot_source(b) == parse_body("put_boot_source", b, "ConfigureBootSource")
parse_put_logger(b) == parse_body("put_logger", b, "ConfigureLogger")
parse_put_metrics(b) == parse_body("put_metrics", b, "ConfigureMetrics")
parse_put_machine_config(b) == parse_body("put_machine_cfg", b, "UpdateVmConfiguration")
parse_patch_machine_config(b) ==
    IF b.ok /\ b.given = "nothing" THEN Missed("patch_machine_cfg", "Generic")
    ELSE parse_body("patch_machine_cfg", b, "UpdateVmConfiguration")

\* Mutant: what follows /mmds is not looked at.
parse_put_mmds_any(b, second) == parse_body("put_mmds", b, "PutMMDS")
parse_put_mmds(b, second) ==
    CASE second = <<>> -> parse_body("put_mmds", b, "PutMMDS")
      [] second = <<"config">> -> Deprecated(parse_body("put_mmds", b, "SetMmdsConfiguration"), b.given = "deprecated")
      [] OTHER -> Err("put_mmds", "Generic")

parse_patch_mmds(b) == parse_body("patch_mmds", b, "PatchMMDS")
parse_put_vsock(b) == Deprecated(parse_body("put_vsock", b, "SetVsockDevice"), b.given = "deprecated")

parse_put_snapshot_load(b) ==
    IF b.ok /\ b.given \in {"both", "nothing"} THEN Missed("none", "SerdeJson")
    ELSE Deprecated(parse_body("none", b, "LoadSnapshot"), b.given = "deprecated")

parse_put_snapshot(b, second) ==
    CASE second = <<"create">> -> parse_body("none", b, "CreateSnapshot")
      [] second = <<"load">> -> parse_put_snapshot_load(b)
      [] OTHER -> Missed("none", "Generic")

parse_get_balloon(second) ==
    CASE second = <<>> -> Ok("none", "GetBalloonConfig") [] second = <<"statistics">> -> Ok("none", "GetBalloonStats")
      [] OTHER -> Missed("none", "Generic")
parse_put_balloon(b) == parse_body("none", b, "SetBalloonDevice")
parse_patch_balloon(b, second) ==
    CASE second = <<>> -> parse_body("none", b, "UpdateBalloon")
      [] second = <<"statistics">> -> parse_body("none", b, "UpdateBalloonStatistics")
      [] OTHER -> Missed("none", "Generic")
parse_patch_vm_state(b) == parse_body("none", b, IF b.given = "plain" THEN "Pause" ELSE "Resume")

\* The arms of try_from_request, by method
RouteGet(path, second) ==
    CASE path = "" -> Ok("get", "GetVmInstanceInfo")
      [] path = "balloon" -> parse_get_balloon(second)
      [] path = "version" -> Ok("get", "GetVmmVersion")
      [] path = "vm" /\ second = <<"config">> -> Ok("none", "GetFullVmConfig")
      [] path = "machine-config" -> Ok("get", "GetVmMachineConfig")
      [] path = "mmds" -> Ok("get", "GetMMDS")
      [] OTHER -> Missed("none", "InvalidPathMethod")
RoutePut(path, second, b) ==
    CASE path = "actions" -> parse_put_actions(b)
      [] path = "balloon" -> parse_put_balloon(b)
      [] path = "boot-source" -> parse_put_boot_source(b)
      [] path = "drives" -> parse_put_drive(b, second)
      [] path = "logger" -> parse_put_logger(b)
      [] path = "machine-config" -> parse_put_machine_config(b)
      [] path = "metrics" -> parse_put_metrics(b)
      [] path = "mmds" -> parse_put_mmds(b, second)
      [] path = "network-interfaces" -> parse_put_net(b, second)
      [] path = "snapshot" -> parse_put_snapshot(b, second)
      [] path = "vsock" -> parse_put_vsock(b)
      [] OTHER -> Missed("none", "InvalidPathMethod")
RoutePatch(path, second, b) ==
    CASE path = "balloon" -> parse_patch_balloon(b, second)
      [] path = "drives" -> parse_patch_drive(b, second)
      [] path = "machine-config" -> parse_patch_machine_config(b)
      [] path = "mmds" -> parse_patch_mmds(b)
      [] path = "network-interfaces" -> parse_patch_net(b, second)
      [] path = "vm" -> parse_patch_vm_state(b)
      [] OTHER -> Missed("none", "InvalidPathMethod")

try_from_request(r) ==
    LET tokens == path_tokens(r.uri)
        path == IF tokens = <<>> THEN "" ELSE tokens[1]
        method_to_error == Missed("none", "Generic")
    IN CASE r.method = "Get" -> IF r.body.present THEN method_to_error ELSE RouteGet(path, Second(tokens))
         [] r.method = "Put" /\ path = "shutdown-internal" /\ ~r.body.present -> Ok("none", "ShutdownInternal")
         [] r.method = "Put" /\ r.body.present -> RoutePut(path, Second(tokens), r.body)
         [] r.method = "Patch" /\ r.body.present -> RoutePatch(path, Second(tokens), r.body)
         [] OTHER -> method_to_error

-----------------------------------------------------------------------------
(* handle_request: parsed first; the VMM then answers as it likes.         *)

Parse(r) ==
    LET p == try_from_request(r) IN
    /\ last' = r /\ served' = served + 1 /\ parsed' = p
    /\ count' = [count EXCEPT ![p.metric] = @ + p.counted]
    /\ fails' = [fails EXCEPT ![p.metric] = IF p.failed THEN @ + 1 ELSE @]
    /\ deprecated_http_api_calls' = deprecated_http_api_calls + IF p.deprecated THEN 1 ELSE 0
    /\ UNCHANGED <<response, shutdown_flag>>

Receive ==
    /\ parsed.error = "served" /\ ~shutdown_flag /\ served < MaxRequests
    /\ \E r \in Requests : Parse(r)

\* A request that was not understood is an error, the internal shutdown is
\* answered at once; the VMM may answer data to a GET, nothing to the others, or
\* an error.
Outcomes ==
    CASE parsed.error # "" -> {"Error"}
      [] parsed.action = "ShutdownInternal" -> {"Empty"}
      [] parsed.action \in {"PutMMDS", "PatchMMDS"} -> {"Error", "Empty", "MmdsLimitExceeded"}
      [] OTHER -> {"Error", IF last.method = "Get" THEN "Data" ELSE "Empty"}

\* convert_to_response
Status(outcome) ==
    CASE outcome = "Empty" -> 204 [] outcome = "Data" -> 200 [] outcome = "MmdsLimitExceeded" -> 413 [] OTHER -> 400

Respond ==
    /\ parsed.error # "served"
    /\ \E outcome \in Outcomes : response' = [status |-> Status(outcome), deprecation |-> parsed.deprecated]
    /\ shutdown_flag' = (parsed.action = "ShutdownInternal")
    /\ parsed' = Served /\ last' = NoRequest
    /\ UNCHANGED <<count, fails, deprecated_http_api_calls, served>>

ApiRequestInit ==
    /\ last = NoRequest /\ parsed = Served /\ response = [status |-> 0, deprecation |-> FALSE]
    /\ count = NoCounts /\ fails = NoCounts
    /\ deprecated_http_api_calls = 0 /\ shutdown_flag = FALSE /\ served = 0
ApiRequestNext == Receive \/ Respond
ApiRequestSpec == ApiRequestInit /\ [][ApiRequestNext]_apireqvars

-----------------------------------------------------------------------------
(* The interface as api_server/swagger/firecracker.yaml documents it: for   *)
(* each path and method the actions it stands for, and whether a field of   *)
(* its body is deprecated (mem_file_path and vsock_id; V1 of MMDS, which    *)
(* docs/mmds/mmds-user-guide.md says is).                                   *)

Operation(method, path, actions) == [method |-> method, path |-> path, actions |-> actions]
Documented ==
    {Operation("Get", <<>>, {"GetVmInstanceInfo"}),
     Operation("Put", <<"actions">>, {"FlushMetrics", "StartMicroVm", "SendCtrlAltDel"}),
     Operation("Get", <<"balloon">>, {"GetBalloonConfig"}),
     Operation("Put", <<"balloon">>, {"SetBalloonDevice"}),
     Operation("Patch", <<"balloon">>, {"UpdateBalloon"}),
     Operation("Get", <<"balloon", "statistics">>, {"GetBalloonStats"}),
     Operation("Patch", <<"balloon", "statistics">>, {"UpdateBalloonStatistics"}),
     Operation("Put", <<"boot-source">>, {"ConfigureBootSource"}),
     Operation("Put", <<"drives", "{id}">>, {"InsertBlockDevice"}),
     Operation("Patch", <<"drives", "{id}">>, {"UpdateBlockDevice"}),
     Operation("Put", <<"logger">>, {"ConfigureLogger"}),
     Operation("Get", <<"machine-config">>, {"GetVmMachineConfig"}),
     Operation("Put", <<"machine-config">>, {"UpdateVmConfiguration"}),
     Operation("Patch", <<"machine-config">>, {"UpdateVmConfiguration"}),
     Operation("Put", <<"metrics">>, {"ConfigureMetrics"}),
     Operation("Get", <<"mmds">>, {"GetMMDS"}),
     Operation("Put", <<"mmds">>, {"PutMMDS"}),
     Operation("Patch", <<"mmds">>, {"PatchMMDS"}),
     Operation("Put", <<"mmds", "config">>, {"SetMmdsConfiguration"}),
     Operation("Put", <<"network-interfaces", "{id}">>, {"InsertNetworkDevice"}),
     Operation("Patch", <<"network-interfaces", "{id}">>, {"UpdateNetworkInterface"}),
     Operation("Put", <<"snapshot", "create">>, {"CreateSnapshot"}),
     Operation("Put", <<"snapshot", "load">>, {"LoadSnapshot"}),
     Operation("Get", <<"version">>, {"GetVmmVersion"}),
     Operation("Patch", <<"vm">>, {"Pause", "Resume"}),
     Operation("Get", <<"vm", "config">>, {"GetFullVmConfig"}),
     Operation("Put", <<"vsock">>, {"SetVsockDevice"})}
HasDeprecatedField == {"LoadSnapshot", "SetVsockDevice", "SetMmdsConfiguration"}

\* The path names the operation, possibly with more behind it; the id is r's own.
Matches(op, tokens, r) ==
    /\ Len(op.path) <= Len(tokens) /\ (op.path = <<>> => tokens = <<>>)
    /\ \A k \in DOMAIN op.path : tokens[k] = IF op.path[k] = "{id}" THEN r.body.id ELSE op.path[k]
Names(op, r) ==
    /\ op.method = r.method
    /\ \E k \in 0..Len(r.uri) :
         (\A j \in 1..k : r.uri[j] = "") /\ Matches(op, SubSeq(r.uri, k + 1, Len(r.uri)), r)

\* The request is written as documented: the path and no more, no body with a
\* GET, and otherwise a body that is complete and has a valid id.
AsDocumented(op, r) ==
    /\ op.method = r.method
    /\ r.uri = <<"">> \o (IF op.path = <<>> THEN <<"">> ELSE [k \in DOMAIN op.path |->
                             IF op.path[k] = "{id}" THEN r.body.id ELSE op.path[k]])
    /\ IF r.method = "Get" THEN ~r.body.present
       ELSE /\ r.body.present /\ r.body.ok /\ r.body.given \in {"plain", "deprecated"}
            /\ r.body.id \notin {"", "not-an-id"}

-----------------------------------------------------------------------------
(* Properties.                                                             *)

\* The routing agrees with the documented interface.  What is written as
\* documented is accepted.  What is accepted is the action of the longest
\* documented path that the URI begins with, whatever slashes lead it and
\* whatever follows the part that the handlers look at, for the device named in
\* the body; and its answer is marked exactly if a deprecated field was used.  The
\* internal shutdown ("not an API") is the only other request.
RoutesAsDocumented ==
    parsed # Served =>
        /\ (\E op \in Documented : AsDocumented(op, last)) => parsed.error = ""
        /\ parsed.error = "" /\ parsed.action # "ShutdownInternal" =>
             LET named == {op \in Documented : Names(op, last)}
             IN \E op \in named :
                  /\ \A other \in named : Len(other.path) <= Len(op.path)
                  /\ parsed.action \in op.actions
                  /\ parsed.deprecated <=> (last.body.given = "deprecated" /\ parsed.action \in HasDeprecatedField)
=============================================================================
