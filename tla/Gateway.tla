------------------------------- MODULE Gateway -------------------------------
(***************************************************************************)
(* What the HTTP/JSON gateway answers (konfig/grpc/http_gateway.rs): the   *)
(* unary routes, the JSON array a finite stream is written as, and the SSE *)
(* frames of a watch.                                                      *)
(*                                                                         *)
(* The gRPC handlers behind the gateway are external here: call is the     *)
(* status of the call, items what its stream then brings.  An item is an   *)
(* event (with the resource_version it carries, or without one, or without *)
(* a payload), an error status, or the tick of the keep-alive timer.       *)
(***************************************************************************)
EXTENDS Integers, Sequences, FiniteSets, SequencesExt

CONSTANTS
    Codes,          \* the gRPC codes the handlers are made to fail with
    StreamLength    \* bound on the items of a stream

(***************************************************************************)
(* Status translation.                                                     *)
(***************************************************************************)
HttpOf ==
    [Ok |-> 200, InvalidArgument |-> 400, Unauthenticated |-> 401, PermissionDenied |-> 403,
     NotFound |-> 404, AlreadyExists |-> 409, FailedPrecondition |-> 412,
     ResourceExhausted |-> 429, Unavailable |-> 503, Unimplemented |-> 501,
     DeadlineExceeded |-> 504]

status_to_http(code) == IF code \in DOMAIN HttpOf THEN HttpOf[code] ELSE 500

(***************************************************************************)
(* Responses: status, content type, whether the CORS headers and           *)
(* Retry-After are set, and the body as the sequence of what is written.   *)
(***************************************************************************)
Reply(cfg, status, type, body) ==
    [status |-> status, type |-> type, cors |-> cfg.cors, retry |-> FALSE, body |-> body]

error_body(code) == <<[error |-> code]>>

json_response(cfg, status, body) == Reply(cfg, status, "json", body)

status_to_error(cfg, code) == json_response(cfg, status_to_http(code), error_body(code))

cors_preflight(cfg) == Reply(cfg, 204, "none", <<>>)

cache_not_ready(cfg) ==
    [json_response(cfg, 503, error_body("Unavailable")) EXCEPT !.retry = TRUE]

healthz(cfg, populated) ==
    [json_response(cfg, IF populated THEN 200 ELSE 503, <<[ready |-> populated]>>)
        EXCEPT !.retry = ~populated]

(***************************************************************************)
(* The bearer gate.  A credential is a scheme and a token.                 *)
(***************************************************************************)
strip_bearer_prefix(cred) == IF cred.scheme \in {"Bearer", "bearer"} THEN cred.token ELSE ""

Authorized(cfg, cred) ==
    cfg.insecure \/ (cfg.token # "" /\ strip_bearer_prefix(cred) = cfg.token)

Deny(cfg) == json_response(cfg, 401, error_body("Unauthenticated"))

(***************************************************************************)
(* decode_request: an empty body is the default message.                   *)
(***************************************************************************)
Decodes(body) == body # "bad"

Refused(cfg) == json_response(cfg, 400, error_body("InvalidArgument"))

\* run_unary, and rest_get_config once the path has been turned into a request.
run_unary(cfg, up) ==
    IF up.call = "Ok" THEN json_response(cfg, 200, <<[message |-> "response"]>>)
                      ELSE status_to_error(cfg, up.call)

(***************************************************************************)
(* A finite stream as a JSON array, one chunk per item.                    *)
(***************************************************************************)
\* A slip: an empty or failed stream is closed without having been opened.
CloseOnly(count) == <<"]">>

close_array(count) == IF count = 0 THEN <<"[", "]">> ELSE <<"]">>

\* The unfold: its state is the bytes so far, the items emitted and whether it has finished.
ArrayStep(s, item) ==
    IF s.finished THEN s
    ELSE IF item.kind = "event"
         THEN [bytes |-> s.bytes \o <<IF s.count = 0 THEN "[" ELSE ",", item>>,
               count |-> s.count + 1, finished |-> FALSE]
         ELSE [s EXCEPT !.bytes = @ \o close_array(s.count), !.finished = TRUE]

stream_json_array(items) ==
    LET end == FoldLeft(ArrayStep, [bytes |-> <<>>, count |-> 0, finished |-> FALSE], items)
    IN  IF end.finished THEN end.bytes ELSE end.bytes \o close_array(end.count)

run_server_streaming(cfg, up) ==
    IF up.call = "Ok"
    THEN json_response(cfg, 200,
             stream_json_array(SelectSeq(up.items, LAMBDA i : i.kind # "tick")))
    ELSE status_to_error(cfg, up.call)

(***************************************************************************)
(* SSE.                                                                    *)
(***************************************************************************)
event_type_name(type) ==
    CASE type = 0 -> "ADDED" [] type = 2 -> "DELETED" [] type = 3 -> "SNAPSHOT" [] OTHER -> "MODIFIED"

sse_frame(event, id, data) == [event |-> event, id |-> id, data |-> data]

KeepAlive == sse_frame("comment", "", "")

\* frame_config_event and frame_secret_event: an event without its object has an empty payload.
FrameEvent(e) ==
    IF e.payload THEN sse_frame(event_type_name(e.type), e.rv, "object")
                 ELSE sse_frame(event_type_name(e.type), "", "{}")

terminal_frame(code) ==
    IF code = "ResourceExhausted" THEN sse_frame("RELOAD", "", "lagged")
                                  ELSE sse_frame("error", "", code)

SseStep(s, item) ==
    CASE s.finished            -> s
      [] OTHER ->
    CASE item.kind = "event"   -> [s EXCEPT !.frames = Append(@, FrameEvent(item))]
      [] item.kind = "tick"    -> [s EXCEPT !.frames = Append(@, KeepAlive)]
      [] item.kind = "error"   -> [frames |-> Append(s.frames, terminal_frame(item.code)),
                                   finished |-> TRUE]

sse_event_stream(items) ==
    FoldLeft(SseStep, [frames |-> <<>>, finished |-> FALSE], items).frames

sse_response(cfg, items) == Reply(cfg, 200, "event-stream", sse_event_stream(items))

\* config_subscribe_request and secret_subscribe_request with last_event_id.
SubscribeRequest(req) == [name |-> req.name, resume |-> req.lastEventId]

(***************************************************************************)
(* Routing.  The result names the handler called, or none, the request it  *)
(* got, and the response.                                                  *)
(***************************************************************************)
NoCall == "none"
Answer(rpc, request, response) == [called |-> rpc, request |-> request, response |-> response]
Uncalled(response) == Answer(NoCall, NoCall, response)

Unary == {"Get", "Apply", "BatchApply", "DryRunApply", "Revert", "GetSecret", "ApplySecret"}
Listing == {"GetAll", "GetAllSecrets"}
Watching == {"Subscribe", "SubscribeSecrets"}

dispatch(cfg, req, up) ==
    CASE req.method = "OPTIONS"          -> Uncalled(cors_preflight(cfg))
      [] req.method = "GET"              -> Uncalled(json_response(cfg, 405, error_body("MethodNotAllowed")))
      [] OTHER ->
    CASE ~Authorized(cfg, req.cred)      -> Uncalled(Deny(cfg))
      [] OTHER ->
    CASE req.rpc \in Watching            -> Uncalled(status_to_error(cfg, "Unimplemented"))
      [] req.rpc \notin Unary \cup Listing \cup Watching -> Uncalled(status_to_error(cfg, "NotFound"))
      [] OTHER ->
    CASE ~Decodes(req.body)              -> Uncalled(Refused(cfg))
      [] req.rpc \in Unary               -> Answer(req.rpc, req.body, run_unary(cfg, up))
      [] OTHER                           -> Answer(req.rpc, req.body, run_server_streaming(cfg, up))

Rest(cfg, req, rpc, response) ==
    CASE req.method = "OPTIONS"     -> Uncalled(cors_preflight(cfg))
      [] ~Authorized(cfg, req.cred) -> Uncalled(Deny(cfg))
      [] OTHER                      -> Answer(rpc, "path", response)

rest_get_config(cfg, req, up)      == Rest(cfg, req, "Get", run_unary(cfg, up))
rest_get_all_configs(cfg, req, up) == Rest(cfg, req, "GetAll", run_server_streaming(cfg, up))

\* sse_config_watch and sse_secret_watch; their routes take GET only.
SseWatch(cfg, req, rpc, up) ==
    CASE req.method = "OPTIONS"     -> Uncalled([Reply(cfg, 405, "none", <<>>) EXCEPT !.cors = FALSE])
      [] ~Authorized(cfg, req.cred) -> Uncalled(Deny(cfg))
      [] OTHER ->
    CASE ~up.populated              -> Uncalled(cache_not_ready(cfg))
      [] OTHER ->
        Answer(rpc, SubscribeRequest(req),
               IF up.call = "Ok" THEN sse_response(cfg, up.items)
                                 ELSE status_to_error(cfg, up.call))

sse_config_watch(cfg, req, up) == SseWatch(cfg, req, "Subscribe", up)
sse_secret_watch(cfg, req, up) == SseWatch(cfg, req, "SubscribeSecrets", up)

Handled(x) ==
    CASE x.req.route = "rpc"          -> dispatch(x.cfg, x.req, x.up)
      [] x.req.route = "config"       -> rest_get_config(x.cfg, x.req, x.up)
      [] x.req.route = "configs"      -> rest_get_all_configs(x.cfg, x.req, x.up)
      [] x.req.route = "watch config" -> sse_config_watch(x.cfg, x.req, x.up)
      [] x.req.route = "watch secret" -> sse_secret_watch(x.cfg, x.req, x.up)
      [] x.req.route = "healthz"      -> Uncalled(healthz(x.cfg, x.up.populated))

(***************************************************************************)
(* Inputs.  start-up refuses a gateway that is neither insecure nor given  *)
(* a token, so there is no such configuration.                             *)
(***************************************************************************)
Configs ==
    [insecure : {TRUE}, token : {""}, cors : BOOLEAN]
        \cup [insecure : {FALSE}, token : {"secret"}, cors : BOOLEAN]

Creds == [scheme : {"Bearer", "bearer", "Basic"}, token : {"secret"}]
            \cup {[scheme |-> "Bearer", token |-> "other"], [scheme |-> "none", token |-> ""]}

Request(route, method, rpc, cred, body, id) ==
    [route |-> route, method |-> method, rpc |-> rpc, cred |-> cred, body |-> body,
     lastEventId |-> id, name |-> "n"]

Requests ==
    {Request("rpc", m, r, c, b, "") : m \in {"GET", "POST", "OPTIONS"}, c \in Creds,
        r \in Unary \cup Listing \cup Watching \cup {"Typo"}, b \in {"", "json", "bad"}}
    \cup {Request(r, m, NoCall, c, "", i) :
            r \in {"config", "configs", "watch config", "watch secret"},
            m \in {"GET", "OPTIONS"}, c \in Creds, i \in {"", "rv0"}}
    \cup {Request("healthz", "GET", NoCall, c, "", "") : c \in Creds}

Items ==
    {[kind |-> "event", type |-> 1, rv |-> r, payload |-> TRUE] : r \in {"", "rv1", "rv2"}}
        \cup {[kind |-> "event", type |-> 3, rv |-> "rv3", payload |-> FALSE], [kind |-> "tick"]}
        \cup {[kind |-> "error", code |-> c] : c \in Codes}

Streams == UNION {[1 .. n -> Items] : n \in 0 .. StreamLength}

Upstream(populated, call, items) == [populated |-> populated, call |-> call, items |-> items]

StreamingRequests ==
    {r \in Requests :
        /\ r.cred.scheme = "none" /\ r.body = ""
        /\ \/ r.method = "POST" /\ r.rpc \in Listing
           \/ r.method = "GET" /\ r.route \in {"configs", "watch config"}}

\* Every request against an immediate answer, and the streaming routes against every stream.
Exchanges ==
    {[cfg |-> c, req |-> r, up |-> Upstream(p, k, <<>>)] :
        c \in Configs, r \in Requests, p \in BOOLEAN, k \in Codes \cup {"Ok"}}
    \cup {[cfg |-> [insecure |-> TRUE, token |-> "", cors |-> TRUE], req |-> r,
           up |-> Upstream(TRUE, "Ok", s)] : r \in StreamingRequests, s \in Streams}

(***************************************************************************)
(* Reference: how a client reads what it was sent.                         *)
(***************************************************************************)
ArrayOf(values) ==
    FoldLeft(\o, <<"[">>, [i \in DOMAIN values |-> IF i = 1 THEN <<values[i]>> ELSE <<",", values[i]>>])
        \o <<"]">>

\* The items before the stream's first error, without the ticks.
Whole(items) ==
    LET bad == {i \in DOMAIN items : items[i].kind = "error"}
        cut == IF bad = {} THEN items ELSE SubSeq(items, 1, Min(bad) - 1)
    IN  SelectSeq(cut, LAMBDA i : i.kind = "event")

Errors(items) == {i \in DOMAIN items : items[i].kind = "error"}

\* An EventSource keeps the id of the last frame that had one.
LastEventId(frames, before) ==
    LET ids == {i \in DOMAIN frames : frames[i].id # ""}
    IN  IF ids = {} THEN before ELSE frames[Max(ids)].id

(***************************************************************************)
(* A handler runs only for a request that may run it, and a request that   *)
(* ran none was told why; a list is one well-formed JSON array holding     *)
(* exactly the items that came before the first error, even when there     *)
(* were none; a watch ends in one terminal frame exactly when its upstream *)
(* failed, RELOAD exactly when it lagged, and the id with which the        *)
(* browser reconnects is that of the last object it was shown; and every   *)
(* answer a browser may read carries the configured CORS header, an        *)
(* OPTIONS preflight excepted, which only the routes with a handler for it *)
(* answer (http_gateway.rs).                                               *)
(***************************************************************************)
GatewayAnswersWhole(x, a) ==
    LET r     == a.response
        items == x.up.items
        bad   == Errors(items)
    IN  /\ a.called # NoCall =>
              /\ x.cfg.insecure \/ (x.req.cred.token = x.cfg.token /\ x.req.cred.scheme # "Basic")
              /\ x.req.method = (IF x.req.route = "rpc" THEN "POST" ELSE "GET")
              /\ x.req.body # "bad"
              /\ r.status = status_to_http(x.up.call)
        /\ a.called = NoCall /\ x.req.route # "healthz" => r.status \notin 200 .. 203
        /\ r.status = 200 /\ a.called \in Listing => r.body = ArrayOf(Whole(items))
        /\ r.type = "event-stream" =>
              LET shown == SelectSeq(r.body, LAMBDA f : f.event # "comment")
                  good  == Whole(items)
                  rvs   == {i \in DOMAIN good : good[i].payload /\ good[i].rv # ""}
              IN  /\ Len(shown) = Len(good) + (IF bad = {} THEN 0 ELSE 1)
                  /\ bad # {} => Last(shown).event =
                        IF items[Min(bad)].code = "ResourceExhausted" THEN "RELOAD" ELSE "error"
                  /\ \A i \in DOMAIN good : shown[i].event \notin {"RELOAD", "error"}
                  /\ LastEventId(r.body, x.req.lastEventId) =
                        IF rvs = {} THEN x.req.lastEventId ELSE good[Max(rvs)].rv
                  /\ a.request.resume = x.req.lastEventId
        /\ ~r.cors => ~x.cfg.cors \/ x.req.method = "OPTIONS"
=============================================================================
