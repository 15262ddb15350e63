------------------------------ MODULE Serving ------------------------------
(***************************************************************************)
(* The life of one konfig process as its callers see it: start-up          *)
(* (startup.rs, serve.rs), the readiness gate, SIGTERM and the drain, the  *)
(* HTTP gateway, and the RPCs of grpc/service.rs with the guards every one *)
(* of them passes in order - drain, authorisation, quota - before its      *)
(* handler runs and its audit record is written.                           *)
(*                                                                         *)
(* What the handlers do is in ApplyPath, Delivery and SecretDelivery, what *)
(* the quota decides in Tenancy, how the ACL table is built in             *)
(* PolicyTable; here a handler reads, or writes its targets one by one, or *)
(* opens a stream or the list of a GetAll, which stays open until its      *)
(* client has read it; the quota admits or refuses, and the table is one   *)
(* of Tables.                                                              *)
(***************************************************************************)
EXTENDS Naturals, Sequences, FiniteSets

CONSTANTS
    Tasks,       \* concurrent requests
    Offers,      \* per task: the requests it may carry
    Args,        \* command lines: [tls, http, mode, events]
    Tables,      \* ACL policies the cluster publishes: identity -> set of rules
    NoRules,     \* the table before the first of them
    Subject,     \* what a client certificate holds, per caller: [uris, cns]
    Anonymous,
    MaxPolicy    \* per mode: bound on policy changes

\* The RPCs of KonfigService.
Methods ==
    {"Get", "GetAll", "Apply", "BatchApply", "DryRunApply", "Revert", "Subscribe",
     "GetSecret", "GetAllSecrets", "ApplySecret", "SubscribeSecrets"}

\* A request names one of them and a sequence of targets; the batch may be empty.
ASSUME ServingAssumption ==
    /\ \A t \in Tasks : \A r \in Offers[t] :
          /\ r.method \in Methods
          /\ Len(r.targets) \in Nat
          /\ DOMAIN r.targets = 1..Len(r.targets)
    /\ \A a \in Args : MaxPolicy[a.mode] \in Nat

VARIABLES
    args,       \* the command line
    phase,      \* of the process: see Boot below
    populated,  \* ConfigCache.is_populated
    gate,       \* the readiness task: "off", "polling", "done"
    health,     \* what the gRPC health service answers
    gateway,    \* the HTTP listener: "off", "starting", "waiting", "closed"
    signalled, draining,
    drain,      \* the shutdown future's place
    late,       \* the gate was not done when the drain reported NOT_SERVING
    table, synced, changes,   \* AclTable, AclSynced, policy changes so far
    rpc         \* per task

bootVars  == <<args, phase, populated, gate, health, gateway>>
drainVars == <<signalled, draining, drain, late>>
aclVars   == <<table, synced, changes>>
vars == <<bootVars, drainVars, aclVars, rpc>>

-----------------------------------------------------------------------------
(* What each RPC of KonfigService asks of its guards: does it check the    *)
(* drain, which verb it needs, which quota it is charged, what it does and *)
(* whether its outcome is audited.  A name-less RPC has the target name    *)
(* "*".                                                                    *)

Rpc(drains, verb, charge, effect, audits) ==
    [drains |-> drains, verb |-> verb, charge |-> charge, effect |-> effect, audits |-> audits]

get               == Rpc(TRUE,  "read",  FALSE, "read",   FALSE)
get_all           == Rpc(TRUE,  "read",  FALSE, "list",   FALSE)
apply             == Rpc(TRUE,  "write", TRUE,  "write",  TRUE)
batch_apply       == Rpc(TRUE,  "write", TRUE,  "write",  TRUE)
dry_run_apply     == Rpc(TRUE,  "write", FALSE, "read",   FALSE)
\* Revert neither checks the drain nor is charged a token.
revert            == Rpc(FALSE, "write", FALSE, "write",  TRUE)
subscribe         == Rpc(TRUE,  "read",  TRUE,  "stream", FALSE)
get_secret        == Rpc(TRUE,  "read",  FALSE, "read",   TRUE)
get_all_secrets   == Rpc(TRUE,  "read",  FALSE, "list",   TRUE)
apply_secret      == Rpc(TRUE,  "write", TRUE,  "write",  TRUE)
subscribe_secrets == Rpc(TRUE,  "read",  TRUE,  "stream", TRUE)

Handler(m) ==
    CASE m = "Get" -> get [] m = "GetAll" -> get_all [] m = "Apply" -> apply
      [] m = "BatchApply" -> batch_apply [] m = "DryRunApply" -> dry_run_apply
      [] m = "Revert" -> revert [] m = "Subscribe" -> subscribe
      [] m = "GetSecret" -> get_secret [] m = "GetAllSecrets" -> get_all_secrets
      [] m = "ApplySecret" -> apply_secret [] m = "SubscribeSecrets" -> subscribe_secrets

\* A request in progress.  `item' is the target its guard, its handler or its
\* audit loop is at; `wrote' and `logged' the targets written and audited;
\* `tables' the policies in force since it arrived.  `missed': it was past its
\* drain check and not waiting for the notification when that was sent.
Rpc0 == [pc |-> "idle", req |-> <<>>, item |-> 1, wrote |-> {}, logged |-> {},
         tables |-> {}, after |-> FALSE, missed |-> FALSE]

Init ==
    /\ args \in Args
    /\ phase = "resolve" /\ populated = FALSE /\ gate = "off"
    /\ health = "unknown" /\ gateway = "off"
    /\ signalled = FALSE /\ draining = FALSE /\ drain = "armed" /\ late = FALSE
    /\ table = NoRules /\ synced = FALSE /\ changes = 0
    /\ rpc = [t \in Tasks |-> Rpc0]

-----------------------------------------------------------------------------
(* Start-up: "resolve", "connect", "spawned", "serving"; "failed" when run *)
(* returns an error or panics, "stopped" when serve returns.               *)

\* All of the certificate, the key and the client CA, and readable, or none.
resolve_tls_config == args.tls \in {"off", "complete"}

\* Off, or explicitly insecure, or with a non-empty token.
resolve_http_gateway_config == args.http \in {"off", "insecure", "token"}

\* Both are resolved before anything is spawned or the API server is called.
Resolve ==
    /\ phase = "resolve"
    /\ phase' = IF resolve_tls_config /\ resolve_http_gateway_config
                THEN "connect" ELSE "failed"
    /\ UNCHANGED <<args, populated, gate, health, gateway, drainVars, aclVars, rpc>>

\* Client::try_default, then the watchers, the health reporter and the gate.
Spawn(ok) ==
    /\ phase = "connect"
    /\ IF ok THEN phase' = "spawned" /\ gate' = "polling" /\ health' = "NOT_SERVING"
             ELSE phase' = "failed" /\ UNCHANGED <<gate, health>>
    /\ UNCHANGED <<args, populated, gateway, drainVars, aclVars, rpc>>

\* serve: the gateway's port is bound here, so a clash stops the process.
Listen(ok) ==
    /\ phase = "spawned"
    /\ args.http = "off" => ok
    /\ phase' = IF ok THEN "serving" ELSE "failed"
    /\ gateway' = IF ok /\ args.http # "off" THEN "starting" ELSE "off"
    /\ UNCHANGED <<args, populated, gate, health, drainVars, aclVars, rpc>>

\* serve_gateway's task gets to poll the drain notification for the first time.
GatewayWaits ==
    /\ gateway = "starting"
    /\ gateway' = "waiting"
    /\ UNCHANGED <<args, phase, populated, gate, health, drainVars, aclVars, rpc>>

Up == phase \in {"spawned", "serving"}

\* The Config watcher caches its first Config; entries are never removed.
Populate ==
    /\ Up /\ ~populated
    /\ populated' = TRUE
    /\ UNCHANGED <<args, phase, gate, health, gateway, drainVars, aclVars, rpc>>

\* Mutant of ReadinessGate: SERVING without waiting for the cache.
GateSeesAnything ==
    /\ Up /\ gate = "polling"
    /\ gate' = "done"
    /\ health' = "SERVING"
    /\ UNCHANGED <<args, phase, populated, gateway, drainVars, aclVars, rpc>>

\* The readiness task polls the cache every 100 ms and reports once; it does not
\* look at the drain, so it may report SERVING after the drain reported
\* NOT_SERVING.
ReadinessGate ==
    /\ Up /\ gate = "polling" /\ populated
    /\ gate' = "done"
    /\ health' = "SERVING"
    /\ UNCHANGED <<args, phase, populated, gateway, drainVars, aclVars, rpc>>

\* The ACL watcher publishes a table; the first complete list sets the flag.
PublishAcl(tab, done) ==
    /\ Up /\ changes < MaxPolicy[args.mode]
    /\ table' = tab /\ synced' = (synced \/ done) /\ changes' = changes + 1
    /\ rpc' = [t \in Tasks |-> IF rpc[t].pc \in {"idle", "done", "dropped", "closed"} THEN rpc[t]
                               ELSE [rpc[t] EXCEPT !.tables = @ \cup {tab}]]
    /\ UNCHANGED <<bootVars, drainVars>>

-----------------------------------------------------------------------------
(* SIGTERM or Ctrl-C, and the shutdown future of serve.                    *)

Signal ==
    /\ Up /\ ~signalled
    /\ signalled' = TRUE
    /\ UNCHANGED <<bootVars, draining, drain, late, aclVars, rpc>>


DrainOrder == <<"flag", "notify", "health", "sleep">>

DrainStep(k) == DrainOrder[k]
DrainAt(what) ==
    \/ drain = "armed" /\ DrainStep(1) = what
    \/ \E k \in 2..4 : drain = DrainStep(k - 1) /\ DrainStep(k) = what

SetDraining ==
    /\ phase = "serving" /\ signalled /\ DrainAt("flag")
    /\ draining' = TRUE /\ drain' = "flag"
    /\ UNCHANGED <<bootVars, signalled, late, aclVars, rpc>>

\* notify_waiters wakes the streams and the gateway that wait at this moment.
PastCheck == {"authz", "handle", "resume", "busy"}

NotifyWaiters ==
    /\ phase = "serving" /\ signalled /\ DrainAt("notify")
    /\ drain' = "notify"
    /\ gateway' = IF gateway = "waiting" THEN "closed" ELSE gateway
    /\ rpc' = [t \in Tasks |->
           CASE rpc[t].pc = "waiting" -> [rpc[t] EXCEPT !.pc = "closed"]
             [] rpc[t].pc \in PastCheck /\ Handler(rpc[t].req.method).effect = "stream" ->
                   [rpc[t] EXCEPT !.missed = TRUE]
             [] OTHER -> rpc[t]]
    /\ UNCHANGED <<args, phase, populated, gate, health, signalled, draining, late, aclVars>>

SetNotServing ==
    /\ phase = "serving" /\ signalled /\ DrainAt("health")
    /\ drain' = "health" /\ health' = "NOT_SERVING" /\ late' = (gate # "done")
    /\ UNCHANGED <<args, phase, populated, gate, gateway, signalled, draining, aclVars, rpc>>

\* DRAIN_TIMEOUT passes; the shutdown future resolves and tonic accepts nothing
\* more, but it waits for the RPCs that are open.
DrainTimeout ==
    /\ phase = "serving" /\ signalled /\ DrainAt("sleep")
    /\ drain' = "sleep"
    /\ UNCHANGED <<bootVars, signalled, draining, late, aclVars, rpc>>

Open(t) == rpc[t].pc \notin {"idle", "done", "dropped", "closed"}

Stop ==
    /\ phase = "serving" /\ drain = "sleep"
    /\ \A t \in Tasks : Open(t) => rpc[t].req.via # "grpc"
    /\ phase' = "stopped"
    /\ UNCHANGED <<args, populated, gate, health, gateway, drainVars, aclVars, rpc>>

-----------------------------------------------------------------------------
(* Requests *)

\* check_auth: only the configured, non-empty token opens the gateway.
check_auth(r) == args.http = "insecure" \/ r.token

\* dispatch: the JSON gateway has no streams; the SSE endpoints are streams and
\* nothing else, and wait for the cache.
Routed(r) ==
    CASE r.via = "grpc" -> TRUE
      [] r.via = "json" -> check_auth(r) /\ Handler(r.method).effect # "stream"
      [] r.via = "sse"  -> check_auth(r) /\ populated

\* gRPC: until the shutdown future resolves.  The gateway: until it stops
\* accepting, or the process ends.
Accepting(r) ==
    /\ phase = "serving"
    /\ IF r.via = "grpc" THEN drain # "sleep" ELSE gateway \in {"starting", "waiting"}

Move(t, pc) == rpc' = [rpc EXCEPT ![t].pc = pc]

\* log_rpc_entry.  `after' remembers whether the drain had begun.
Arrive(t, r) ==
    /\ rpc[t].pc = "idle"
    /\ Accepting(r)
    /\ rpc' = [rpc EXCEPT ![t] =
           [Rpc0 EXCEPT !.pc = IF Routed(r) THEN "entry" ELSE "done", !.req = r,
                        !.tables = {table}, !.after = draining]]
    /\ UNCHANGED <<bootVars, drainVars, aclVars>>

\* Mutant of check_drain: the check is missing everywhere.
NoDrainCheck(t) == TRUE

check_drain(t) == Handler(rpc[t].req.method).drains => ~draining

\* A batch without items has nothing to authorise: handle_batch_apply refuses it
\* before its first await, and there is no target to audit.
CheckDrain(t) ==
    /\ rpc[t].pc = "entry"
    /\ Move(t, IF check_drain(t) /\ Len(rpc[t].req.targets) > 0 THEN "authz" ELSE "done")
    /\ UNCHANGED <<bootVars, drainVars, aclVars>>

\* identity_from_der: the first SAN URI, else the first CN.
identity_from_der(s) ==
    IF s.uris # <<>> THEN Head(s.uris) ELSE IF s.cns # <<>> THEN Head(s.cns) ELSE Anonymous

\* A caller without mTLS, the gateway's included, is anonymous.
extract_identity(r) ==
    IF r.via # "grpc" \/ args.tls = "off" THEN Anonymous ELSE identity_from_der(Subject[r.caller])

\* A pattern is "<namespace>/<name>"; one without a slash has no second segment
\* and is dropped when the rule is loaded.
segment_matches(pat, value) == pat = "*" \/ pat = value
pattern_matches(p, target) ==
    /\ Len(p) = 2
    /\ segment_matches(p[1], target[1])
    /\ segment_matches(p[2], target[2])

grants(tab, id, verb, target) ==
    /\ id \in DOMAIN tab
    /\ \E rule \in tab[id] : verb \in rule.verbs /\ \E p \in rule.patterns : pattern_matches(p, target)

\* authz::check.
check(r, target) ==
    LET id == extract_identity(r) IN
    \/ args.mode # "enforce"
    \/ synced /\ id # Anonymous /\ grants(table, id, Handler(r.method).verb, target)

Targets(t) == rpc[t].req.targets
Last(t)    == rpc[t].item = Len(Targets(t))

\* Mutant of Authorize: only the first item of a batch is checked.
AuthorizeFirst(t, admitted) ==
    /\ rpc[t].pc = "authz"
    /\ Move(t, IF check(rpc[t].req, Targets(t)[1]) THEN "handle" ELSE "done")
    /\ UNCHANGED <<bootVars, drainVars, aclVars>>

\* authorize, once per target, each call loading the table anew; after the last
\* one rate_limit_apply or admit_subscriber, where a refusal is
\* RESOURCE_EXHAUSTED.
Authorize(t, admitted) ==
    /\ rpc[t].pc = "authz"
    /\ admitted \/ (Last(t) /\ Handler(rpc[t].req.method).charge)
    /\ rpc' = [rpc EXCEPT ![t] =
           IF ~admitted \/ ~check(rpc[t].req, Targets(t)[rpc[t].item])
           THEN [rpc[t] EXCEPT !.pc = "done"]
           ELSE IF Last(t) THEN [rpc[t] EXCEPT !.pc = "handle", !.item = 1]
           ELSE [rpc[t] EXCEPT !.item = rpc[t].item + 1]]
    /\ UNCHANGED <<bootVars, drainVars, aclVars>>

\* Mutant of AfterHandler: only a success is audited.
AuditOnlySuccess(t, ok) == IF Handler(rpc[t].req.method).audits /\ ok THEN "audit" ELSE "done"

\* Where the RPC goes once its handler has returned Ok or an error.
AfterHandler(t, ok) == IF Handler(rpc[t].req.method).audits THEN "audit" ELSE "done"

\* Get, DryRunApply and GetSecret.
Read(t, ok) ==
    /\ rpc[t].pc = "handle" /\ Handler(rpc[t].req.method).effect = "read"
    /\ Move(t, AfterHandler(t, ok))
    /\ UNCHANGED <<bootVars, drainVars, aclVars>>

\* One target is written; after the last one the handler answers Ok.
Write(t) ==
    /\ rpc[t].pc = "handle" /\ Handler(rpc[t].req.method).effect = "write"
    /\ rpc' = [rpc EXCEPT ![t] =
           [rpc[t] EXCEPT !.wrote = rpc[t].wrote \cup {rpc[t].item},
                          !.pc    = IF Last(t) THEN AfterHandler(t, TRUE) ELSE "handle",
                          !.item  = IF Last(t) THEN 1 ELSE rpc[t].item + 1]]
    /\ UNCHANGED <<bootVars, drainVars, aclVars>>

\* The handler answers with an error, whatever it wrote before.
WriteFails(t) ==
    /\ rpc[t].pc = "handle" /\ Handler(rpc[t].req.method).effect = "write"
    /\ rpc' = [rpc EXCEPT ![t].pc = AfterHandler(t, FALSE), ![t].item = 1]
    /\ UNCHANGED <<bootVars, drainVars, aclVars>>

\* emit, one record per target; with KONFIG_AUDIT_K8S_EVENTS a mutation also
\* awaits the API server after each.
MakesEvents(t) == args.events /\ Handler(rpc[t].req.method).effect = "write"

Emit(t) ==
    /\ rpc[t].pc = "audit"
    /\ rpc' = [rpc EXCEPT ![t] =
           [rpc[t] EXCEPT
              !.logged = rpc[t].logged \cup {rpc[t].item},
              !.pc     = IF MakesEvents(t) THEN "event" ELSE IF Last(t) THEN "done" ELSE "audit",
              !.item   = IF MakesEvents(t) \/ Last(t) THEN rpc[t].item ELSE rpc[t].item + 1]]
    /\ UNCHANGED <<bootVars, drainVars, aclVars>>

maybe_emit_k8s_event(t) ==
    /\ rpc[t].pc = "event"
    /\ rpc' = [rpc EXCEPT ![t] =
           IF Last(t) THEN [rpc[t] EXCEPT !.pc = "done"]
           ELSE [rpc[t] EXCEPT !.pc = "audit", !.item = rpc[t].item + 1]]
    /\ UNCHANGED <<bootVars, drainVars, aclVars>>

\* The caller goes away while the handler awaits the API server: tonic drops
\* the handler where it is.
Drop(t) ==
    /\ rpc[t].pc \in {"handle", "event"}
    /\ Handler(rpc[t].req.method).effect = "write"
    /\ Move(t, "dropped")
    /\ UNCHANGED <<bootVars, drainVars, aclVars>>

\* GetAll and GetAllSecrets: the handler takes its snapshot of the namespace,
\* spawns the task that sends it and returns Ok, which GetAllSecrets audits.
OpenList(t) ==
    /\ rpc[t].pc = "handle" /\ Handler(rpc[t].req.method).effect = "list"
    /\ rpc' = [rpc EXCEPT ![t].pc = "sending",
                          ![t].logged = IF Handler(rpc[t].req.method).audits THEN {1} ELSE {}]
    /\ UNCHANGED <<bootVars, drainVars, aclVars>>

\* The client has read the list, or hangs up: until then the task awaits it in
\* tx.send, whatever the drain does.
ListEnds(t) ==
    /\ rpc[t].pc = "sending"
    /\ Move(t, "closed")
    /\ UNCHANGED <<bootVars, drainVars, aclVars>>

\* Subscribe and SubscribeSecrets: the stream's task is spawned; it replays or
\* opens its watch before it first waits for the drain.  SubscribeSecrets
\* audits its Ok on the way.
OpenStream(t) ==
    /\ rpc[t].pc = "handle" /\ Handler(rpc[t].req.method).effect = "stream"
    /\ rpc' = [rpc EXCEPT ![t].pc = "resume",
                          ![t].logged = IF Handler(rpc[t].req.method).audits THEN {1} ELSE {}]
    /\ UNCHANGED <<bootVars, drainVars, aclVars>>

StreamWaits(t) ==
    /\ rpc[t].pc \in {"resume", "busy"}
    /\ Move(t, "waiting")
    /\ UNCHANGED <<bootVars, drainVars, aclVars>>

\* An event arrives and is forwarded; meanwhile the task is not waiting.
StreamEvent(t) ==
    /\ rpc[t].pc = "waiting"
    /\ Move(t, "busy")
    /\ UNCHANGED <<bootVars, drainVars, aclVars>>

\* Too slow, lagged, watch failed, or the client hung up.
StreamEnds(t) ==
    /\ rpc[t].pc \in {"resume", "busy"}
    /\ Move(t, "closed")
    /\ UNCHANGED <<bootVars, drainVars, aclVars>>

-----------------------------------------------------------------------------
\* The detached gateway's requests die with the process.
Handling(t) ==
    /\ phase = "serving"
    /\ \/ CheckDrain(t)
       \/ \E ok \in BOOLEAN : Authorize(t, ok) \/ Read(t, ok)
       \/ Write(t) \/ WriteFails(t) \/ Emit(t) \/ maybe_emit_k8s_event(t)
       \/ OpenList(t) \/ OpenStream(t) \/ StreamWaits(t)

Draining == SetDraining \/ NotifyWaiters \/ SetNotServing \/ DrainTimeout \/ Stop

Next ==
    \/ Resolve
    \/ \E ok \in BOOLEAN : Spawn(ok) \/ Listen(ok)
    \/ GatewayWaits \/ Populate \/ ReadinessGate
    \/ \E tab \in Tables, done \in BOOLEAN : PublishAcl(tab, done)
    \/ Signal
    \/ SetDraining \/ NotifyWaiters \/ SetNotServing \/ DrainTimeout \/ Stop
    \/ \E t \in Tasks :
          \/ \E r \in Offers[t] : Arrive(t, r)
          \/ Handling(t)
          \/ phase = "serving" /\ (Drop(t) \/ ListEnds(t) \/ StreamEvent(t) \/ StreamEnds(t))

Spec == Init /\ [][Next]_vars

\* tokio polls every ready task; the handlers' API calls return (the kube
\* client's timeouts), and the drain sleeps for a fixed time.  Nothing is assumed
\* of clients: one may leave its list unread and its stream open for ever.
FairSpec ==
    /\ Spec
    /\ WF_vars(Draining)
    /\ WF_vars(Resolve \/ (\E ok \in BOOLEAN : Spawn(ok) \/ Listen(ok)))
    /\ \A t \in Tasks : WF_vars(Handling(t))

-----------------------------------------------------------------------------
(* Properties *)

\* A pod reports SERVING only with a populated cache, and again after its drain
\* reported NOT_SERVING only if the readiness task of startup.rs had not
\* finished by then.
HealthIsHonest ==
    health = "SERVING" => populated /\ (drain \in {"health", "sleep"} => late)

Reached(t) == rpc[t].pc \in {"handle", "audit", "event", "sending", "resume", "waiting", "busy"}

\* In enforce mode a handler runs only for an authenticated caller who held a
\* rule for every target of the request, each under a policy in force since the
\* request arrived: no policy change, batch or name-less RPC slips a target
\* past the guard (authz.rs, service.rs).
EveryTargetWasGranted ==
    \A t \in Tasks : Reached(t) /\ args.mode = "enforce" =>
        /\ rpc[t].req.via = "grpc" /\ args.tls = "complete"
        /\ \A i \in DOMAIN Targets(t) : \E tab \in rpc[t].tables :
              grants(tab, identity_from_der(Subject[rpc[t].req.caller]),
                     Handler(rpc[t].req.method).verb, Targets(t)[i])

\* A request that arrives after the drain flag was set never reaches its
\* handler - except a Revert, which still writes (drain.rs, service.rs revert).
NothingStartsInDrain ==
    \A t \in Tasks : Reached(t) /\ rpc[t].after => rpc[t].req.method = "Revert"

\* Every target an answered request wrote has its audit record, also when a
\* batch failed half-way; only a request whose handler was dropped while it
\* awaited the API server may have written without one (service.rs, audit.rs).
WritesAreAudited ==
    \A t \in Tasks : rpc[t].pc = "done" => rpc[t].wrote \subseteq rpc[t].logged

\* An RPC that keeps the server from returning: a stream that was in neither its
\* select nor its drain check at notify_waiters and is still open, or a list that
\* its client has not read to the end.
Holds(t) ==
    /\ Open(t) /\ rpc[t].req.via = "grpc"
    /\ rpc[t].missed \/ rpc[t].pc = "sending"


-----------------------------------------------------------------------------
(* The inductive invariant of ServingProofs *)

InFlight ==
    {"entry", "authz", "handle", "audit", "event", "sending", "resume", "waiting", "busy"}
Running  == InFlight \ {"entry", "authz"}
Requests == UNION {Offers[t] : t \in Tasks}

RpcState ==
    [pc : InFlight \cup {"idle", "done", "dropped", "closed"},
     req : Requests \cup {<<>>}, item : Nat \ {0}, wrote : SUBSET Nat, logged : SUBSET Nat,
     tables : SUBSET (Tables \cup {NoRules}), after : BOOLEAN, missed : BOOLEAN]

TypeOK ==
    /\ args \in Args
    /\ draining \in BOOLEAN
    /\ table \in Tables \cup {NoRules}
    /\ rpc \in [Tasks -> RpcState]

\* The drain begins only once the process serves; once it has reported
\* NOT_SERVING after the gate was done, nothing reports SERVING again.
HealthInv ==
    /\ phase \in {"resolve", "connect"} => drain = "armed"
    /\ phase \notin {"resolve", "failed"} => resolve_tls_config
    /\ health = "SERVING" => populated
    /\ drain \in {"health", "sleep"} /\ ~late => gate = "done" /\ health # "SERVING"

\* One target of a request was granted by a policy in force since it arrived.
Granted(s, i) ==
    /\ s.req.via = "grpc" /\ args.tls = "complete"
    /\ \E tab \in s.tables :
          grants(tab, identity_from_der(Subject[s.req.caller]),
                 Handler(s.req.method).verb, s.req.targets[i])

\* What is known of a request at each place of its RPC.
GuardInv(s) ==
    /\ s.pc # "idle" => s.req \in Requests /\ resolve_tls_config
    /\ s.pc \in InFlight => table \in s.tables
    /\ s.pc \in InFlight \ {"entry"} => Len(s.req.targets) > 0
    /\ s.pc \in {"authz", "handle", "audit", "event"} => s.item <= Len(s.req.targets)
    /\ s.after => draining
    /\ s.after /\ s.pc \in InFlight \ {"entry"} => s.req.method = "Revert"
    /\ args.mode = "enforce" /\ s.pc \in InFlight =>
          \A i \in 1..Len(s.req.targets) :
             s.pc \in Running \/ (s.pc = "authz" /\ i < s.item) => Granted(s, i)

\* What a request wrote, against what it has audited so far.
AuditInv(s) ==
    /\ s.pc \in InFlight => s.wrote \subseteq 1..Len(s.req.targets)
    /\ s.pc \in {"idle", "entry", "authz"} => s.wrote = {}
    /\ s.pc = "entry" => s.item = 1
    /\ s.pc = "handle" /\ Handler(s.req.method).effect # "write" => s.wrote = {} /\ s.item = 1
    /\ s.pc = "audit" => 1..(s.item - 1) \subseteq s.logged
    /\ s.pc = "event" => 1..s.item \subseteq s.logged
    /\ s.pc = "done" => s.wrote \subseteq s.logged

IndInv ==
    /\ TypeOK
    /\ HealthInv
    /\ \A t \in Tasks : GuardInv(rpc[t]) /\ AuditInv(rpc[t])
=============================================================================
