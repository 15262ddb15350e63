--------------------------- MODULE ServingProofs ---------------------------
(***************************************************************************)
(* For any set of tasks, requests, command lines, certificates and ACL     *)
(* policies, and any number of policy changes: the health service is       *)
(* honest, no handler runs past the authorisation of one of its targets,   *)
(* nothing but a Revert starts in the drain, and every write of an         *)
(* answered request is audited.                                            *)
(***************************************************************************)
EXTENDS Serving, TLAPS

\* The RPCs that mutate are the audited ones (grpc/service.rs).
LEMMA WritersAudit ==
    ASSUME NEW m \in Methods, Handler(m).effect = "write"
    PROVE  Handler(m).audits
BY DEF Methods, Handler, Rpc, get, get_all, apply, batch_apply, dry_run_apply, revert,
       subscribe, get_secret, get_all_secrets, apply_secret, subscribe_secrets

\* Every RPC but Revert checks the drain (grpc/service.rs).
LEMMA OnlyRevertIgnoresDrain ==
    ASSUME NEW m \in Methods, m # "Revert"
    PROVE  Handler(m).drains
BY DEF Methods, Handler, Rpc, get, get_all, apply, batch_apply, dry_run_apply, revert,
       subscribe, get_secret, get_all_secrets, apply_secret, subscribe_secrets

\* The shutdown future's steps, in the order of serve.rs.
LEMMA DrainSequence ==
    /\ DrainAt("flag")   => drain = "armed"
    /\ DrainAt("notify") => drain = "flag"
    /\ DrainAt("health") => drain = "notify"
    /\ DrainAt("sleep")  => drain = "health"
<1>1. \A k \in 2..4 : k = 2 \/ k = 3 \/ k = 4
  OBVIOUS
<1>2. /\ DrainStep(1) = "flag" /\ DrainStep(2) = "notify"
      /\ DrainStep(3) = "health" /\ DrainStep(4) = "sleep"
  BY DEF DrainStep, DrainOrder
<1>3. 2 - 1 = 1 /\ 3 - 1 = 2 /\ 4 - 1 = 3
  OBVIOUS
<1>4. ASSUME NEW what, DrainAt(what)
      PROVE  \/ drain = "armed" /\ what = "flag"
             \/ drain = "flag" /\ what = "notify"
             \/ drain = "notify" /\ what = "health"
             \/ drain = "health" /\ what = "sleep"
  BY <1>1, <1>2, <1>3, <1>4 DEF DrainAt
<1> QED
  BY <1>4

\* What is assumed of the requests the tasks carry.
LEMMA RequestFacts ==
    ASSUME NEW r \in Requests
    PROVE  /\ r.method \in Methods
           /\ Len(r.targets) \in Nat
           /\ DOMAIN r.targets = 1..Len(r.targets)
BY ServingAssumption DEF Requests

\* The process before anything is resolved.
LEMMA InitIndInv == Init => IndInv
<1> SUFFICES ASSUME Init PROVE IndInv
  OBVIOUS
<1>1. Rpc0 \in RpcState
  BY DEF Rpc0, RpcState, InFlight
<1>2. TypeOK
  BY <1>1 DEF Init, TypeOK
<1>3. HealthInv
  BY DEF Init, HealthInv
<1>4. GuardInv(Rpc0) /\ AuditInv(Rpc0)
  BY DEF Rpc0, GuardInv, AuditInv, InFlight, Running
<1> QED
  BY <1>2, <1>3, <1>4 DEF Init, IndInv

\* A step of one RPC that leaves the process, the drain and the policy alone
\* preserves the invariant when the RPC's own record still satisfies it.
LEMMA TaskStep ==
    ASSUME IndInv, NEW t \in Tasks, NEW s \in RpcState,
           rpc' = [rpc EXCEPT ![t] = s], UNCHANGED <<bootVars, drainVars, aclVars>>,
           GuardInv(s), AuditInv(s)
    PROVE  IndInv'
<1> USE DEF bootVars, drainVars, aclVars
<1>1. TypeOK'
  BY DEF IndInv, TypeOK
<1>2. HealthInv'
  BY DEF IndInv, HealthInv, resolve_tls_config
<1>3. \A u \in Tasks : rpc'[u] = IF u = t THEN s ELSE rpc[u]
  BY DEF IndInv, TypeOK
<1>4. ASSUME NEW u \in Tasks PROVE GuardInv(rpc[u])'
  <2>1. GuardInv(rpc'[u])
    BY <1>3 DEF IndInv
  <2> QED
    BY <2>1 DEF GuardInv, resolve_tls_config, Granted
<1>5. ASSUME NEW u \in Tasks PROVE AuditInv(rpc[u])'
  <2>1. AuditInv(rpc'[u])
    BY <1>3 DEF IndInv
  <2> QED
    BY <2>1 DEF AuditInv
<1> QED
  BY <1>1, <1>2, <1>4, <1>5 DEF IndInv

\* A step that leaves every RPC and the policy alone: start-up, the readiness
\* gate, the signal, and the drain's flag, health and timeout.
LEMMA ProcessStep ==
    ASSUME IndInv, UNCHANGED <<args, rpc, aclVars>>, draining' \in BOOLEAN,
           draining => draining', HealthInv'
    PROVE  IndInv'
<1> USE DEF aclVars
<1>1. TypeOK'
  BY DEF IndInv, TypeOK
<1>2. ASSUME NEW u \in Tasks PROVE GuardInv(rpc[u])'
  <2>1. GuardInv(rpc[u])
    BY DEF IndInv
  <2> QED
    BY <2>1 DEF GuardInv, resolve_tls_config, Granted
<1>3. ASSUME NEW u \in Tasks PROVE AuditInv(rpc[u])'
  <2>1. AuditInv(rpc[u])
    BY DEF IndInv
  <2> QED
    BY <2>1 DEF AuditInv
<1> QED
  BY <1>1, <1>2, <1>3 DEF IndInv

\* Resolve, Spawn, Listen, GatewayWaits, Populate, ReadinessGate and Signal.
LEMMA BootStep ==
    ASSUME IndInv,
           \/ Resolve \/ \E ok \in BOOLEAN : Spawn(ok) \/ Listen(ok)
           \/ GatewayWaits \/ Populate \/ ReadinessGate \/ Signal
    PROVE  IndInv'
<1> USE DEF bootVars, drainVars, aclVars
<1>0. draining \in BOOLEAN
  BY DEF IndInv, TypeOK
<1>1. CASE Resolve
  <2>1. HealthInv'
    BY <1>1 DEF IndInv, HealthInv, Resolve, resolve_tls_config
  <2> QED
    BY <1>0, <1>1, <2>1, ProcessStep DEF Resolve
<1>2. ASSUME NEW ok \in BOOLEAN, Spawn(ok) PROVE IndInv'
  <2>1. HealthInv'
    BY <1>2 DEF IndInv, HealthInv, Spawn, resolve_tls_config
  <2> QED
    BY <1>0, <1>2, <2>1, ProcessStep DEF Spawn
<1>3. ASSUME NEW ok \in BOOLEAN, Listen(ok) PROVE IndInv'
  <2>1. HealthInv'
    BY <1>3 DEF IndInv, HealthInv, Listen, resolve_tls_config
  <2> QED
    BY <1>0, <1>3, <2>1, ProcessStep DEF Listen
<1>4. CASE GatewayWaits
  <2>1. HealthInv'
    BY <1>4 DEF IndInv, HealthInv, GatewayWaits, resolve_tls_config
  <2> QED
    BY <1>0, <1>4, <2>1, ProcessStep DEF GatewayWaits
<1>5. CASE Populate
  <2>1. HealthInv'
    BY <1>5 DEF IndInv, HealthInv, Populate, resolve_tls_config
  <2> QED
    BY <1>0, <1>5, <2>1, ProcessStep DEF Populate
<1>6. CASE ReadinessGate
  <2>1. HealthInv'
    BY <1>6 DEF IndInv, HealthInv, ReadinessGate, Up, resolve_tls_config
  <2> QED
    BY <1>0, <1>6, <2>1, ProcessStep DEF ReadinessGate
<1>7. CASE Signal
  <2>1. HealthInv'
    BY <1>7 DEF IndInv, HealthInv, Signal, resolve_tls_config
  <2> QED
    BY <1>0, <1>7, <2>1, ProcessStep DEF Signal
<1> QED
  BY <1>1, <1>2, <1>3, <1>4, <1>5, <1>6, <1>7

\* The drain's steps other than the notification, and the end of serve.
LEMMA DrainStepInv ==
    ASSUME IndInv, SetDraining \/ SetNotServing \/ DrainTimeout \/ Stop
    PROVE  IndInv'
<1> USE DEF bootVars, drainVars, aclVars
<1>0. draining \in BOOLEAN
  BY DEF IndInv, TypeOK
<1>1. CASE SetDraining
  <2>1. HealthInv'
    BY <1>1, DrainSequence DEF IndInv, HealthInv, SetDraining, resolve_tls_config
  <2> QED
    BY <1>1, <2>1, ProcessStep DEF SetDraining
<1>2. CASE SetNotServing
  <2>1. HealthInv'
    BY <1>2, DrainSequence DEF IndInv, HealthInv, SetNotServing, resolve_tls_config
  <2> QED
    BY <1>0, <1>2, <2>1, ProcessStep DEF SetNotServing
<1>3. CASE DrainTimeout
  <2>1. HealthInv'
    BY <1>3, DrainSequence DEF IndInv, HealthInv, DrainTimeout, resolve_tls_config
  <2> QED
    BY <1>0, <1>3, <2>1, ProcessStep DEF DrainTimeout
<1>4. CASE Stop
  <2>1. HealthInv'
    BY <1>4 DEF IndInv, HealthInv, Stop, resolve_tls_config
  <2> QED
    BY <1>0, <1>4, <2>1, ProcessStep DEF Stop
<1> QED
  BY <1>1, <1>2, <1>3, <1>4

\* notify_waiters closes the streams that wait and marks those it misses.
LEMMA NotifyStep ==
    ASSUME IndInv, NotifyWaiters
    PROVE  IndInv'
<1> USE DEF bootVars, drainVars, aclVars
<1>1. ASSUME NEW t \in Tasks
      PROVE  /\ rpc'[t] \in RpcState
             /\ rpc'[t].pc = rpc[t].pc \/ rpc'[t].pc = "closed"
             /\ rpc'[t].req = rpc[t].req /\ rpc'[t].item = rpc[t].item
             /\ rpc'[t].wrote = rpc[t].wrote /\ rpc'[t].logged = rpc[t].logged
             /\ rpc'[t].tables = rpc[t].tables /\ rpc'[t].after = rpc[t].after
  <2>1. rpc[t] \in RpcState
    BY DEF IndInv, TypeOK
  <2>2. \/ rpc'[t] = [rpc[t] EXCEPT !.pc = "closed"] /\ rpc[t].pc = "waiting"
        \/ rpc'[t] = [rpc[t] EXCEPT !.missed = TRUE]
        \/ rpc'[t] = rpc[t]
    <3>1. rpc'[t] = CASE rpc[t].pc = "waiting" -> [rpc[t] EXCEPT !.pc = "closed"]
                      [] rpc[t].pc \in PastCheck /\ Handler(rpc[t].req.method).effect = "stream" ->
                            [rpc[t] EXCEPT !.missed = TRUE]
                      [] OTHER -> rpc[t]
      BY Zenon DEF NotifyWaiters
    <3> QED
      BY ONLY <3>1, Zenon
  <2>3. CASE rpc'[t] = [rpc[t] EXCEPT !.pc = "closed"]
    BY <2>1, <2>3 DEF RpcState
  <2>4. CASE rpc'[t] = [rpc[t] EXCEPT !.missed = TRUE]
    BY <2>1, <2>4 DEF RpcState
  <2>5. CASE rpc'[t] = rpc[t]
    BY <2>1, <2>5
  <2> QED
    BY <2>2, <2>3, <2>4, <2>5
<1>2. TypeOK'
  BY <1>1 DEF IndInv, TypeOK, NotifyWaiters
<1>3. HealthInv'
  BY DrainSequence DEF IndInv, HealthInv, NotifyWaiters, resolve_tls_config
<1>4. ASSUME NEW t \in Tasks PROVE GuardInv(rpc[t])'
  <2>1. GuardInv(rpc[t])
    BY DEF IndInv
  <2>2. rpc'[t].pc = "closed" => rpc[t].pc # "idle"
    BY DEF NotifyWaiters, IndInv, TypeOK, RpcState
  <2> QED
    BY <1>1, <2>1, <2>2 DEF GuardInv, resolve_tls_config, Granted, NotifyWaiters, InFlight, Running
<1>5. ASSUME NEW t \in Tasks PROVE AuditInv(rpc[t])'
  <2>1. AuditInv(rpc[t])
    BY DEF IndInv
  <2> QED
    BY <1>1, <2>1 DEF AuditInv, InFlight
<1> QED
  BY <1>2, <1>3, <1>4, <1>5 DEF IndInv

\* A new policy is added to those every open request has seen.
LEMMA PublishStep ==
    ASSUME IndInv, NEW tab \in Tables, NEW done \in BOOLEAN, PublishAcl(tab, done)
    PROVE  IndInv'
<1> USE DEF bootVars, drainVars, aclVars
<1>1. ASSUME NEW t \in Tasks
      PROVE  /\ rpc'[t] \in RpcState
             /\ rpc'[t].pc = rpc[t].pc /\ rpc'[t].after = rpc[t].after
             /\ rpc'[t].req = rpc[t].req /\ rpc'[t].item = rpc[t].item
             /\ rpc'[t].wrote = rpc[t].wrote /\ rpc'[t].logged = rpc[t].logged
             /\ rpc[t].tables \subseteq rpc'[t].tables
             /\ rpc[t].pc \in InFlight => tab \in rpc'[t].tables
  <2>1. rpc[t] \in RpcState
    BY DEF IndInv, TypeOK
  <2>2. \/ rpc'[t] = [rpc[t] EXCEPT !.tables = @ \cup {tab}]
        \/ rpc'[t] = rpc[t] /\ rpc[t].pc \notin InFlight
    BY DEF PublishAcl, InFlight
  <2> QED
    BY <2>1, <2>2 DEF RpcState
<1>2. TypeOK'
  BY <1>1 DEF IndInv, TypeOK, PublishAcl
<1>3. HealthInv'
  BY DEF IndInv, HealthInv, PublishAcl, resolve_tls_config
<1>4. ASSUME NEW t \in Tasks PROVE GuardInv(rpc[t])'
  <2>1. GuardInv(rpc[t])
    BY DEF IndInv
  <2>2. \A i : Granted(rpc[t], i) => Granted(rpc[t], i)'
    BY <1>1 DEF Granted, PublishAcl
  <2> QED
    BY <1>1, <2>1, <2>2 DEF GuardInv, resolve_tls_config, PublishAcl
<1>5. ASSUME NEW t \in Tasks PROVE AuditInv(rpc[t])'
  <2>1. AuditInv(rpc[t])
    BY DEF IndInv
  <2> QED
    BY <1>1, <2>1 DEF AuditInv
<1> QED
  BY <1>2, <1>3, <1>4, <1>5 DEF IndInv

\* A request arrives: it has written nothing and seen the current policy.
LEMMA ArriveStep ==
    ASSUME IndInv, NEW t \in Tasks, NEW r \in Offers[t], Arrive(t, r)
    PROVE  IndInv'
<1> DEFINE s == [Rpc0 EXCEPT !.pc = IF Routed(r) THEN "entry" ELSE "done", !.req = r,
                             !.tables = {table}, !.after = draining]
<1>1. /\ s.pc \in {"entry", "done"} /\ s.req = r /\ s.item = 1 /\ s.wrote = {}
      /\ s.logged = {} /\ s.tables = {table} /\ s.after = draining /\ s.missed = FALSE
  BY DEF Rpc0
<1>2. r \in Requests
  BY DEF Requests
<1>3. s \in RpcState
  <2>1. Rpc0 \in RpcState
    BY DEF Rpc0, RpcState, InFlight
  <2>2. draining \in BOOLEAN /\ table \in Tables \cup {NoRules}
    BY DEF IndInv, TypeOK
  <2> QED
    BY <1>2, <2>1, <2>2 DEF RpcState, InFlight
<1>4. resolve_tls_config
  BY DEF IndInv, HealthInv, Arrive, Accepting
<1>5. GuardInv(s)
  BY <1>1, <1>2, <1>4, RequestFacts DEF GuardInv, InFlight, Running
<1>6. AuditInv(s)
  BY <1>1 DEF AuditInv, InFlight
<1> QED
  BY <1>3, <1>5, <1>6, TaskStep DEF Arrive

\* check_drain lets through what arrived before the flag, and Revert.
LEMMA CheckDrainStep ==
    ASSUME IndInv, NEW t \in Tasks, CheckDrain(t)
    PROVE  IndInv'
<1> DEFINE q == rpc[t]
           s == [q EXCEPT !.pc = IF check_drain(t) /\ Len(q.req.targets) > 0
                                 THEN "authz" ELSE "done"]
<1>0. q \in RpcState /\ GuardInv(q) /\ AuditInv(q) /\ q.pc = "entry"
  BY DEF IndInv, TypeOK, CheckDrain
<1>1. /\ s.pc \in {"authz", "done"}
      /\ s.pc = "authz" => check_drain(t) /\ Len(q.req.targets) > 0
      /\ s.req = q.req /\ s.item = q.item /\ s.wrote = q.wrote
      /\ s.logged = q.logged /\ s.tables = q.tables /\ s.after = q.after
      /\ s \in RpcState
  BY <1>0 DEF RpcState, InFlight
<1>2. /\ q.req \in Requests /\ q.item = 1 /\ q.wrote = {} /\ q.req.method \in Methods
      /\ Len(q.req.targets) \in Nat
  BY <1>0, RequestFacts DEF GuardInv, AuditInv
<1>3. s.after /\ s.pc = "authz" => s.req.method = "Revert"
  BY <1>0, <1>1, <1>2, OnlyRevertIgnoresDrain DEF GuardInv, check_drain
<1>4. GuardInv(s)
  BY <1>0, <1>1, <1>2, <1>3 DEF GuardInv, InFlight, Running
<1>5. AuditInv(s)
  BY <1>0, <1>1, <1>2 DEF AuditInv, InFlight
<1> QED
  BY <1>1, <1>4, <1>5, TaskStep DEF CheckDrain, Move

\* An RPC's record with a new place and a new target.
At(q, pc, i) == [q EXCEPT !.pc = pc, !.item = i]

\* Nothing but the two changes.
LEMMA Advance ==
    ASSUME NEW q \in RpcState, NEW i \in Nat \ {0},
           NEW pc \in InFlight \cup {"idle", "done", "dropped", "closed"}
    PROVE  /\ At(q, pc, i) \in RpcState /\ At(q, pc, i).pc = pc /\ At(q, pc, i).item = i
           /\ At(q, pc, i).req = q.req /\ At(q, pc, i).wrote = q.wrote
           /\ At(q, pc, i).logged = q.logged /\ At(q, pc, i).tables = q.tables
           /\ At(q, pc, i).after = q.after
BY DEF RpcState, At

\* The same, with the targets written or with those audited.
WroteAt(q, w, pc, i)  == [q EXCEPT !.wrote = w, !.pc = pc, !.item = i]
LoggedAt(q, l, pc, i) == [q EXCEPT !.logged = l, !.pc = pc, !.item = i]

\* Nothing but the three changes.
LEMMA AdvanceWriting ==
    ASSUME NEW q \in RpcState, NEW i \in Nat \ {0}, NEW w \in SUBSET Nat,
           NEW pc \in InFlight \cup {"idle", "done", "dropped", "closed"}
    PROVE  /\ WroteAt(q, w, pc, i) \in RpcState /\ WroteAt(q, w, pc, i).pc = pc
           /\ WroteAt(q, w, pc, i).item = i /\ WroteAt(q, w, pc, i).wrote = w
           /\ WroteAt(q, w, pc, i).req = q.req /\ WroteAt(q, w, pc, i).logged = q.logged
           /\ WroteAt(q, w, pc, i).tables = q.tables /\ WroteAt(q, w, pc, i).after = q.after
BY DEF RpcState, WroteAt

\* A call of authz::check that passes in enforce mode grants its target, and the
\* table it read is one of those in force since the request arrived.
LEMMA CheckGrants ==
    ASSUME NEW s, GuardInv(s), s.pc = "authz", NEW i, args.mode = "enforce",
           check(s.req, s.req.targets[i])
    PROVE  Granted(s, i)
<1>1. extract_identity(s.req) # Anonymous
  BY DEF check
<1>2. s.req.via = "grpc" /\ args.tls # "off"
  BY <1>1 DEF extract_identity
<1>3. args.tls = "complete" /\ table \in s.tables
  BY <1>2 DEF GuardInv, resolve_tls_config, InFlight
<1>4. extract_identity(s.req) = identity_from_der(Subject[s.req.caller])
  BY <1>2 DEF extract_identity
<1>5. grants(table, identity_from_der(Subject[s.req.caller]), Handler(s.req.method).verb,
             s.req.targets[i])
  BY <1>4 DEF check
<1> QED
  BY <1>2, <1>3, <1>5 DEF Granted

\* authorize, target after target; the handler starts after the last one.
LEMMA AuthorizeStep ==
    ASSUME IndInv, NEW t \in Tasks, NEW admitted \in BOOLEAN, Authorize(t, admitted)
    PROVE  IndInv'
<1> DEFINE q == rpc[t]
           n == Len(q.req.targets)
           ok == admitted /\ check(q.req, q.req.targets[q.item])
           s == IF ~ok THEN [q EXCEPT !.pc = "done"]
                ELSE IF q.item = n THEN [q EXCEPT !.pc = "handle", !.item = 1]
                ELSE [q EXCEPT !.item = q.item + 1]
<1>0. q \in RpcState /\ GuardInv(q) /\ AuditInv(q) /\ q.pc = "authz"
  BY DEF IndInv, TypeOK, Authorize
<1>1. q.req \in Requests /\ q.wrote = {} /\ n \in Nat \ {0} /\ q.item \in 1..n
  BY <1>0, RequestFacts DEF GuardInv, AuditInv, RpcState, InFlight
<1>2. /\ s.req = q.req /\ s.wrote = q.wrote /\ s.logged = q.logged
      /\ s.tables = q.tables /\ s.after = q.after /\ s \in RpcState
  <2>1. CASE ~ok
    BY <1>0, <2>1 DEF RpcState
  <2>2. CASE ok /\ q.item = n
    <3>1. s = At(q, "handle", 1)
      BY <2>2 DEF At
    <3>2. "handle" \in InFlight \cup {"idle", "done", "dropped", "closed"} /\ 1 \in Nat \ {0}
      BY DEF InFlight
    <3> HIDE DEF s, ok, q
    <3> QED
      BY <1>0, <3>1, <3>2, Advance
  <2>3. CASE ok /\ q.item # n
    BY <1>0, <2>3 DEF RpcState
  <2> QED
    BY <2>1, <2>2, <2>3
<1>3. \/ s.pc = "done"
      \/ s.pc = "handle" /\ s.item = 1 /\ ok /\ q.item = n
      \/ s.pc = "authz" /\ s.item = q.item + 1 /\ ok /\ q.item # n
  BY <1>0 DEF RpcState
<1>9. rpc' = [rpc EXCEPT ![t] = s]
  BY DEF Authorize, Last, Targets
<1> HIDE DEF s
<1>4. ASSUME NEW i \in 1..n, args.mode = "enforce", ok, i <= q.item
      PROVE  Granted(q, i)
  <2>1. CASE i = q.item
    BY <1>0, <1>4, <2>1, CheckGrants
  <2>2. CASE i < q.item
    BY <1>0, <1>4, <2>2 DEF GuardInv, InFlight
  <2> QED
    BY <1>1, <1>4, <2>1, <2>2
<1>5. \A i : Granted(q, i) => Granted(s, i)
  BY <1>2 DEF Granted
<1>6. args.mode = "enforce" /\ s.pc \in InFlight =>
        \A i \in 1..n : s.pc \in Running \/ (s.pc = "authz" /\ i < s.item) => Granted(s, i)
  BY <1>1, <1>3, <1>4, <1>5 DEF InFlight, Running
<1>7. GuardInv(s)
  <2>1. s.pc # "idle" => s.req \in Requests /\ resolve_tls_config
    BY <1>0, <1>1, <1>2 DEF GuardInv
  <2>2. s.pc \in InFlight => table \in s.tables
    BY <1>0, <1>2 DEF GuardInv, InFlight
  <2>3. s.pc \in {"authz", "handle", "audit", "event"} => s.item <= Len(s.req.targets)
    BY <1>1, <1>2, <1>3
  <2>4. (s.after => draining) /\ Len(s.req.targets) > 0
    BY <1>0, <1>1, <1>2 DEF GuardInv
  <2>5. s.after /\ s.pc \in InFlight \ {"entry"} => s.req.method = "Revert"
    BY <1>0, <1>2 DEF GuardInv, InFlight
  <2> QED
    BY <1>2, <1>6, <2>1, <2>2, <2>3, <2>4, <2>5 DEF GuardInv
<1>8. AuditInv(s)
  BY <1>1, <1>2, <1>3 DEF AuditInv, InFlight
<1> QED
  BY <1>2, <1>7, <1>8, <1>9, TaskStep DEF Authorize

\* Past its guards a request keeps what they established.
LEMMA GuardsStay ==
    ASSUME NEW q, GuardInv(q), q.pc \in Running,
           NEW s, s.pc \in Running \cup {"done", "dropped", "closed"},
           s.req = q.req, s.tables = q.tables, s.after = q.after,
           s.pc \in {"handle", "audit", "event"} => s.item <= Len(s.req.targets)
    PROVE  GuardInv(s)
<1>1. q.pc \in InFlight \ {"entry"} /\ q.pc # "idle"
  BY DEF Running, InFlight
<1>2. s.pc \notin {"entry", "authz", "idle"}
  BY DEF Running, InFlight
<1>3. \A i : Granted(q, i) => Granted(s, i)
  BY DEF Granted
<1>4. args.mode = "enforce" /\ s.pc \in InFlight =>
          \A i \in 1..Len(s.req.targets) :
             s.pc \in Running \/ (s.pc = "authz" /\ i < s.item) => Granted(s, i)
  BY <1>1, <1>3 DEF GuardInv
<1>5. s.pc # "idle" => s.req \in Requests /\ resolve_tls_config
  BY <1>1 DEF GuardInv
<1>6. /\ s.pc \in InFlight => table \in s.tables
      /\ s.pc \in InFlight \ {"entry"} => Len(s.req.targets) > 0
      /\ s.after => draining
      /\ s.after /\ s.pc \in InFlight \ {"entry"} => s.req.method = "Revert"
  BY <1>1 DEF GuardInv
<1> QED
  BY <1>2, <1>4, <1>5, <1>6 DEF GuardInv

\* What the steps of a handler may rely on.
LEMMA RunningFacts ==
    ASSUME IndInv, NEW t \in Tasks, rpc[t].pc \in Running
    PROVE  /\ rpc[t] \in RpcState /\ GuardInv(rpc[t]) /\ AuditInv(rpc[t])
           /\ rpc[t].req.method \in Methods
           /\ Len(rpc[t].req.targets) \in Nat \ {0}
           /\ rpc[t].item \in Nat \ {0}
           /\ rpc[t].wrote \subseteq 1..Len(rpc[t].req.targets)
<1>1. rpc[t] \in RpcState /\ GuardInv(rpc[t]) /\ AuditInv(rpc[t])
  BY DEF IndInv, TypeOK
<1>2. /\ rpc[t].req \in Requests /\ Len(rpc[t].req.targets) > 0
      /\ rpc[t].wrote \subseteq 1..Len(rpc[t].req.targets)
  BY <1>1 DEF GuardInv, AuditInv, Running, InFlight
<1> QED
  BY <1>1, <1>2, RequestFacts DEF RpcState

\* A handler step that only moves the request.
LEMMA MoveStep ==
    ASSUME IndInv, NEW t \in Tasks, rpc[t].pc \in Running,
           NEW pc \in Running \cup {"done", "dropped", "closed"}, NEW i \in Nat \ {0},
           rpc' = [rpc EXCEPT ![t] = At(rpc[t], pc, i)],
           UNCHANGED <<bootVars, drainVars, aclVars>>,
           pc \in {"handle", "audit", "event"} => i <= Len(rpc[t].req.targets),
           pc # "handle",
           pc = "audit" => 1..(i - 1) \subseteq rpc[t].logged,
           pc = "event" => 1..i \subseteq rpc[t].logged,
           pc = "done" => rpc[t].wrote \subseteq rpc[t].logged
    PROVE  IndInv'
<1> DEFINE s == At(rpc[t], pc, i)
<1>1. rpc[t] \in RpcState /\ GuardInv(rpc[t])
      /\ rpc[t].wrote \subseteq 1..Len(rpc[t].req.targets)
  BY RunningFacts
<1>2. pc \in InFlight \cup {"idle", "done", "dropped", "closed"}
  BY DEF Running
<1>3. /\ s \in RpcState /\ s.pc = pc /\ s.item = i
      /\ s.req = rpc[t].req /\ s.wrote = rpc[t].wrote
      /\ s.logged = rpc[t].logged /\ s.tables = rpc[t].tables /\ s.after = rpc[t].after
  BY <1>1, <1>2, Advance
<1> HIDE DEF s
<1>4. GuardInv(s)
  BY <1>1, <1>3, GuardsStay
<1>5. AuditInv(s)
  BY <1>1, <1>3 DEF AuditInv, Running, InFlight
<1> QED
  BY <1>3, <1>4, <1>5, TaskStep DEF s

\* The handlers' answers, the lists and the streams: Read, WriteFails, Drop,
\* ListEnds, StreamWaits, StreamEvent and StreamEnds.
LEMMA MovesStep ==
    ASSUME IndInv, NEW t \in Tasks,
           \/ \E ok \in BOOLEAN : Read(t, ok)
           \/ WriteFails(t) \/ Drop(t) \/ ListEnds(t)
           \/ StreamWaits(t) \/ StreamEvent(t) \/ StreamEnds(t)
    PROVE  IndInv'
<1> DEFINE q == rpc[t]
<1>0. q \in RpcState /\ rpc \in [Tasks -> RpcState]
  BY DEF IndInv, TypeOK
<1>1. ASSUME NEW pc, Move(t, pc)
      PROVE  rpc' = [rpc EXCEPT ![t] = At(q, pc, q.item)]
  BY <1>0, <1>1 DEF Move, At, RpcState
<1>2. ASSUME NEW ok \in BOOLEAN, Read(t, ok) PROVE IndInv'
  <2>1. q.pc = "handle" /\ Handler(q.req.method).effect = "read" /\ q.pc \in Running
    BY <1>2 DEF Read, Running, InFlight
  <2>2. AuditInv(q) /\ Len(q.req.targets) \in Nat \ {0}
    BY <2>1, RunningFacts
  <2>3. q.wrote = {} /\ q.item = 1
    BY <2>1, <2>2 DEF AuditInv
  <2>4. AfterHandler(t, ok) \in {"audit", "done"}
    BY DEF AfterHandler
  <2>5. rpc' = [rpc EXCEPT ![t] = At(q, AfterHandler(t, ok), 1)]
    BY <1>1, <1>2, <2>3 DEF Read
  <2>6. AfterHandler(t, ok) \in Running \cup {"done", "dropped", "closed"}
    BY <2>4 DEF Running, InFlight
  <2>7. 1..(1 - 1) \subseteq q.logged
    OBVIOUS
  <2>8. UNCHANGED <<bootVars, drainVars, aclVars>>
    BY <1>2 DEF Read
  <2>9. 1 \in Nat \ {0} /\ 1 <= Len(q.req.targets) /\ q.wrote \subseteq q.logged
    BY <2>2, <2>3
  <2> QED
    BY <2>1, <2>4, <2>5, <2>6, <2>7, <2>8, <2>9, MoveStep
<1>3. ASSUME WriteFails(t) PROVE IndInv'
  <2>1. q.pc = "handle" /\ Handler(q.req.method).effect = "write" /\ q.pc \in Running
    BY <1>3 DEF WriteFails, Running, InFlight
  <2>2. Len(q.req.targets) \in Nat \ {0} /\ q.req.method \in Methods
    BY <2>1, RunningFacts
  <2>3. AfterHandler(t, FALSE) = "audit"
    BY <2>1, <2>2, WritersAudit DEF AfterHandler
  <2>4. rpc' = [rpc EXCEPT ![t] = At(q, "audit", 1)]
    BY <1>0, <1>3, <2>3 DEF WriteFails, At, RpcState
  <2>5. "audit" \in Running \cup {"done", "dropped", "closed"}
    BY DEF Running, InFlight
  <2>6. 1..(1 - 1) \subseteq q.logged
    OBVIOUS
  <2>7. UNCHANGED <<bootVars, drainVars, aclVars>>
    BY <1>3 DEF WriteFails
  <2>8. 1 \in Nat \ {0} /\ 1 <= Len(q.req.targets)
    BY <2>2
  <2> QED
    BY <2>1, <2>4, <2>5, <2>6, <2>7, <2>8, MoveStep
<1>4. ASSUME NEW pc \in {"dropped", "waiting", "busy", "closed"}, q.pc \in Running,
             Move(t, pc), UNCHANGED <<bootVars, drainVars, aclVars>>
      PROVE  IndInv'
  <2>1. q.item \in Nat \ {0}
    BY <1>4, RunningFacts
  <2>2. pc \in Running \cup {"done", "dropped", "closed"}
    BY <1>4 DEF Running, InFlight
  <2>3. rpc' = [rpc EXCEPT ![t] = At(q, pc, q.item)]
    BY <1>1, <1>4
  <2>4. pc # "handle" /\ pc # "audit" /\ pc # "event" /\ pc # "done"
    BY <1>4
  <2> QED
    BY <1>4, <2>1, <2>2, <2>3, <2>4, MoveStep
<1>5. CASE Drop(t)
  BY <1>4, <1>5 DEF Drop, Running, InFlight
<1>6. CASE StreamWaits(t)
  BY <1>4, <1>6 DEF StreamWaits, Running, InFlight
<1>7. CASE StreamEvent(t)
  BY <1>4, <1>7 DEF StreamEvent, Running, InFlight
<1>8. CASE StreamEnds(t)
  BY <1>4, <1>8 DEF StreamEnds, Running, InFlight
<1>9. CASE ListEnds(t)
  BY <1>4, <1>9 DEF ListEnds, Running, InFlight
<1> QED
  BY <1>2, <1>3, <1>5, <1>6, <1>7, <1>8, <1>9

\* One target is written; after the last the audit loop starts.
LEMMA WriteStep ==
    ASSUME IndInv, NEW t \in Tasks, Write(t)
    PROVE  IndInv'
<1> DEFINE q == rpc[t]
           n == Len(q.req.targets)
           w == q.wrote \cup {q.item}
           pc == IF q.item = n THEN "audit" ELSE "handle"
           i == IF q.item = n THEN 1 ELSE q.item + 1
           s == WroteAt(q, w, pc, i)
<1>1. q.pc = "handle" /\ Handler(q.req.method).effect = "write" /\ q.pc \in Running
  BY DEF Write, Running, InFlight
<1>2. /\ q \in RpcState /\ GuardInv(q) /\ AuditInv(q) /\ q.req.method \in Methods
      /\ n \in Nat \ {0} /\ q.item \in Nat \ {0} /\ q.wrote \subseteq 1..n
  BY <1>1, RunningFacts
<1>3. q.item <= n
  BY <1>1, <1>2 DEF GuardInv
<1>4. /\ w \in SUBSET Nat /\ i \in Nat \ {0}
      /\ pc \in InFlight \cup {"idle", "done", "dropped", "closed"}
  BY <1>2 DEF InFlight
<1>5. /\ s \in RpcState /\ s.pc = pc /\ s.item = i /\ s.wrote = w
      /\ s.req = q.req /\ s.tables = q.tables /\ s.after = q.after /\ s.logged = q.logged
  <2> HIDE DEF w, pc, i
  <2> QED
    BY <1>2, <1>4, AdvanceWriting
<1>6. rpc' = [rpc EXCEPT ![t] = s]
  <2>1. AfterHandler(t, TRUE) = "audit"
    BY <1>1, <1>2, WritersAudit DEF AfterHandler
  <2> QED
    BY <2>1 DEF Write, Last, Targets, WroteAt
<1> HIDE DEF s
<1>7. s.pc \in Running \cup {"done", "dropped", "closed"}
  BY <1>5 DEF Running, InFlight
<1>8. s.pc \in {"handle", "audit", "event"} => s.item <= Len(s.req.targets)
  BY <1>2, <1>3, <1>5
<1>9. GuardInv(s)
  BY <1>1, <1>2, <1>5, <1>7, <1>8, GuardsStay
<1>10. AuditInv(s)
  <2>1. s.wrote \subseteq 1..Len(s.req.targets)
    BY <1>2, <1>3, <1>5
  <2>2. s.pc = "audit" => 1..(s.item - 1) \subseteq s.logged
    BY <1>5
  <2> QED
    BY <1>1, <1>5, <2>1, <2>2 DEF AuditInv
<1> QED
  BY <1>5, <1>6, <1>9, <1>10, TaskStep DEF Write

\* One more target has its record; with the last one the request may answer.
LEMMA EmitStep ==
    ASSUME IndInv, NEW t \in Tasks, Emit(t)
    PROVE  IndInv'
<1> DEFINE q == rpc[t]
           n == Len(q.req.targets)
           k == MakesEvents(t)
           l == q.logged \cup {q.item}
           pc == IF k THEN "event" ELSE IF q.item = n THEN "done" ELSE "audit"
           i == IF k \/ q.item = n THEN q.item ELSE q.item + 1
           s == LoggedAt(q, l, pc, i)
<1>1. q.pc = "audit" /\ q.pc \in Running
  BY DEF Emit, Running, InFlight
<1>2. /\ q \in RpcState /\ GuardInv(q) /\ AuditInv(q)
      /\ n \in Nat \ {0} /\ q.item \in Nat \ {0} /\ q.wrote \subseteq 1..n
  BY <1>1, RunningFacts
<1>3. q.item <= n /\ 1..(q.item - 1) \subseteq q.logged
  BY <1>1, <1>2 DEF GuardInv, AuditInv
<1>6. rpc' = [rpc EXCEPT ![t] = s]
  BY DEF Emit, Last, Targets, LoggedAt
<1> HIDE DEF k
<1>4. /\ l \in SUBSET Nat /\ i \in Nat \ {0}
      /\ pc \in InFlight \cup {"idle", "done", "dropped", "closed"}
  BY <1>2 DEF InFlight, RpcState
<1>5. /\ s \in RpcState /\ s.pc = pc /\ s.item = i /\ s.logged = l
      /\ s.req = q.req /\ s.tables = q.tables /\ s.after = q.after /\ s.wrote = q.wrote
  <2>1. q \in RpcState /\ l \in SUBSET Nat /\ i \in Nat \ {0}
        /\ pc \in InFlight \cup {"idle", "done", "dropped", "closed"}
    BY <1>2, <1>4
  <2>2. s = LoggedAt(q, l, pc, i)
    OBVIOUS
  <2> HIDE DEF l, pc, i, q, s
  <2> QED
    BY <2>1, <2>2, Zenon DEF LoggedAt, RpcState
<1> HIDE DEF s
<1>7. s.pc \in Running \cup {"done", "dropped", "closed"}
  BY <1>5 DEF Running, InFlight
<1>8. s.pc \in {"handle", "audit", "event"} => s.item <= Len(s.req.targets)
  BY <1>2, <1>3, <1>5
<1>9. GuardInv(s)
  BY <1>1, <1>2, <1>5, <1>7, <1>8, GuardsStay
<1>10. AuditInv(s)
  <2>1. 1..q.item \subseteq s.logged
    BY <1>2, <1>3, <1>5
  <2>2. s.pc = "audit" => 1..(s.item - 1) \subseteq s.logged
    BY <1>2, <1>5, <2>1
  <2>3. s.pc = "event" => 1..s.item \subseteq s.logged
    BY <1>5, <2>1
  <2>4. s.pc = "done" => s.wrote \subseteq s.logged
    BY <1>2, <1>5, <2>1
  <2> QED
    BY <1>2, <1>5, <2>2, <2>3, <2>4 DEF AuditInv
<1> QED
  BY <1>5, <1>6, <1>9, <1>10, TaskStep DEF Emit

\* The Kubernetes event of an audited target.
LEMMA EventStep ==
    ASSUME IndInv, NEW t \in Tasks, maybe_emit_k8s_event(t)
    PROVE  IndInv'
<1> DEFINE q == rpc[t]
           n == Len(q.req.targets)
<1>1. q.pc = "event" /\ q.pc \in Running
  BY DEF maybe_emit_k8s_event, Running, InFlight
<1>2. /\ q \in RpcState /\ GuardInv(q) /\ AuditInv(q)
      /\ n \in Nat \ {0} /\ q.item \in Nat \ {0} /\ q.wrote \subseteq 1..n
  BY <1>1, RunningFacts
<1>3. q.item <= n /\ 1..q.item \subseteq q.logged
  BY <1>1, <1>2 DEF GuardInv, AuditInv
<1>4. "done" \in Running \cup {"done", "dropped", "closed"}
      /\ "audit" \in Running \cup {"done", "dropped", "closed"}
  BY DEF Running, InFlight
<1>5. UNCHANGED <<bootVars, drainVars, aclVars>>
  BY DEF maybe_emit_k8s_event
<1>6. CASE q.item = n
  <2>1. rpc' = [rpc EXCEPT ![t] = At(q, "done", q.item)]
    BY <1>2, <1>6 DEF maybe_emit_k8s_event, Last, Targets, At, RpcState
  <2>2. q.wrote \subseteq q.logged
    BY <1>2, <1>3, <1>6
  <2> QED
    BY <1>1, <1>2, <1>4, <1>5, <2>1, <2>2, MoveStep
<1>7. CASE q.item # n
  <2>1. rpc' = [rpc EXCEPT ![t] = At(q, "audit", q.item + 1)]
    BY <1>7 DEF maybe_emit_k8s_event, Last, Targets, At
  <2>2. /\ q.item + 1 \in Nat \ {0} /\ q.item + 1 <= n
        /\ 1..((q.item + 1) - 1) \subseteq q.logged
    BY <1>2, <1>3, <1>7
  <2> QED
    BY <1>1, <1>4, <1>5, <2>1, <2>2, MoveStep
<1> QED
  BY <1>6, <1>7

\* A list's or a stream's task is spawned; the secret ones audit their Ok.
LEMMA OpenStep ==
    ASSUME IndInv, NEW t \in Tasks, OpenList(t) \/ OpenStream(t)
    PROVE  IndInv'
<1> DEFINE q == rpc[t]
           l == IF Handler(q.req.method).audits THEN {1} ELSE {}
           p == IF OpenList(t) THEN "sending" ELSE "resume"
           s == [q EXCEPT !.pc = p, !.logged = l]
<1>1. q.pc = "handle" /\ q.pc \in Running
  BY DEF OpenList, OpenStream, Running, InFlight
<1>2. /\ q \in RpcState /\ GuardInv(q) /\ q.wrote \subseteq 1..Len(q.req.targets)
  BY <1>1, RunningFacts
<1>3. l \in SUBSET Nat /\ p \in {"sending", "resume"}
  OBVIOUS
<1>4. rpc' = [rpc EXCEPT ![t] = s] /\ UNCHANGED <<bootVars, drainVars, aclVars>>
  BY DEF OpenList, OpenStream
<1> HIDE DEF l, p
<1>5. s \in RpcState
  BY <1>2, <1>3 DEF RpcState, InFlight
<1>6. /\ s.req = q.req /\ s.tables = q.tables /\ s.after = q.after /\ s.wrote = q.wrote
      /\ s.pc \in {"sending", "resume"}
  BY <1>2, <1>3 DEF RpcState
<1> HIDE DEF s
<1>7. s.pc \in Running \cup {"done", "dropped", "closed"}
  BY <1>6 DEF Running, InFlight
<1>8. GuardInv(s)
  BY <1>1, <1>2, <1>6, <1>7, GuardsStay
<1>9. AuditInv(s)
  BY <1>2, <1>6 DEF AuditInv
<1> QED
  BY <1>4, <1>5, <1>8, <1>9, TaskStep

\* Every step of the process preserves the invariant.
LEMMA NextIndInv == IndInv /\ [Next]_vars => IndInv'
<1> SUFFICES ASSUME IndInv, [Next]_vars PROVE IndInv'
  OBVIOUS
<1>1. CASE \/ Resolve \/ \E ok \in BOOLEAN : Spawn(ok) \/ Listen(ok)
           \/ GatewayWaits \/ Populate \/ ReadinessGate \/ Signal
  BY <1>1, BootStep
<1>2. CASE SetDraining \/ SetNotServing \/ DrainTimeout \/ Stop
  BY <1>2, DrainStepInv
<1>3. CASE NotifyWaiters
  BY <1>3, NotifyStep
<1>4. CASE \E tab \in Tables, done \in BOOLEAN : PublishAcl(tab, done)
  BY <1>4, PublishStep
<1>5. ASSUME NEW t \in Tasks, \E r \in Offers[t] : Arrive(t, r) PROVE IndInv'
  BY <1>5, ArriveStep
<1>6. ASSUME NEW t \in Tasks, Handling(t) PROVE IndInv'
  BY <1>6, CheckDrainStep, AuthorizeStep, MovesStep, WriteStep, EmitStep, EventStep,
     OpenStep, Zenon DEF Handling
<1>7. ASSUME NEW t \in Tasks, Drop(t) \/ ListEnds(t) \/ StreamEvent(t) \/ StreamEnds(t)
      PROVE  IndInv'
  BY <1>7, MovesStep
<1>8. CASE UNCHANGED vars
  <2>1. UNCHANGED <<args, rpc, aclVars, draining>> /\ HealthInv'
    BY <1>8 DEF vars, bootVars, drainVars, aclVars, IndInv, HealthInv, resolve_tls_config
  <2>2. draining \in BOOLEAN
    BY DEF IndInv, TypeOK
  <2> QED
    BY <2>1, <2>2, ProcessStep
<1> QED
  BY <1>1, <1>2, <1>3, <1>4, <1>5, <1>6, <1>7, <1>8, Zenon DEF Next

\* The invariant holds in every reachable state.
THEOREM Inductive == Spec => []IndInv
BY InitIndInv, NextIndInv, PTL DEF Spec

\* A pod reports SERVING only with a populated cache, and after its drain
\* reported NOT_SERVING only if the readiness task was late (startup.rs,
\* serve.rs).
THEOREM HonestHealth == Spec => []HealthIsHonest
<1>1. IndInv => HealthIsHonest
  BY DEF IndInv, HealthInv, HealthIsHonest
<1> QED
  BY <1>1, Inductive, PTL

\* In enforce mode a handler only ever runs for a caller who held a rule for
\* every target, each under a policy in force since the request arrived
\* (authz.rs, grpc/service.rs).
THEOREM NoUngrantedTarget == Spec => []EveryTargetWasGranted
<1>1. ASSUME IndInv, NEW t \in Tasks, Reached(t), args.mode = "enforce"
      PROVE  /\ rpc[t].req.via = "grpc" /\ args.tls = "complete"
             /\ \A i \in DOMAIN Targets(t) : \E tab \in rpc[t].tables :
                   grants(tab, identity_from_der(Subject[rpc[t].req.caller]),
                          Handler(rpc[t].req.method).verb, Targets(t)[i])
  <2> DEFINE q == rpc[t]
  <2>1. q.pc \in Running /\ q.pc \in InFlight /\ q.pc # "idle"
    BY <1>1 DEF Reached, Running, InFlight
  <2>2. GuardInv(q)
    BY <1>1 DEF IndInv
  <2>3. Len(q.req.targets) \in Nat \ {0} /\ DOMAIN q.req.targets = 1..Len(q.req.targets)
    BY <2>1, <2>2, RequestFacts DEF GuardInv, Running
  <2>4. \A i \in 1..Len(q.req.targets) : Granted(q, i)
    BY <1>1, <2>1, <2>2 DEF GuardInv
  <2>5. 1 \in 1..Len(q.req.targets)
    BY <2>3
  <2> QED
    BY <2>3, <2>4, <2>5 DEF Granted, Targets
<1>2. IndInv => EveryTargetWasGranted
  BY <1>1 DEF EveryTargetWasGranted
<1> QED
  BY <1>2, Inductive, PTL

\* A request that arrives after the drain flag was set reaches its handler only
\* when it is a Revert (drain.rs, grpc/service.rs).
THEOREM DrainTurnsAway == Spec => []NothingStartsInDrain
<1>1. IndInv => NothingStartsInDrain
  BY DEF IndInv, GuardInv, NothingStartsInDrain, Reached, InFlight
<1> QED
  BY <1>1, Inductive, PTL

\* Every target an answered request wrote has its audit record (grpc/service.rs,
\* audit.rs).
THEOREM AuditIsComplete == Spec => []WritesAreAudited
<1>1. IndInv => WritesAreAudited
  BY DEF IndInv, AuditInv, WritesAreAudited
<1> QED
  BY <1>1, Inductive, PTL
=============================================================================
