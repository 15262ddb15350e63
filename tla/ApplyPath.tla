----------------------------- MODULE ApplyPath -----------------------------
(***************************************************************************)
(* The write path of konfig: the Apply, BatchApply and Revert handlers     *)
(* (grpc/apply.rs, grpc/revert.rs) against the Kubernetes API server.      *)
(* Every await of a handler is a point where the other handlers, kubectl   *)
(* and a crash of the server may run, so each API call is an action.       *)
(***************************************************************************)
EXTENDS Naturals, Sequences, Functions

CONSTANTS
    Handlers,       \* RPCs in flight, of one or of several konfig servers
    Targets,        \* Config objects, numbers in (namespace, name) order
    Fields,         \* the fields of spec.content, no one inside another
    Values,         \* their values
    Scalars,        \* contents that parse and are no JSON object
    Edits,          \* the contents kubectl may store
    Requests,       \* the item sequences clients send
    Malformed,      \* the contents that do not parse as a ConfigSpec
    SchemaRejects,  \* the <<target, content>> pairs a registered schema rejects
    RawVersions,    \* schema_version values kubectl may store (the CRD has no maximum)
    RetryBudget,    \* RETRY_DELAYS_MS.len()
    MaxU32,         \* u32::MAX
    MaxRv,          \* bound on the number of writes
    Absent          \* the object does not exist

ASSUME ApplyAssumption ==
    /\ Targets \subseteq Nat
    /\ RawVersions \subseteq Nat
    /\ RetryBudget \in Nat
    /\ MaxU32 \in Nat
    /\ MaxRv \in Nat

\* JSON objects: some of the fields, each with its value.
Trees == UNION {[S -> Values] : S \in SUBSET Fields}

\* What a request may carry as spec.content.
Contents == Trees \cup Scalars \cup Malformed

Item == [target : Targets, ver : 0..MaxU32, content : Contents]

ASSUME RequestsAssumption == Requests \subseteq Seq(Item) /\ Edits \subseteq Trees

\* A stored Config: its spec, the fields of its content that field managers other
\* than konfig.v1 hold, and its resourceVersion.  The CRD's schema admits no
\* content but an object.
Object == [ver : Nat, content : Trees, theirs : Trees, rv : Nat]

ASSUME AbsentAssumption == Absent \notin Object

VARIABLES
    store,      \* the API server's objects
    history,    \* its committed writes: entry i has resourceVersion i
    pc,         \* per handler: where it is
    kind,       \* per handler: the RPC it serves
    items,      \* per handler: the items not written yet
    gateReads,  \* per handler: versions the batch gate has read, and when
    goal,       \* per handler: the revision a Revert asks for
    basis,      \* per handler: the resourceVersion of the object it read
    attempt,    \* per handler: 409 answers to the current patch
    results,    \* per handler: the writes it will report
    outcome     \* per handler: the status it answers with

locals == <<kind, items, gateReads, goal, basis, attempt, results, outcome>>
vars   == <<store, history, pc, kind, items, gateReads, goal, basis,
            attempt, results, outcome>>

RvOf(obj)  == IF obj = Absent THEN 0 ELSE obj.rv
VerOf(obj) == IF obj = Absent THEN 0 ELSE obj.ver

EmptyTree == [k \in {} |-> k]
ContentOf(obj) == IF obj = Absent THEN EmptyTree ELSE obj.content
TheirsOf(obj)  == IF obj = Absent THEN EmptyTree ELSE obj.theirs

\* as_u64().unwrap_or(0) as u32: a 404 reads as 0, a large value is truncated.
parse_schema_version(obj) == VerOf(obj) % (MaxU32 + 1)

\* Mutant of schema_version_decision: an equal version is accepted.
AcceptsEqual(incoming, current) == ~(incoming < current)

\* The monotonicity gate accepts only a strictly larger version.
schema_version_decision(incoming, current) == ~(incoming <= current)

\* serde_yaml::from_str of every item.
parses(req) == \A i \in DOMAIN req : req[i].content \notin Malformed

\* At least one item, no target twice, every item parses.
parse_batch_items(req) ==
    /\ req # << >>
    /\ \A i, j \in DOMAIN req : req[i].target = req[j].target => i = j
    /\ parses(req)

validate_against_schema(req) ==
    \A i \in DOMAIN req : <<req[i].target, req[i].content>> \notin SchemaRejects

\* Mutant of gate_batch_versions: only the first item is gated.
GateFirstOnly(req, reads) == schema_version_decision(req[1].ver, reads[1].ver)

gate_batch_versions(req, reads) ==
    \A i \in DOMAIN req : schema_version_decision(req[i].ver, reads[i].ver)

\* Mutant of sort_batch_items: the order of the request.
RequestOrder(req) == {req}

\* The items in (namespace, name) order: parse_batch_items left no ties, so
\* this set has one element.
sort_batch_items(req) ==
    {s \in [DOMAIN req -> Range(req)] :
        \A i, j \in DOMAIN s : i < j => s[i].target < s[j].target}

\* u32 saturating_add(1) of max(current, historical).
RevertVersion(current, historical) ==
    LET m == IF current < historical THEN historical ELSE current
    IN  IF m >= MaxU32 THEN MaxU32 ELSE m + 1

\* The last write of t up to revision r, if there was one.
InForce(t, r) ==
    {i \in 1..r : history[i].target = t /\ \A j \in (i + 1)..r : history[j].target # t}

TheElement(S) == CHOOSE i \in S : TRUE

\* What t was at revision r.
Was(t, r) ==
    IF InForce(t, r) = {} THEN Absent ELSE history[TheElement(InForce(t, r))].obj

Init ==
    /\ store = [t \in Targets |-> Absent]
    /\ history = << >>
    /\ pc = [h \in Handlers |-> "idle"]
    /\ kind = [h \in Handlers |-> "none"]
    /\ items = [h \in Handlers |-> << >>]
    /\ gateReads = [h \in Handlers |-> << >>]
    /\ goal = [h \in Handlers |-> 0]
    /\ basis = [h \in Handlers |-> 0]
    /\ attempt = [h \in Handlers |-> 0]
    /\ results = [h \in Handlers |-> << >>]
    /\ outcome = [h \in Handlers |-> "none"]
-----------------------------------------------------------------------------
(* Steps of one handler.                                                   *)

\* apply_spec returns: its locals are gone.
EndOfApplySpec(h) ==
    /\ basis' = [basis EXCEPT ![h] = 0]
    /\ attempt' = [attempt EXCEPT ![h] = 0]

\* The handler answers with status st.
Answer(h, st) ==
    /\ pc' = [pc EXCEPT ![h] = "answered"]
    /\ outcome' = [outcome EXCEPT ![h] = st]
    /\ EndOfApplySpec(h)
    /\ UNCHANGED <<kind, items, gateReads, goal, results>>

\* f with the value v at every handler of S.
Reset(f, S, v) == [h \in Handlers |-> IF h \in S THEN v ELSE f[h]]

\* The tasks of the handlers S are gone, with their locals.
Forget(S) ==
    /\ pc' = Reset(pc, S, "idle")
    /\ kind' = Reset(kind, S, "none")
    /\ items' = Reset(items, S, << >>)
    /\ gateReads' = Reset(gateReads, S, << >>)
    /\ goal' = Reset(goal, S, 0)
    /\ basis' = Reset(basis, S, 0)
    /\ attempt' = Reset(attempt, S, 0)
    /\ results' = Reset(results, S, << >>)
    /\ outcome' = Reset(outcome, S, "none")
    /\ UNCHANGED <<store, history>>

Reply(h) == pc[h] = "answered" /\ Forget({h})

\* The handler starts on the items req and continues at place next.
Proceed(h, k, req, next) ==
    /\ kind' = [kind EXCEPT ![h] = k]
    /\ items' = [items EXCEPT ![h] = req]
    /\ pc' = [pc EXCEPT ![h] = next]
    /\ UNCHANGED <<gateReads, goal, basis, attempt, results, outcome>>

Refuse(h, k, st) ==
    /\ kind' = [kind EXCEPT ![h] = k]
    /\ pc' = [pc EXCEPT ![h] = "answered"]
    /\ outcome' = [outcome EXCEPT ![h] = st]
    /\ UNCHANGED <<items, gateReads, goal, basis, attempt, results>>

\* apply_inner: parse, schema gate, then apply_spec.
Apply(h, req) ==
    /\ pc[h] = "idle"
    /\ Len(req) = 1
    /\ CASE ~parses(req) -> Refuse(h, "apply", "invalid_argument")
         [] parses(req) /\ ~validate_against_schema(req) ->
                Refuse(h, "apply", "failed_precondition")
         [] OTHER -> Proceed(h, "apply", req, "fetch")
    /\ UNCHANGED <<store, history>>

\* handle_batch_apply up to its first await: parse, dedup, schema gate.
BatchApply(h, req) ==
    /\ pc[h] = "idle"
    /\ CASE ~parse_batch_items(req) -> Refuse(h, "batch", "invalid_argument")
         [] parse_batch_items(req) /\ ~validate_against_schema(req) ->
                Refuse(h, "batch", "failed_precondition")
         [] OTHER -> Proceed(h, "batch", req, "gate")
    /\ UNCHANGED <<store, history>>

\* The batch gate reads the items' current versions, one get after another.
GateRead(h) ==
    /\ pc[h] = "gate"
    /\ Len(gateReads[h]) < Len(items[h])
    /\ LET t == items[h][Len(gateReads[h]) + 1].target
       IN  gateReads' = [gateReads EXCEPT ![h] = Append(@,
               [target |-> t, ver |-> parse_schema_version(store[t]), at |-> Len(history)])]
    /\ UNCHANGED <<store, history, pc, kind, items, goal, basis, attempt, results, outcome>>

\* gate_batch_versions, then the sort that fixes the order of the writes.
GateDecide(h) ==
    /\ pc[h] = "gate"
    /\ Len(gateReads[h]) = Len(items[h])
    /\ IF gate_batch_versions(items[h], gateReads[h])
       THEN /\ \E s \in sort_batch_items(items[h]) : items' = [items EXCEPT ![h] = s]
            /\ pc' = [pc EXCEPT ![h] = "fetch"]
            /\ UNCHANGED <<kind, gateReads, goal, basis, attempt, results, outcome>>
       ELSE Answer(h, "failed_precondition")
    /\ UNCHANGED <<store, history>>

\* Mutant of Revert: the read ignores the requested revision.
RevertToCurrent(h, t, r) ==
    LET obj == store[t] IN
    /\ pc[h] = "idle"
    /\ obj # Absent /\ VerOf(obj) <= MaxU32
    /\ kind' = [kind EXCEPT ![h] = "revert"]
    /\ items' = [items EXCEPT ![h] =
           <<[target |-> t, ver |-> obj.ver, content |-> obj.content]>>]
    /\ goal' = [goal EXCEPT ![h] = r]
    /\ pc' = [pc EXCEPT ![h] = "bump"]
    /\ UNCHANGED <<store, history, gateReads, basis, attempt, results, outcome>>

\* handle_revert: the spec of t at revision r, an exact LIST.
Revert(h, t, r) ==
    LET obj == Was(t, r) IN
    /\ pc[h] = "idle"
    /\ CASE obj = Absent -> Refuse(h, "revert", "not_found")
         [] obj # Absent /\ VerOf(obj) > MaxU32 -> Refuse(h, "revert", "data_loss")
         [] OTHER ->
              /\ kind' = [kind EXCEPT ![h] = "revert"]
              /\ items' = [items EXCEPT ![h] =
                     <<[target |-> t, ver |-> obj.ver, content |-> obj.content]>>]
              /\ goal' = [goal EXCEPT ![h] = r]
              /\ pc' = [pc EXCEPT ![h] = "bump"]
              /\ UNCHANGED <<gateReads, basis, attempt, results, outcome>>
    /\ UNCHANGED <<store, history>>

\* No revision is given, or the LIST fails: the revision was compacted (410),
\* there is no such object (404), or the API is unavailable.
RevertRefused(h) ==
    /\ pc[h] = "idle"
    /\ \E st \in {"invalid_argument", "failed_precondition", "not_found", "unavailable"} :
           Refuse(h, "revert", st)
    /\ UNCHANGED <<store, history>>

\* handle_revert: read the current version, raise the historical one above it.
RevertBump(h) ==
    /\ pc[h] = "bump"
    /\ LET it == Head(items[h])
           now == parse_schema_version(store[it.target])
       IN  items' = [items EXCEPT ![h] = <<[it EXCEPT !.ver = RevertVersion(now, it.ver)]>>]
    /\ pc' = [pc EXCEPT ![h] = "fetch"]
    /\ UNCHANGED <<store, history, kind, gateReads, goal, basis, attempt, results, outcome>>

\* apply_spec: read the current version and decide.
Fetch(h) ==
    /\ pc[h] = "fetch"
    /\ LET it == Head(items[h])
           now == parse_schema_version(store[it.target])
       IN  IF schema_version_decision(it.ver, now)
           THEN /\ basis' = [basis EXCEPT ![h] = RvOf(store[it.target])]
                /\ pc' = [pc EXCEPT ![h] = "patch"]
                /\ UNCHANGED <<kind, items, gateReads, goal, attempt, results, outcome>>
           ELSE Answer(h, "failed_precondition")
    /\ UNCHANGED <<store, history>>

\* The tree c over the tree d: a field of both has the value it has in c.
Over(c, d) ==
    [k \in DOMAIN c \cup DOMAIN d |-> IF k \in DOMAIN c THEN c[k] ELSE d[k]]

\* Server-side apply of it by konfig.v1, with force and no resourceVersion.  The
\* fields it sends are stored whatever is there, and the other managers lose the
\* ones it changes; fields it does not send stay if another manager holds them,
\* and go if only konfig.v1 did.
Applied(it, obj) ==
    LET c == it.content
        d == TheirsOf(obj)
    IN  [ver |-> it.ver, content |-> Over(c, d),
         theirs |-> Restrict(d, {k \in DOMAIN d : k \notin DOMAIN c \/ c[k] = d[k]}),
         rv |-> Len(history) + 1]

\* The API server takes the patch: it refuses a content that is no object.
Commit(h) ==
    LET it == Head(items[h])
        obj == Applied(it, store[it.target])
    IN  /\ it.content \in Trees
        /\ Len(history) < MaxRv
        /\ store' = [store EXCEPT ![it.target] = obj]
        /\ history' = Append(history, [target |-> it.target, obj |-> obj])

\* Mutant of ItemDone: the batch loop stops one item early.
ItemDoneEarly(h, rv) ==
    /\ results' = [results EXCEPT ![h] = Append(@, [target |-> Head(items[h]).target, rv |-> rv])]
    /\ items' = [items EXCEPT ![h] = Tail(@)]
    /\ pc' = [pc EXCEPT ![h] = IF Len(items[h]) <= 2 THEN "answered" ELSE "fetch"]
    /\ outcome' = [outcome EXCEPT ![h] = IF Len(items[h]) <= 2 THEN "ok" ELSE @]
    /\ EndOfApplySpec(h)
    /\ UNCHANGED <<kind, gateReads, goal>>

\* apply_spec returned Ok with resourceVersion rv: the next item, or the response.
ItemDone(h, rv) ==
    /\ results' = [results EXCEPT ![h] = Append(@, [target |-> Head(items[h]).target, rv |-> rv])]
    /\ items' = [items EXCEPT ![h] = Tail(@)]
    /\ IF Len(items[h]) = 1
       THEN pc' = [pc EXCEPT ![h] = "answered"] /\ outcome' = [outcome EXCEPT ![h] = "ok"]
       ELSE pc' = [pc EXCEPT ![h] = "fetch"] /\ UNCHANGED outcome
    /\ EndOfApplySpec(h)
    /\ UNCHANGED <<kind, gateReads, goal>>

PatchOk(h) ==
    /\ pc[h] = "patch"
    /\ Commit(h)
    /\ ItemDone(h, Len(history) + 1)

\* A patch that changes nothing writes nothing; the answer has the stored revision.
PatchNoop(h) ==
    LET it == Head(items[h])
        obj == store[it.target]
    IN  /\ pc[h] = "patch"
        /\ it.content \in Trees
        /\ obj # Absent
        /\ obj = [Applied(it, obj) EXCEPT !.rv = obj.rv]
        /\ ItemDone(h, obj.rv)
        /\ UNCHANGED <<store, history>>

\* The server applied the patch, the answer got lost.
PatchLost(h) ==
    /\ pc[h] = "patch"
    /\ Commit(h)
    /\ Answer(h, "unavailable")

\* Mutant of PatchConflict: the ladder has no end.
ConflictUncounted(h) ==
    /\ pc[h] = "patch"
    /\ attempt' = [attempt EXCEPT ![h] = 1 - @]
    /\ UNCHANGED <<store, history, pc, kind, items, gateReads, goal, basis, results, outcome>>

\* 409: the same body again, without a new read, while the ladder lasts.
PatchConflict(h) ==
    /\ pc[h] = "patch"
    /\ IF attempt[h] < RetryBudget
       THEN /\ attempt' = [attempt EXCEPT ![h] = @ + 1]
            /\ UNCHANGED <<pc, kind, items, gateReads, goal, basis, results, outcome>>
       ELSE Answer(h, "aborted")
    /\ UNCHANGED <<store, history>>

\* Any other API error, of a get or of the patch, ends the RPC; so does the 422
\* for a content that is no object.
ApiError(h) ==
    /\ pc[h] \in {"gate", "bump", "fetch", "patch"}
    /\ Answer(h, "unavailable")
    /\ UNCHANGED <<store, history>>

\* A server dies or a client hangs up: the handlers are dropped at an await,
\* what they wrote stays.
Crash == \E S \in SUBSET {h \in Handlers : pc[h] # "idle"} : S # {} /\ Forget(S)

\* An operator edits or deletes the object directly.
Kubectl(t, obj) ==
    /\ Len(history) < MaxRv
    /\ store[t] = Absent => obj # Absent
    /\ store' = [store EXCEPT ![t] = obj]
    /\ history' = Append(history, [target |-> t, obj |-> obj])
    /\ UNCHANGED <<pc, locals>>

\* The operator's field manager holds what the edit c of obj adds or changes, and
\* what other managers held before.
Edited(v, c, obj) ==
    LET old == ContentOf(obj)
        mine == {k \in DOMAIN c : \/ k \notin DOMAIN old \/ k \in DOMAIN TheirsOf(obj)
                                 \/ c[k] # old[k]}
    IN  [ver |-> v, content |-> c, theirs |-> Restrict(c, mine), rv |-> Len(history) + 1]

KubectlObjects(t) ==
    {Absent} \cup {Edited(v, c, store[t]) : v \in RawVersions, c \in Edits}
-----------------------------------------------------------------------------
Request(h) ==
    \/ \E req \in Requests : Apply(h, req) \/ BatchApply(h, req)
    \/ \E t \in Targets, r \in 1..Len(history) : Revert(h, t, r)
    \/ RevertRefused(h)

HandlerStep(h) ==
    \/ GateRead(h) \/ GateDecide(h) \/ RevertBump(h) \/ Fetch(h)
    \/ PatchOk(h) \/ PatchNoop(h) \/ PatchLost(h) \/ PatchConflict(h) \/ ApiError(h) \/ Reply(h)

Next ==
    \/ \E h \in Handlers : Request(h) \/ HandlerStep(h)
    \/ \E t \in Targets : \E obj \in KubectlObjects(t) : Kubectl(t, obj)
    \/ Crash

Spec == Init /\ [][Next]_vars

\* tokio keeps polling a handler whose call has been answered.
FairSpec == Spec /\ \A h \in Handlers : WF_vars(HandlerStep(h))
-----------------------------------------------------------------------------
(* Properties.                                                             *)

Statuses == {"none", "ok", "invalid_argument", "failed_precondition", "not_found",
             "data_loss", "aborted", "unavailable"}

\* Every variable stays in its range.
TypeOK ==
    /\ store \in [Targets -> Object \cup {Absent}]
    /\ history \in Seq([target : Targets, obj : Object \cup {Absent}])
    /\ pc \in [Handlers -> {"idle", "gate", "bump", "fetch", "patch", "answered"}]
    /\ kind \in [Handlers -> {"none", "apply", "batch", "revert"}]
    /\ items \in [Handlers -> Seq(Item)]
    /\ gateReads \in [Handlers -> Seq([target : Targets, ver : 0..MaxU32, at : Nat])]
    /\ goal \in [Handlers -> Nat]
    /\ basis \in [Handlers -> Nat]
    /\ attempt \in [Handlers -> 0..RetryBudget]
    /\ results \in [Handlers -> Seq([target : Targets, rv : Nat])]
    /\ outcome \in [Handlers -> Statuses]

\* The step is a write, and handler h makes it.
Writes(h) == history' # history /\ pc'[h] # pc[h]
TheWrite == history'[Len(history')]

\* A write that overwrites exactly the object apply_spec read (nobody wrote the
\* object between the get and the patch, retries included) stores a version above
\* the one apply_spec read there.  So it raises the stored schema_version, with one
\* exception: a stored version beyond u32::MAX is read as its low 32 bits
\* (parse_schema_version_from_object), and only over such an object can an unraced
\* write leave the version as it is or lower it, against crd.yaml:25 ("Apply rejects
\* non-increasing values").
UnracedWritesIncrease ==
    [][\A h \in Handlers : Writes(h) =>
          LET old == store[TheWrite.target]
          IN  basis[h] = RvOf(old) =>
                  /\ TheWrite.obj.ver > parse_schema_version(old)
                  /\ TheWrite.obj.ver <= VerOf(old) => VerOf(old) > MaxU32]_vars

TargetsOf(seq) == {x.target : x \in Range(seq)}

\* An "ok" answer to a batch reports every target of the request, each with the
\* resource_version of a committed write of that target.
BatchOkIsComplete ==
    \A h \in Handlers : kind[h] = "batch" /\ outcome[h] = "ok" =>
        /\ TargetsOf(results[h]) = TargetsOf(gateReads[h])
        /\ \A w \in Range(results[h]) : history[w.rv].target = w.target

\* A batch's writes land in (namespace, name) order whatever the order of its
\* items, and whatever other writers do in between: subscribers see a
\* deterministic sequence.
BatchOrdered ==
    [][\A h \in Handlers : Writes(h) =>
          \A w \in Range(results[h]) : w.target < TheWrite.target]_vars

\* A batch that is rejected for a stale version after some of its items were
\* written lost a race: the gate had accepted the item it stopped at, and
\* another writer has written that object since the gate read it.
PartialBatchWasRaced ==
    \A h \in Handlers :
        kind[h] = "batch" /\ outcome[h] = "failed_precondition" /\ results[h] # << >> =>
            \E g \in Range(gateReads[h]) :
                /\ g.target = Head(items[h]).target
                /\ \E i \in (g.at + 1)..Len(history) : history[i].target = g.target

\* A Revert stores every field the target had at the requested revision, with the
\* value it had, whatever was written between its LIST, its two reads and its
\* patch.  What the object holds beside them is what another field manager holds
\* in the object patched, which a roll back (konfig_service.proto:195) would drop:
\* nothing that konfig alone wrote since survives.
RevertRestores ==
    [][\A h \in Handlers : Writes(h) /\ kind[h] = "revert" =>
          LET new == TheWrite.obj.content
              then == Was(TheWrite.target, goal[h]).content
              theirs == TheirsOf(store[TheWrite.target])
          IN  /\ \A k \in DOMAIN then : k \in DOMAIN new /\ new[k] = then[k]
              /\ \A k \in DOMAIN new \ DOMAIN then :
                    k \in DOMAIN theirs /\ new[k] = theirs[k]]_vars

\* Every RPC is answered: the gate, the 409 ladder and the batch loop all end.
EveryRequestAnswered == \A h \in Handlers : pc[h] # "idle" ~> pc[h] = "idle"

\* apply.rs:475-478: an Apply is accepted only when it strictly increases the
\* version, so a stale write never clobbers a newer one.
NeverClobbersNewer ==
    [][\A h \in Handlers : Writes(h) =>
          TheWrite.obj.ver >= VerOf(store[TheWrite.target])]_vars

(* What makes UnracedWritesIncrease and RevertRestores inductive.          *)

\* A handler between two API calls has an item to write, a Revert exactly one;
\* only a batch is gated.
ItemAtHand ==
    \A h \in Handlers :
        /\ pc[h] \in {"gate", "bump", "fetch", "patch"} => items[h] # << >>
        /\ pc[h] = "gate" => kind[h] = "batch"
        /\ kind[h] = "revert" /\ pc[h] \in {"bump", "fetch", "patch"} => Len(items[h]) = 1

\* Revisions are handed out in order, so a write is newer than every read.
RevisionsAreOld ==
    /\ \A t \in Targets : store[t] # Absent => store[t].rv \in 1..Len(history)
    /\ \A h \in Handlers : basis[h] <= Len(history) /\ goal[h] <= Len(history)

\* The decision apply_spec took still stands while the object is the one it read.
Stands(h) ==
    pc[h] = "patch" =>
        LET it == Head(items[h])
        IN  /\ basis[h] = 0 => schema_version_decision(it.ver, 0)
            /\ basis[h] # 0 /\ RvOf(store[it.target]) = basis[h] =>
                   schema_version_decision(it.ver, parse_schema_version(store[it.target]))
DecisionStands == \A h \in Handlers : Stands(h)

\* A Revert carries the content of the revision it was asked for.
Carries(h) ==
    kind[h] = "revert" /\ pc[h] \in {"bump", "fetch", "patch"} =>
        Head(items[h]).content = Was(Head(items[h]).target, goal[h]).content
CarriesHistory == \A h \in Handlers : Carries(h)

IndInv == TypeOK /\ ItemAtHand /\ RevisionsAreOld /\ DecisionStands /\ CarriesHistory

(* What makes the properties of a batch inductive, beside IndInv.          *)

\* The gate has read the targets of the items it was given, in their order.
Gating(h) ==
    pc[h] = "gate" =>
        /\ Len(gateReads[h]) <= Len(items[h])
        /\ \A i \in DOMAIN gateReads[h] : gateReads[h][i].target = items[h][i].target

\* A batch past its gate: what is left is in order and comes after what was
\* written, together they are what the gate read, and the gate accepted them.
Writing(h) ==
    kind[h] = "batch" /\ pc[h] \in {"fetch", "patch"} =>
        /\ \A i, j \in DOMAIN items[h] : i < j => items[h][i].target < items[h][j].target
        /\ \A w \in Range(results[h]), it \in Range(items[h]) : w.target < it.target
        /\ TargetsOf(results[h]) \cup TargetsOf(items[h]) = TargetsOf(gateReads[h])
        /\ \A it \in Range(items[h]) : \E g \in Range(gateReads[h]) :
              g.target = it.target /\ schema_version_decision(it.ver, g.ver)

\* A handler's records: none before it starts, results only of a batch under way.
Tidy(h) ==
    /\ pc[h] = "idle" => gateReads[h] = << >>
    /\ pc[h] # "answered" => outcome[h] = "none"
    /\ pc[h] \in {"idle", "gate", "bump"} => results[h] = << >>
    /\ pc[h] = "bump" => kind[h] = "revert"
    /\ pc[h] \in {"fetch", "patch"} /\ kind[h] # "batch" =>
           results[h] = << >> /\ Len(items[h]) = 1
    /\ kind[h] = "batch" /\ outcome[h] = "ok" =>
           TargetsOf(results[h]) = TargetsOf(gateReads[h])

\* Somebody wrote the target of the gate read g since.
Overtaken(g) == \E i \in (g.at + 1)..Len(history) : history[i].target = g.target

\* The version a gate read saw is still the stored one, or was overtaken.
Known(g) ==
    /\ g.at <= Len(history)
    /\ g.ver = parse_schema_version(store[g.target]) \/ Overtaken(g)

\* The write a handler reports took place.
Took(w) == w.rv \in 1..Len(history) /\ history[w.rv].target = w.target

Recorded(h) ==
    /\ \A g \in Range(gateReads[h]) : Known(g)
    /\ \A w \in Range(results[h]) : Took(w)

StoreIsHistory == \A t \in Targets : store[t] # Absent => history[store[t].rv].target = t

BatchInv ==
    /\ \A h \in Handlers : Gating(h) /\ Writing(h) /\ Tidy(h) /\ Recorded(h)
    /\ StoreIsHistory /\ PartialBatchWasRaced
=============================================================================
