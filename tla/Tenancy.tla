------------------------------ MODULE Tenancy ------------------------------
(***************************************************************************)
(* Per-tenant quotas: concurrent streams (SubscriberCounts), the apply     *)
(* token bucket (ApplyLimiter), both in quota.rs, and the byte ledger of   *)
(* served entries (tenant_cache.rs), as KonfigServer's admit_subscriber,   *)
(* rate_limit_apply and cache_accountant use them.  A task is one RPC at a *)
(* time.  What a DashMap entry lock or the view mutex covers is one step;  *)
(* the Prometheus gauges are written after the lock is dropped, so they    *)
(* are steps of their own.                                                 *)
(***************************************************************************)
EXTENDS Integers, FiniteSets

CONSTANTS
    Tasks, Ids,
    Identity,      \* the tenant each task's certificate names
    Keys,          \* (kind, namespace, name) of the entries served
    Bytes,         \* per key: the sizes its payload may have
    Quotas,        \* the budgets a TenantQuota object may declare
    Flags,         \* the budget the server flags give to everybody else
    Modes,         \* the values of KONFIG_QUOTA_MODE
    Costs,         \* tokens an Apply or a BatchApply asks for
    None,
    MaxClock, MaxServes, MaxRpcs   \* bounds

Budget == [subscribers : Nat, rate : Nat, burst : Nat, budget : Nat]
Bucket == [tokens : Nat, last : Nat]

ASSUME TenancyAssumption ==
    /\ Identity \in [Tasks -> Ids]
    /\ Bytes \in [Keys -> SUBSET Nat]
    /\ Quotas \cup {Flags} \subseteq Budget
    /\ None \notin Nat /\ None \notin Budget /\ None \notin Bucket
    /\ Modes \subseteq {"disabled", "permissive", "enforce"}
    /\ Costs \subseteq Nat
    /\ MaxClock \in Nat /\ MaxServes \in Nat /\ MaxRpcs \in Nat

VARIABLES
    mode,        \* quota_mode, fixed at start-up
    quota,       \* QuotaTable: per identity its budget or None
    synced,      \* QuotaSynced
    counts,      \* SubscriberCounts: per identity a count or None (no entry)
    subGauge,    \* konfig_tenant_subscribers: a value or None (no series)
    bucket,      \* ApplyLimiter: per identity [tokens, last] or None
    view,        \* TenantCacheLedger: per identity its TenantView
    byteGauge,   \* konfig_tenant_cache_bytes
    clock,       \* what Instant::now() returns
    pc, arg,     \* per task: its place, and the value it carries to the next step
    rpcs,        \* the RPCs begun so far
    admitted,    \* per task: the limit its guard was admitted under, or None
    acct,        \* per task: the budget its CacheAccountant resolved, or None
    taken        \* history per identity: tokens taken, the bucket's first
                 \* instant, how far `last` has ever been set back, the last
                 \* serve of every key

qvars == <<mode, quota, synced>>
cvars == <<counts, subGauge, admitted>>
bvars == <<bucket, clock>>
lvars == <<view, byteGauge, acct>>
vars  == <<mode, quota, synced, counts, subGauge, bucket, view, byteGauge, clock,
           pc, arg, rpcs, admitted, acct, taken>>

-----------------------------------------------------------------------------
(* Budgets.                                                                *)

PlainMin(a, b) == IF a <= b THEN a ELSE b

\* 0 is unlimited and loses to any bound (tighter_u32, tighter_u64).
tighter(a, b) == CASE a = 0 -> b [] a # 0 /\ b = 0 -> a [] OTHER -> PlainMin(a, b)

most_restrictive(q, r) == [f \in DOMAIN q |-> tighter(q[f], r[f])]

\* The table is trusted only once the watcher has synced.
Resolved(id) == IF synced /\ quota[id] # None THEN quota[id] ELSE Flags

effective_subscriber_limit(id) == Resolved(id).subscribers
effective_cache_budget(id)     == Resolved(id).budget

\* The flags have no burst; without one the capacity is a second of tokens.
effective_apply_rate(id) ==
    LET rate  == Resolved(id).rate
        burst == IF synced /\ quota[id] # None THEN quota[id].burst ELSE 0
    IN  IF rate = 0 THEN [rate |-> 0, burst |-> 0]
        ELSE [rate |-> rate, burst |-> IF burst > 0 THEN burst ELSE rate]

NoView == [bytes |-> [k \in Keys |-> None], tick |-> [k \in Keys |-> None],
           total |-> 0, nextTick |-> 0]

Init ==
    /\ mode \in Modes
    /\ quota = [i \in Ids |-> None]
    /\ synced = FALSE
    /\ counts = [i \in Ids |-> None]
    /\ subGauge = [i \in Ids |-> None]
    /\ bucket = [i \in Ids |-> None]
    /\ view = [i \in Ids |-> NoView]
    /\ byteGauge = [i \in Ids |-> None]
    /\ clock = 0
    /\ pc = [t \in Tasks |-> "idle"]
    /\ arg = [t \in Tasks |-> None]
    /\ rpcs = 0
    /\ admitted = [t \in Tasks |-> None]
    /\ acct = [t \in Tasks |-> None]
    /\ taken = [i \in Ids |-> [tokens |-> 0, born |-> 0, setBack |-> 0,
                               serves |-> [k \in Keys |-> None]]]

Goto(t, place, a) ==
    /\ pc' = [pc EXCEPT ![t] = place]
    /\ arg' = [arg EXCEPT ![t] = a]
    /\ rpcs' = IF pc[t] = "idle" THEN rpcs + 1 ELSE rpcs
-----------------------------------------------------------------------------
(* Streams: Subscribe and SubscribeSecrets.                                *)

current(id) == IF counts[id] = None THEN 0 ELSE counts[id]

\* admit_subscriber: quotas off, no guard; otherwise the limit is resolved.
admit_subscriber(t) ==
    /\ pc[t] = "idle" /\ rpcs < MaxRpcs
    /\ IF mode = "disabled" THEN Goto(t, "open", None)
       ELSE Goto(t, "admit", effective_subscriber_limit(Identity[t]))
    /\ UNCHANGED <<qvars, cvars, bvars, lvars, taken>>

\* *e += 1 under the entry lock; the guard exists from here on.
Increment(t) ==
    LET id == Identity[t]
    IN  /\ counts' = [counts EXCEPT ![id] = current(id) + 1]
        /\ admitted' = [admitted EXCEPT ![t] = arg[t]]
        /\ Goto(t, "countGauge", current(id) + 1)

\* Mutant of try_increment: the limit is compared with the exported gauge.
IncrementByGauge(t) ==
    LET seen == subGauge[Identity[t]]
    IN  IF arg[t] # 0 /\ seen # None /\ seen >= arg[t]
        THEN Goto(t, "idle", None) /\ UNCHANGED <<counts, admitted>>
        ELSE Increment(t)

\* Check and increment under one lock; over the limit is RESOURCE_EXHAUSTED.
try_increment(t) ==
    IF arg[t] # 0 /\ current(Identity[t]) >= arg[t]
    THEN Goto(t, "idle", None) /\ UNCHANGED <<counts, admitted>>
    ELSE Increment(t)

\* SubscriberCounts::admit: permissive counts without a limit.
Admit(t) ==
    /\ pc[t] = "admit"
    /\ \/ mode = "enforce" /\ try_increment(t)
       \/ mode = "permissive" /\ Increment(t)
    /\ UNCHANGED <<subGauge, qvars, bvars, lvars, taken>>

SetCountGauge(t) ==
    /\ pc[t] = "countGauge"
    /\ subGauge' = [subGauge EXCEPT ![Identity[t]] = arg[t]]
    /\ Goto(t, "open", None)
    /\ UNCHANGED <<counts, admitted, qvars, bvars, lvars, taken>>

\* cache_accountant: the budget is resolved once, before the first entry.
cache_accountant(t) ==
    /\ pc[t] = "open"
    /\ mode # "disabled" /\ acct[t] = None
    /\ acct' = [acct EXCEPT ![t] = effective_cache_budget(Identity[t])]
    /\ UNCHANGED <<view, byteGauge, pc, arg, rpcs, qvars, cvars, bvars, taken>>

\* SubscriberGuard::drop, whatever ended the stream or its handler:
\* release, under the lock.
Drop(t) ==
    LET id == Identity[t]
        n  == IF counts[id] \in {None, 0} THEN 0 ELSE counts[id] - 1
    IN  /\ pc[t] = "open"
        /\ mode # "disabled" => acct[t] # None
        /\ acct' = [acct EXCEPT ![t] = None]
        /\ admitted' = [admitted EXCEPT ![t] = None]
        /\ IF admitted[t] = None THEN Goto(t, "idle", None) /\ UNCHANGED counts
           ELSE /\ counts' = [counts EXCEPT ![id] = IF @ = None THEN None ELSE n]
                /\ Goto(t, IF counts[id] # None /\ n = 0 THEN "reap" ELSE "readCount", None)
        /\ UNCHANGED <<subGauge, view, byteGauge, qvars, bvars, taken>>

\* Mutant of Reap: the entry is removed whatever it holds by now.
ReapAnyway(t) ==
    /\ pc[t] = "reap"
    /\ counts' = [counts EXCEPT ![Identity[t]] = None]
    /\ Goto(t, "clearGauge", None)
    /\ UNCHANGED <<subGauge, admitted, qvars, bvars, lvars, taken>>

\* remove_if(identity, v == 0)
Reap(t) ==
    /\ pc[t] = "reap"
    /\ counts' = [counts EXCEPT ![Identity[t]] = IF @ = 0 THEN None ELSE @]
    /\ Goto(t, "clearGauge", None)
    /\ UNCHANGED <<subGauge, admitted, qvars, bvars, lvars, taken>>

ClearGauge(t) ==
    /\ pc[t] = "clearGauge"
    /\ subGauge' = [subGauge EXCEPT ![Identity[t]] = None]
    /\ Goto(t, "idle", None)
    /\ UNCHANGED <<counts, admitted, qvars, bvars, lvars, taken>>

\* set_tenant_subscribers(identity, self.current(identity)): a read, then a write.
ReadCount(t) ==
    /\ pc[t] = "readCount"
    /\ Goto(t, "lowerGauge", current(Identity[t]))
    /\ UNCHANGED <<qvars, cvars, bvars, lvars, taken>>

LowerGauge(t) ==
    /\ pc[t] = "lowerGauge"
    /\ subGauge' = [subGauge EXCEPT ![Identity[t]] = arg[t]]
    /\ Goto(t, "idle", None)
    /\ UNCHANGED <<counts, admitted, qvars, bvars, lvars, taken>>
-----------------------------------------------------------------------------
(* The ledger: AccountedStream attributes every entry it delivers.         *)

Held(v) == {k \in Keys : v.bytes[k] # None}

\* Mutant of touch: a key served again is counted twice.
TouchTwice(v, k, b) ==
    [bytes |-> [v.bytes EXCEPT ![k] = b], tick |-> [v.tick EXCEPT ![k] = v.nextTick],
     total |-> v.total + b, nextTick |-> v.nextTick + 1]

\* k becomes the most recently served entry, at its new size.
touch(v, k, b) ==
    [bytes |-> [v.bytes EXCEPT ![k] = b], tick |-> [v.tick EXCEPT ![k] = v.nextTick],
     total |-> v.total - (IF v.bytes[k] = None THEN 0 ELSE v.bytes[k]) + b,
     nextTick |-> v.nextTick + 1]

\* The bytes of the entries S, one by one, and how many they are.
Cells(v, S)  == UNION {{k} \X (1..v.bytes[k]) : k \in S}
Weight(v, S) == Cardinality(Cells(v, S))

\* v without the entries E.
Evict(v, E) ==
    [bytes |-> [k \in Keys |-> IF k \in E THEN None ELSE v.bytes[k]],
     tick  |-> [k \in Keys |-> IF k \in E THEN None ELSE v.tick[k]],
     total |-> v.total - Weight(v, E),
     nextTick |-> v.nextTick]

\* Mutant of Oldest: the most recent entries go first.
Newest(v, n) == {k \in Held(v) : Cardinality({j \in Held(v) : v.tick[j] > v.tick[k]}) < n}

\* The n entries with the smallest ticks.
Oldest(v, n) == {k \in Held(v) : Cardinality({j \in Held(v) : v.tick[j] < v.tick[k]}) < n}

\* The loop stops within the budget or with one entry left.
Enough(v, budget, n) ==
    Evict(v, Oldest(v, n)).total <= budget \/ Cardinality(Held(v)) - n <= 1

\* The loop pops the oldest entry until then: it evicts the fewest that
\* suffice.  0 is unlimited.
evict_to(v, budget) ==
    LET n == CHOOSE m \in 0..Cardinality(Held(v)) :
                 Enough(v, budget, m) /\ \A i \in 0..(m - 1) : ~Enough(v, budget, i)
    IN  IF budget = 0 THEN v ELSE Evict(v, Oldest(v, n))

\* TenantCacheLedger::record under the view's mutex: enforce evicts.
record(t, k, b) ==
    LET id == Identity[t]
        v  == touch(view[id], k, b)
    IN  /\ pc[t] = "open" /\ acct[t] # None
        /\ view[id].nextTick < MaxServes
        /\ view' = [view EXCEPT ![id] = IF mode = "enforce" THEN evict_to(v, acct[t]) ELSE v]
        /\ taken' = [taken EXCEPT ![id].serves[k] = view[id].nextTick]
        /\ Goto(t, "byteGauge", view'[id].total)
        /\ UNCHANGED <<byteGauge, acct, qvars, cvars, bvars>>

SetByteGauge(t) ==
    /\ pc[t] = "byteGauge"
    /\ byteGauge' = [byteGauge EXCEPT ![Identity[t]] = arg[t]]
    /\ Goto(t, "open", None)
    /\ UNCHANGED <<view, acct, qvars, cvars, bvars, taken>>
-----------------------------------------------------------------------------
(* The apply rate: Apply, ApplySecret and BatchApply.                      *)

\* rate_limit_apply up to Instant::now(): apply_admission lets the request
\* pass when quotas are off or the tenant's rate is unlimited.
rate_limit_apply(t, cost) ==
    /\ pc[t] = "idle" /\ rpcs < MaxRpcs
    /\ IF mode = "disabled" \/ effective_apply_rate(Identity[t]).rate = 0
       THEN Goto(t, "idle", None)
       ELSE Goto(t, "take", [now |-> clock, cost |-> cost,
                             rate |-> effective_apply_rate(Identity[t]).rate,
                             burst |-> effective_apply_rate(Identity[t]).burst])
    /\ UNCHANGED <<qvars, cvars, bvars, lvars, taken>>

\* Mutant of Refilled: every call is given the time since the server started.
RefilledSinceStart(b, a) ==
    LET t == b.tokens + a.rate * a.now IN IF t <= a.burst THEN t ELSE a.burst

\* (tokens + elapsed * rate).min(cap); elapsed saturates at 0.
Refilled(b, a) ==
    LET t == b.tokens + a.rate * (IF a.now > b.last THEN a.now - b.last ELSE 0)
    IN  IF t <= a.burst THEN t ELSE a.burst

\* try_acquire_at under the entry lock.  `last` becomes this call's instant
\* even when a later one got the lock first.  Enforce answers
\* RESOURCE_EXHAUSTED when the tokens are short, permissive lets it pass.
try_acquire_at(t) ==
    LET id == Identity[t]
        a  == arg[t]
        h  == taken[id]
        b  == IF bucket[id] = None THEN [tokens |-> a.burst, last |-> a.now] ELSE bucket[id]
        full == Refilled(b, a)
        cost == IF full >= a.cost THEN a.cost ELSE 0
    IN  /\ pc[t] = "take"
        /\ bucket' = [bucket EXCEPT ![id] = [tokens |-> full - cost, last |-> a.now]]
        /\ taken' = [taken EXCEPT ![id] =
               [h EXCEPT !.tokens  = h.tokens + cost,
                         !.born    = IF bucket[id] = None THEN a.now ELSE h.born,
                         !.setBack = h.setBack + (IF a.now < b.last THEN b.last - a.now ELSE 0)]]
        /\ Goto(t, "idle", None)
        /\ UNCHANGED <<clock, qvars, cvars, lvars>>
-----------------------------------------------------------------------------
(* The environment: time passes, the quota watcher publishes.              *)

Tick ==
    /\ clock < MaxClock
    /\ clock' = clock + 1
    /\ UNCHANGED <<bucket, pc, arg, rpcs, qvars, cvars, lvars, taken>>

\* QuotaTable::store: one object of Quotas names id, or two, or none.
Publish(id) ==
    /\ \E q \in Quotas, r \in Quotas \cup {None} :
           quota' = [quota EXCEPT ![id] = IF r = None THEN None ELSE most_restrictive(q, r)]
    /\ UNCHANGED <<mode, synced, pc, arg, rpcs, cvars, bvars, lvars, taken>>

mark_synced ==
    /\ ~synced
    /\ synced' = TRUE
    /\ UNCHANGED <<mode, quota, pc, arg, rpcs, cvars, bvars, lvars, taken>>

Next ==
    \/ \E t \in Tasks :
           \/ admit_subscriber(t) \/ Admit(t) \/ SetCountGauge(t) \/ cache_accountant(t)
           \/ Drop(t) \/ Reap(t) \/ ClearGauge(t) \/ ReadCount(t) \/ LowerGauge(t)
           \/ \E k \in Keys : \E b \in Bytes[k] : record(t, k, b)
           \/ SetByteGauge(t)
           \/ \E c \in Costs : rate_limit_apply(t, c)
           \/ try_acquire_at(t)
    \/ Tick \/ mark_synced
    \/ \E id \in Ids : Publish(id)

Spec == Init /\ [][Next]_vars
-----------------------------------------------------------------------------
(* Properties.                                                             *)

\* The tasks of id that hold a SubscriberGuard.
Guards(id) == {t \in Tasks : Identity[t] = id /\ admitted[t] # None}

\* No slot leaks and none is given back twice: an identity's count is the
\* number of its live guards, and an entry outlives its last guard only while
\* a release is on its way to remove it, whatever admits and releases the
\* reaping in release() races with.
CountIsExact ==
    \A id \in Ids :
        /\ current(id) = Cardinality(Guards(id))
        /\ counts[id] = 0 => \E t \in Tasks : Identity[t] = id /\ pc[t] = "reap"

\* In enforce mode a tenant never holds more streams than the loosest limit
\* that one of its live streams was admitted under (0 is unlimited), although
\* the limit is resolved before the entry lock is taken and may have changed.
WithinLimit ==
    mode = "enforce" =>
        \A id \in Ids : Guards(id) # {} =>
            \E t \in Guards(id) : admitted[t] = 0 \/ current(id) <= admitted[t]

\* The ledger's three indexes stay in step: total is the sum of the held
\* sizes, every held key has one tick, no two the same, all below next_tick.
LedgerInStep ==
    \A id \in Ids :
        LET v == view[id]
        IN  /\ v.total = Weight(v, Held(v))
            /\ \A k \in Keys : v.tick[k] # None <=> k \in Held(v)
            /\ \A k, j \in Held(v) : v.tick[k] < v.nextTick /\ (v.tick[k] = v.tick[j] => k = j)

\* A serve in enforce mode leaves the tenant's view within the budget the
\* stream resolved or with the one entry just served, evicts no more than that
\* takes, and what it evicts was last served before everything that stays,
\* whichever streams of the tenant, under whichever budgets, served them.
EvictsOldestToBudget ==
    [][\A t \in Tasks :
          mode = "enforce" /\ pc[t] = "open" /\ pc'[t] = "byteGauge" =>
              LET id   == Identity[t]
                  v    == view'[id]
                  gone == Held(view[id]) \ Held(v)
              IN  /\ acct[t] = 0 \/ v.total <= acct[t] \/ Cardinality(Held(v)) = 1
                  /\ \A j \in gone, k \in Held(v) : taken'[id].serves[j] < taken'[id].serves[k]
                  /\ gone # {} => \E j \in gone : v.total + view[id].bytes[j] > acct[t]]_vars

\* The largest capacity and the largest rate any budget gives.
Budgets    == Quotas \cup {Flags}
Capacities == {q.burst : q \in Budgets} \cup {q.rate : q \in Budgets}
Rates      == {q.rate : q \in Budgets}
Ceiling(S) == {x \in S : \A y \in S : y <= x}

\* The tokens a tenant ever took are bounded by the capacity and the rate:
\* burst + rate * (time since its first apply + the time by which calls that
\* reached the bucket out of order have set `last` back).
RateHolds ==
    \A id \in Ids : bucket[id] # None =>
        \A cap \in Ceiling(Capacities), rate \in Ceiling(Rates) :
            taken[id].tokens <= cap + rate * (clock - taken[id].born + taken[id].setBack)

-----------------------------------------------------------------------------
(* The inductive invariants of TenancyProofs.                              *)

Places == {"idle", "admit", "countGauge", "open", "reap", "clearGauge", "readCount",
           "lowerGauge", "byteGauge", "take"}
Unguarded == Places \ {"countGauge", "open", "byteGauge"}
TakeArg == [now : Nat, cost : Nat, rate : Nat, burst : Nat]

TypeOK ==
    /\ mode \in Modes /\ clock \in Nat
    /\ quota \in [Ids -> Budget \cup {None}]
    /\ counts \in [Ids -> Nat \cup {None}]
    /\ pc \in [Tasks -> Places] /\ DOMAIN arg = Tasks
    /\ admitted \in [Tasks -> Nat \cup {None}]
    /\ acct \in [Tasks -> Nat \cup {None}]
    /\ \A t \in Tasks : /\ pc[t] = "admit" => arg[t] \in Nat
                        /\ pc[t] = "take" => arg[t] \in TakeArg
                        /\ pc[t] \in Unguarded => admitted[t] = None

\* The guards admitted under a limit of at most n, other than 0.
Limited(id, n) == {t \in Guards(id) : admitted[t] # 0 /\ admitted[t] <= n}

CountInv ==
    /\ \A id \in Ids : IsFiniteSet(Guards(id))
    /\ CountIsExact

\* In enforce mode at most n of them hold a limit of at most n.
LimitInv ==
    mode = "enforce" => \A id \in Ids : \A n \in Nat : Cardinality(Limited(id, n)) <= n

History == [tokens : Nat, born : Nat, setBack : Nat, serves : [Keys -> Nat \cup {None}]]

HistoryOK ==
    /\ bucket \in [Ids -> Bucket \cup {None}]
    /\ taken \in [Ids -> History]
    /\ DOMAIN view = Ids
    /\ \A id \in Ids : view[id].nextTick \in Nat

\* No budget in force, and no call on its way to the bucket, exceeds the ceilings.
CeilingInv ==
    \A cap \in Ceiling(Capacities), rate \in Ceiling(Rates) :
        /\ \A id \in Ids : quota[id] # None =>
              quota[id].burst <= cap /\ quota[id].rate <= cap /\ quota[id].rate <= rate
        /\ \A t \in Tasks : pc[t] = "take" =>
              arg[t].now <= clock /\ arg[t].burst <= cap /\ arg[t].rate <= rate

\* What the tenant took and may still take without waiting, against the time its
\* bucket has been refilled for.
BucketInv ==
    \A id \in Ids : \A cap \in Ceiling(Capacities), rate \in Ceiling(Rates) :
        IF bucket[id] = None THEN taken[id].tokens = 0 /\ taken[id].setBack = 0
        ELSE /\ bucket[id].last <= clock
             /\ taken[id].tokens + bucket[id].tokens
                   <= cap + rate * (bucket[id].last - taken[id].born + taken[id].setBack)

\* A view's indexes agree, and say when each entry it holds was last served.
ViewOK(v) ==
    /\ v.bytes \in [Keys -> Nat \cup {None}] /\ v.tick \in [Keys -> Nat \cup {None}]
    /\ v.nextTick \in Nat
    /\ IsFiniteSet(Held(v)) /\ IsFiniteSet(Cells(v, Held(v)))
    /\ v.total = Weight(v, Held(v))
    /\ \A k \in Keys : v.tick[k] # None <=> k \in Held(v)
    /\ \A k, j \in Held(v) : v.tick[k] < v.nextTick /\ (v.tick[k] = v.tick[j] => k = j)

LedgerInv ==
    \A id \in Ids :
        /\ ViewOK(view[id])
        /\ \A k \in Held(view[id]) : taken[id].serves[k] = view[id].tick[k]
=============================================================================
