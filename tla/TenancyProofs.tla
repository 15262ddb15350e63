--------------------------- MODULE TenancyProofs ---------------------------
(***************************************************************************)
(* For any tasks, tenants, entries, quotas and any number of RPCs, ticks   *)
(* and quota changes: the subscriber counts are exact and within the       *)
(* limits, the token bucket gives out no more than its rate, the ledger's  *)
(* indexes stay in step, and what a serve evicts is the oldest and no more *)
(* than the budget asks.  The invariants are proved in layers: types,      *)
(* counts, limits, rates, ledger.                                          *)
(***************************************************************************)
EXTENDS Tenancy, FiniteSetTheorems, WellFoundedInduction, TLAPS

\* A field of the most restrictive of two budgets is a field of one of them.
LEMMA Tighter ==
    ASSUME NEW a \in Nat, NEW b \in Nat
    PROVE  tighter(a, b) \in {a, b}
BY DEF tighter, PlainMin

\* Two quota objects for one tenant make one budget.
LEMMA MostRestrictive ==
    ASSUME NEW q \in Budget, NEW r \in Budget
    PROVE  /\ most_restrictive(q, r) \in Budget
           /\ most_restrictive(q, r).rate \in {q.rate, r.rate}
           /\ most_restrictive(q, r).burst \in {q.burst, r.burst}
<1>1. DOMAIN q = {"subscribers", "rate", "burst", "budget"}
  BY DEF Budget
<1>2. \A f \in DOMAIN q : tighter(q[f], r[f]) \in {q[f], r[f]} /\ q[f] \in Nat /\ r[f] \in Nat
  BY Tighter DEF Budget
<1>3. most_restrictive(q, r)
        = [subscribers |-> tighter(q["subscribers"], r["subscribers"]),
           rate |-> tighter(q["rate"], r["rate"]), burst |-> tighter(q["burst"], r["burst"]),
           budget |-> tighter(q["budget"], r["budget"])]
  BY <1>1 DEF most_restrictive
<1> QED
  BY <1>1, <1>2, <1>3 DEF Budget

\* The budget that applies to a tenant is a budget.
LEMMA ResolvedType ==
    ASSUME TypeOK, NEW id \in Ids
    PROVE  Resolved(id) \in Budget
BY TenancyAssumption DEF Resolved, TypeOK

\* Nothing has happened yet.
LEMMA InitType == Init => TypeOK
<1> SUFFICES ASSUME Init PROVE TypeOK
  OBVIOUS
<1>1. quota \in [Ids -> Budget \cup {None}] /\ counts \in [Ids -> Nat \cup {None}]
  BY DEF Init
<1>2. pc \in [Tasks -> Places] /\ DOMAIN arg = Tasks
  BY DEF Init, Places
<1>3. admitted \in [Tasks -> Nat \cup {None}] /\ acct \in [Tasks -> Nat \cup {None}]
  BY DEF Init
<1>4. mode \in Modes /\ clock \in Nat
  BY DEF Init
<1>5. \A t \in Tasks : pc[t] = "idle" /\ admitted[t] = None
  BY DEF Init
<1> QED
  BY <1>1, <1>2, <1>3, <1>4, <1>5 DEF TypeOK

\* One task moves on, its guard and the value it carries typed by its place.
LEMMA TaskType ==
    ASSUME TypeOK, NEW t \in Tasks, NEW p \in Places, NEW a, Goto(t, p, a),
           UNCHANGED <<mode, clock, quota>>,
           counts' \in [Ids -> Nat \cup {None}],
           acct' \in [Tasks -> Nat \cup {None}],
           NEW g \in Nat \cup {None}, admitted' = [admitted EXCEPT ![t] = g],
           p \in Unguarded => g = None,
           p = "admit" => a \in Nat, p = "take" => a \in TakeArg
    PROVE  TypeOK'
<1>1. /\ pc' = [pc EXCEPT ![t] = p] /\ arg' = [arg EXCEPT ![t] = a]
      /\ pc \in [Tasks -> Places] /\ DOMAIN arg = Tasks
      /\ admitted \in [Tasks -> Nat \cup {None}]
  BY DEF Goto, TypeOK
<1>2. pc' \in [Tasks -> Places] /\ DOMAIN arg' = Tasks /\ admitted' \in [Tasks -> Nat \cup {None}]
  BY <1>1
<1>3. \A u \in Tasks : /\ pc'[u] = IF u = t THEN p ELSE pc[u]
                       /\ arg'[u] = IF u = t THEN a ELSE arg[u]
                       /\ admitted'[u] = IF u = t THEN g ELSE admitted[u]
  BY <1>1
<1>4. \A u \in Tasks : /\ pc'[u] = "admit" => arg'[u] \in Nat
                       /\ pc'[u] = "take" => arg'[u] \in TakeArg
                       /\ pc'[u] \in Unguarded => admitted'[u] = None
  BY <1>3 DEF TypeOK
<1> QED
  BY <1>2, <1>4 DEF TypeOK

\* The same for a task that leaves the counts and the guards alone.
LEMMA QuietType ==
    ASSUME TypeOK, NEW t \in Tasks, NEW p \in Places, NEW a, Goto(t, p, a),
           UNCHANGED <<mode, clock, quota, counts, admitted, acct>>,
           p \in Unguarded => pc[t] \in Unguarded,
           p = "admit" => a \in Nat, p = "take" => a \in TakeArg
    PROVE  TypeOK'
<1>1. /\ admitted' = [admitted EXCEPT ![t] = admitted[t]] /\ admitted[t] \in Nat \cup {None}
      /\ (p \in Unguarded => admitted[t] = None)
      /\ counts' \in [Ids -> Nat \cup {None}] /\ acct' \in [Tasks -> Nat \cup {None}]
  BY DEF TypeOK
<1> QED
  BY <1>1, TaskType

\* What rate_limit_apply resolves is the argument of try_acquire_at.
LEMMA RateType ==
    ASSUME TypeOK, NEW id \in Ids
    PROVE  effective_apply_rate(id).rate \in Nat /\ effective_apply_rate(id).burst \in Nat
<1>1. Resolved(id) \in Budget /\ (quota[id] # None => quota[id] \in Budget)
  BY ResolvedType DEF TypeOK
<1>2. Resolved(id).rate \in Nat /\ (quota[id] # None => quota[id].burst \in Nat)
  BY <1>1 DEF Budget
<1> QED
  BY <1>2 DEF effective_apply_rate

\* Types are preserved: the stream's steps.
LEMMA StreamType ==
    ASSUME TypeOK, NEW t \in Tasks,
           \/ admit_subscriber(t) \/ Admit(t) \/ SetCountGauge(t) \/ cache_accountant(t)
           \/ Drop(t) \/ Reap(t) \/ ClearGauge(t) \/ ReadCount(t) \/ LowerGauge(t)
    PROVE  TypeOK'
<1> USE DEF qvars, cvars, bvars, lvars
<1> DEFINE id == Identity[t]
<1>0. id \in Ids /\ current(id) \in Nat /\ counts[id] \in Nat \cup {None}
  BY TenancyAssumption DEF current, TypeOK
<1>a. /\ "idle" \in Unguarded /\ "admit" \in Unguarded /\ "reap" \in Unguarded
      /\ "clearGauge" \in Unguarded /\ "readCount" \in Unguarded /\ "lowerGauge" \in Unguarded
      /\ "open" \in Places \ Unguarded /\ "countGauge" \in Places \ Unguarded
      /\ Unguarded \subseteq Places
  BY DEF Places, Unguarded
<1>1. CASE admit_subscriber(t)
  <2>1. pc[t] \in Unguarded
    BY <1>1, <1>a DEF admit_subscriber
  <2>2. effective_subscriber_limit(id) \in Nat
    BY <1>0, ResolvedType DEF effective_subscriber_limit, Budget
  <2>3. UNCHANGED <<mode, clock, quota, counts, admitted, acct>>
    BY <1>1 DEF admit_subscriber
  <2>4. Goto(t, "open", None) \/ Goto(t, "admit", effective_subscriber_limit(id))
    BY <1>1 DEF admit_subscriber
  <2> QED
    BY <1>a, <2>1, <2>2, <2>3, <2>4, QuietType
<1>2. CASE Admit(t)
  <2>0. UNCHANGED <<mode, clock, quota, acct>> /\ arg[t] \in Nat
    BY <1>2 DEF Admit, TypeOK
  <2>1. ASSUME Increment(t) PROVE TypeOK'
    <3>1. counts' = [counts EXCEPT ![id] = current(id) + 1]
          /\ admitted' = [admitted EXCEPT ![t] = arg[t]]
          /\ Goto(t, "countGauge", current(id) + 1)
      BY <2>1 DEF Increment
    <3>2. counts' \in [Ids -> Nat \cup {None}] /\ acct' \in [Tasks -> Nat \cup {None}]
      BY <1>0, <2>0, <3>1 DEF TypeOK
    <3> QED
      BY <1>a, <2>0, <3>1, <3>2, TaskType
  <2>2. ASSUME Goto(t, "idle", None), UNCHANGED <<counts, admitted>> PROVE TypeOK'
    <3>1. pc[t] \in Unguarded
      BY <1>2, <1>a DEF Admit
    <3> QED
      BY <1>a, <2>0, <2>2, <3>1, QuietType
  <2> QED
    BY <1>2, <2>1, <2>2 DEF Admit, try_increment
<1>3. CASE SetCountGauge(t)
  <2>1. Goto(t, "open", None) /\ UNCHANGED <<mode, clock, quota, counts, admitted, acct>>
    BY <1>3 DEF SetCountGauge
  <2> QED
    BY <1>a, <2>1, QuietType
<1>4. CASE cache_accountant(t)
  <2>1. effective_cache_budget(id) \in Nat
    BY <1>0, ResolvedType DEF effective_cache_budget, Budget
  <2>2. acct' \in [Tasks -> Nat \cup {None}]
    BY <1>4, <2>1 DEF cache_accountant, TypeOK
  <2> QED
    BY <1>4, <2>2 DEF cache_accountant, TypeOK
<1>5. CASE Drop(t)
  <2> DEFINE n == IF counts[id] \in {None, 0} THEN 0 ELSE counts[id] - 1
  <2>1. n \in Nat
    BY <1>0
  <2>2. /\ UNCHANGED <<mode, clock, quota>> /\ admitted' = [admitted EXCEPT ![t] = None]
        /\ acct' = [acct EXCEPT ![t] = None]
    BY <1>5 DEF Drop
  <2>3. \/ Goto(t, "idle", None) /\ UNCHANGED counts
        \/ /\ counts' = [counts EXCEPT ![id] = IF counts[id] = None THEN None ELSE n]
           /\ Goto(t, "reap", None) \/ Goto(t, "readCount", None)
    BY <1>5 DEF Drop
  <2> HIDE DEF n
  <2>4. counts' \in [Ids -> Nat \cup {None}] /\ acct' \in [Tasks -> Nat \cup {None}]
    BY <1>0, <2>1, <2>2, <2>3 DEF TypeOK
  <2> QED
    BY <1>a, <2>2, <2>3, <2>4, TaskType
<1>6. CASE Reap(t)
  <2>1. Goto(t, "clearGauge", None) /\ UNCHANGED <<mode, clock, quota>>
    BY <1>6 DEF Reap
  <2>2. counts' \in [Ids -> Nat \cup {None}]
    BY <1>0, <1>6 DEF TypeOK, Reap
  <2>3. admitted' = [admitted EXCEPT ![t] = None] /\ acct' \in [Tasks -> Nat \cup {None}]
    BY <1>6, <1>a DEF TypeOK, Reap
  <2> QED
    BY <1>a, <2>1, <2>2, <2>3, TaskType
<1>7. CASE ClearGauge(t) \/ LowerGauge(t)
  <2>1. Goto(t, "idle", None) /\ UNCHANGED <<mode, clock, quota, counts, admitted, acct>>
        /\ pc[t] \in Unguarded
    BY <1>7, <1>a DEF ClearGauge, LowerGauge
  <2> QED
    BY <1>a, <2>1, QuietType
<1>8. CASE ReadCount(t)
  <2>1. Goto(t, "lowerGauge", current(id)) /\ pc[t] \in Unguarded
        /\ UNCHANGED <<mode, clock, quota, counts, admitted, acct>>
    BY <1>8, <1>a DEF ReadCount
  <2> QED
    BY <1>a, <2>1, QuietType
<1> QED
  BY <1>1, <1>2, <1>3, <1>4, <1>5, <1>6, <1>7, <1>8

\* Types are preserved: the ledger's steps, the bucket's and the environment's.
LEMMA OtherType ==
    ASSUME TypeOK,
           \/ \E t \in Tasks :
                 \/ \E k \in Keys : \E b \in Bytes[k] : record(t, k, b)
                 \/ SetByteGauge(t)
                 \/ \E c \in Costs : rate_limit_apply(t, c)
                 \/ try_acquire_at(t)
           \/ Tick \/ mark_synced \/ (\E id \in Ids : Publish(id))
    PROVE  TypeOK'
<1> USE DEF qvars, cvars, bvars, lvars
<1>a. /\ "idle" \in Unguarded /\ "take" \in Unguarded /\ Unguarded \subseteq Places
      /\ "open" \in Places \ Unguarded /\ "byteGauge" \in Places \ Unguarded
  BY DEF Places, Unguarded
<1>1. ASSUME NEW t \in Tasks, NEW k \in Keys, NEW b \in Bytes[k], record(t, k, b) PROVE TypeOK'
  <2>1. UNCHANGED <<mode, clock, quota, counts, admitted, acct>>
        /\ \E a : Goto(t, "byteGauge", a)
    BY <1>1 DEF record
  <2> QED
    BY <1>a, <2>1, QuietType
<1>2. ASSUME NEW t \in Tasks, SetByteGauge(t) PROVE TypeOK'
  <2>1. UNCHANGED <<mode, clock, quota, counts, admitted, acct>> /\ Goto(t, "open", None)
    BY <1>2 DEF SetByteGauge
  <2> QED
    BY <1>a, <2>1, QuietType
<1>3. ASSUME NEW t \in Tasks, NEW c \in Costs, rate_limit_apply(t, c) PROVE TypeOK'
  <2> DEFINE e == effective_apply_rate(Identity[t])
             a == [now |-> clock, cost |-> c, rate |-> e.rate, burst |-> e.burst]
  <2>1. e.rate \in Nat /\ e.burst \in Nat
    BY RateType, TenancyAssumption
  <2> HIDE DEF e
  <2>2. a \in TakeArg
    BY <2>1, TenancyAssumption DEF TakeArg, TypeOK
  <2>3. /\ UNCHANGED <<mode, clock, quota, counts, admitted, acct>> /\ pc[t] \in Unguarded
        /\ Goto(t, "idle", None) \/ Goto(t, "take", a)
    BY <1>3, <1>a DEF rate_limit_apply, e
  <2> HIDE DEF a
  <2> QED
    BY <1>a, <2>2, <2>3, QuietType
<1>4. ASSUME NEW t \in Tasks, try_acquire_at(t) PROVE TypeOK'
  <2>1. /\ UNCHANGED <<mode, clock, quota, counts, admitted, acct>> /\ Goto(t, "idle", None)
        /\ pc[t] \in Unguarded
    BY <1>4, <1>a DEF try_acquire_at
  <2> QED
    BY <1>a, <2>1, QuietType
<1>5. CASE Tick
  BY <1>5 DEF Tick, TypeOK
<1>6. CASE mark_synced
  BY <1>6 DEF mark_synced, TypeOK
<1>7. ASSUME NEW id \in Ids, Publish(id) PROVE TypeOK'
  <2>1. PICK q \in Quotas, r \in Quotas \cup {None} :
            quota' = [quota EXCEPT ![id] = IF r = None THEN None ELSE most_restrictive(q, r)]
    BY <1>7 DEF Publish
  <2>2. r # None => most_restrictive(q, r) \in Budget
    BY TenancyAssumption, MostRestrictive
  <2>3. quota' \in [Ids -> Budget \cup {None}]
    BY <2>1, <2>2 DEF TypeOK
  <2> QED
    BY <1>7, <2>3 DEF Publish, TypeOK
<1> QED
  BY <1>1, <1>2, <1>3, <1>4, <1>5, <1>6, <1>7

\* Every step keeps the types.
LEMMA NextType == TypeOK /\ [Next]_vars => TypeOK'
<1> SUFFICES ASSUME TypeOK, [Next]_vars PROVE TypeOK'
  OBVIOUS
<1>1. CASE UNCHANGED vars
  BY <1>1 DEF TypeOK, vars
<1> QED
  BY <1>1, StreamType, OtherType, Zenon DEF Next

\* Every count, limit, budget and place a task carries is what the code's types
\* say, and a task without a place in a stream holds no guard.
THEOREM TypeCorrect == Spec => []TypeOK
BY InitType, NextType, PTL DEF Spec

-----------------------------------------------------------------------------
(* Subscriber counts and limits.                                           *)

\* No guard exists at the start.
LEMMA InitSlots == Init => CountInv /\ LimitInv
<1> SUFFICES ASSUME Init PROVE CountInv /\ LimitInv
  OBVIOUS
<1>1. \A id \in Ids : Guards(id) = {} /\ counts[id] = None
  BY DEF Init, Guards
<1>2. \A id \in Ids : \A n \in Nat : Limited(id, n) = {}
  BY <1>1 DEF Limited
<1> QED
  BY <1>1, <1>2, FS_EmptySet, TenancyAssumption DEF CountInv, CountIsExact, LimitInv, current

\* A step that leaves counts and guards alone and takes no task off the reaping.
LEMMA QuietSlots ==
    ASSUME CountInv, LimitInv, UNCHANGED <<mode, counts, admitted>>,
           \A u \in Tasks : pc[u] = "reap" => pc'[u] = "reap"
    PROVE  CountInv' /\ LimitInv'
<1>1. \A id : Guards(id)' = Guards(id)
  BY DEF Guards
<1>2. \A id : current(id)' = current(id)
  BY DEF current
<1>3. \A id, n : Limited(id, n)' = Limited(id, n)
  BY <1>1 DEF Limited
<1>4. CountIsExact'
  BY <1>1, <1>2 DEF CountInv, CountIsExact
<1>5. LimitInv'
  BY <1>3 DEF LimitInv
<1> QED
  BY <1>1, <1>4, <1>5 DEF CountInv

\* The same for a task that moves from another place than the reaping.
LEMMA QuietMove ==
    ASSUME TypeOK, CountInv, LimitInv, UNCHANGED <<mode, counts, admitted>>,
           NEW t \in Tasks, NEW p, NEW a, Goto(t, p, a), pc[t] # "reap"
    PROVE  CountInv' /\ LimitInv'
<1>1. \A u \in Tasks : pc[u] = "reap" => pc'[u] = "reap"
  BY DEF Goto, TypeOK
<1> QED
  BY <1>1, QuietSlots

\* A new guard, in enforce mode under a limit that had room for it.
LEMMA IncrementSlots ==
    ASSUME TypeOK, CountInv, LimitInv, NEW t \in Tasks, pc[t] = "admit", mode' = mode,
           Increment(t),
           mode = "enforce" => arg[t] = 0 \/ current(Identity[t]) < arg[t]
    PROVE  CountInv' /\ LimitInv'
<1> DEFINE id == Identity[t]
           c  == current(id)
<1>1. /\ id \in Ids /\ arg[t] \in Nat /\ arg[t] # None /\ c \in Nat
      /\ admitted \in [Tasks -> Nat \cup {None}] /\ counts \in [Ids -> Nat \cup {None}]
      /\ admitted[t] = None
  BY TenancyAssumption DEF TypeOK, current, Unguarded, Places
<1>2. /\ counts' = [counts EXCEPT ![id] = c + 1]
      /\ admitted' = [admitted EXCEPT ![t] = arg[t]]
      /\ \A u \in Tasks : pc[u] = "reap" => pc'[u] = "reap"
  BY DEF Increment, Goto, TypeOK
<1>3. Guards(id)' = Guards(id) \cup {t} /\ t \notin Guards(id)
  BY <1>1, <1>2 DEF Guards
<1>4. ASSUME NEW i \in Ids, i # id
      PROVE  Guards(i)' = Guards(i) /\ counts'[i] = counts[i] /\ current(i)' = current(i)
  BY <1>1, <1>2, <1>4 DEF Guards, current
<1>5. IsFiniteSet(Guards(id)) /\ c = Cardinality(Guards(id))
  BY <1>1 DEF CountInv, CountIsExact
<1>6. IsFiniteSet(Guards(id)') /\ Cardinality(Guards(id)') = c + 1
  BY <1>3, <1>5, FS_AddElement
<1>7. counts'[id] = c + 1 /\ current(id)' = c + 1 /\ c + 1 # 0
  BY <1>1, <1>2, TenancyAssumption DEF current
<1>8. CountIsExact'
  <2>1. ASSUME NEW i \in Ids
        PROVE  /\ current(i)' = Cardinality(Guards(i)')
               /\ counts'[i] = 0 => \E u \in Tasks : Identity[u] = i /\ pc'[u] = "reap"
    <3>1. CASE i = id
      BY <1>6, <1>7, <3>1
    <3>2. CASE i # id
      BY <1>2, <1>4, <3>2 DEF CountInv, CountIsExact
    <3> QED
      BY <3>1, <3>2
  <2> QED
    BY <2>1 DEF CountIsExact
<1>9. \A i \in Ids : IsFiniteSet(Guards(i)')
  BY <1>4, <1>6 DEF CountInv
<1>10. ASSUME mode = "enforce", NEW i \in Ids, NEW n \in Nat
       PROVE  Cardinality(Limited(i, n)') <= n
  <2>0. Cardinality(Limited(i, n)) <= n
    BY <1>10 DEF LimitInv
  <2>1. CASE i # id
    <3>1. Limited(i, n)' = Limited(i, n)
      BY <1>1, <1>2, <1>4, <2>1 DEF Limited, Guards
    <3> QED
      BY <2>0, <3>1
  <2>2. CASE i = id /\ (arg[t] = 0 \/ arg[t] > n)
    <3>1. Limited(i, n)' = Limited(i, n)
      BY <1>1, <1>2, <1>3, <2>2 DEF Limited, Guards
    <3> QED
      BY <2>0, <3>1
  <2>3. CASE i = id /\ arg[t] # 0 /\ arg[t] <= n
    <3>1. c + 1 <= n
      BY <1>1, <1>10, <2>3
    <3>2. Limited(i, n)' \in SUBSET Guards(id)'
      BY <2>3 DEF Limited
    <3>3. Cardinality(Limited(i, n)') <= c + 1 /\ IsFiniteSet(Limited(i, n)')
      BY <1>6, <3>2, FS_Subset
    <3>4. Cardinality(Limited(i, n)') \in Nat
      BY <3>3, FS_CardinalityType
    <3> QED
      BY <1>1, <3>1, <3>3, <3>4
  <2> QED
    BY <1>1, <2>1, <2>2, <2>3
<1>11. LimitInv'
  BY <1>10 DEF LimitInv
<1> QED
  BY <1>8, <1>9, <1>11 DEF CountInv

\* SubscriberGuard::drop gives exactly its own slot back.
LEMMA DropSlots ==
    ASSUME TypeOK, CountInv, LimitInv, NEW t \in Tasks, Drop(t)
    PROVE  CountInv' /\ LimitInv'
<1> USE DEF qvars
<1> DEFINE id == Identity[t]
           n  == IF counts[id] \in {None, 0} THEN 0 ELSE counts[id] - 1
<1>0. pc[t] = "open" /\ mode' = mode
  BY DEF Drop
<1>1. /\ id \in Ids /\ admitted \in [Tasks -> Nat \cup {None}]
      /\ counts \in [Ids -> Nat \cup {None}] /\ pc \in [Tasks -> Places]
      /\ admitted' = [admitted EXCEPT ![t] = None]
  BY TenancyAssumption DEF TypeOK, Drop
<1>2. CASE admitted[t] = None
  <2>1. admitted' = admitted
    BY <1>1, <1>2
  <2>2. Goto(t, "idle", None) /\ UNCHANGED counts
    BY <1>2 DEF Drop
  <2> QED
    BY <1>0, <2>1, <2>2, QuietMove
<1>3. CASE admitted[t] # None
  <2>1. t \in Guards(id) /\ IsFiniteSet(Guards(id)) /\ current(id) = Cardinality(Guards(id))
    BY <1>1, <1>3 DEF Guards, CountInv, CountIsExact
  <2>2. Cardinality(Guards(id)) \in Nat /\ Cardinality(Guards(id)) # 0
    BY <2>1, FS_CardinalityType, FS_EmptySet
  <2>3. counts[id] \in Nat \ {0} /\ counts[id] = Cardinality(Guards(id)) /\ counts[id] # None
    BY <1>1, <2>1, <2>2, TenancyAssumption DEF current
  <2>4. n = counts[id] - 1 /\ n \in Nat /\ n # None
    BY <2>3, TenancyAssumption
  <2>5. /\ counts' = [counts EXCEPT ![id] = n]
        /\ Goto(t, IF n = 0 THEN "reap" ELSE "readCount", None)
    BY <1>3, <2>3 DEF Drop
  <2> HIDE DEF n
  <2>6. Guards(id)' = Guards(id) \ {t}
    BY <1>1 DEF Guards
  <2>7. IsFiniteSet(Guards(id)') /\ Cardinality(Guards(id)') = n
    BY <2>1, <2>3, <2>4, <2>6, FS_RemoveElement
  <2>8. ASSUME NEW i \in Ids, i # id
        PROVE  Guards(i)' = Guards(i) /\ counts'[i] = counts[i] /\ current(i)' = current(i)
    BY <1>1, <2>5, <2>8 DEF Guards, current
  <2>9. \A u \in Tasks : (pc[u] = "reap" => pc'[u] = "reap")
    BY <1>0, <1>1, <2>5 DEF Goto
  <2>10. n = 0 => pc'[t] = "reap"
    BY <1>1, <2>5 DEF Goto
  <2>11. counts'[id] = n /\ current(id)' = n
    BY <1>1, <2>4, <2>5 DEF current
  <2>12. CountIsExact'
    <3>1. ASSUME NEW i \in Ids
          PROVE  /\ current(i)' = Cardinality(Guards(i)')
                 /\ counts'[i] = 0 => \E u \in Tasks : Identity[u] = i /\ pc'[u] = "reap"
      <4>1. CASE i = id
        BY <2>7, <2>10, <2>11, <4>1
      <4>2. CASE i # id
        BY <2>8, <2>9, <4>2 DEF CountInv, CountIsExact
      <4> QED
        BY <4>1, <4>2
    <3> QED
      BY <3>1 DEF CountIsExact
  <2>13. \A i \in Ids : IsFiniteSet(Guards(i)')
    BY <2>7, <2>8 DEF CountInv
  <2>14. ASSUME mode = "enforce", NEW i \in Ids, NEW m \in Nat
         PROVE  Cardinality(Limited(i, m)') <= m
    <3>1. Limited(i, m)' \in SUBSET Limited(i, m)
      BY <1>1 DEF Limited, Guards
    <3>2. Limited(i, m) \in SUBSET Guards(i) /\ IsFiniteSet(Guards(i))
      BY DEF Limited, CountInv
    <3>3. IsFiniteSet(Limited(i, m))
      BY <3>2, FS_Subset
    <3>4. Cardinality(Limited(i, m)') <= Cardinality(Limited(i, m)) /\ IsFiniteSet(Limited(i, m)')
      BY <3>1, <3>3, FS_Subset
    <3>5. Cardinality(Limited(i, m)') \in Nat /\ Cardinality(Limited(i, m)) \in Nat
      BY <3>3, <3>4, FS_CardinalityType
    <3>6. Cardinality(Limited(i, m)) <= m
      BY <2>14 DEF LimitInv
    <3> QED
      BY <3>4, <3>5, <3>6
  <2>15. LimitInv'
    BY <1>0, <2>14 DEF LimitInv
  <2> QED
    BY <2>12, <2>13, <2>15 DEF CountInv
<1> QED
  BY <1>2, <1>3

\* remove_if removes an entry of no guards, whoever emptied it.
LEMMA ReapSlots ==
    ASSUME TypeOK, CountInv, LimitInv, NEW t \in Tasks, Reap(t)
    PROVE  CountInv' /\ LimitInv'
<1> USE DEF qvars
<1> DEFINE id == Identity[t]
<1>1. /\ id \in Ids /\ counts \in [Ids -> Nat \cup {None}] /\ pc \in [Tasks -> Places]
      /\ UNCHANGED <<mode, admitted>> /\ pc' = [pc EXCEPT ![t] = "clearGauge"]
      /\ counts' = [counts EXCEPT ![id] = IF counts[id] = 0 THEN None ELSE counts[id]]
  BY TenancyAssumption DEF TypeOK, Reap, Goto
<1>2. \A i : Guards(i)' = Guards(i)
  BY <1>1 DEF Guards
<1>3. \A i, n : Limited(i, n)' = Limited(i, n)
  BY <1>1, <1>2 DEF Limited
<1>4. \A i \in Ids : current(i)' = current(i) /\ (i # id => counts'[i] = counts[i])
  BY <1>1, TenancyAssumption DEF current
<1>5. counts'[id] # 0
  BY <1>1, TenancyAssumption
<1>6. ASSUME NEW i \in Ids, counts'[i] = 0
      PROVE  \E u \in Tasks : Identity[u] = i /\ pc'[u] = "reap"
  <2>1. i # id /\ counts[i] = 0
    BY <1>4, <1>5, <1>6
  <2>2. PICK u \in Tasks : Identity[u] = i /\ pc[u] = "reap"
    BY <2>1 DEF CountInv, CountIsExact
  <2> QED
    BY <1>1, <2>1, <2>2
<1>7. CountIsExact'
  BY <1>2, <1>4, <1>6 DEF CountInv, CountIsExact
<1>8. LimitInv'
  BY <1>1, <1>3 DEF LimitInv
<1> QED
  BY <1>2, <1>7, <1>8 DEF CountInv

\* Every step keeps the counts exact and within the limits.
LEMMA NextSlots == TypeOK /\ CountInv /\ LimitInv /\ [Next]_vars => CountInv' /\ LimitInv'
<1> SUFFICES ASSUME TypeOK, CountInv, LimitInv, [Next]_vars PROVE CountInv' /\ LimitInv'
  OBVIOUS
<1> USE DEF qvars, cvars, bvars, lvars
<1>1. ASSUME NEW t \in Tasks, Admit(t) PROVE CountInv' /\ LimitInv'
  <2>1. pc[t] = "admit" /\ mode' = mode
    BY <1>1 DEF Admit
  <2>2. \/ Goto(t, "idle", None) /\ UNCHANGED <<counts, admitted>>
        \/ /\ Increment(t)
           /\ mode = "enforce" => arg[t] = 0 \/ ~(current(Identity[t]) >= arg[t])
    BY <1>1 DEF Admit, try_increment
  <2>3. arg[t] \in Nat /\ current(Identity[t]) \in Nat
    BY <2>1, TenancyAssumption DEF TypeOK, current
  <2> QED
    BY <2>1, <2>2, <2>3, IncrementSlots, QuietMove
<1>2. ASSUME NEW t \in Tasks,
             \/ admit_subscriber(t) \/ SetCountGauge(t) \/ ClearGauge(t) \/ ReadCount(t)
             \/ LowerGauge(t) \/ SetByteGauge(t) \/ try_acquire_at(t)
             \/ (\E k \in Keys : \E b \in Bytes[k] : record(t, k, b))
             \/ (\E c \in Costs : rate_limit_apply(t, c))
      PROVE  CountInv' /\ LimitInv'
  <2>1. UNCHANGED <<mode, counts, admitted>> /\ pc[t] # "reap"
    BY <1>2 DEF admit_subscriber, SetCountGauge, ClearGauge, ReadCount, LowerGauge,
                SetByteGauge, try_acquire_at, record, rate_limit_apply
  <2>2. \E p, a : Goto(t, p, a)
    BY <1>2 DEF admit_subscriber, SetCountGauge, ClearGauge, ReadCount, LowerGauge,
                SetByteGauge, try_acquire_at, record, rate_limit_apply
  <2> QED
    BY <2>1, <2>2, QuietMove
<1>3. ASSUME UNCHANGED <<mode, counts, admitted, pc>> PROVE CountInv' /\ LimitInv'
  BY <1>3, QuietSlots
<1>4. ASSUME NEW t \in Tasks, cache_accountant(t) PROVE CountInv' /\ LimitInv'
  BY <1>3, <1>4 DEF cache_accountant
<1>5. CASE Tick \/ mark_synced \/ (\E id \in Ids : Publish(id)) \/ UNCHANGED vars
  BY <1>3, <1>5 DEF Tick, mark_synced, Publish, vars
<1> QED
  BY <1>1, <1>2, <1>4, <1>5, DropSlots, ReapSlots, Zenon DEF Next

\* Counts and limits hold in every reachable state.
LEMMA SlotsInductive == Spec => [](TypeOK /\ CountInv /\ LimitInv)
BY InitType, NextType, InitSlots, NextSlots, PTL DEF Spec

\* An identity's count is the number of its live guards, and an empty entry is
\* about to be removed, whatever admits and releases the reaping in
\* SubscriberCounts::release races with (quota.rs).
THEOREM NoSlotLeaks == Spec => []CountIsExact
<1>1. CountInv => CountIsExact
  BY DEF CountInv
<1> QED
  BY <1>1, SlotsInductive, PTL

\* In enforce mode a tenant never holds more streams than the loosest limit one
\* of its live streams was admitted under (quota.rs try_increment).
THEOREM LimitsHold == Spec => []WithinLimit
<1>1. ASSUME TypeOK, CountInv, LimitInv, mode = "enforce", NEW id \in Ids, Guards(id) # {}
      PROVE  \E t \in Guards(id) : admitted[t] = 0 \/ current(id) <= admitted[t]
  <2>1. SUFFICES ASSUME \A t \in Guards(id) : admitted[t] # 0 /\ ~(current(id) <= admitted[t])
                 PROVE  FALSE
    OBVIOUS
  <2>2. IsFiniteSet(Guards(id)) /\ current(id) = Cardinality(Guards(id))
    BY <1>1 DEF CountInv, CountIsExact
  <2>3. Cardinality(Guards(id)) \in Nat /\ Cardinality(Guards(id)) # 0
    BY <1>1, <2>2, FS_CardinalityType, FS_EmptySet
  <2>4. PICK n \in Nat : Cardinality(Guards(id)) = n + 1
    <3>1. Cardinality(Guards(id)) - 1 \in Nat
      BY <2>3
    <3> QED
      BY <2>3, <3>1
  <2>5. \A t \in Guards(id) : admitted[t] \in Nat
    BY <1>1 DEF TypeOK, Guards
  <2>6. Limited(id, n) = Guards(id)
    BY <2>1, <2>2, <2>4, <2>5 DEF Limited
  <2>7. Cardinality(Guards(id)) <= n
    BY <1>1, <2>6 DEF LimitInv
  <2> QED
    BY <2>4, <2>7
<1>2. TypeOK /\ CountInv /\ LimitInv => WithinLimit
  BY <1>1 DEF WithinLimit
<1> QED
  BY <1>2, SlotsInductive, PTL

-----------------------------------------------------------------------------
(* The apply rate.                                                         *)

\* A refill takes the bucket neither over its capacity nor over what the time
\* since the last call gives.
LEMMA RefilledFacts ==
    ASSUME NEW b \in Bucket, NEW a \in TakeArg
    PROVE  LET el == IF a.now > b.last THEN a.now - b.last ELSE 0
           IN  /\ el \in Nat /\ Refilled(b, a) \in Nat /\ Refilled(b, a) <= a.burst
               /\ Refilled(b, a) <= b.tokens + a.rate * el
<1> DEFINE el == IF a.now > b.last THEN a.now - b.last ELSE 0
           x  == b.tokens + a.rate * el
<1>1. /\ b.tokens \in Nat /\ b.last \in Nat /\ a.now \in Nat /\ a.rate \in Nat /\ a.burst \in Nat
  BY DEF Bucket, TakeArg
<1>2. el \in Nat
  BY <1>1
<1>3. Refilled(b, a) = IF x <= a.burst THEN x ELSE a.burst
  BY DEF Refilled
<1> HIDE DEF el
<1>4. a.rate * el \in Nat
  BY <1>1, <1>2
<1>5. x \in Nat
  BY <1>1, <1>4
<1> HIDE DEF x
<1>6. Refilled(b, a) \in Nat /\ Refilled(b, a) <= a.burst /\ Refilled(b, a) <= x
  BY <1>1, <1>3, <1>5
<1> QED
  BY <1>2, <1>6 DEF x, el

\* The bucket a call of try_acquire_at finds or makes.
Found(t) ==
    IF bucket[Identity[t]] = None THEN [tokens |-> arg[t].burst, last |-> arg[t].now]
    ELSE bucket[Identity[t]]

\* What it takes: all it asked for, or nothing.
Took(t) == IF Refilled(Found(t), arg[t]) >= arg[t].cost THEN arg[t].cost ELSE 0

\* A tenant's history with other tokens, another first instant of its bucket and
\* another time by which `last' was set back.
Charged(h, w, n, y) == [h EXCEPT !.tokens = w, !.born = n, !.setBack = y]

\* Nothing but the three changes.
LEMMA ChargedFacts ==
    ASSUME NEW h \in History, NEW w \in Nat, NEW n \in Nat, NEW y \in Nat
    PROVE  /\ Charged(h, w, n, y) \in History
           /\ Charged(h, w, n, y).tokens = w
           /\ Charged(h, w, n, y).born = n
           /\ Charged(h, w, n, y).setBack = y
           /\ Charged(h, w, n, y).serves = h.serves
BY DEF History, Charged

\* The instant the tenant's bucket was made, and by how much a call that was
\* overtaken sets `last' back.
Born(t)    == IF bucket[Identity[t]] = None THEN arg[t].now ELSE taken[Identity[t]].born
SetBack(t) == IF arg[t].now < Found(t).last THEN Found(t).last - arg[t].now ELSE 0

\* What a call of try_acquire_at does to its tenant.
LEMMA AcquireFacts ==
    ASSUME TypeOK, HistoryOK, NEW t \in Tasks, try_acquire_at(t)
    PROVE  /\ Identity[t] \in Ids /\ arg[t] \in TakeArg /\ Found(t) \in Bucket
           /\ Took(t) \in Nat /\ Born(t) \in Nat /\ SetBack(t) \in Nat
           /\ Refilled(Found(t), arg[t]) \in Nat /\ Took(t) <= Refilled(Found(t), arg[t])
           /\ taken[Identity[t]] \in History
           /\ bucket' = [bucket EXCEPT ![Identity[t]] =
                 [tokens |-> Refilled(Found(t), arg[t]) - Took(t), last |-> arg[t].now]]
           /\ taken' = [taken EXCEPT ![Identity[t]] =
                 Charged(taken[Identity[t]], taken[Identity[t]].tokens + Took(t), Born(t),
                         taken[Identity[t]].setBack + SetBack(t))]
<1> DEFINE id == Identity[t]
           a  == arg[t]
           b  == Found(t)
<1>1. id \in Ids /\ a \in TakeArg /\ taken[id] \in History
  BY TenancyAssumption DEF TypeOK, HistoryOK, try_acquire_at
<1>2. b \in Bucket
  BY <1>1 DEF Found, HistoryOK, TakeArg, Bucket
<1>3. Refilled(b, a) \in Nat /\ a.cost \in Nat
  BY <1>1, <1>2, RefilledFacts DEF TakeArg
<1>4. Took(t) \in Nat /\ Took(t) <= Refilled(b, a)
  BY <1>3 DEF Took
<1>5. Born(t) \in Nat /\ SetBack(t) \in Nat
  BY <1>1, <1>2 DEF Born, SetBack, TakeArg, Bucket, History
<1>6. bucket' = [bucket EXCEPT ![id] = [tokens |-> Refilled(b, a) - Took(t), last |-> a.now]]
  BY DEF try_acquire_at, Took, Found
<1>7. taken' = [taken EXCEPT ![id] = Charged(taken[id], taken[id].tokens + Took(t), Born(t),
                                             taken[id].setBack + SetBack(t))]
  BY DEF try_acquire_at, Took, Found, Born, SetBack, Charged
<1> QED
  BY <1>1, <1>2, <1>3, <1>4, <1>5, <1>6, <1>7

\* A serve leaves the bucket, and of the tenant's history only its own key moves.
LEMMA RecordFacts ==
    ASSUME TypeOK, HistoryOK, NEW t \in Tasks, NEW k \in Keys, NEW b \in Bytes[k], record(t, k, b)
    PROVE  /\ taken' \in [Ids -> History] /\ bucket' = bucket
           /\ \A id \in Ids : /\ taken'[id].tokens = taken[id].tokens
                              /\ taken'[id].born = taken[id].born
                              /\ taken'[id].setBack = taken[id].setBack
                              /\ \A j \in Keys : taken'[id].serves[j] =
                                   IF id = Identity[t] /\ j = k THEN view[id].nextTick
                                   ELSE taken[id].serves[j]
<1> USE DEF bvars
<1> DEFINE n == view[Identity[t]].nextTick
<1>1. /\ Identity[t] \in Ids /\ n \in Nat /\ taken \in [Ids -> History] /\ bucket' = bucket
      /\ taken' = [taken EXCEPT ![Identity[t]].serves[k] = n]
  BY TenancyAssumption DEF HistoryOK, record
<1> HIDE DEF n
<1> QED
  BY <1>1 DEF n, History

\* No bucket and no view yet.
LEMMA InitHistory == Init => HistoryOK
<1> SUFFICES ASSUME Init PROVE HistoryOK
  OBVIOUS
<1>1. bucket \in [Ids -> Bucket \cup {None}]
  BY DEF Init
<1>2. taken \in [Ids -> History]
  <2>1. [k \in Keys |-> None] \in [Keys -> Nat \cup {None}]
    OBVIOUS
  <2>2. [tokens |-> 0, born |-> 0, setBack |-> 0, serves |-> [k \in Keys |-> None]] \in History
    BY <2>1 DEF History
  <2> QED
    BY <2>2 DEF Init
<1>3. DOMAIN view = Ids /\ \A id \in Ids : view[id].nextTick \in Nat
  BY DEF Init, NoView
<1> QED
  BY <1>1, <1>2, <1>3 DEF HistoryOK

\* The other steps leave bucket, history and views alone.
LEMMA HistoryFrame ==
    ASSUME NEW t \in Tasks,
           \/ admit_subscriber(t) \/ Admit(t) \/ SetCountGauge(t) \/ cache_accountant(t)
           \/ Drop(t) \/ Reap(t) \/ ClearGauge(t) \/ ReadCount(t) \/ LowerGauge(t)
           \/ SetByteGauge(t) \/ \E c \in Costs : rate_limit_apply(t, c)
    PROVE  UNCHANGED <<bucket, taken, view, clock, quota, synced>>
BY DEF admit_subscriber, Admit, SetCountGauge, cache_accountant, Drop, Reap, ClearGauge,
       ReadCount, LowerGauge, SetByteGauge, rate_limit_apply, qvars, bvars, lvars

\* Every step keeps the history well-formed.
LEMMA NextHistory == TypeOK /\ HistoryOK /\ [Next]_vars => HistoryOK'
<1> SUFFICES ASSUME TypeOK, HistoryOK, [Next]_vars PROVE HistoryOK'
  OBVIOUS
<1>1. ASSUME UNCHANGED <<bucket, taken, view>> PROVE HistoryOK'
  BY <1>1 DEF HistoryOK
<1>2. ASSUME NEW t \in Tasks, try_acquire_at(t) PROVE HistoryOK'
  <2> DEFINE id == Identity[t]
             b == [tokens |-> Refilled(Found(t), arg[t]) - Took(t), last |-> arg[t].now]
             h == taken[id]
             z == Charged(h, h.tokens + Took(t), Born(t), h.setBack + SetBack(t))
  <2>1. /\ id \in Ids /\ bucket' = [bucket EXCEPT ![id] = b] /\ taken' = [taken EXCEPT ![id] = z]
        /\ h \in History /\ Took(t) \in Nat /\ Born(t) \in Nat /\ SetBack(t) \in Nat
        /\ Refilled(Found(t), arg[t]) \in Nat /\ Took(t) <= Refilled(Found(t), arg[t])
        /\ arg[t].now \in Nat
    BY <1>2, AcquireFacts DEF TakeArg
  <2>2. b \in Bucket
    BY <2>1 DEF Bucket
  <2>3. h.tokens + Took(t) \in Nat /\ h.setBack + SetBack(t) \in Nat
    BY <2>1 DEF History
  <2>4. z \in History
    BY <2>1, <2>3, ChargedFacts
  <2> HIDE DEF b, z
  <2>5. bucket' \in [Ids -> Bucket \cup {None}] /\ taken' \in [Ids -> History]
    BY <2>1, <2>2, <2>4 DEF HistoryOK
  <2>6. view' = view
    BY <1>2 DEF try_acquire_at, lvars
  <2> QED
    BY <2>5, <2>6 DEF HistoryOK
<1>3. ASSUME NEW t \in Tasks, NEW k \in Keys, NEW b \in Bytes[k], record(t, k, b) PROVE HistoryOK'
  <2> DEFINE id == Identity[t]
             v  == touch(view[id], k, b)
             w  == IF mode = "enforce" THEN evict_to(v, acct[t]) ELSE v
  <2>1. id \in Ids /\ view' = [view EXCEPT ![id] = w]
    BY <1>3, TenancyAssumption DEF record
  <2>2. v.nextTick \in Nat
    BY <2>1 DEF touch, HistoryOK
  <2> HIDE DEF v
  <2>3. w.nextTick \in Nat
    BY <2>2 DEF evict_to, Evict
  <2> HIDE DEF w
  <2>4. DOMAIN view' = Ids /\ \A i \in Ids : view'[i].nextTick \in Nat
    BY <2>1, <2>3 DEF HistoryOK
  <2> QED
    BY <1>3, <2>4, RecordFacts DEF HistoryOK
<1>4. CASE Tick \/ mark_synced \/ (\E id \in Ids : Publish(id)) \/ UNCHANGED vars
  BY <1>1, <1>4 DEF Tick, mark_synced, Publish, vars, bvars, lvars
<1> QED
  BY <1>1, <1>2, <1>3, <1>4, HistoryFrame, Zenon DEF Next

\* A larger time allows no fewer tokens.
LEMMA MoreTime ==
    ASSUME NEW r \in Nat, NEW x \in Int, NEW y \in Int, x <= y
    PROVE  r * x <= r * y
<1>1. PICK d \in Nat : y = x + d
  <2>1. y - x \in Nat /\ y = x + (y - x)
    OBVIOUS
  <2> QED
    BY <2>1
<1>2. r * y = r * x + r * d /\ r * d \in Nat /\ r * x \in Int
  BY <1>1
<1> QED
  BY <1>2

\* Ceilings are numbers, and above every budget.
LEMMA Ceilings ==
    ASSUME NEW cap \in Ceiling(Capacities), NEW rate \in Ceiling(Rates)
    PROVE  /\ cap \in Nat /\ rate \in Nat
           /\ \A q \in Budgets : q.burst <= cap /\ q.rate <= cap /\ q.rate <= rate
BY TenancyAssumption DEF Ceiling, Capacities, Rates, Budgets, Budget

\* What rate_limit_apply resolves is below the ceilings.
LEMMA RateBelow ==
    ASSUME TypeOK, CeilingInv, NEW id \in Ids,
           NEW cap \in Ceiling(Capacities), NEW rate \in Ceiling(Rates)
    PROVE  effective_apply_rate(id).rate <= rate /\ effective_apply_rate(id).burst <= cap
<1>0. cap \in Nat /\ rate \in Nat
  BY Ceilings
<1>1. Resolved(id).rate <= rate /\ Resolved(id).rate <= cap
  BY Ceilings DEF Resolved, CeilingInv, Budgets
<1>2. quota[id] # None => quota[id].burst <= cap
  BY DEF CeilingInv
<1> QED
  BY <1>0, <1>1, <1>2 DEF effective_apply_rate

\* No quota object, no call and no bucket yet.
LEMMA InitRate == Init => CeilingInv /\ BucketInv
BY DEF Init, CeilingInv, BucketInv

\* The ceilings are kept: most_restrictive never loosens, and a call carries what
\* was resolved for it.
LEMMA NextCeiling == TypeOK /\ CeilingInv /\ [Next]_vars => CeilingInv'
<1> SUFFICES ASSUME TypeOK, CeilingInv, [Next]_vars,
                    NEW cap \in Ceiling(Capacities), NEW rate \in Ceiling(Rates)
             PROVE  /\ \A id \in Ids : quota'[id] # None =>
                          quota'[id].burst <= cap /\ quota'[id].rate <= cap
                            /\ quota'[id].rate <= rate
                    /\ \A t \in Tasks : pc'[t] = "take" =>
                          arg'[t].now <= clock' /\ arg'[t].burst <= cap /\ arg'[t].rate <= rate
  BY DEF CeilingInv
<1> USE DEF qvars, cvars, bvars, lvars
<1> DEFINE Q == \A id \in Ids : quota'[id] # None =>
                          quota'[id].burst <= cap /\ quota'[id].rate <= cap
                            /\ quota'[id].rate <= rate
           A == \A t \in Tasks : pc'[t] = "take" =>
                          arg'[t].now <= clock' /\ arg'[t].burst <= cap /\ arg'[t].rate <= rate
<1>1. quota' = quota => Q
  BY DEF CeilingInv
<1>2. UNCHANGED <<pc, arg, clock>> => A
  BY DEF CeilingInv
<1>3. ASSUME NEW t \in Tasks, NEW p, NEW a, Goto(t, p, a), clock' = clock, p # "take" PROVE A
  <2>1. \A u \in Tasks : /\ pc'[u] = IF u = t THEN p ELSE pc[u]
                         /\ u # t => arg'[u] = arg[u]
    BY <1>3 DEF Goto, TypeOK
  <2> QED
    BY <1>3, <2>1 DEF CeilingInv
<1> HIDE DEF Q, A
<1>4. ASSUME NEW t \in Tasks, NEW c \in Costs, rate_limit_apply(t, c) PROVE Q /\ A
  <2> DEFINE e == effective_apply_rate(Identity[t])
             a == [now |-> clock, cost |-> c, rate |-> e.rate, burst |-> e.burst]
  <2>1. e.rate <= rate /\ e.burst <= cap /\ clock <= clock
    BY RateBelow, TenancyAssumption DEF TypeOK
  <2>2. quota' = quota /\ clock' = clock /\ (Goto(t, "idle", None) \/ Goto(t, "take", a))
    BY <1>4 DEF rate_limit_apply
  <2> HIDE DEF e
  <2>3. a.now = clock /\ a.rate = e.rate /\ a.burst = e.burst
    OBVIOUS
  <2> HIDE DEF a
  <2>4. ASSUME Goto(t, "take", a) PROVE A
    <3>1. \A u \in Tasks : /\ u # t => pc'[u] = pc[u] /\ arg'[u] = arg[u]
                           /\ arg'[t] = a
      BY <2>4 DEF Goto, TypeOK
    <3> QED
      BY <2>1, <2>2, <2>3, <3>1 DEF CeilingInv, A
  <2> QED
    BY <1>1, <1>3, <2>2, <2>4
<1>5. ASSUME NEW id \in Ids, Publish(id) PROVE Q /\ A
  <2>1. PICK q \in Quotas, r \in Quotas \cup {None} :
            quota' = [quota EXCEPT ![id] = IF r = None THEN None ELSE most_restrictive(q, r)]
    BY <1>5 DEF Publish
  <2>2. r # None => /\ most_restrictive(q, r).rate \in {q.rate, r.rate}
                    /\ most_restrictive(q, r).burst \in {q.burst, r.burst}
    BY TenancyAssumption, MostRestrictive
  <2>3. /\ q.burst <= cap /\ q.rate <= cap /\ q.rate <= rate
        /\ r # None => r.burst <= cap /\ r.rate <= cap /\ r.rate <= rate
    BY Ceilings DEF Budgets
  <2>4. Q
    BY <2>1, <2>2, <2>3 DEF CeilingInv, Q, TypeOK
  <2>5. UNCHANGED <<pc, arg, clock>>
    BY <1>5 DEF Publish
  <2> QED
    BY <1>2, <2>4, <2>5
<1>6. ASSUME Tick PROVE Q /\ A
  <2>1. UNCHANGED <<pc, arg, quota>> /\ clock' = clock + 1 /\ clock \in Nat
    BY <1>6 DEF Tick, TypeOK
  <2>2. ASSUME NEW t \in Tasks, pc[t] = "take" PROVE arg[t].now \in Nat
    BY <2>2 DEF TypeOK, TakeArg
  <2> QED
    BY <1>1, <2>1, <2>2 DEF CeilingInv, A
<1>7. ASSUME mark_synced \/ UNCHANGED vars PROVE Q /\ A
  BY <1>1, <1>2, <1>7 DEF mark_synced, vars
<1>8. ASSUME NEW t \in Tasks,
             \/ admit_subscriber(t) \/ Admit(t) \/ SetCountGauge(t)
             \/ Drop(t) \/ Reap(t) \/ ClearGauge(t) \/ ReadCount(t) \/ LowerGauge(t)
             \/ SetByteGauge(t) \/ try_acquire_at(t)
             \/ (\E k \in Keys : \E b \in Bytes[k] : record(t, k, b))
      PROVE  Q /\ A
  <2>1. quota' = quota /\ clock' = clock
    BY <1>8 DEF admit_subscriber, Admit, SetCountGauge, Drop, Reap, ClearGauge, ReadCount,
                LowerGauge, SetByteGauge, try_acquire_at, record
  <2>2. \E p, a : Goto(t, p, a) /\ p # "take"
    <3>1. CASE admit_subscriber(t) \/ SetCountGauge(t) \/ Reap(t) \/ ClearGauge(t) \/ ReadCount(t)
                 \/ LowerGauge(t) \/ SetByteGauge(t) \/ try_acquire_at(t)
      BY <3>1 DEF admit_subscriber, SetCountGauge, Reap, ClearGauge, ReadCount, LowerGauge,
                  SetByteGauge, try_acquire_at
    <3>2. CASE Admit(t)
      BY <3>2 DEF Admit, try_increment, Increment
    <3>3. CASE Drop(t)
      <4>1. Goto(t, "idle", None) \/ Goto(t, "reap", None) \/ Goto(t, "readCount", None)
        BY <3>3 DEF Drop
      <4> QED
        BY <4>1
    <3>4. CASE \E k \in Keys : \E b \in Bytes[k] : record(t, k, b)
      <4>1. \E a : Goto(t, "byteGauge", a)
        BY <3>4 DEF record
      <4> QED
        BY <4>1
    <3> QED
      BY <1>8, <3>1, <3>2, <3>3, <3>4
  <2> QED
    BY <1>1, <1>3, <2>1, <2>2
<1>9. ASSUME NEW t \in Tasks, cache_accountant(t) PROVE Q /\ A
  BY <1>1, <1>2, <1>9 DEF cache_accountant
<1>10. Q /\ A
  BY <1>4, <1>5, <1>6, <1>7, <1>8, <1>9 DEF Next
<1> QED
  BY <1>10 DEF Q, A

\* One call of try_acquire_at: what was taken and what is left grow by no more
\* than the refill, and a call that was overtaken pays for the time it gives back.
LEMMA AcquireRate ==
    ASSUME TypeOK, HistoryOK, CeilingInv, BucketInv, NEW t \in Tasks, try_acquire_at(t)
    PROVE  BucketInv'
<1> DEFINE id == Identity[t]
           a == arg[t]
           f == Found(t)
           F == Refilled(f, a)
           b == [tokens |-> F - Took(t), last |-> a.now]
           h == taken[id]
           z == Charged(h, h.tokens + Took(t), Born(t), h.setBack + SetBack(t))
           el == IF a.now > f.last THEN a.now - f.last ELSE 0
<1>1. /\ id \in Ids /\ a \in TakeArg /\ f \in Bucket /\ F \in Nat
      /\ Took(t) \in Nat /\ Took(t) <= F /\ Born(t) \in Nat /\ SetBack(t) \in Nat
      /\ h \in History /\ bucket' = [bucket EXCEPT ![id] = b] /\ taken' = [taken EXCEPT ![id] = z]
  BY AcquireFacts
<1>2. el \in Nat /\ F <= a.burst /\ F <= f.tokens + a.rate * el
  BY <1>1, RefilledFacts
<1>3. /\ a.now \in Nat /\ a.rate \in Nat /\ a.burst \in Nat /\ f.tokens \in Nat /\ f.last \in Nat
      /\ h.tokens \in Nat /\ h.born \in Nat /\ h.setBack \in Nat
  BY <1>1 DEF TakeArg, Bucket, History
<1>4. /\ z.tokens = h.tokens + Took(t) /\ z.born = Born(t) /\ z.setBack = h.setBack + SetBack(t)
  <2>1. h.tokens + Took(t) \in Nat /\ h.setBack + SetBack(t) \in Nat
    BY <1>1, <1>3
  <2>2. PICK u \in Nat, w \in Nat, n \in Nat, g \in History :
           u = h.tokens + Took(t) /\ w = h.setBack + SetBack(t) /\ n = Born(t) /\ g = h
    BY <1>1, <2>1
  <2>3. Charged(g, u, n, w).tokens = u /\ Charged(g, u, n, w).born = n
        /\ Charged(g, u, n, w).setBack = w
    BY ChargedFacts
  <2> QED
    BY <2>2, <2>3
<1>5. b.tokens = F - Took(t) /\ b.last = a.now /\ b # None
  BY <1>1, <1>3, TenancyAssumption DEF Bucket
<1> HIDE DEF b, z
<1>6. clock' = clock /\ pc[t] = "take"
  BY DEF try_acquire_at
<1>7. bucket \in [Ids -> Bucket \cup {None}] /\ taken \in [Ids -> History]
  BY DEF HistoryOK
<1>8. a.now + SetBack(t) = f.last + el
  BY <1>3 DEF SetBack
<1>9. ASSUME NEW cap \in Ceiling(Capacities), NEW rate \in Ceiling(Rates)
      PROVE  /\ b.last <= clock
             /\ z.tokens + b.tokens <= cap + rate * (b.last - z.born + z.setBack)
  <2>1. cap \in Nat /\ rate \in Nat /\ a.now <= clock /\ a.burst <= cap /\ a.rate <= rate
    BY <1>6, Ceilings DEF CeilingInv
  <2>2. z.tokens + b.tokens = h.tokens + F
    BY <1>1, <1>3, <1>4, <1>5
  <2>3. CASE bucket[id] = None
    <3>1. h.tokens = 0 /\ h.setBack = 0 /\ Born(t) = a.now /\ f.last = a.now
      BY <1>1, <2>3 DEF BucketInv, Born, Found
    <3>2. SetBack(t) = 0
      BY <1>3, <3>1 DEF SetBack
    <3>3. b.last - z.born + z.setBack = 0
      BY <1>3, <1>4, <1>5, <3>1, <3>2
    <3>4. rate * 0 = 0
      BY <2>1
    <3> QED
      BY <1>1, <1>2, <1>3, <1>5, <2>1, <2>2, <3>1, <3>3, <3>4
  <2>4. CASE bucket[id] # None
    <3>1. f = bucket[id] /\ Born(t) = h.born
      BY <2>4 DEF Found, Born
    <3> DEFINE x == f.last - h.born + h.setBack
    <3>2. h.tokens + f.tokens <= cap + rate * x /\ x \in Int
      BY <1>1, <1>3, <2>4, <3>1 DEF BucketInv
    <3>3. b.last - z.born + z.setBack = x + el
      <4>1. b.last = a.now /\ z.born = h.born /\ z.setBack = h.setBack + SetBack(t)
        BY <1>4, <1>5, <3>1
      <4>2. /\ SetBack(t) \in Nat /\ el \in Nat /\ f.last \in Nat /\ a.now \in Nat
            /\ h.born \in Nat /\ h.setBack \in Nat
        BY <1>1, <1>2, <1>3
      <4> HIDE DEF f, h, a, el
      <4> QED
        BY <4>1, <4>2, <1>8
    <3> HIDE DEF x, el
    <3>4. el * a.rate <= el * rate
      BY <1>2, <1>3, <2>1, MoreTime
    <3>5. rate * (x + el) = rate * x + rate * el /\ a.rate * el = el * a.rate
          /\ rate * el = el * rate /\ rate * x \in Int /\ rate * el \in Int /\ a.rate * el \in Int
      BY <1>2, <1>3, <2>1, <3>2
    <3>6. h.tokens + F <= cap + rate * (x + el)
      BY <1>1, <1>2, <1>3, <2>1, <3>2, <3>4, <3>5
    <3> QED
      BY <1>5, <2>1, <2>2, <3>3, <3>6
  <2> QED
    BY <2>3, <2>4
<1>10. ASSUME NEW i \in Ids, NEW cap \in Ceiling(Capacities), NEW rate \in Ceiling(Rates)
       PROVE  IF bucket'[i] = None THEN taken'[i].tokens = 0 /\ taken'[i].setBack = 0
              ELSE /\ bucket'[i].last <= clock'
                   /\ taken'[i].tokens + bucket'[i].tokens
                        <= cap + rate * (bucket'[i].last - taken'[i].born + taken'[i].setBack)
  <2>1. CASE i = id
    <3>1. bucket'[i] = b /\ taken'[i] = z
      BY <1>1, <1>7, <2>1
    <3> QED
      BY <1>5, <1>6, <1>9, <3>1
  <2>2. CASE i # id
    <3>1. bucket'[i] = bucket[i] /\ taken'[i] = taken[i]
      BY <1>1, <1>7, <2>2
    <3> QED
      BY <1>6, <3>1 DEF BucketInv
  <2> QED
    BY <2>1, <2>2
<1> QED
  BY <1>10 DEF BucketInv

\* Every step keeps what a bucket has given out within the rate.
LEMMA NextBucket == TypeOK /\ HistoryOK /\ CeilingInv /\ BucketInv /\ [Next]_vars => BucketInv'
<1> SUFFICES ASSUME TypeOK, HistoryOK, CeilingInv, BucketInv, [Next]_vars PROVE BucketInv'
  OBVIOUS
<1>1. ASSUME UNCHANGED <<bucket, taken, clock>> PROVE BucketInv'
  BY <1>1 DEF BucketInv
<1>2. ASSUME NEW t \in Tasks, NEW k \in Keys, NEW b \in Bytes[k], record(t, k, b) PROVE BucketInv'
  <2>1. clock' = clock
    BY <1>2 DEF record, bvars
  <2> QED
    BY <1>2, <2>1, RecordFacts DEF BucketInv
<1>3. CASE Tick
  <2>1. UNCHANGED <<bucket, taken>> /\ clock \in Nat /\ clock' = clock + 1
    BY <1>3 DEF Tick, TypeOK
  <2>2. ASSUME NEW id \in Ids, bucket[id] # None, bucket[id].last <= clock
        PROVE  bucket[id].last <= clock'
    BY <2>1, <2>2 DEF HistoryOK, Bucket
  <2> QED
    BY <2>1, <2>2 DEF BucketInv
<1>4. CASE mark_synced \/ (\E id \in Ids : Publish(id)) \/ UNCHANGED vars
  BY <1>1, <1>4 DEF mark_synced, Publish, vars, bvars, lvars
<1> QED
  BY <1>1, <1>2, <1>3, <1>4, HistoryFrame, AcquireRate, Zenon DEF Next

\* Rates hold in every reachable state.
LEMMA RateInductive == Spec => [](TypeOK /\ HistoryOK /\ CeilingInv /\ BucketInv)
BY InitType, NextType, InitHistory, NextHistory, InitRate, NextCeiling, NextBucket, PTL DEF Spec

\* The tokens a tenant ever took are bounded by the capacity, the rate and the
\* time, out-of-order calls of try_acquire_at included (quota.rs ApplyLimiter).
THEOREM RateIsKept == Spec => []RateHolds
<1>1. ASSUME TypeOK, HistoryOK, BucketInv, NEW id \in Ids, bucket[id] # None,
             NEW cap \in Ceiling(Capacities), NEW rate \in Ceiling(Rates)
      PROVE  taken[id].tokens <= cap + rate * (clock - taken[id].born + taken[id].setBack)
  <2> DEFINE x == bucket[id].last - taken[id].born + taken[id].setBack
             y == clock - taken[id].born + taken[id].setBack
  <2>1. /\ taken[id].tokens \in Nat /\ taken[id].born \in Nat /\ taken[id].setBack \in Nat
        /\ bucket[id].tokens \in Nat /\ bucket[id].last \in Nat /\ clock \in Nat
        /\ cap \in Nat /\ rate \in Nat
    BY <1>1, Ceilings DEF HistoryOK, History, Bucket, TypeOK
  <2>2. bucket[id].last <= clock /\ taken[id].tokens + bucket[id].tokens <= cap + rate * x
    BY <1>1 DEF BucketInv
  <2>3. x \in Int /\ y \in Int /\ x <= y
    BY <2>1, <2>2
  <2> HIDE DEF x, y
  <2>4. rate * x <= rate * y /\ rate * x \in Int /\ rate * y \in Int
    BY <2>1, <2>3, MoreTime
  <2>5. taken[id].tokens <= cap + rate * y
    BY <2>1, <2>2, <2>4
  <2> QED
    BY <2>5 DEF y
<1>2. TypeOK /\ HistoryOK /\ CeilingInv /\ BucketInv => RateHolds
  BY <1>1 DEF RateHolds
<1> QED
  BY <1>2, RateInductive, PTL

-----------------------------------------------------------------------------
(* The ledger: sizes.                                                      *)

\* What the lemmas about one view need of it.
ViewType(v) ==
    /\ v.bytes \in [Keys -> Nat \cup {None}] /\ v.tick \in [Keys -> Nat \cup {None}]
    /\ v.nextTick \in Nat

\* One entry's bytes are as many as its size says.
LEMMA OneWeight ==
    ASSUME NEW v, ViewType(v), NEW k \in Held(v)
    PROVE  /\ IsFiniteSet(Cells(v, {k})) /\ Weight(v, {k}) = v.bytes[k] /\ v.bytes[k] \in Nat
<1>1. v.bytes[k] \in Nat
  BY DEF ViewType, Held
<1>2. Cells(v, {k}) = {k} \X (1..v.bytes[k])
  <2>1. {{j} \X (1..v.bytes[j]) : j \in {k}} = {{k} \X (1..v.bytes[k])}
    OBVIOUS
  <2>2. \A X : UNION {X} = X
    OBVIOUS
  <2> QED
    BY <2>1, <2>2 DEF Cells
<1>3. IsFiniteSet(1..v.bytes[k]) /\ Cardinality(1..v.bytes[k]) = v.bytes[k]
  <2>1. PICK n \in Nat : n = v.bytes[k]
    BY <1>1
  <2>2. IsFiniteSet(1..n) /\ Cardinality(1..n) = IF 1 > n THEN 0 ELSE n - 1 + 1
    BY FS_Interval
  <2>3. Cardinality(1..n) = n
    BY <2>2
  <2> QED
    BY <2>1, <2>2, <2>3
<1>4. IsFiniteSet({k}) /\ Cardinality({k}) = 1
  BY FS_Singleton
<1>5. IsFiniteSet({k} \X (1..v.bytes[k]))
      /\ Cardinality({k} \X (1..v.bytes[k])) = Cardinality({k}) * Cardinality(1..v.bytes[k])
  BY <1>3, <1>4, FS_Product
<1>6. Cardinality({k} \X (1..v.bytes[k])) = v.bytes[k]
  BY <1>1, <1>3, <1>4, <1>5
<1> QED
  BY <1>1, <1>2, <1>5, <1>6 DEF Weight

\* The bytes of disjoint sets of entries add up.
LEMMA WeightSplit ==
    ASSUME NEW v, NEW S, NEW T, S \cap T = {}, IsFiniteSet(Cells(v, S)), IsFiniteSet(Cells(v, T))
    PROVE  /\ IsFiniteSet(Cells(v, S \cup T))
           /\ Weight(v, S \cup T) = Weight(v, S) + Weight(v, T)
           /\ Weight(v, S) \in Nat /\ Weight(v, T) \in Nat
<1>1. Cells(v, S \cup T) = Cells(v, S) \cup Cells(v, T)
  BY DEF Cells
<1>2. ASSUME NEW c, c \in Cells(v, S), c \in Cells(v, T) PROVE FALSE
  <2>1. PICK k \in S : c \in {k} \X (1..v.bytes[k])
    BY <1>2 DEF Cells
  <2>2. PICK j \in T : c \in {j} \X (1..v.bytes[j])
    BY <1>2 DEF Cells
  <2>3. c[1] = k /\ c[1] = j
    BY <2>1, <2>2
  <2> QED
    BY <2>3
<1>3. Cells(v, S) \cap Cells(v, T) = {}
  <2>1. \A X, Y : (\A c : c \in X /\ c \in Y => FALSE) => X \cap Y = {}
    OBVIOUS
  <2>2. \A c : c \in Cells(v, S) /\ c \in Cells(v, T) => FALSE
    BY <1>2
  <2> QED
    BY <2>1, <2>2
<1>4. Cardinality(Cells(v, S) \cap Cells(v, T)) = 0
  BY <1>3, FS_EmptySet
<1>5. Cardinality(Cells(v, S)) \in Nat /\ Cardinality(Cells(v, T)) \in Nat
  BY FS_CardinalityType
<1>6. IsFiniteSet(Cells(v, S) \cup Cells(v, T))
      /\ Cardinality(Cells(v, S) \cup Cells(v, T))
            = Cardinality(Cells(v, S)) + Cardinality(Cells(v, T))
                - Cardinality(Cells(v, S) \cap Cells(v, T))
  <2>1. \A X, Y : IsFiniteSet(X) /\ IsFiniteSet(Y) =>
           /\ IsFiniteSet(X \cup Y)
           /\ Cardinality(X \cup Y) = Cardinality(X) + Cardinality(Y) - Cardinality(X \cap Y)
    BY FS_Union
  <2> QED
    BY <2>1
<1>7. Cardinality(Cells(v, S) \cup Cells(v, T)) = Cardinality(Cells(v, S)) + Cardinality(Cells(v, T))
  BY <1>4, <1>5, <1>6
<1> QED
  BY <1>1, <1>5, <1>6, <1>7, Zenon DEF Weight

\* Some of finitely many entries.
LEMMA PartWeight ==
    ASSUME NEW v, NEW S, IsFiniteSet(Cells(v, S)), NEW T \in SUBSET S
    PROVE  IsFiniteSet(Cells(v, T)) /\ Weight(v, T) \in Nat
<1>1. Cells(v, T) \in SUBSET Cells(v, S)
  BY DEF Cells
<1>2. IsFiniteSet(Cells(v, T))
  BY <1>1, FS_Subset
<1> QED
  BY <1>2, FS_CardinalityType DEF Weight

\* Only the sizes of the entries of S matter.
LEMMA SameWeight ==
    ASSUME NEW v, NEW w, NEW S, \A k \in S : v.bytes[k] = w.bytes[k]
    PROVE  Cells(v, S) = Cells(w, S) /\ Weight(v, S) = Weight(w, S)
<1>1. Cells(v, S) = Cells(w, S)
  BY DEF Cells
<1> QED
  BY <1>1 DEF Weight

-----------------------------------------------------------------------------
(* The ledger: serving and evicting keep the indexes in step.              *)

\* The served entry is the newest; the others stay as they were.
LEMMA TouchFacts ==
    ASSUME NEW v, ViewOK(v), NEW k \in Keys, NEW b \in Nat
    PROVE  LET w == touch(v, k, b)
           IN  /\ Held(w) = Held(v) \cup {k} /\ w.nextTick = v.nextTick + 1
               /\ w.bytes[k] = b /\ w.tick[k] = v.nextTick
               /\ \A j \in Keys \ {k} : w.bytes[j] = v.bytes[j] /\ w.tick[j] = v.tick[j]
               /\ w.total = v.total - (IF v.bytes[k] = None THEN 0 ELSE v.bytes[k]) + b
               /\ ViewType(w)
<1> DEFINE w == touch(v, k, b)
<1>1. /\ v.bytes \in [Keys -> Nat \cup {None}] /\ v.tick \in [Keys -> Nat \cup {None}]
      /\ v.nextTick \in Nat
  BY DEF ViewOK
<1>2. /\ w.bytes = [v.bytes EXCEPT ![k] = b] /\ w.tick = [v.tick EXCEPT ![k] = v.nextTick]
      /\ w.nextTick = v.nextTick + 1
      /\ w.total = v.total - (IF v.bytes[k] = None THEN 0 ELSE v.bytes[k]) + b
  BY DEF touch
<1> HIDE DEF w
<1>3. /\ w.bytes[k] = b /\ w.tick[k] = v.nextTick
      /\ \A j \in Keys \ {k} : w.bytes[j] = v.bytes[j] /\ w.tick[j] = v.tick[j]
  BY <1>1, <1>2
<1>4. b # None
  BY TenancyAssumption
<1>5. Held(w) = Held(v) \cup {k}
  BY <1>3, <1>4 DEF Held
<1>6. ViewType(w)
  BY <1>1, <1>2 DEF ViewType
<1> QED
  BY <1>2, <1>3, <1>5, <1>6 DEF w

\* What is left after an eviction.
LEMMA EvictFacts ==
    ASSUME NEW v, ViewOK(v), NEW E \in SUBSET Held(v)
    PROVE  LET w == Evict(v, E)
           IN  /\ Held(w) = Held(v) \ E /\ w.nextTick = v.nextTick
               /\ \A j \in Keys \ E : w.bytes[j] = v.bytes[j] /\ w.tick[j] = v.tick[j]
               /\ \A j \in E : w.tick[j] = None
               /\ w.total = v.total - Weight(v, E)
               /\ ViewType(w)
<1> DEFINE w == Evict(v, E)
<1>1. /\ v.bytes \in [Keys -> Nat \cup {None}] /\ v.tick \in [Keys -> Nat \cup {None}]
      /\ v.nextTick \in Nat /\ E \subseteq Keys
  BY DEF ViewOK, Held
<1>2. /\ w.bytes = [k \in Keys |-> IF k \in E THEN None ELSE v.bytes[k]]
      /\ w.tick = [k \in Keys |-> IF k \in E THEN None ELSE v.tick[k]]
      /\ w.nextTick = v.nextTick /\ w.total = v.total - Weight(v, E)
  BY DEF Evict
<1> HIDE DEF w
<1>3. /\ \A j \in Keys \ E : w.bytes[j] = v.bytes[j] /\ w.tick[j] = v.tick[j]
      /\ \A j \in E : w.tick[j] = None /\ w.bytes[j] = None
  BY <1>1, <1>2
<1>4. Held(w) = Held(v) \ E
  BY <1>1, <1>3 DEF Held
<1>5. ViewType(w)
  BY <1>1, <1>2 DEF ViewType
<1> QED
  BY <1>2, <1>3, <1>4, <1>5 DEF w

\* A serve keeps the indexes in step.
LEMMA TouchOK ==
    ASSUME NEW v, ViewOK(v), NEW k \in Keys, NEW b \in Nat
    PROVE  ViewOK(touch(v, k, b))
<1> DEFINE w == touch(v, k, b)
           S == Held(v) \ {k}
           old == IF v.bytes[k] = None THEN 0 ELSE v.bytes[k]
<1>1. /\ Held(w) = Held(v) \cup {k} /\ w.nextTick = v.nextTick + 1
      /\ w.bytes[k] = b /\ w.tick[k] = v.nextTick
      /\ \A j \in Keys \ {k} : w.bytes[j] = v.bytes[j] /\ w.tick[j] = v.tick[j]
      /\ w.total = v.total - old + b
      /\ ViewType(w)
  BY TouchFacts
<1> HIDE DEF w
<1>2. /\ IsFiniteSet(Held(v)) /\ IsFiniteSet(Cells(v, Held(v))) /\ v.total = Weight(v, Held(v))
      /\ v.nextTick \in Nat /\ v.tick \in [Keys -> Nat \cup {None}]
      /\ \A j \in Keys : v.tick[j] # None <=> j \in Held(v)
      /\ \A i, j \in Held(v) : v.tick[i] < v.nextTick /\ (v.tick[i] = v.tick[j] => i = j)
      /\ ViewType(v)
  BY DEF ViewOK, ViewType
<1>3. Held(v) \subseteq Keys /\ S \subseteq Keys \ {k} /\ S \in SUBSET Held(v)
  BY DEF Held
<1>4. IsFiniteSet(Held(w))
  BY <1>1, <1>2, FS_AddElement
<1>5. IsFiniteSet(Cells(v, S)) /\ Weight(v, S) \in Nat
  BY <1>2, <1>3, PartWeight
<1>6. Cells(w, S) = Cells(v, S) /\ Weight(w, S) = Weight(v, S)
  BY <1>1, <1>3, SameWeight
<1>7. k \in Held(w) /\ Held(w) = S \cup {k} /\ S \cap {k} = {}
  BY <1>1
<1>8. IsFiniteSet(Cells(w, {k})) /\ Weight(w, {k}) = b
  BY <1>1, <1>7, OneWeight
<1>9. IsFiniteSet(Cells(w, S \cup {k})) /\ Weight(w, S \cup {k}) = Weight(w, S) + Weight(w, {k})
  BY <1>5, <1>6, <1>7, <1>8, WeightSplit
<1>10. IsFiniteSet(Cells(w, Held(w))) /\ Weight(w, Held(w)) = Weight(v, S) + b
  BY <1>6, <1>7, <1>8, <1>9
<1>11. Weight(v, Held(v)) = Weight(v, S) + old /\ old \in Nat
  <2>1. CASE k \in Held(v)
    <3>1. IsFiniteSet(Cells(v, {k})) /\ Weight(v, {k}) = v.bytes[k] /\ v.bytes[k] \in Nat
      BY <1>2, <2>1, OneWeight
    <3>2. Weight(v, S \cup {k}) = Weight(v, S) + Weight(v, {k})
      BY <1>5, <1>7, <3>1, WeightSplit
    <3>3. S \cup {k} = Held(v) /\ old = v.bytes[k]
      BY <2>1 DEF Held
    <3> QED
      BY <3>1, <3>2, <3>3
  <2>2. CASE k \notin Held(v)
    <3>1. S = Held(v) /\ old = 0
      BY <2>2 DEF Held
    <3> QED
      BY <1>5, <3>1
  <2> QED
    BY <2>1, <2>2
<1> HIDE DEF old
<1>12. w.total = Weight(w, Held(w))
  BY <1>1, <1>2, <1>5, <1>10, <1>11
<1>13. \A j \in Keys : w.tick[j] # None <=> j \in Held(w)
  <2>1. v.nextTick # None
    BY <1>2, TenancyAssumption
  <2> QED
    BY <1>1, <1>2, <2>1
<1>14. \A i, j \in Held(w) : w.tick[i] < w.nextTick /\ (w.tick[i] = w.tick[j] => i = j)
  <2>1. \A j \in S : w.tick[j] = v.tick[j] /\ v.tick[j] \in Nat /\ v.tick[j] < v.nextTick
    BY <1>1, <1>2, <1>3
  <2>2. \A j \in S : w.tick[j] \in Nat /\ w.tick[j] < w.tick[k] /\ w.tick[j] < w.nextTick
    BY <1>1, <1>2, <2>1
  <2>3. w.tick[k] \in Nat /\ w.tick[k] < w.nextTick
    BY <1>1, <1>2
  <2>4. \A i, j \in S : w.tick[i] = w.tick[j] => i = j
    BY <1>2, <2>1
  <2> HIDE DEF S
  <2> QED
    BY <1>7, <2>2, <2>3, <2>4
<1> QED
  BY <1>1, <1>4, <1>10, <1>12, <1>13, <1>14 DEF ViewOK, ViewType, w

\* An eviction keeps them in step.
LEMMA EvictOK ==
    ASSUME NEW v, ViewOK(v), NEW E \in SUBSET Held(v)
    PROVE  /\ ViewOK(Evict(v, E))
           /\ Evict(v, E).total = Weight(v, Held(v) \ E)
<1> DEFINE w == Evict(v, E)
           S == Held(v) \ E
<1>1. /\ Held(w) = S /\ w.nextTick = v.nextTick
      /\ \A j \in Keys \ E : w.bytes[j] = v.bytes[j] /\ w.tick[j] = v.tick[j]
      /\ \A j \in E : w.tick[j] = None
      /\ w.total = v.total - Weight(v, E)
      /\ ViewType(w)
  BY EvictFacts
<1> HIDE DEF w
<1>2. /\ IsFiniteSet(Held(v)) /\ IsFiniteSet(Cells(v, Held(v))) /\ v.total = Weight(v, Held(v))
      /\ \A j \in Keys : v.tick[j] # None <=> j \in Held(v)
      /\ \A i, j \in Held(v) : v.tick[i] < v.nextTick /\ (v.tick[i] = v.tick[j] => i = j)
  BY DEF ViewOK
<1>3. Held(v) \subseteq Keys /\ S \subseteq Keys \ E /\ S \in SUBSET Held(v)
  BY DEF Held
<1>4. IsFiniteSet(S)
  BY <1>2, <1>3, FS_Subset
<1>5. IsFiniteSet(Cells(v, S)) /\ Weight(v, S) \in Nat /\ IsFiniteSet(Cells(v, E)) /\ Weight(v, E) \in Nat
  BY <1>2, <1>3, PartWeight
<1>6. Cells(w, S) = Cells(v, S) /\ Weight(w, S) = Weight(v, S)
  BY <1>1, <1>3, SameWeight
<1>7. S \cup E = Held(v) /\ S \cap E = {}
  OBVIOUS
<1>8. Weight(v, S \cup E) = Weight(v, S) + Weight(v, E)
  BY <1>5, <1>7, WeightSplit
<1>9. Weight(v, Held(v)) = Weight(v, S) + Weight(v, E)
  BY <1>7, <1>8
<1>10. w.total = Weight(v, S)
  BY <1>1, <1>2, <1>5, <1>9
<1>11. \A j \in Keys : w.tick[j] # None <=> j \in Held(w)
  BY <1>1, <1>2
<1>12. \A i, j \in Held(w) : w.tick[i] < w.nextTick /\ (w.tick[i] = w.tick[j] => i = j)
  BY <1>1, <1>2, <1>3
<1> QED
  BY <1>1, <1>4, <1>5, <1>6, <1>10, <1>11, <1>12 DEF ViewOK, ViewType, w

-----------------------------------------------------------------------------
(* The ledger: the order of eviction.                                      *)

\* A set of natural numbers that is not empty has a least one.
LEMMA LeastNumber ==
    ASSUME NEW S \in SUBSET Nat, S # {}
    PROVE  \E m \in S : \A n \in S : m <= n
<1> DEFINE T == {1..n : n \in S}
           R == StrictSubsetOrdering(Nat)
<1>1. \A n \in S : (1..n) \in FiniteSubsetsOf(Nat)
  <2>1. \A n \in Nat : IsFiniteSet(1..n)
    BY FS_Interval
  <2> QED
    BY <2>1 DEF FiniteSubsetsOf
<1>2. T \subseteq FiniteSubsetsOf(Nat) /\ T # {}
  BY <1>1
<1>3. IsWellFoundedOn(R, FiniteSubsetsOf(Nat))
  BY FS_StrictSubsetOrderingWellFounded
<1>4. PICK x \in T : \A y \in T : ~(<<y, x>> \in R)
  <2> HIDE DEF T, R
  <2> QED
    BY <1>2, <1>3, WFMin
<1>5. PICK m \in S : x = 1..m
  BY <1>4
<1>6. ASSUME NEW n \in S, ~(m <= n) PROVE FALSE
  <2>1. m \in Nat /\ n \in Nat /\ n < m
    BY <1>6
  <2>2. (1..n) \subseteq (1..m) /\ m \in 1..m /\ m \notin 1..n
    BY <2>1
  <2>3. (1..n) # (1..m)
    BY <2>2, Zenon
  <2>4. (1..n) \in SUBSET Nat /\ (1..m) \in SUBSET Nat
    BY <2>1
  <2>5. <<1..n, 1..m>> \in R
    BY <2>2, <2>3, <2>4 DEF StrictSubsetOrdering
  <2>6. (1..n) \in T
    BY <1>6
  <2> QED
    BY <1>4, <1>5, <2>5, <2>6
<1> QED
  BY <1>6

\* The entries served before k, and how many there are.
Before(v, k) == {j \in Held(v) : v.tick[j] < v.tick[k]}
Rank(v, k)   == Cardinality(Before(v, k))

\* Ranks order the entries as their ticks do, without gaps.
LEMMA Ranks ==
    ASSUME NEW v, ViewOK(v)
    PROVE  /\ Cardinality(Held(v)) \in Nat
           /\ \A k \in Held(v) : Rank(v, k) \in Nat /\ Rank(v, k) < Cardinality(Held(v))
           /\ \A j, k \in Held(v) : v.tick[j] < v.tick[k] => Rank(v, j) < Rank(v, k)
           /\ \A j, k \in Held(v) : Rank(v, j) = Rank(v, k) => j = k
           /\ \A r \in Nat : r < Cardinality(Held(v)) => \E k \in Held(v) : Rank(v, k) = r
<1> DEFINE H == Held(v)
           c == Cardinality(H)
<1>1. /\ IsFiniteSet(H) /\ c \in Nat
      /\ \A k \in H : v.tick[k] \in Nat
      /\ \A j, k \in H : v.tick[j] = v.tick[k] => j = k
  <2>1. IsFiniteSet(H) /\ v.tick \in [Keys -> Nat \cup {None}] /\ H \subseteq Keys
        /\ \A k \in H : v.tick[k] # None
    BY DEF ViewOK, Held
  <2>2. \A j, k \in H : v.tick[j] = v.tick[k] => j = k
    BY DEF ViewOK
  <2> QED
    BY <2>1, <2>2, FS_CardinalityType
<1>2. \A k \in H : IsFiniteSet(Before(v, k)) /\ Rank(v, k) \in Nat
  <2>1. \A k \in H : Before(v, k) \in SUBSET H
    BY DEF Before
  <2> QED
    BY <1>1, <2>1, FS_Subset, FS_CardinalityType DEF Rank
<1>3. ASSUME NEW j \in H, NEW T, IsFiniteSet(T), Before(v, j) \cup {j} \in SUBSET T
      PROVE  Rank(v, j) < Cardinality(T)
  <2>1. j \notin Before(v, j)
    BY <1>1 DEF Before
  <2>2. Cardinality(Before(v, j) \cup {j}) = Rank(v, j) + 1
    BY <1>2, <2>1, FS_AddElement DEF Rank
  <2>3. Cardinality(Before(v, j) \cup {j}) <= Cardinality(T) /\ Cardinality(T) \in Nat
    BY <1>3, FS_Subset, FS_CardinalityType
  <2> QED
    BY <1>2, <2>2, <2>3
<1>4. \A k \in H : Rank(v, k) < c
  <2>1. \A k \in H : Before(v, k) \cup {k} \in SUBSET H
    BY DEF Before
  <2> QED
    BY <1>1, <1>3, <2>1
<1>5. ASSUME NEW j \in H, NEW k \in H, v.tick[j] < v.tick[k] PROVE Rank(v, j) < Rank(v, k)
  <2>1. Before(v, j) \cup {j} \in SUBSET Before(v, k)
    BY <1>1, <1>5 DEF Before
  <2>2. Rank(v, j) < Cardinality(Before(v, k))
    BY <1>2, <1>3, <2>1
  <2> QED
    BY <2>2 DEF Rank
<1>6. ASSUME NEW j \in H, NEW k \in H, Rank(v, j) = Rank(v, k) PROVE j = k
  <2>1. ~(v.tick[j] < v.tick[k]) /\ ~(v.tick[k] < v.tick[j])
    BY <1>2, <1>5, <1>6
  <2>2. v.tick[j] = v.tick[k]
    BY <1>1, <2>1
  <2> QED
    BY <1>1, <2>2
<1>7. ASSUME NEW r \in Nat, r < c PROVE \E k \in H : Rank(v, k) = r
  <2> DEFINE T == 0..(c - 1)
             f == [k \in H |-> Rank(v, k)]
  <2>1. IsFiniteSet(T) /\ Cardinality(T) = c
    <3>1. c - 1 \in Int /\ ~(0 > c - 1) /\ 0 \in Int
      BY <1>1, <1>7
    <3>2. IsFiniteSet(T) /\ Cardinality(T) = IF 0 > c - 1 THEN 0 ELSE (c - 1) - 0 + 1
      BY <3>1, FS_Interval
    <3> QED
      BY <1>1, <3>1, <3>2
  <2>2. f \in [H -> T]
    BY <1>1, <1>2, <1>4
  <2>3. f \in Injection(H, T)
    BY <1>6, <2>2 DEF Injection, IsInjective
  <2> HIDE DEF f, T
  <2>4. f \in Surjection(H, T)
    BY <1>1, <2>1, <2>3, FS_Injection
  <2>5. r \in T
    BY <1>1, <1>7 DEF T
  <2> QED
    BY <2>4, <2>5 DEF Surjection, f
<1> QED
  BY <1>1, <1>2, <1>4, <1>5, <1>6, <1>7

\* The number of entries evict_to pops is well defined.
LEMMA EvictToPops ==
    ASSUME NEW v, ViewOK(v), NEW budget \in Nat, budget # 0
    PROVE  \E n \in 0..Cardinality(Held(v)) :
               /\ evict_to(v, budget) = Evict(v, Oldest(v, n))
               /\ Enough(v, budget, n)
               /\ \A i \in 0..(n - 1) : ~Enough(v, budget, i)
<1> DEFINE c == Cardinality(Held(v))
           S == {m \in 0..c : Enough(v, budget, m)}
           Fewest(m) == Enough(v, budget, m) /\ \A i \in 0..(m - 1) : ~Enough(v, budget, i)
<1>1. c \in Nat
  BY Ranks
<1>2. c \in S
  BY <1>1 DEF Enough
<1>3. PICK m \in S : \A n \in S : m <= n
  <2>1. S \in SUBSET Nat /\ S # {}
    BY <1>2
  <2> QED
    BY <2>1, LeastNumber
<1>4. m \in 0..c /\ Fewest(m)
  <2>1. ASSUME NEW i \in 0..(m - 1), Enough(v, budget, i) PROVE FALSE
    <3>1. i \in S /\ ~(m <= i)
      BY <1>1, <1>3, <2>1
    <3> QED
      BY <1>3, <3>1
  <2> QED
    BY <1>3, <2>1
<1> DEFINE n == CHOOSE x \in 0..c : Fewest(x)
<1> HIDE DEF Fewest
<1>5. n \in 0..c /\ Fewest(n)
  BY <1>4
<1>6. evict_to(v, budget) = Evict(v, Oldest(v, n))
  BY DEF evict_to, Fewest
<1> HIDE DEF n
<1> QED
  BY <1>5, <1>6 DEF Fewest

\* evict_to on a view whose newest entry is k: it keeps k, keeps the indexes in
\* step, stops within the budget or with k alone, pops older entries only, and
\* would have been over the budget one entry earlier.
LEMMA EvictToFacts ==
    ASSUME NEW v, ViewOK(v), NEW budget \in Nat, budget # 0, NEW k \in Held(v),
           \A j \in Held(v) : v.tick[j] <= v.tick[k]
    PROVE  LET w == evict_to(v, budget)
               gone == Held(v) \ Held(w)
           IN  /\ ViewOK(w) /\ k \in Held(w) /\ Held(w) \subseteq Held(v)
               /\ w.nextTick = v.nextTick
               /\ \A j \in Held(w) : w.tick[j] = v.tick[j]
               /\ w.total <= budget \/ Cardinality(Held(w)) = 1
               /\ \A j \in gone, i \in Held(w) : v.tick[j] < v.tick[i]
               /\ gone # {} => \E j \in gone : w.total + v.bytes[j] > budget
<1> DEFINE H == Held(v)
           c == Cardinality(H)
<1>1. /\ c \in Nat
      /\ \A j \in H : Rank(v, j) \in Nat /\ Rank(v, j) < c
      /\ \A i, j \in H : v.tick[i] < v.tick[j] => Rank(v, i) < Rank(v, j)
      /\ \A i, j \in H : Rank(v, i) = Rank(v, j) => i = j
      /\ \A r \in Nat : r < c => \E j \in H : Rank(v, j) = r
  BY Ranks
<1>2. \A j \in H : v.tick[j] \in Nat
  BY DEF ViewOK, Held
<1>3. \A j \in H : v.tick[j] = v.tick[k] => j = k
  BY DEF ViewOK
<1>4. c >= 1
  <2>1. Rank(v, k) \in Nat /\ Rank(v, k) < c
    BY <1>1
  <2> QED
    BY <1>1, <2>1
<1>5. Rank(v, k) = c - 1
  <2>1. PICK j \in H : Rank(v, j) = c - 1
    <3>1. c - 1 \in Nat /\ c - 1 < c
      BY <1>1, <1>4
    <3> QED
      BY <1>1, <3>1
  <2>2. CASE v.tick[j] < v.tick[k]
    <3>1. Rank(v, j) < Rank(v, k) /\ Rank(v, k) < c /\ Rank(v, k) \in Nat
      BY <1>1, <2>2
    <3> QED
      BY <1>1, <2>1, <3>1
  <2>3. CASE ~(v.tick[j] < v.tick[k])
    <3>1. v.tick[j] = v.tick[k]
      BY <1>2, <2>3
    <3> QED
      BY <1>3, <2>1, <3>1
  <2> QED
    BY <2>2, <2>3
<1>6. PICK n \in 0..c : /\ evict_to(v, budget) = Evict(v, Oldest(v, n))
                        /\ Enough(v, budget, n)
                        /\ \A i \in 0..(n - 1) : ~Enough(v, budget, i)
  BY EvictToPops
<1> DEFINE w == evict_to(v, budget)
           E(m) == Oldest(v, m)
<1>7. \A m \in Nat : E(m) = {j \in H : Rank(v, j) < m} /\ E(m) \in SUBSET H
  BY DEF Oldest, Rank, Before
<1> HIDE DEF E
<1>8. n \in Nat /\ n <= c - 1
  <2>1. CASE n = c
    <3>1. c - 1 \in 0..(n - 1) /\ c - (c - 1) <= 1
      BY <1>1, <1>4, <2>1
    <3>2. Enough(v, budget, c - 1)
      BY <3>1 DEF Enough
    <3> QED
      BY <1>6, <3>1, <3>2
  <2> QED
    BY <1>1, <1>6, <2>1
<1>9. ASSUME NEW m \in Nat
      PROVE  /\ ViewOK(Evict(v, E(m))) /\ Held(Evict(v, E(m))) = H \ E(m)
             /\ Evict(v, E(m)).total = Weight(v, H \ E(m))
             /\ Evict(v, E(m)).nextTick = v.nextTick
             /\ \A j \in Keys \ E(m) : Evict(v, E(m)).tick[j] = v.tick[j]
  BY <1>7, EvictOK, EvictFacts
<1>10. w = Evict(v, E(n)) /\ H \subseteq Keys
  BY <1>6 DEF E, Held
<1> HIDE DEF w
<1>11. /\ ViewOK(w) /\ Held(w) = H \ E(n) /\ w.total = Weight(v, H \ E(n))
       /\ w.nextTick = v.nextTick /\ \A j \in Held(w) : w.tick[j] = v.tick[j]
  BY <1>8, <1>9, <1>10
<1>12. Held(w) = {j \in H : Rank(v, j) >= n} /\ H \ Held(w) = E(n)
  BY <1>1, <1>7, <1>8, <1>11
<1>13. k \in Held(w)
  BY <1>1, <1>5, <1>8, <1>12
<1>14. w.total <= budget \/ Cardinality(Held(w)) = 1
  <2>1. CASE w.total <= budget
    BY <2>1
  <2>2. CASE c - n <= 1
    <3>1. \A j \in Held(w) : Rank(v, j) = Rank(v, k)
      BY <1>1, <1>5, <1>8, <1>12, <2>2
    <3>2. Held(w) = {k}
      BY <1>1, <1>12, <1>13, <3>1
    <3> QED
      BY <3>2, FS_Singleton
  <2> QED
    BY <1>6, <1>10, <2>1, <2>2 DEF Enough, E
<1>15. \A j \in H \ Held(w), i \in Held(w) : v.tick[j] < v.tick[i]
  <2> SUFFICES ASSUME NEW j \in H \ Held(w), NEW i \in Held(w), ~(v.tick[j] < v.tick[i])
               PROVE  FALSE
    OBVIOUS
  <2>1. j \in H /\ i \in H /\ Rank(v, j) < n /\ Rank(v, i) >= n
    BY <1>7, <1>8, <1>12
  <2>2. v.tick[i] < v.tick[j] \/ i = j
    <3>1. v.tick[i] = v.tick[j] => i = j
      BY <2>1 DEF ViewOK
    <3> QED
      BY <1>2, <2>1, <3>1
  <2> QED
    BY <1>1, <1>8, <2>1, <2>2
<1>16. ASSUME H \ Held(w) # {} PROVE \E j \in H \ Held(w) : w.total + v.bytes[j] > budget
  <2>1. n # 0
    <3>1. CASE n = 0
      BY <1>1, <1>7, <1>12, <1>16, <3>1
    <3> QED
      BY <3>1
  <2>2. n - 1 \in Nat /\ n - 1 \in 0..(n - 1) /\ n - 1 < c
    BY <1>1, <1>8, <2>1
  <2>3. PICK j \in H : Rank(v, j) = n - 1
    BY <1>1, <2>2
  <2>4. Evict(v, E(n - 1)).total > budget
    <3>1. ~Enough(v, budget, n - 1)
      BY <1>6, <2>2
    <3>2. ~(Evict(v, E(n - 1)).total <= budget)
      BY <3>1 DEF Enough, E
    <3>3. Evict(v, E(n - 1)).total \in Nat
      <4>1. IsFiniteSet(Cells(v, H)) /\ H \ E(n - 1) \in SUBSET H
        BY DEF ViewOK
      <4>2. Weight(v, H \ E(n - 1)) \in Nat
        BY <4>1, PartWeight
      <4> QED
        BY <1>9, <2>2, <4>2
    <3> QED
      BY <3>2, <3>3
  <2>5. H \ E(n - 1) = (H \ E(n)) \cup {j} /\ (H \ E(n)) \cap {j} = {}
    <3>1. \A i \in H : Rank(v, i) < n - 1 <=> Rank(v, i) < n /\ i # j
      BY <1>1, <1>8, <2>2, <2>3
    <3> QED
      BY <1>7, <1>8, <2>2, <2>3, <3>1
  <2>6. IsFiniteSet(Cells(v, {j})) /\ Weight(v, {j}) = v.bytes[j]
    <3>1. ViewType(v)
      BY DEF ViewOK, ViewType
    <3> QED
      BY <3>1, OneWeight
  <2>7. IsFiniteSet(Cells(v, H \ E(n)))
    <3>1. IsFiniteSet(Cells(v, H)) /\ H \ E(n) \in SUBSET H
      BY DEF ViewOK
    <3> QED
      BY <3>1, PartWeight
  <2>8. Weight(v, (H \ E(n)) \cup {j}) = Weight(v, H \ E(n)) + Weight(v, {j})
    BY <2>5, <2>6, <2>7, WeightSplit
  <2>9. Evict(v, E(n - 1)).total = w.total + v.bytes[j]
    <3>1. Evict(v, E(n - 1)).total = Weight(v, H \ E(n - 1))
      BY <1>9, <2>2
    <3> QED
      BY <1>11, <2>5, <2>6, <2>8, <3>1, Zenon
  <2>10. j \in E(n)
    BY <1>7, <1>8, <2>2, <2>3
  <2> QED
    BY <1>12, <2>4, <2>9, <2>10
<1>17. Held(w) \subseteq H
  BY <1>12
<1> QED
  BY <1>11, <1>13, <1>14, <1>15, <1>16, <1>17 DEF w

-----------------------------------------------------------------------------
(* The ledger: the steps.                                                  *)

\* What one serve does to the tenant's view and to no other.
LEMMA RecordView ==
    ASSUME TypeOK, HistoryOK, LedgerInv, NEW t \in Tasks, NEW k \in Keys, NEW b \in Bytes[k],
           record(t, k, b)
    PROVE  LET id == Identity[t]
               v  == view[id]
               w  == view'[id]
               gone == Held(v) \ Held(w)
           IN  /\ id \in Ids /\ DOMAIN view' = Ids
               /\ \A i \in Ids \ {id} : view'[i] = view[i]
               /\ ViewOK(w) /\ k \in Held(w) /\ Held(w) \subseteq Held(v) \cup {k}
               /\ \A j \in Held(w) : w.tick[j] = IF j = k THEN v.nextTick ELSE v.tick[j]
               /\ mode = "enforce" =>
                     /\ acct[t] = 0 \/ w.total <= acct[t] \/ Cardinality(Held(w)) = 1
                     /\ \A j \in gone, i \in Held(w) : v.tick[j] < w.tick[i]
                     /\ gone # {} => \E j \in gone : w.total + v.bytes[j] > acct[t]
<1> DEFINE id == Identity[t]
           v == view[id]
           u == touch(v, k, b)
           w == IF mode = "enforce" THEN evict_to(u, acct[t]) ELSE u
           gone == Held(v) \ Held(w)
<1>1. id \in Ids /\ DOMAIN view = Ids /\ b \in Nat /\ acct[t] \in Nat /\ ViewOK(v)
  <2>1. id \in Ids /\ b \in Nat
    BY TenancyAssumption
  <2>2. acct[t] \in Nat
    BY DEF TypeOK, record
  <2> QED
    BY <2>1, <2>2 DEF HistoryOK, LedgerInv
<1>2. view' = [view EXCEPT ![id] = w]
  BY Zenon DEF record
<1>3. /\ Held(u) = Held(v) \cup {k} /\ u.tick[k] = v.nextTick /\ ViewOK(u)
      /\ \A j \in Keys \ {k} : u.bytes[j] = v.bytes[j] /\ u.tick[j] = v.tick[j]
  <2>1. PICK x : x = v /\ ViewOK(x)
    BY <1>1
  <2>2. ViewOK(touch(x, k, b))
    BY <1>1, <2>1, TouchOK
  <2>3. /\ Held(touch(x, k, b)) = Held(x) \cup {k} /\ touch(x, k, b).tick[k] = x.nextTick
        /\ \A j \in Keys \ {k} : /\ touch(x, k, b).bytes[j] = x.bytes[j]
                                /\ touch(x, k, b).tick[j] = x.tick[j]
    BY <1>1, <2>1, TouchFacts
  <2> QED
    BY <2>1, <2>2, <2>3
<1>4. Held(v) \subseteq Keys /\ k \in Held(u)
  BY <1>3 DEF Held
<1>5. \A j \in Held(u) : u.tick[j] <= u.tick[k]
  <2>1. \A j \in Held(v) : v.tick[j] \in Nat /\ v.tick[j] < v.nextTick /\ v.nextTick \in Nat
    BY <1>1 DEF ViewOK, Held
  <2>2. v.nextTick \in Nat
    BY <1>1 DEF ViewOK
  <2> HIDE DEF u, v
  <2> QED
    BY <1>3, <1>4, <2>1, <2>2
<1>6. \A j \in Held(u) : u.tick[j] = IF j = k THEN v.nextTick ELSE v.tick[j]
  BY <1>3, <1>4
<1> HIDE DEF u
<1>7. CASE mode = "enforce" /\ acct[t] # 0
  <2>1. w = evict_to(u, acct[t])
    BY <1>7
  <2>2. /\ ViewOK(w) /\ k \in Held(w) /\ Held(w) \subseteq Held(u)
        /\ \A j \in Held(w) : w.tick[j] = u.tick[j]
        /\ w.total <= acct[t] \/ Cardinality(Held(w)) = 1
        /\ \A j \in Held(u) \ Held(w), i \in Held(w) : u.tick[j] < u.tick[i]
        /\ Held(u) \ Held(w) # {} => \E j \in Held(u) \ Held(w) : w.total + u.bytes[j] > acct[t]
    BY <1>1, <1>3, <1>4, <1>5, <1>7, <2>1, EvictToFacts
  <2> HIDE DEF w
  <2>3. gone = Held(u) \ Held(w) /\ gone \subseteq Keys \ {k}
    BY <1>3, <1>4, <2>2
  <2>4. \A j \in gone : u.bytes[j] = v.bytes[j] /\ u.tick[j] = v.tick[j]
    BY <1>3, <2>3
  <2>5. \A j \in gone, i \in Held(w) : v.tick[j] < w.tick[i]
    BY <2>2, <2>3, <2>4
  <2>6. gone # {} => \E j \in gone : w.total + v.bytes[j] > acct[t]
    BY <2>2, <2>3, <2>4
  <2>7. \A j \in Held(w) : w.tick[j] = IF j = k THEN v.nextTick ELSE v.tick[j]
    BY <1>6, <2>2
  <2>8. view'[id] = w /\ DOMAIN view' = Ids /\ \A i \in Ids \ {id} : view'[i] = view[i]
    BY <1>1, <1>2
  <2> HIDE DEF gone, v, id
  <2>9. Held(w) \subseteq Held(v) \cup {k}
    BY <1>3, <2>2
  <2> QED
    BY <1>1, <2>2, <2>5, <2>6, <2>7, <2>8, <2>9 DEF gone, v, id
<1>8. CASE ~(mode = "enforce" /\ acct[t] # 0)
  <2>1. w = u
    BY <1>8 DEF evict_to
  <2> HIDE DEF w
  <2>2. gone = {}
    BY <1>3, <2>1
  <2>3. view'[id] = u /\ DOMAIN view' = Ids /\ \A i \in Ids \ {id} : view'[i] = view[i]
    BY <1>1, <1>2, <2>1
  <2>4. mode = "enforce" => acct[t] = 0
    BY <1>8
  <2> QED
    BY <1>1, <1>3, <1>4, <1>6, <2>1, <2>2, <2>3, <2>4
<1> QED
  BY <1>7, <1>8

\* Nothing is held at first.
LEMMA InitLedger == Init => LedgerInv
<1> SUFFICES ASSUME Init, NEW id \in Ids
             PROVE  ViewOK(view[id]) /\ Held(view[id]) = {}
  BY DEF LedgerInv
<1> DEFINE v == view[id]
<1>1. /\ v.bytes = [k \in Keys |-> None] /\ v.tick = [k \in Keys |-> None] /\ v.total = 0
      /\ v.nextTick = 0
  BY DEF Init, NoView
<1> HIDE DEF v
<1>2. Held(v) = {}
  BY <1>1 DEF Held
<1>3. Cells(v, Held(v)) = {}
  BY <1>2 DEF Cells
<1>4. IsFiniteSet(Held(v)) /\ IsFiniteSet(Cells(v, Held(v))) /\ Weight(v, Held(v)) = 0
  BY <1>2, <1>3, FS_EmptySet DEF Weight
<1>5. /\ v.bytes \in [Keys -> Nat \cup {None}] /\ v.tick \in [Keys -> Nat \cup {None}]
      /\ \A k \in Keys : v.tick[k] = None
  BY <1>1
<1>6. ViewOK(v)
  BY <1>1, <1>2, <1>4, <1>5 DEF ViewOK
<1> QED
  BY <1>2, <1>6 DEF v

\* Every step keeps the ledger.
LEMMA NextLedger == TypeOK /\ HistoryOK /\ LedgerInv /\ [Next]_vars => LedgerInv'
<1> SUFFICES ASSUME TypeOK, HistoryOK, LedgerInv, [Next]_vars PROVE LedgerInv'
  OBVIOUS
<1>1. ASSUME view' = view, \A id \in Ids : taken'[id].serves = taken[id].serves PROVE LedgerInv'
  BY <1>1 DEF LedgerInv
<1>2. ASSUME NEW t \in Tasks, NEW k \in Keys, NEW b \in Bytes[k], record(t, k, b)
      PROVE  LedgerInv'
  <2> SUFFICES ASSUME NEW id \in Ids
               PROVE  /\ ViewOK(view'[id])
                      /\ \A j \in Held(view'[id]) : taken'[id].serves[j] = view'[id].tick[j]
    BY DEF LedgerInv
  <2>1. \A j \in Keys : taken'[id].serves[j] =
            IF id = Identity[t] /\ j = k THEN view[id].nextTick ELSE taken[id].serves[j]
    BY <1>2, RecordFacts
  <2>2. /\ ViewOK(view[id]) /\ Held(view[id]) \subseteq Keys
        /\ \A j \in Held(view[id]) : taken[id].serves[j] = view[id].tick[j]
    BY DEF LedgerInv, Held
  <2>3. CASE id = Identity[t]
    <3>1. /\ ViewOK(view'[id]) /\ Held(view'[id]) \subseteq Held(view[id]) \cup {k}
          /\ \A j \in Held(view'[id]) : view'[id].tick[j] =
                 IF j = k THEN view[id].nextTick ELSE view[id].tick[j]
      BY <1>2, <2>3, RecordView
    <3> QED
      BY <2>1, <2>2, <2>3, <3>1
  <2>4. CASE id # Identity[t]
    <3>1. view'[id] = view[id]
      BY <1>2, <2>4, RecordView
    <3> QED
      BY <2>1, <2>2, <2>4, <3>1
  <2> QED
    BY <2>3, <2>4
<1>3. ASSUME NEW t \in Tasks, try_acquire_at(t) PROVE LedgerInv'
  <2>1. view' = view
    BY <1>3 DEF try_acquire_at, lvars
  <2>2. PICK i \in Ids, h \in History, w \in Nat, n \in Nat, y \in Nat :
           taken' = [taken EXCEPT ![i] = Charged(h, w, n, y)] /\ h = taken[i]
    <3> DEFINE i == Identity[t]
               g == taken[i]
    <3>1. /\ i \in Ids /\ g \in History /\ Took(t) \in Nat /\ Born(t) \in Nat /\ SetBack(t) \in Nat
          /\ taken' = [taken EXCEPT ![i] =
                         Charged(g, g.tokens + Took(t), Born(t), g.setBack + SetBack(t))]
      BY <1>3, AcquireFacts
    <3>2. g.tokens + Took(t) \in Nat /\ g.setBack + SetBack(t) \in Nat
      BY <3>1 DEF History
    <3> QED
      BY <3>1, <3>2, Zenon
  <2>3. Charged(h, w, n, y).serves = h.serves
    BY ChargedFacts
  <2>4. \A id \in Ids : taken'[id].serves = taken[id].serves
    BY <2>2, <2>3 DEF HistoryOK
  <2> QED
    BY <1>1, <2>1, <2>4
<1>4. CASE Tick \/ mark_synced \/ (\E id \in Ids : Publish(id)) \/ UNCHANGED vars
  BY <1>1, <1>4 DEF Tick, mark_synced, Publish, vars, lvars
<1> QED
  BY <1>1, <1>2, <1>3, <1>4, HistoryFrame, Zenon DEF Next

\* The ledger's invariant holds in every reachable state.
LEMMA LedgerInductive == Spec => [](TypeOK /\ HistoryOK /\ LedgerInv)
BY InitType, NextType, InitHistory, NextHistory, InitLedger, NextLedger, PTL DEF Spec

\* total, the sizes and the recency index never drift apart, whatever is served
\* again, resized or evicted (tenant_cache.rs TenantView).
THEOREM LedgerStaysInStep == Spec => []LedgerInStep
<1>1. LedgerInv => LedgerInStep
  BY DEF LedgerInv, LedgerInStep, ViewOK
<1> QED
  BY <1>1, LedgerInductive, PTL

\* Only a serve of its own takes a stream from "open" to "byteGauge".
LEMMA OnlyServes ==
    ASSUME TypeOK, [Next]_vars, NEW t \in Tasks, pc[t] = "open", pc'[t] = "byteGauge"
    PROVE  \E k \in Keys : \E b \in Bytes[k] : record(t, k, b)
<1>1. ASSUME NEW u \in Tasks, NEW p, NEW a, Goto(u, p, a), p # "byteGauge" PROVE FALSE
  BY <1>1 DEF Goto, TypeOK
<1>2. ASSUME pc' = pc PROVE FALSE
  BY <1>2
<1>3. ASSUME NEW u \in Tasks,
             \/ admit_subscriber(u) \/ SetCountGauge(u) \/ Reap(u) \/ ClearGauge(u) \/ ReadCount(u)
             \/ LowerGauge(u) \/ SetByteGauge(u) \/ try_acquire_at(u)
      PROVE  FALSE
  BY <1>1, <1>3 DEF admit_subscriber, SetCountGauge, Reap, ClearGauge, ReadCount, LowerGauge,
                    SetByteGauge, try_acquire_at
<1>4. ASSUME NEW u \in Tasks, Admit(u) PROVE FALSE
  BY <1>1, <1>4 DEF Admit, try_increment, Increment
<1>5. ASSUME NEW u \in Tasks, Drop(u) PROVE FALSE
  <2>1. Goto(u, "idle", None) \/ Goto(u, "reap", None) \/ Goto(u, "readCount", None)
    BY <1>5 DEF Drop
  <2> QED
    BY <1>1, <2>1
<1>6. ASSUME NEW u \in Tasks, NEW c \in Costs, rate_limit_apply(u, c) PROVE FALSE
  <2>1. \E a : Goto(u, "idle", a) \/ Goto(u, "take", a)
    BY <1>6 DEF rate_limit_apply
  <2> QED
    BY <1>1, <2>1
<1>7. ASSUME NEW u \in Tasks, cache_accountant(u) PROVE FALSE
  BY <1>2, <1>7 DEF cache_accountant
<1>8. ASSUME Tick \/ mark_synced \/ (\E id \in Ids : Publish(id)) \/ UNCHANGED vars PROVE FALSE
  BY <1>2, <1>8 DEF Tick, mark_synced, Publish, vars
<1>9. ASSUME NEW u \in Tasks, NEW k \in Keys, NEW b \in Bytes[k], record(u, k, b)
      PROVE  record(t, k, b)
  <2>1. u = t
    BY <1>9 DEF record, Goto, TypeOK
  <2> QED
    BY <1>9, <2>1
<1> QED
  BY <1>3, <1>4, <1>5, <1>6, <1>7, <1>8, <1>9, Zenon DEF Next

\* A serve in enforce mode evicts the entries least recently served, down to the
\* budget or to the entry just served and no further (tenant_cache.rs evict_to).
THEOREM EvictionIsFair == Spec => EvictsOldestToBudget
<1> DEFINE P(t) ==
        mode = "enforce" /\ pc[t] = "open" /\ pc'[t] = "byteGauge" =>
              LET id   == Identity[t]
                  v    == view'[id]
                  gone == Held(view[id]) \ Held(v)
              IN  /\ acct[t] = 0 \/ v.total <= acct[t] \/ Cardinality(Held(v)) = 1
                  /\ \A j \in gone, k \in Held(v) : taken'[id].serves[j] < taken'[id].serves[k]
                  /\ gone # {} => \E j \in gone : v.total + view[id].bytes[j] > acct[t]
<1>1. ASSUME TypeOK, HistoryOK, LedgerInv, LedgerInv', [Next]_vars, NEW t \in Tasks PROVE P(t)
  <2> SUFFICES ASSUME mode = "enforce", pc[t] = "open", pc'[t] = "byteGauge" PROVE P(t)
    OBVIOUS
  <2>0. PICK k \in Keys : \E b \in Bytes[k] : record(t, k, b)
    BY <1>1, OnlyServes
  <2>1. PICK b \in Bytes[k] : record(t, k, b)
    BY <2>0
  <2> DEFINE id == Identity[t]
             gone == Held(view[id]) \ Held(view'[id])
  <2>2. /\ id \in Ids /\ k \in Held(view'[id])
        /\ acct[t] = 0 \/ view'[id].total <= acct[t] \/ Cardinality(Held(view'[id])) = 1
        /\ \A j \in gone, i \in Held(view'[id]) : view[id].tick[j] < view'[id].tick[i]
        /\ gone # {} => \E j \in gone : view'[id].total + view[id].bytes[j] > acct[t]
    BY <1>1, <2>1, RecordView
  <2>3. gone \subseteq Keys \ {k}
    BY <2>2 DEF Held
  <2>4. \A j \in gone : taken[id].serves[j] = view[id].tick[j]
    BY <1>1, <2>2 DEF LedgerInv
  <2>5. \A i \in Held(view'[id]) : taken'[id].serves[i] = view'[id].tick[i]
    BY <1>1, <2>2 DEF LedgerInv
  <2>6. \A j \in gone : taken'[id].serves[j] = taken[id].serves[j]
    BY <1>1, <2>1, <2>2, <2>3, RecordFacts
  <2>7. \A j \in gone, i \in Held(view'[id]) : taken'[id].serves[j] < taken'[id].serves[i]
    BY <2>2, <2>4, <2>5, <2>6
  <2> QED
    BY <2>2, <2>7
<1>2. TypeOK /\ HistoryOK /\ LedgerInv /\ LedgerInv' /\ [Next]_vars => [\A t \in Tasks : P(t)]_vars
  BY <1>1
<1> QED
  BY <1>2, LedgerInductive, PTL DEF Spec, EvictsOldestToBudget
=============================================================================
