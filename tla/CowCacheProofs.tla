--------------------------- MODULE CowCacheProofs ---------------------------
(***************************************************************************)
(* For any number of writers, readers, keys and batches, the copy-on-write *)
(* cache loses no update, keeps its gauge exact, gives every read one      *)
(* published map, and implements AtomicCache.                              *)
(***************************************************************************)
EXTENDS CowCache, SequenceTheorems, FiniteSetTheorems, TLAPS

\* The latest of a non-empty finite range of positions is the one just added.
LEMMA LatestOfExtended ==
    ASSUME NEW n \in Nat, NEW S, S \subseteq 1..n
    PROVE  Atomic!Latest(S \cup {n + 1}) = n + 1
<1> DEFINE T == S \cup {n + 1}
<1>1. n + 1 \in T /\ \A j \in T : j <= n + 1
  OBVIOUS
<1>2. ASSUME NEW i \in T, \A j \in T : j <= i
      PROVE  i = n + 1
  BY <1>1, <1>2
<1> QED
  BY <1>1, <1>2, Zenon DEF Atomic!Latest

\* No mutation applied: the clone is the map it was cloned from.
LEMMA LastWinsZero ==
    ASSUME NEW m \in Map, NEW muts
    PROVE  Atomic!LastWins(m, muts, 0) = m
BY DEF Atomic!LastWins, Atomic!Touching, Map, Atomic!Map

\* One more iteration of apply_batch's loop: overwriting the key of mutation
\* n + 1 turns the effect of the first n mutations into that of the first n + 1.
LEMMA LastWinsStep ==
    ASSUME NEW m \in Map, NEW muts \in Seq(Mutation), NEW n \in Nat, n < Len(muts)
    PROVE  Atomic!LastWins(m, muts, n + 1)
             = [Atomic!LastWins(m, muts, n) EXCEPT ![muts[n + 1].key] = muts[n + 1].entry]
<1> DEFINE key == muts[n + 1].key
           F == Atomic!LastWins(m, muts, n)
           G == Atomic!LastWins(m, muts, n + 1)
<1>5. n + 1 \in 1..Len(muts)
  BY LenProperties
<1>6. muts[n + 1] \in Mutation
  BY <1>5, ElementOfSeq
<1>1. key \in Keys
  BY <1>6 DEF Mutation, Atomic!Mutation
<1>2. F = [k \in Keys |-> F[k]] /\ G = [k \in Keys |-> G[k]]
  BY DEF Atomic!LastWins
<1>3. G[key] = muts[n + 1].entry
  <2>1. Atomic!Touching(muts, n + 1, key) = Atomic!Touching(muts, n, key) \cup {n + 1}
    BY DEF Atomic!Touching
  <2>2. Atomic!Touching(muts, n, key) \subseteq 1..n
    BY DEF Atomic!Touching
  <2>3. Atomic!Latest(Atomic!Touching(muts, n + 1, key)) = n + 1
    BY <2>1, <2>2, LatestOfExtended
  <2> QED
    BY <1>1, <2>1, <2>3 DEF Atomic!LastWins
<1>4. ASSUME NEW k \in Keys, k # key
      PROVE  G[k] = F[k]
  <2>1. Atomic!Touching(muts, n + 1, k) = Atomic!Touching(muts, n, k)
    BY <1>4 DEF Atomic!Touching
  <2> QED
    BY <2>1 DEF Atomic!LastWins
<1> QED
  BY <1>1, <1>2, <1>3, <1>4

\* mark_all_stale keeps a map a map.
LEMMA StaleType ==
    ASSUME NEW m \in Map
    PROVE  Atomic!Stale(m) \in Map
<1>1. ASSUME NEW k \in Keys, m[k] # Absent
      PROVE  [m[k] EXCEPT !.stale = TRUE] \in Entry
  BY <1>1 DEF Map, Atomic!Map, Entry, Atomic!Entry
<1> QED
  BY <1>1 DEF Atomic!Stale, Map, Atomic!Map, Entry

\* What a reader collects is pairs of a key and an entry.
LEMMA PairsType ==
    ASSUME NEW m \in Map, NEW ks \in SUBSET Keys
    PROVE  Pairs(m, ks) \in SUBSET (Keys \X Entry)
BY DEF Pairs, Map, Atomic!Map, Entry

\* Visiting more keys adds their pairs.
LEMMA PairsUnion ==
    ASSUME NEW m, NEW A, NEW B
    PROVE  Pairs(m, A \cup B) = Pairs(m, A) \cup Pairs(m, B)
BY DEF Pairs

\* The empty map, what a cache starts with and a finished call's locals hold.
LEMMA EmptyMapType == EmptyMap \in Map
BY DEF EmptyMap, Map, Atomic!Map

\* A call makes a natural number of loop iterations.
LEMMA WorkType ==
    ASSUME NEW o \in Op
    PROVE  Work(o) \in Nat
BY CacheAssumption, LenProperties DEF Work, Op, Atomic!Op

\* Every iteration of apply_batch's loop has a mutation to apply.
LEMMA MutationType ==
    ASSUME NEW o \in Op, ~o.markStale, NEW n \in Nat, n < Len(o.muts)
    PROVE  o.muts[n + 1] \in Mutation
<1>1. o.muts \in Seq(Mutation)
  BY CacheAssumption DEF Op, Atomic!Op
<1>2. n + 1 \in 1..Len(o.muts)
  BY <1>1, LenProperties
<1> QED
  BY <1>1, <1>2, ElementOfSeq

\* The inductive invariant holds before the first call.
LEMMA InitIndInv == Init => IndInv
<1> SUFFICES ASSUME Init PROVE IndInv
  OBVIOUS
<1>1. EmptyMap \in Map
  BY EmptyMapType
<1>2. Size(EmptyMap) = 0
  <2>1. {k \in Keys : EmptyMap[k] # Absent} = {}
    BY DEF EmptyMap
  <2> QED
    BY <2>1, FS_EmptySet DEF Size
<1>3. TypeOK
  BY <1>1 DEF Init, TypeOK
<1>4. LockHeld /\ NoLostUpdate /\ NothingDone /\ StoredIsPublished
  BY CacheAssumption DEF Init, LockHeld, NoLostUpdate, NothingDone, StoredIsPublished, Critical
<1>5. GaugeTracks /\ ReadProgress
  BY <1>2 DEF Init, GaugeTracks, ReadProgress
<1> QED
  BY <1>3, <1>4, <1>5 DEF IndInv

\* A write call starts: update, remove, mark_all_stale or apply_batch.
LEMMA BeginStep ==
    ASSUME IndInv, NEW w \in Writers, NEW o \in Op, Begin(w, o)
    PROVE  IndInv'
<1> USE DEF IndInv, Begin, rvars
<1>1. TypeOK'
  BY DEF TypeOK
<1>2. LockHeld'
  BY DEF TypeOK, LockHeld, Critical
<1>3. NoLostUpdate'
  BY DEF TypeOK, LockHeld, NoLostUpdate, Critical
<1>4. NothingDone'
  BY DEF TypeOK, NothingDone
<1>5. StoredIsPublished'
  BY DEF TypeOK, LockHeld, StoredIsPublished, Critical
<1>6. GaugeTracks'
  BY DEF TypeOK, LockHeld, GaugeTracks, StoredIsPublished, Critical
<1>7. ReadProgress'
  BY DEF TypeOK, ReadProgress
<1> QED
  BY <1>1, <1>2, <1>3, <1>4, <1>5, <1>6, <1>7

\* write_lock is taken, by one writer at a time.
LEMMA LockStep ==
    ASSUME IndInv, NEW w \in Writers, Lock(w)
    PROVE  IndInv'
<1> USE DEF IndInv, Lock, rvars
<1>1. TypeOK'
  BY DEF TypeOK
<1>2. LockHeld'
  BY CacheAssumption DEF TypeOK, LockHeld, Critical
<1>3. NoLostUpdate'
  BY DEF TypeOK, LockHeld, NoLostUpdate, Critical
<1>4. NothingDone'
  BY DEF TypeOK, NothingDone
<1>5. StoredIsPublished'
  BY DEF TypeOK, LockHeld, StoredIsPublished, Critical
<1>6. GaugeTracks'
  BY DEF TypeOK, LockHeld, GaugeTracks, StoredIsPublished, Critical
<1>7. ReadProgress'
  BY DEF TypeOK, ReadProgress
<1> QED
  BY <1>1, <1>2, <1>3, <1>4, <1>5, <1>6, <1>7

\* The writer clones the map it finds published.
LEMMA CloneStep ==
    ASSUME IndInv, NEW w \in Writers, LoadAndClone(w)
    PROVE  IndInv'
<1> USE DEF IndInv, LoadAndClone, rvars
<1>1. TypeOK'
  BY DEF TypeOK
<1>2. LockHeld'
  BY DEF TypeOK, LockHeld, Critical
<1>3. NoLostUpdate'
  <2>1. op[w] \in Op /\ done[w] = 0
    BY DEF TypeOK, LockHeld, NothingDone
  <2>2. Atomic!LastWins(inner, op[w].muts, 0) = inner
    BY LastWinsZero DEF TypeOK
  <2>3. 0 <= Work(op[w])
    BY <2>1, WorkType
  <2> QED
    BY <2>1, <2>2, <2>3 DEF TypeOK, LockHeld, NoLostUpdate, Critical
<1>4. NothingDone'
  BY DEF TypeOK, NothingDone
<1>5. StoredIsPublished'
  BY DEF TypeOK, LockHeld, StoredIsPublished, Critical
<1>6. GaugeTracks'
  BY DEF TypeOK, LockHeld, GaugeTracks, StoredIsPublished, Critical
<1>7. ReadProgress'
  BY DEF TypeOK, ReadProgress
<1> QED
  BY <1>1, <1>2, <1>3, <1>4, <1>5, <1>6, <1>7

\* One iteration of the mutation loop changes the writer's own clone.
LEMMA MutateStep ==
    ASSUME IndInv, NEW w \in Writers, Mutate(w)
    PROVE  IndInv'
<1> USE DEF IndInv, Mutate, rvars
<1>1. TypeOK'
  <2>1. next'[w] \in Map
    <3>1. CASE op[w].markStale
      BY <3>1, StaleType DEF TypeOK
    <3>2. CASE ~op[w].markStale
      <4>1. op[w].muts[done[w] + 1] \in Mutation
        BY <3>2, MutationType DEF TypeOK, LockHeld, Work
      <4> QED
        BY <3>2, <4>1 DEF TypeOK, Map, Atomic!Map, Mutation, Atomic!Mutation, Atomic!Fresh, Atomic!Entry
    <3> QED
      BY <3>1, <3>2
  <2> QED
    BY <2>1 DEF TypeOK
<1>2. LockHeld'
  BY DEF TypeOK, LockHeld, Critical
<1>3. NoLostUpdate'
  <2>1. op[w] \in Op /\ Work(op[w]) \in Nat /\ done[w] \in Nat
    BY WorkType DEF TypeOK, LockHeld
  <2>2. CASE op[w].markStale
    <3>1. done[w] = 0 /\ next[w] = inner
      BY <2>1, <2>2 DEF Work, NoLostUpdate
    <3> QED
      BY <2>1, <2>2, <3>1 DEF TypeOK, LockHeld, NoLostUpdate, Critical, Work
  <2>3. CASE ~op[w].markStale
    <3>1. Atomic!LastWins(inner, op[w].muts, done[w] + 1) = next'[w]
      <4>1. op[w].muts \in Seq(Mutation) /\ done[w] < Len(op[w].muts)
        BY <2>1, <2>3, CacheAssumption DEF Work, Op, Atomic!Op
      <4>2. next[w] = Atomic!LastWins(inner, op[w].muts, done[w])
        BY <2>3 DEF NoLostUpdate
      <4>3. inner \in Map
        BY DEF TypeOK
      <4>4. Atomic!LastWins(inner, op[w].muts, done[w] + 1)
              = [next[w] EXCEPT ![op[w].muts[done[w] + 1].key] = op[w].muts[done[w] + 1].entry]
        BY <2>1, <4>1, <4>2, <4>3, LastWinsStep
      <4> QED
        BY <2>3, <4>4 DEF TypeOK
    <3> QED
      BY <2>1, <2>3, <3>1 DEF TypeOK, LockHeld, NoLostUpdate, Critical
  <2> QED
    BY <2>2, <2>3
<1>4. NothingDone'
  BY DEF TypeOK, NothingDone
<1>5. StoredIsPublished'
  BY DEF TypeOK, LockHeld, StoredIsPublished, Critical
<1>6. GaugeTracks'
  BY DEF TypeOK, LockHeld, GaugeTracks, StoredIsPublished, Critical
<1>7. ReadProgress'
  BY DEF TypeOK, ReadProgress
<1> QED
  BY <1>1, <1>2, <1>3, <1>4, <1>5, <1>6, <1>7

\* The clone is published.
LEMMA StoreStep ==
    ASSUME IndInv, NEW w \in Writers, Store(w)
    PROVE  IndInv'
<1> USE DEF IndInv, Store, rvars
<1>1. TypeOK'
  BY DEF TypeOK
<1>2. LockHeld'
  BY DEF TypeOK, LockHeld, Critical
<1>3. NoLostUpdate'
  BY DEF TypeOK, LockHeld, NoLostUpdate, Critical
<1>4. NothingDone'
  BY DEF TypeOK, NothingDone
<1>5. StoredIsPublished'
  BY DEF TypeOK, LockHeld, StoredIsPublished, Critical
<1>6. GaugeTracks'
  BY DEF TypeOK, LockHeld, GaugeTracks, StoredIsPublished, Critical
<1>7. ReadProgress'
  BY DEF TypeOK, ReadProgress
<1> QED
  BY <1>1, <1>2, <1>3, <1>4, <1>5, <1>6, <1>7

\* record_write sets the gauge from the published map.
LEMMA RecordStep ==
    ASSUME IndInv, NEW w \in Writers, record_write(w)
    PROVE  IndInv'
<1> USE DEF IndInv, record_write, rvars
<1>1. TypeOK'
  BY DEF TypeOK
<1>2. LockHeld'
  BY DEF TypeOK, LockHeld, Critical
<1>3. NoLostUpdate'
  BY DEF TypeOK, LockHeld, NoLostUpdate, Critical
<1>4. NothingDone'
  BY DEF TypeOK, NothingDone
<1>5. StoredIsPublished'
  BY DEF TypeOK, LockHeld, StoredIsPublished, Critical
<1>6. GaugeTracks'
  BY DEF TypeOK, LockHeld, GaugeTracks, StoredIsPublished, Critical
<1>7. ReadProgress'
  BY DEF TypeOK, ReadProgress
<1> QED
  BY <1>1, <1>2, <1>3, <1>4, <1>5, <1>6, <1>7

\* write_lock is released.
LEMMA LeaveStep ==
    ASSUME IndInv, NEW w \in Writers, Leave(w), pc[w] \in {"locked", "cloned", "recorded"}
    PROVE  IndInv'
<1> USE DEF IndInv, Leave, rvars
<1>1. TypeOK'
  BY EmptyMapType DEF TypeOK
<1>2. LockHeld'
  BY CacheAssumption DEF TypeOK, LockHeld, Critical
<1>3. NoLostUpdate'
  BY DEF TypeOK, LockHeld, NoLostUpdate, Critical
<1>4. NothingDone'
  BY DEF TypeOK, NothingDone
<1>5. StoredIsPublished'
  BY DEF TypeOK, LockHeld, StoredIsPublished, Critical
<1>6. GaugeTracks'
  BY DEF TypeOK, LockHeld, GaugeTracks, StoredIsPublished, Critical
<1>7. ReadProgress'
  BY DEF TypeOK, ReadProgress
<1> QED
  BY <1>1, <1>2, <1>3, <1>4, <1>5, <1>6, <1>7

\* get or all_in_namespace starts.
LEMMA BeginReadStep ==
    ASSUME IndInv, NEW r \in Readers, NEW ks \in SUBSET Keys, BeginRead(r, ks)
    PROVE  IndInv'
<1> USE DEF IndInv, BeginRead, wvars
<1>1. TypeOK'
  BY DEF TypeOK
<1>2. LockHeld'
  BY DEF TypeOK, LockHeld, Critical
<1>3. NoLostUpdate'
  BY DEF TypeOK, LockHeld, NoLostUpdate, Critical
<1>4. NothingDone'
  BY DEF TypeOK, NothingDone
<1>5. StoredIsPublished'
  BY DEF TypeOK, LockHeld, StoredIsPublished, Critical
<1>6. GaugeTracks'
  BY DEF TypeOK, LockHeld, GaugeTracks, StoredIsPublished, Critical
<1>7. ReadProgress'
  BY DEF TypeOK, ReadProgress
<1> QED
  BY <1>1, <1>2, <1>3, <1>4, <1>5, <1>6, <1>7

\* A reader pins the map that is published now.
LEMMA LoadStep ==
    ASSUME IndInv, NEW r \in Readers, Load(r)
    PROVE  IndInv'
<1> USE DEF IndInv, Load, wvars
<1>1. TypeOK'
  BY DEF TypeOK
<1>2. LockHeld'
  BY DEF TypeOK, LockHeld, Critical
<1>3. NoLostUpdate'
  BY DEF TypeOK, LockHeld, NoLostUpdate, Critical
<1>4. NothingDone'
  BY DEF TypeOK, NothingDone
<1>5. StoredIsPublished'
  BY DEF TypeOK, LockHeld, StoredIsPublished, Critical
<1>6. GaugeTracks'
  BY DEF TypeOK, LockHeld, GaugeTracks, StoredIsPublished, Critical
<1>7. ReadProgress'
  <2>1. Pairs(guard'[r], want[r] \ todo'[r]) = {}
    BY DEF TypeOK, Pairs
  <2> QED
    BY <2>1 DEF TypeOK, ReadProgress
<1> QED
  BY <1>1, <1>2, <1>3, <1>4, <1>5, <1>6, <1>7

\* A reader visits one more key of the map it pinned.
LEMMA VisitStep ==
    ASSUME IndInv, NEW r \in Readers, NEW k \in Keys, Visit(r, k)
    PROVE  IndInv'
<1> USE DEF IndInv, Visit, wvars
<1>1. TypeOK'
  BY PairsType DEF TypeOK
<1>2. LockHeld'
  BY DEF TypeOK, LockHeld, Critical
<1>3. NoLostUpdate'
  BY DEF TypeOK, LockHeld, NoLostUpdate, Critical
<1>4. NothingDone'
  BY DEF TypeOK, NothingDone
<1>5. StoredIsPublished'
  BY DEF TypeOK, LockHeld, StoredIsPublished, Critical
<1>6. GaugeTracks'
  BY DEF TypeOK, LockHeld, GaugeTracks, StoredIsPublished, Critical
<1>7. ReadProgress'
  <2>1. /\ guard[r] \in Map /\ want[r] \in SUBSET Keys /\ todo[r] \in SUBSET Keys
        /\ k \in todo[r] /\ todo[r] \subseteq want[r]
        /\ out[r] = Pairs(guard[r], want[r] \ todo[r])
    BY DEF TypeOK, ReadProgress
  <2>2. want[r] \ (todo[r] \ {k}) = (want[r] \ todo[r]) \cup {k}
    BY <2>1
  <2>3. Pairs(guard[r], want[r] \ (todo[r] \ {k}))
          = Pairs(guard[r], want[r] \ todo[r]) \cup Pairs(guard[r], {k})
    BY <2>2, PairsUnion
  <2> QED
    BY <2>1, <2>3 DEF TypeOK, ReadProgress
<1> QED
  BY <1>1, <1>2, <1>3, <1>4, <1>5, <1>6, <1>7

\* A reader returns what it collected.
LEMMA ReturnStep ==
    ASSUME IndInv, NEW r \in Readers, Return(r)
    PROVE  IndInv'
<1> USE DEF IndInv, Return, wvars
<1>1. TypeOK'
  BY EmptyMapType DEF TypeOK
<1>2. LockHeld'
  BY DEF TypeOK, LockHeld, Critical
<1>3. NoLostUpdate'
  BY DEF TypeOK, LockHeld, NoLostUpdate, Critical
<1>4. NothingDone'
  BY DEF TypeOK, NothingDone
<1>5. StoredIsPublished'
  BY DEF TypeOK, LockHeld, StoredIsPublished, Critical
<1>6. GaugeTracks'
  BY DEF TypeOK, LockHeld, GaugeTracks, StoredIsPublished, Critical
<1>7. ReadProgress'
  BY DEF TypeOK, ReadProgress
<1> QED
  BY <1>1, <1>2, <1>3, <1>4, <1>5, <1>6, <1>7

\* Each of the four write calls is the start of an operation of the atomic map.
LEMMA WriteIsBegin ==
    ASSUME NEW w \in Writers, Write(w)
    PROVE  \E o \in Op : Begin(w, o)
<1>1. ASSUME NEW b \in Batches PROVE [markStale |-> FALSE, muts |-> b] \in Op
  BY DEF Op, Atomic!Op
<1>2. ASSUME NEW k \in Keys, NEW e \in Fresh \cup {Absent}
      PROVE  <<[key |-> k, entry |-> e]>> \in Batches
  BY CacheAssumption DEF Mutation, Atomic!Mutation, Fresh
<1>3. [markStale |-> TRUE, muts |-> << >>] \in Op
  BY CacheAssumption DEF Op, Atomic!Op
<1> QED
  BY <1>1, <1>2, <1>3 DEF Write, update, remove, mark_all_stale, apply_batch

\* Every step of the algorithm keeps the inductive invariant.
LEMMA NextIndInv == IndInv /\ [Next]_vars => IndInv'
<1> SUFFICES ASSUME IndInv, [Next]_vars PROVE IndInv'
  OBVIOUS
<1>1. CASE \E w \in Writers : Write(w)
  <2> PICK w \in Writers : Write(w)
    BY <1>1
  <2>1. \E o \in Op : Begin(w, o)
    BY WriteIsBegin
  <2> QED
    BY <2>1, BeginStep
<1>2. CASE \E w \in Writers : WriterStep(w)
  BY <1>2, LockStep, CloneStep, MutateStep, StoreStep, RecordStep, LeaveStep
  DEF WriterStep, Unlock, Panic
<1>3. CASE \E r \in Readers : Request(r)
  BY <1>3, BeginReadStep DEF Request, get, all_in_namespace, InNamespace
<1>4. CASE \E r \in Readers : ReaderStep(r)
  BY <1>4, LoadStep, VisitStep, ReturnStep DEF ReaderStep
<1>5. CASE UNCHANGED vars
  BY <1>5 DEF vars, IndInv, TypeOK, LockHeld, NoLostUpdate, NothingDone,
     StoredIsPublished, GaugeTracks, ReadProgress
<1> QED
  BY <1>1, <1>2, <1>3, <1>4, <1>5 DEF Next

\* The inductive invariant implies each of the properties the runs check.
LEMMA IndInvImplies == IndInv => TypeOK /\ LockHeld /\ NoLostUpdate /\ GaugeAgrees /\ ReadIsSnapshot
<1> SUFFICES ASSUME IndInv
             PROVE  TypeOK /\ LockHeld /\ NoLostUpdate /\ GaugeAgrees /\ ReadIsSnapshot
  OBVIOUS
<1>1. GaugeAgrees
  BY CacheAssumption DEF IndInv, GaugeAgrees, GaugeTracks, LockHeld, Critical
<1>2. ReadIsSnapshot
  <2> SUFFICES ASSUME NEW r \in Readers, rpc[r] = "iterating", todo[r] = {}
               PROVE  out[r] = Pairs(guard[r], want[r])
    BY DEF ReadIsSnapshot
  <2>1. want[r] \ todo[r] = want[r]
    BY DEF IndInv, TypeOK
  <2> QED
    BY <2>1 DEF IndInv, ReadProgress
<1> QED
  BY <1>1, <1>2 DEF IndInv

\* Type correctness of the cache, for any writers, readers, keys and batches.
THEOREM TypeCorrect == Spec => []TypeOK
BY InitIndInv, NextIndInv, IndInvImplies, PTL DEF Spec

\* No writer's update is ever lost: under write_lock the clone is the published
\* map plus the call's own mutations, whatever the other writers do.
THEOREM UpdatesAreNeverLost == Spec => [](LockHeld /\ NoLostUpdate)
BY InitIndInv, NextIndInv, IndInvImplies, PTL DEF Spec

\* The konfig_cache_entries gauge is exact whenever no writer is active.
THEOREM GaugeIsExact == Spec => []GaugeAgrees
BY InitIndInv, NextIndInv, IndInvImplies, PTL DEF Spec

\* all_in_namespace returns one published map's entries: reads never tear.
THEOREM ReadsNeverTear == Spec => []ReadIsSnapshot
BY InitIndInv, NextIndInv, IndInvImplies, PTL DEF Spec

-----------------------------------------------------------------------------
(* Refinement: Begin is Call, Store is Commit, Panic is Abort, Load is     *)
(* Read, Return is Answer, every other step leaves the atomic map alone.   *)

\* The empty cache is the empty atomic map.
LEMMA InitRefines == Init => Atomic!AInit
BY DEF Init, Atomic!AInit, EmptyMap

\* A finished mutation loop has computed the call's whole effect.
LEMMA LoopComputesEffect ==
    ASSUME IndInv, NEW w \in Writers, Store(w)
    PROVE  op[w] \in Op /\ next[w] = Atomic!Effect(inner, op[w])
<1>1. op[w] \in Op /\ pc[w] = "cloned" /\ done[w] = Work(op[w])
  BY DEF IndInv, TypeOK, LockHeld, Store
<1>2. CASE op[w].markStale
  BY <1>1, <1>2 DEF IndInv, NoLostUpdate, Work, Atomic!Effect
<1>3. CASE ~op[w].markStale
  BY <1>1, <1>3 DEF IndInv, NoLostUpdate, Work, Atomic!Effect
<1> QED
  BY <1>1, <1>2, <1>3

\* Every step of the cache is a step of the atomic map or leaves it alone.
LEMMA NextRefines == IndInv /\ [Next]_vars => [Atomic!ANext]_(Atomic!avars)
<1> SUFFICES ASSUME IndInv, [Next]_vars PROVE Atomic!ANext \/ UNCHANGED Atomic!avars
  OBVIOUS
<1>1. ASSUME NEW w \in Writers, NEW o \in Op, Begin(w, o) PROVE Atomic!Call(w, o)
  BY <1>1 DEF Begin, rvars, Atomic!Call, IndInv, TypeOK
<1>2. ASSUME NEW w \in Writers, Store(w) PROVE Atomic!Commit(w)
  <2>1. op[w] \in Op /\ next[w] = Atomic!Effect(inner, op[w])
    BY <1>2, LoopComputesEffect
  <2> QED
    BY <1>2, <2>1, CacheAssumption DEF Store, rvars, Atomic!Commit, IndInv, TypeOK
<1>3. ASSUME NEW w \in Writers, Panic(w) PROVE Atomic!Abort(w)
  <2>1. op[w] \in Op
    BY <1>3 DEF Panic, IndInv, LockHeld, TypeOK
  <2> QED
    BY <1>3, <2>1, CacheAssumption DEF Panic, Leave, rvars, Atomic!Abort, IndInv, TypeOK
<1>4. ASSUME NEW w \in Writers,
             Lock(w) \/ LoadAndClone(w) \/ Mutate(w) \/ record_write(w) \/ Unlock(w)
      PROVE  UNCHANGED Atomic!avars
  BY <1>4 DEF Lock, LoadAndClone, Mutate, record_write, Unlock, Leave, rvars,
     Atomic!avars, IndInv, TypeOK
<1>5. ASSUME NEW r \in Readers, Load(r) PROVE Atomic!Read(r)
  BY <1>5 DEF Load, wvars, Atomic!Read, IndInv, TypeOK
<1>6. ASSUME NEW r \in Readers, Return(r) PROVE Atomic!Answer(r)
  <2>1. rpc[r] = "iterating" /\ guard[r] # NoOp
    BY <1>6, CacheAssumption DEF Return, IndInv, TypeOK
  <2>2. UNCHANGED wvars /\ rpc' = [rpc EXCEPT ![r] = "idle"]
        /\ guard' = [guard EXCEPT ![r] = EmptyMap]
    BY <1>6 DEF Return
  <2> QED
    BY <2>1, <2>2 DEF wvars, Atomic!Answer, IndInv, TypeOK
<1>7. ASSUME NEW r \in Readers, NEW ks, BeginRead(r, ks) PROVE UNCHANGED Atomic!avars
  BY <1>7 DEF BeginRead, wvars, Atomic!avars, IndInv, TypeOK
<1>8. ASSUME NEW r \in Readers, NEW k \in Keys, Visit(r, k) PROVE UNCHANGED Atomic!avars
  BY <1>8 DEF Visit, wvars, Atomic!avars, IndInv, TypeOK
<1>9. ASSUME UNCHANGED vars PROVE UNCHANGED Atomic!avars
  BY <1>9 DEF vars, Atomic!avars
<1> QED
  BY <1>1, <1>2, <1>3, <1>4, <1>5, <1>6, <1>7, <1>8, <1>9, WriteIsBegin
  DEF Next, WriterStep, ReaderStep, Request, get, all_in_namespace, Atomic!ANext, Op

\* The copy-on-write cache implements the atomic map.
THEOREM CowCacheRefines == Spec => ImplementsAtomicCache
BY InitIndInv, NextIndInv, InitRefines, NextRefines, PTL
DEF Spec, ImplementsAtomicCache, Atomic!ASpec
=============================================================================
