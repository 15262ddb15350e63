---------------------- MODULE NamespaceLifecycleProofs ----------------------
(***************************************************************************)
(* For any subscribers and any number of watches: a watch that was not     *)
(* created in the middle of another's teardown is never left in the map    *)
(* without a task, no watch task leaks unless one was, and subscribers     *)
(* read the buffer the task fills.                                         *)
(***************************************************************************)
EXTENDS NamespaceLifecycle, TLAPS

\* No watch yet.
LEMMA InitInv == Init => IndInv
<1> SUFFICES ASSUME Init PROVE IndInv
  OBVIOUS
<1>1. TypeOK
  <2>1. idle \in BOOLEAN
    BY Zenon DEF Init
  <2>2. /\ entry \in 0..MaxWatches /\ handle \in 0..MaxWatches /\ created \in 0..MaxWatches
        /\ buffers \in Nat /\ bufEntry \in 0..buffers
    BY LifecycleAssumption DEF Init
  <2>3. /\ task \in [Watches -> {"none", "running", "aborting", "ended", "gone"}]
        /\ fills \in [Watches -> Nat]
    BY DEF Init
  <2>4. /\ pc \in [Subs -> {"out", "cloned", "handed", "inserted", "spawned", "on"}]
        /\ ring \in [Subs -> 0..MaxWatches] /\ reads \in [Subs -> Nat]
        /\ \A s \in Subs : pc[s] = "out"
    BY LifecycleAssumption DEF Init
  <2>5. gc = "wait" /\ overtaken = {} /\ torn = {}
    BY DEF Init
  <2> QED
    BY <2>1, <2>2, <2>3, <2>4, <2>5 DEF TypeOK
<1>2. NumbersInv /\ EntryInv /\ BufferInv
  BY DEF Init, NumbersInv, EntryInv, BufferInv
<1>3. OrderInv
  BY DEF Init, OrderInv, Creating
<1> QED
  BY <1>1, <1>2, <1>3 DEF IndInv

\* Every step keeps the types.
LEMMA NextType == TypeOK /\ [Next]_vars => TypeOK'
<1> SUFFICES ASSUME TypeOK, [Next]_vars PROVE TypeOK'
  OBVIOUS
<1>1. ASSUME NEW s \in Subs, FastClone(s) PROVE TypeOK'
  BY <1>1 DEF FastClone, maps, TypeOK
<1>2. ASSUME NEW s \in Subs, FastBuffer(s) PROVE TypeOK'
  BY <1>2 DEF FastBuffer, HandBuffer, TypeOK
<1>3. ASSUME NEW s \in Subs, FastAttach(s) PROVE TypeOK'
  BY <1>3 DEF FastAttach, maps, TypeOK
<1>4. ASSUME NEW s \in Subs, SlowOccupied(s) PROVE TypeOK'
  BY <1>4 DEF SlowOccupied, HandBuffer, TypeOK
<1>5. ASSUME NEW s \in Subs, SlowInsert(s) PROVE TypeOK'
  BY <1>5, LifecycleAssumption DEF SlowInsert, TypeOK, Watches
<1>6. ASSUME NEW s \in Subs, SlowSpawn(s) PROVE TypeOK'
  <2> DEFINE n == IF bufEntry = 0 THEN buffers + 1 ELSE bufEntry
  <2>1. /\ buffers \in Nat /\ bufEntry \in 0..buffers
        /\ buffers' = IF bufEntry = 0 THEN buffers + 1 ELSE buffers
        /\ bufEntry' = n /\ reads' = [reads EXCEPT ![s] = n] /\ pc' = [pc EXCEPT ![s] = "spawned"]
    BY <1>6 DEF SlowSpawn, HandBuffer, TypeOK
  <2>2. n \in 1..buffers' /\ n \in Nat /\ buffers' \in Nat /\ buffers <= buffers'
    BY <2>1
  <2>3. reads'[s] = n
    BY <2>1 DEF TypeOK
  <2> HIDE DEF n
  <2>4. fills' \in [Watches -> Nat] /\ reads' \in [Subs -> Nat]
    BY <1>6, <2>1, <2>2, <2>3 DEF SlowSpawn, TypeOK
  <2>5. task' \in [Watches -> {"none", "running", "aborting", "ended", "gone"}]
    BY <1>6 DEF SlowSpawn, TypeOK
  <2>6. \A r \in Subs : pc'[r] \in {"handed", "spawned", "on"} => reads'[r] \in 1..buffers'
    BY <2>1, <2>2 DEF TypeOK
  <2>7. pc' \in [Subs -> {"out", "cloned", "handed", "inserted", "spawned", "on"}]
    BY <2>1 DEF TypeOK
  <2>8. bufEntry' \in 0..buffers'
    BY <2>1, <2>2
  <2> QED
    BY <1>6, <2>2, <2>4, <2>5, <2>6, <2>7, <2>8 DEF SlowSpawn, TypeOK
<1>7. ASSUME NEW s \in Subs, SlowHandle(s) PROVE TypeOK'
  BY <1>7 DEF SlowHandle, TypeOK
<1>8. ASSUME NEW s \in Subs, pc[s] = "on", Out(s) PROVE TypeOK'
  BY <1>8, LifecycleAssumption DEF Out, maps, TypeOK
<1>9. ASSUME NEW w \in Watches, WatcherEnds(w) PROVE TypeOK'
  BY <1>9, LifecycleAssumption DEF WatcherEnds, subVars, TypeOK
<1>10. ASSUME NEW w \in Watches, WatcherGone(w) PROVE TypeOK'
  BY <1>10 DEF WatcherGone, DropBuffer, subVars, TypeOK, Watches
<1>11. ASSUME NEW w \in Watches, AbortTakes(w) PROVE TypeOK'
  BY <1>11 DEF AbortTakes, maps, subVars, TypeOK
<1>12. ASSUME GcScan PROVE TypeOK'
  BY <1>12 DEF GcScan, subVars, TypeOK
<1>13. ASSUME GcRemoveIf PROVE TypeOK'
  <2>1. entry' \in 0..MaxWatches /\ gc' \in {"wait", "removed"}
    BY <1>13, LifecycleAssumption DEF GcRemoveIf, TypeOK
  <2>2. idle' \in BOOLEAN
    BY <1>13, Zenon DEF GcRemoveIf, TypeOK
  <2> QED
    BY <1>13, <2>1, <2>2 DEF GcRemoveIf, subVars, TypeOK
<1>14. ASSUME GcAbort PROVE TypeOK'
  BY <1>14, LifecycleAssumption DEF GcAbort, subVars, TypeOK
<1>15. ASSUME GcBuffer PROVE TypeOK'
  BY <1>15 DEF GcBuffer, DropBuffer, subVars, TypeOK, Watches
<1>16. ASSUME GcIdle PROVE TypeOK'
  BY <1>16 DEF GcIdle, subVars, TypeOK
<1>17. ASSUME UNCHANGED vars PROVE TypeOK'
  BY <1>17 DEF vars, maps, subVars, TypeOK
<1> QED
  BY <1>1, <1>2, <1>3, <1>4, <1>5, <1>6, <1>7, <1>8, <1>9, <1>10, <1>11, <1>12, <1>13, <1>14, <1>15, <1>16, <1>17
  DEF Next, Subscribe, Attaching, Sweep, Leave, SeesClosed

\* A new watch takes the next number.
LEMMA NextNumbers == TypeOK /\ NumbersInv /\ [Next]_vars => NumbersInv'
<1> SUFFICES ASSUME TypeOK, NumbersInv, [Next]_vars PROVE NumbersInv'
  OBVIOUS
<1>1. ASSUME NEW s \in Subs, FastClone(s) PROVE NumbersInv'
  BY <1>1 DEF FastClone, maps, TypeOK, NumbersInv
<1>2. ASSUME NEW s \in Subs, FastBuffer(s) PROVE NumbersInv'
  BY <1>2 DEF FastBuffer, HandBuffer, NumbersInv
<1>3. ASSUME NEW s \in Subs, FastAttach(s) PROVE NumbersInv'
  BY <1>3 DEF FastAttach, maps, NumbersInv
<1>4. ASSUME NEW s \in Subs, SlowOccupied(s) PROVE NumbersInv'
  BY <1>4 DEF SlowOccupied, HandBuffer, TypeOK, NumbersInv
<1>5. ASSUME NEW s \in Subs, SlowInsert(s) PROVE NumbersInv'
  BY <1>5 DEF SlowInsert, TypeOK, NumbersInv, Watches
<1>6. ASSUME NEW s \in Subs, SlowSpawn(s) PROVE NumbersInv'
  BY <1>6 DEF SlowSpawn, HandBuffer, TypeOK, NumbersInv
<1>7. ASSUME NEW s \in Subs, SlowHandle(s) PROVE NumbersInv'
  BY <1>7 DEF SlowHandle, NumbersInv
<1>8. ASSUME NEW s \in Subs, pc[s] = "on", Out(s) PROVE NumbersInv'
  BY <1>8 DEF Out, maps, TypeOK, NumbersInv
<1>9. ASSUME NEW w \in Watches, WatcherEnds(w) PROVE NumbersInv'
  BY <1>9 DEF WatcherEnds, subVars, TypeOK, NumbersInv
<1>10. ASSUME NEW w \in Watches, WatcherGone(w) PROVE NumbersInv'
  BY <1>10 DEF WatcherGone, DropBuffer, subVars, NumbersInv
<1>11. ASSUME NEW w \in Watches, AbortTakes(w) PROVE NumbersInv'
  BY <1>11 DEF AbortTakes, maps, subVars, NumbersInv
<1>12. ASSUME GcScan PROVE NumbersInv'
  BY <1>12 DEF GcScan, subVars, NumbersInv
<1>13. ASSUME GcRemoveIf PROVE NumbersInv'
  BY <1>13 DEF GcRemoveIf, subVars, TypeOK, NumbersInv
<1>14. ASSUME GcAbort PROVE NumbersInv'
  BY <1>14 DEF GcAbort, subVars, NumbersInv
<1>15. ASSUME GcBuffer PROVE NumbersInv'
  BY <1>15 DEF GcBuffer, DropBuffer, subVars, NumbersInv
<1>16. ASSUME GcIdle PROVE NumbersInv'
  BY <1>16 DEF GcIdle, subVars, NumbersInv
<1>17. ASSUME UNCHANGED vars PROVE NumbersInv'
  BY <1>17 DEF vars, maps, subVars, NumbersInv
<1> QED
  BY <1>1, <1>2, <1>3, <1>4, <1>5, <1>6, <1>7, <1>8, <1>9, <1>10, <1>11, <1>12, <1>13, <1>14, <1>15, <1>16, <1>17
  DEF Next, Subscribe, Attaching, Sweep, Leave, SeesClosed

\* Nothing takes the task of the watch in the map.
LEMMA NextEntry == TypeOK /\ NumbersInv /\ EntryInv /\ [Next]_vars => EntryInv'
<1> SUFFICES ASSUME TypeOK, NumbersInv, EntryInv, [Next]_vars PROVE EntryInv'
  OBVIOUS
<1>1. ASSUME NEW s \in Subs, FastClone(s) PROVE EntryInv'
  BY <1>1 DEF FastClone, maps, EntryInv
<1>2. ASSUME NEW s \in Subs, FastBuffer(s) PROVE EntryInv'
  BY <1>2 DEF FastBuffer, HandBuffer, EntryInv
<1>3. ASSUME NEW s \in Subs, FastAttach(s) PROVE EntryInv'
  BY <1>3 DEF FastAttach, maps, EntryInv
<1>4. ASSUME NEW s \in Subs, SlowOccupied(s) PROVE EntryInv'
  BY <1>4 DEF SlowOccupied, HandBuffer, EntryInv
<1>5. ASSUME NEW s \in Subs, SlowInsert(s) PROVE EntryInv'
  BY <1>5, LifecycleAssumption DEF SlowInsert, MapsUnderWay, TypeOK, NumbersInv, EntryInv, Watches
<1>6. ASSUME NEW s \in Subs, SlowSpawn(s) PROVE EntryInv'
  BY <1>6 DEF SlowSpawn, HandBuffer, EntryInv
<1>7. ASSUME NEW s \in Subs, SlowHandle(s) PROVE EntryInv'
  BY <1>7 DEF SlowHandle, EntryInv
<1>8. ASSUME NEW s \in Subs, pc[s] = "on", Out(s) PROVE EntryInv'
  BY <1>8 DEF Out, maps, EntryInv
<1>9. ASSUME NEW w \in Watches, WatcherEnds(w) PROVE EntryInv'
  BY <1>9 DEF WatcherEnds, EntryInv
<1>10. ASSUME NEW w \in Watches, WatcherGone(w) PROVE EntryInv'
  BY <1>10 DEF WatcherGone, DropBuffer, EntryInv
<1>11. ASSUME NEW w \in Watches, AbortTakes(w) PROVE EntryInv'
  BY <1>11 DEF AbortTakes, maps, EntryInv
<1>12. ASSUME GcScan PROVE EntryInv'
  BY <1>12 DEF GcScan, EntryInv
<1>13. ASSUME GcRemoveIf PROVE EntryInv'
  BY <1>13 DEF GcRemoveIf, EntryInv
<1>14. ASSUME GcAbort PROVE EntryInv'
  BY <1>14 DEF GcAbort, EntryInv
<1>15. ASSUME GcBuffer PROVE EntryInv'
  BY <1>15 DEF GcBuffer, DropBuffer, EntryInv
<1>16. ASSUME GcIdle PROVE EntryInv'
  BY <1>16 DEF GcIdle, EntryInv
<1>17. ASSUME UNCHANGED vars PROVE EntryInv'
  BY <1>17 DEF vars, maps, EntryInv
<1> QED
  BY <1>1, <1>2, <1>3, <1>4, <1>5, <1>6, <1>7, <1>8, <1>9, <1>10, <1>11, <1>12, <1>13, <1>14, <1>15, <1>16, <1>17
  DEF Next, Subscribe, Attaching, Sweep, Leave, SeesClosed

\* The watch and its subscribers share the buffer in the map.
LEMMA NextBuffer == TypeOK /\ NumbersInv /\ BufferInv /\ [Next]_vars => BufferInv'
<1> SUFFICES ASSUME TypeOK, NumbersInv, BufferInv, [Next]_vars PROVE BufferInv'
  OBVIOUS
<1>1. ASSUME NEW s \in Subs, FastClone(s) PROVE BufferInv'
  BY <1>1 DEF FastClone, maps, BufferInv
<1>2. ASSUME NEW s \in Subs, FastBuffer(s) PROVE BufferInv'
  BY <1>2 DEF FastBuffer, HandBuffer, TypeOK, BufferInv
<1>3. ASSUME NEW s \in Subs, FastAttach(s) PROVE BufferInv'
  BY <1>3 DEF FastAttach, maps, BufferInv
<1>4. ASSUME NEW s \in Subs, SlowOccupied(s) PROVE BufferInv'
  BY <1>4 DEF SlowOccupied, HandBuffer, TypeOK, BufferInv
<1>5. ASSUME NEW s \in Subs, SlowInsert(s) PROVE BufferInv'
  BY <1>5, LifecycleAssumption DEF SlowInsert, TypeOK, NumbersInv, BufferInv, Watches
<1>6. ASSUME NEW s \in Subs, SlowSpawn(s) PROVE BufferInv'
  BY <1>6 DEF SlowSpawn, HandBuffer, TypeOK, BufferInv
<1>7. ASSUME NEW s \in Subs, SlowHandle(s) PROVE BufferInv'
  BY <1>7 DEF SlowHandle, BufferInv
<1>8. ASSUME NEW s \in Subs, pc[s] = "on", Out(s) PROVE BufferInv'
  BY <1>8 DEF Out, maps, TypeOK, BufferInv
<1>9. ASSUME NEW w \in Watches, WatcherEnds(w) PROVE BufferInv'
  BY <1>9 DEF WatcherEnds, BufferInv
<1>10. ASSUME NEW w \in Watches, WatcherGone(w) PROVE BufferInv'
  BY <1>10 DEF WatcherGone, DropBuffer, BufferInv
<1>11. ASSUME NEW w \in Watches, AbortTakes(w) PROVE BufferInv'
  BY <1>11 DEF AbortTakes, maps, subVars, BufferInv
<1>12. ASSUME GcScan PROVE BufferInv'
  BY <1>12 DEF GcScan, subVars, BufferInv
<1>13. ASSUME GcRemoveIf PROVE BufferInv'
  BY <1>13 DEF GcRemoveIf, subVars, BufferInv
<1>14. ASSUME GcAbort PROVE BufferInv'
  BY <1>14 DEF GcAbort, subVars, TypeOK, BufferInv, Watches
<1>15. ASSUME GcBuffer PROVE BufferInv'
  BY <1>15 DEF GcBuffer, DropBuffer, BufferInv
<1>16. ASSUME GcIdle PROVE BufferInv'
  BY <1>16 DEF GcIdle, subVars, BufferInv
<1>17. ASSUME UNCHANGED vars PROVE BufferInv'
  BY <1>17 DEF vars, maps, subVars, BufferInv
<1> QED
  BY <1>1, <1>2, <1>3, <1>4, <1>5, <1>6, <1>7, <1>8, <1>9, <1>10, <1>11, <1>12, <1>13, <1>14, <1>15, <1>16, <1>17
  DEF Next, Subscribe, Attaching, Sweep, Leave, SeesClosed

\* One watch at a time, as long as none is overtaken.
LEMMA NextOrder == TypeOK /\ NumbersInv /\ OrderInv /\ [Next]_vars => OrderInv'
<1> SUFFICES ASSUME TypeOK, NumbersInv, OrderInv, [Next]_vars PROVE OrderInv'
  OBVIOUS
<1>1. ASSUME NEW s \in Subs, FastClone(s) PROVE OrderInv'
  BY <1>1 DEF FastClone, maps, OrderInv, Creating
<1>2. ASSUME NEW s \in Subs, FastBuffer(s) PROVE OrderInv'
  BY <1>2 DEF FastBuffer, HandBuffer, OrderInv, Creating
<1>3. ASSUME NEW s \in Subs, FastAttach(s) PROVE OrderInv'
  BY <1>3 DEF FastAttach, maps, OrderInv, Creating
<1>4. ASSUME NEW s \in Subs, SlowOccupied(s) PROVE OrderInv'
  BY <1>4 DEF SlowOccupied, HandBuffer, OrderInv, Creating
<1>5. ASSUME NEW s \in Subs, SlowInsert(s) PROVE OrderInv'
  BY <1>5, LifecycleAssumption DEF SlowInsert, MapsUnderWay, TypeOK, NumbersInv, OrderInv, Watches, Creating
<1>6. ASSUME NEW s \in Subs, SlowSpawn(s) PROVE OrderInv'
  BY <1>6 DEF SlowSpawn, HandBuffer, TypeOK, OrderInv, Creating
<1>7. ASSUME NEW s \in Subs, SlowHandle(s) PROVE OrderInv'
  BY <1>7 DEF SlowHandle, OrderInv, Creating
<1>8. ASSUME NEW s \in Subs, pc[s] = "on", Out(s) PROVE OrderInv'
  BY <1>8 DEF Out, maps, OrderInv, Creating
<1>9. ASSUME NEW w \in Watches, WatcherEnds(w) PROVE OrderInv'
  BY <1>9 DEF WatcherEnds, subVars, TypeOK, OrderInv, Creating
<1>10. ASSUME NEW w \in Watches, WatcherGone(w) PROVE OrderInv'
  BY <1>10 DEF WatcherGone, DropBuffer, subVars, OrderInv, Creating
<1>11. ASSUME NEW w \in Watches, AbortTakes(w) PROVE OrderInv'
  BY <1>11 DEF AbortTakes, maps, subVars, OrderInv, Creating
<1>12. ASSUME GcScan PROVE OrderInv'
  BY <1>12 DEF GcScan, subVars, OrderInv, Creating
<1>13. ASSUME GcRemoveIf PROVE OrderInv'
  BY <1>13 DEF GcRemoveIf, subVars, OrderInv, Creating, Receivers
<1>14. ASSUME GcAbort PROVE OrderInv'
  BY <1>14 DEF GcAbort, subVars, OrderInv, Creating
<1>15. ASSUME GcBuffer PROVE OrderInv'
  BY <1>15 DEF GcBuffer, DropBuffer, subVars, OrderInv, Creating
<1>16. ASSUME GcIdle PROVE OrderInv'
  BY <1>16 DEF GcIdle, subVars, OrderInv, Creating
<1>17. ASSUME UNCHANGED vars PROVE OrderInv'
  BY <1>17 DEF vars, maps, subVars, OrderInv, Creating
<1> QED
  BY <1>1, <1>2, <1>3, <1>4, <1>5, <1>6, <1>7, <1>8, <1>9, <1>10, <1>11, <1>12, <1>13, <1>14, <1>15, <1>16, <1>17
  DEF Next, Subscribe, Attaching, Sweep, Leave, SeesClosed
\* The invariant holds in every reachable state.
LEMMA Inductive == Spec => []IndInv
<1>1. IndInv /\ [Next]_vars => IndInv'
  BY NextType, NextNumbers, NextEntry, NextBuffer, NextOrder DEF IndInv
<1> QED
  BY <1>1, InitInv, PTL DEF Spec

\* The maps name watches and buffers that exist (watch.rs, the three maps of a
\* namespace).
THEOREM TypeCorrect == Spec => []TypeOK
<1>1. IndInv => TypeOK
  BY DEF IndInv
<1> QED
  BY <1>1, Inductive, PTL

\* A subscriber is left on a ring nobody feeds only by a watch created in the
\* middle of another's teardown (get_or_create_broadcast, gc_tick).
THEOREM NobodyStarves == Spec => []StarvedWasOvertaken
<1>1. IndInv => StarvedWasOvertaken
  BY DEF IndInv, StarvedWasOvertaken, Starved, NumbersInv, EntryInv
<1> QED
  BY <1>1, Inductive, PTL

\* No watch connection leaks unless a watch was so created (gc_tick,
\* run_namespace_watcher).
THEOREM TasksAreReclaimed == Spec => []NoLeakedTask
<1>1. IndInv => NoLeakedTask
  BY DEF IndInv, NoLeakedTask, OrderInv
<1> QED
  BY <1>1, Inductive, PTL

\* Subscribers of a watch read the buffer its task fills, unless an earlier
\* watch's teardown took that buffer out of the map (namespace_replay_buffers).
THEOREM ReplayIsShared == Spec => []ReadsWhatIsFilled
<1>1. IndInv => ReadsWhatIsFilled
  BY DEF IndInv, ReadsWhatIsFilled, NumbersInv, BufferInv
<1> QED
  BY <1>1, Inductive, PTL
=============================================================================
