------------------------ MODULE NamespaceLifecycle ------------------------
(***************************************************************************)
(* The life of a namespace's watch (grpc/subscribe/watch.rs): subscribers  *)
(* that find or create it, the watcher task that removes it when its       *)
(* stream ends, and the collector that removes it when nobody listens.     *)
(* They share three maps keyed by namespace and take no common lock, so    *)
(* each access to a map is a step.  One namespace is modelled; a watch, its *)
(* ring of senders and its task have one number.                           *)
(***************************************************************************)
EXTENDS Naturals, FiniteSets

CONSTANTS
    Subs,        \* subscribers, each of which may come and go
    MaxWatches   \* bound on the number of watches ever created

ASSUME LifecycleAssumption == MaxWatches \in Nat

VARIABLES
    entry,      \* namespace_broadcasts: the watch in the map, 0 for none
    bufEntry,   \* namespace_replay_buffers: the buffer in the map, 0 for none
    handle,     \* watcher_handles: the task in the map, 0 for none
    idle,       \* idle_since has an entry for the namespace
    created,    \* watches created so far
    buffers,    \* buffers created so far
    task,       \* per watch: "none", "running", "aborting", "ended" or "gone"
    fills,      \* per watch: the buffer its task fills
    pc,         \* per subscriber: where it is
    ring,       \* per subscriber: the watch whose ring it holds
    reads,      \* per subscriber: the buffer it was handed
    gc,         \* the collector: where it is
    overtaken,  \* watches created while the handle of another was under way
    torn        \* watches whose buffer another's teardown took out of the map

maps    == <<entry, bufEntry, handle, idle>>
subVars == <<pc, ring, reads>>
vars    == <<maps, created, buffers, task, fills, subVars, gc, overtaken, torn>>

Watches == 1..MaxWatches

\* The maps name watches and buffers that were created, and a subscriber past
\* get_or_create_broadcast has a buffer.
TypeOK ==
    /\ entry \in 0..MaxWatches /\ handle \in 0..MaxWatches
    /\ created \in 0..MaxWatches
    /\ buffers \in Nat /\ bufEntry \in 0..buffers
    /\ idle \in BOOLEAN
    /\ task \in [Watches -> {"none", "running", "aborting", "ended", "gone"}]
    /\ fills \in [Watches -> Nat]
    /\ pc \in [Subs -> {"out", "cloned", "handed", "inserted", "spawned", "on"}]
    /\ ring \in [Subs -> 0..MaxWatches]
    /\ reads \in [Subs -> Nat]
    /\ gc \in {"wait", "chosen", "removed", "aborted", "emptied"}
    /\ overtaken \subseteq Watches /\ torn \subseteq Watches
    /\ \A s \in Subs : pc[s] \in {"handed", "spawned", "on"} => reads[s] \in 1..buffers

Init ==
    /\ entry = 0 /\ bufEntry = 0 /\ handle = 0 /\ idle = FALSE
    /\ created = 0 /\ buffers = 0
    /\ task = [w \in Watches |-> "none"]
    /\ fills = [w \in Watches |-> 0]
    /\ pc = [s \in Subs |-> "out"]
    /\ ring = [s \in Subs |-> 0]
    /\ reads = [s \in Subs |-> 0]
    /\ gc = "wait"
    /\ overtaken = {} /\ torn = {}

\* Receivers of watch w's ring: a clone of the senders is not one yet.
Receivers(w) == {s \in Subs : ring[s] = w /\ pc[s] \in {"inserted", "spawned", "on"}}

-----------------------------------------------------------------------------
(* get_or_create_broadcast *)

\* Mutant of HandBuffer: a new buffer is handed out and not put in the map.
HandPrivate(s, next) ==
    /\ buffers' = IF bufEntry = 0 THEN buffers + 1 ELSE buffers
    /\ UNCHANGED bufEntry
    /\ reads' = [reads EXCEPT ![s] = IF bufEntry = 0 THEN buffers + 1 ELSE bufEntry]
    /\ pc' = [pc EXCEPT ![s] = next]

\* The buffer in the map, or a new one put there.
HandBuffer(s, next) ==
    /\ buffers' = IF bufEntry = 0 THEN buffers + 1 ELSE buffers
    /\ bufEntry' = IF bufEntry = 0 THEN buffers + 1 ELSE bufEntry
    /\ reads' = [reads EXCEPT ![s] = bufEntry']
    /\ pc' = [pc EXCEPT ![s] = next]

\* Fast path: the senders are cloned out of the map, which is then released...
FastClone(s) ==
    /\ pc[s] = "out"
    /\ entry # 0
    /\ ring' = [ring EXCEPT ![s] = entry]
    /\ pc' = [pc EXCEPT ![s] = "cloned"]
    /\ UNCHANGED <<maps, created, buffers, task, fills, reads, gc, overtaken, torn>>

FastBuffer(s) ==
    /\ pc[s] = "cloned"
    /\ HandBuffer(s, "handed")
    /\ UNCHANGED <<entry, handle, idle, created, task, fills, ring, gc, overtaken, torn>>

\* ... and the receiver is attached to the clone.
FastAttach(s) ==
    /\ pc[s] = "handed"
    /\ pc' = [pc EXCEPT ![s] = "on"]
    /\ UNCHANGED <<maps, created, buffers, task, fills, ring, reads, gc, overtaken, torn>>

\* Slow path, Occupied: somebody inserted the watch since the fast path missed
\* it; the receiver is attached under the map's lock.
SlowOccupied(s) ==
    /\ pc[s] = "out"
    /\ entry # 0
    /\ ring' = [ring EXCEPT ![s] = entry]
    /\ HandBuffer(s, "on")
    /\ UNCHANGED <<entry, handle, idle, created, task, fills, gc, overtaken, torn>>

\* For an earlier watch, the collector has yet to take the handle out of the map,
\* a creator to put it in, or the task to notice that it was aborted.
MapsUnderWay ==
    \/ gc = "removed"
    \/ \E s \in Subs : pc[s] \in {"inserted", "spawned"}
    \/ \E w \in Watches : task[w] = "aborting"

\* Slow path, Vacant: the senders go into the map with the first receiver ...
SlowInsert(s) ==
    /\ pc[s] = "out"
    /\ entry = 0
    /\ created < MaxWatches
    /\ created' = created + 1
    /\ entry' = created + 1
    /\ ring' = [ring EXCEPT ![s] = created + 1]
    /\ pc' = [pc EXCEPT ![s] = "inserted"]
    /\ overtaken' = IF MapsUnderWay THEN overtaken \cup {created + 1} ELSE overtaken
    /\ UNCHANGED <<bufEntry, handle, idle, buffers, task, fills, reads, gc, torn>>

\* ... then the buffer is looked up and the watcher task is started on it ...
SlowSpawn(s) ==
    /\ pc[s] = "inserted"
    /\ HandBuffer(s, "spawned")
    /\ task' = [task EXCEPT ![ring[s]] = "running"]
    /\ fills' = [fills EXCEPT ![ring[s]] = reads'[s]]
    /\ UNCHANGED <<entry, handle, idle, created, ring, gc, overtaken, torn>>

\* ... and its handle replaces whatever handle the map had.
SlowHandle(s) ==
    /\ pc[s] = "spawned"
    /\ handle' = ring[s]
    /\ pc' = [pc EXCEPT ![s] = "on"]
    /\ UNCHANGED <<entry, bufEntry, idle, created, buffers, task, fills, ring,
                   reads, gc, overtaken, torn>>

-----------------------------------------------------------------------------
(* The end of a subscription *)

Out(s) ==
    /\ pc' = [pc EXCEPT ![s] = "out"]
    /\ ring' = [ring EXCEPT ![s] = 0]
    /\ reads' = [reads EXCEPT ![s] = 0]
    /\ UNCHANGED <<maps, created, buffers, task, fills, gc, overtaken, torn>>

\* The client goes away, lags or is too slow.
Leave(s) == pc[s] = "on" /\ Out(s)

\* Somebody still holds the senders of watch w: the map, its task, a clone, or
\* the subscriber that is about to start the task.
HasSender(w) ==
    \/ entry = w
    \/ task[w] \in {"running", "aborting", "ended"}
    \/ \E s \in Subs : ring[s] = w /\ pc[s] \in {"cloned", "handed", "inserted"}

\* recv returns Closed, and the stream ends.
SeesClosed(s) ==
    /\ pc[s] = "on"
    /\ ~HasSender(ring[s])
    /\ Out(s)

-----------------------------------------------------------------------------
(* run_namespace_watcher *)

\* Mutant of WatcherEnds: the entry stays in the map.
WatcherEndsQuietly(w) ==
    /\ task[w] \in {"running", "aborting"}
    /\ task' = [task EXCEPT ![w] = "ended"]
    /\ UNCHANGED <<maps, created, buffers, fills, subVars, gc, overtaken, torn>>

\* Its stream ends or fails: the namespace leaves the map of senders, whichever
\* watch is there by now.  No await follows, so an abort is too late from here ...
WatcherEnds(w) ==
    /\ task[w] \in {"running", "aborting"}
    /\ task' = [task EXCEPT ![w] = "ended"]
    /\ entry' = 0
    /\ UNCHANGED <<bufEntry, handle, idle, created, buffers, fills, subVars, gc, overtaken, torn>>

\* namespace_replay_buffers.remove, which asks for nothing but the name.
DropBuffer ==
    /\ bufEntry' = 0
    /\ torn' = IF entry = 0 THEN torn ELSE torn \cup {entry}

\* ... and then the map of buffers.
WatcherGone(w) ==
    /\ task[w] = "ended"
    /\ task' = [task EXCEPT ![w] = "gone"]
    /\ DropBuffer
    /\ UNCHANGED <<entry, handle, idle, created, buffers, fills, subVars, gc, overtaken>>

\* An aborted task is dropped at its next await.
AbortTakes(w) ==
    /\ task[w] = "aborting"
    /\ task' = [task EXCEPT ![w] = "gone"]
    /\ UNCHANGED <<maps, created, buffers, fills, subVars, gc, overtaken, torn>>

-----------------------------------------------------------------------------
(* gc_tick *)

\* The scan: a first sight of no receivers starts the idle clock, a later one
\* may find GC_GRACE elapsed; receivers reset it.
GcScan ==
    /\ gc = "wait"
    /\ entry # 0
    /\ \/ /\ Receivers(entry) # {}
          /\ idle' = FALSE
          /\ gc' = gc
       \/ /\ Receivers(entry) = {}
          /\ idle' = TRUE
          /\ gc' \in IF idle THEN {"wait", "chosen"} ELSE {"wait"}
    /\ UNCHANGED <<entry, bufEntry, handle, created, buffers, task, fills,
                   subVars, overtaken, torn>>

\* remove_if: the receivers are counted again, under the map's lock.
GcRemoveIf ==
    /\ gc = "chosen"
    /\ \/ /\ entry # 0 /\ Receivers(entry) = {}
          /\ entry' = 0
          /\ gc' = "removed"
          /\ idle' = idle
       \/ /\ entry = 0 \/ Receivers(entry) # {}
          /\ entry' = entry
          /\ gc' = "wait"
          /\ idle' = FALSE
    /\ UNCHANGED <<bufEntry, handle, created, buffers, task, fills, subVars, overtaken, torn>>

\* Mutant of GcAbort: the handle is dropped without an abort.
GcForget ==
    /\ gc = "removed"
    /\ gc' = "aborted"
    /\ handle' = 0
    /\ UNCHANGED <<entry, bufEntry, idle, created, buffers, task, fills, subVars,
                   overtaken, torn>>

\* The task whose handle is in the map by now is aborted, unless it has ended.
GcAbort ==
    /\ gc = "removed"
    /\ gc' = "aborted"
    /\ handle' = 0
    /\ task' = [w \in Watches |->
                  IF w = handle /\ task[w] = "running" THEN "aborting" ELSE task[w]]
    /\ UNCHANGED <<entry, bufEntry, idle, created, buffers, fills, subVars, overtaken, torn>>

GcBuffer ==
    /\ gc = "aborted"
    /\ gc' = "emptied"
    /\ DropBuffer
    /\ UNCHANGED <<entry, handle, idle, created, buffers, task, fills, subVars, overtaken>>

GcIdle ==
    /\ gc = "emptied"
    /\ gc' = "wait"
    /\ idle' = FALSE
    /\ UNCHANGED <<entry, bufEntry, handle, created, buffers, task, fills,
                   subVars, overtaken, torn>>

-----------------------------------------------------------------------------
Attaching(s) ==
    \/ FastBuffer(s) \/ FastAttach(s) \/ SlowSpawn(s) \/ SlowHandle(s)

Subscribe(s) == FastClone(s) \/ SlowOccupied(s) \/ SlowInsert(s)

Sweep == GcScan \/ GcRemoveIf \/ GcAbort \/ GcBuffer \/ GcIdle

Next ==
    \/ \E s \in Subs : Subscribe(s) \/ Attaching(s) \/ Leave(s) \/ SeesClosed(s)
    \/ \E w \in Watches : WatcherEnds(w) \/ WatcherGone(w) \/ AbortTakes(w)
    \/ Sweep

Spec == Init /\ [][Next]_vars

\* The code after each map access is straight-line, gc_task ticks for ever and
\* a closed channel wakes its receiver; nobody has to subscribe or to leave.
FairSpec ==
    /\ Spec
    /\ \A s \in Subs : WF_vars(Attaching(s)) /\ WF_vars(SeesClosed(s))
    /\ \A w \in Watches : WF_vars(WatcherGone(w)) /\ WF_vars(AbortTakes(w))
    /\ WF_vars(Sweep)

-----------------------------------------------------------------------------
(* Properties *)

\* Subscriber s waits on a ring the map keeps alive and no task feeds.
Starved(s) == pc[s] = "on" /\ entry = ring[s] /\ task[ring[s]] = "gone"

\* Only a watch created while the collector stands between its remove_if and its
\* abort, another creator before its handles.insert, or an aborted task before its
\* next await, can be left without a task; every other end of a watch closes its
\* ring.
StarvedWasOvertaken == \A s \in Subs : Starved(s) => ring[s] \in overtaken

\* A task outlives its place in the map only while the collector or the task's
\* creator is about to deal with it, or after such an overtaking: no watch
\* connection leaks otherwise.
NoLeakedTask ==
    \A w \in Watches :
        task[w] = "running" =>
            \/ entry = w
            \/ gc = "removed" /\ handle = w
            \/ \E s \in Subs : ring[s] = w /\ pc[s] = "spawned"
            \/ overtaken # {}

\* A subscriber of a running watch was handed the buffer its task fills, so that
\* a resume finds what was broadcast; the exception is a watch whose buffer the
\* second step of an earlier watch's teardown has taken out of the map.
ReadsWhatIsFilled ==
    \A s \in Subs :
        pc[s] = "on" /\ entry = ring[s] /\ task[ring[s]] = "running" =>
            reads[s] = fills[ring[s]] \/ ring[s] \in torn

\* A subscriber whose watch is gone finds out: it does not wait for ever.
OrphansAreReleased ==
    \A s \in Subs :
        pc[s] = "on" /\ task[ring[s]] = "gone" ~> pc[s] # "on" \/ ring[s] \in overtaken

-----------------------------------------------------------------------------
(* The inductive invariant of NamespaceLifecycleProofs.                    *)

Creating == {s \in Subs : pc[s] \in {"inserted", "spawned"}}

\* Numbers are given out once.
NumbersInv ==
    /\ entry <= created
    /\ \A w \in Watches : w > created => task[w] = "none"
    /\ \A s \in Subs : ring[s] <= created /\ (pc[s] # "out" => ring[s] # 0)

\* The collector and aborted tasks are done with a watch before it is created.
EntryInv ==
    entry # 0 /\ entry \notin overtaken =>
        gc # "removed" /\ task[entry] \in {"none", "running"}

\* Until it is torn out, the buffer in the map is the one the watch uses.
BufferInv ==
    entry # 0 /\ entry \notin torn =>
        /\ task[entry] # "none" => fills[entry] = bufEntry /\ bufEntry # 0
        /\ \A s \in Subs : ring[s] = entry /\ pc[s] \in {"handed", "spawned", "on"} =>
              reads[s] = bufEntry /\ bufEntry # 0

\* While no watch has been overtaken, only the latest is in use.
OrderInv ==
    overtaken = {} =>
        /\ entry \in {0, created}
        /\ \A w \in Watches : task[w] \in {"running", "aborting"} => w = created
        /\ \A s, r \in Creating : ring[s] = created /\ s = r
        /\ \A s \in Creating : /\ pc[s] = "inserted" => task[created] = "none"
                               /\ task[created] \in {"none", "running"} => entry = created
        /\ entry # 0 => handle = created \/ Creating # {}
        /\ gc = "removed" => entry = 0 /\ Creating = {}
        /\ \A w \in Watches : task[w] = "running" => entry = w \/ (gc = "removed" /\ handle = w)

IndInv == TypeOK /\ NumbersInv /\ EntryInv /\ BufferInv /\ OrderInv
=============================================================================
