------------------------------ MODULE Delivery ------------------------------
(***************************************************************************)
(* How a change of a Config reaches a client: the namespace watch, the     *)
(* replay buffer and the broadcast ring (grpc/subscribe), the resume task  *)
(* and the bridge that feed one subscriber's channel, and the consumer     *)
(* library that reconnects and resumes (konfig-consumer/src/stream.rs).    *)
(*                                                                         *)
(* Write number r of the API server gives its object resourceVersion r, so *)
(* an event is denoted by its resourceVersion and history[r] is what the   *)
(* event says.  One namespace is modelled; namespaces share nothing here.  *)
(***************************************************************************)
EXTENDS Naturals, Sequences, FiniteSets, Functions

CONSTANTS
    Clients,      \* consumers subscribed to the namespace
    Keys,         \* Config names, numbers in name order
    CacheKey,     \* the one name the server's Config watcher caches (--name)
    Names,        \* per client: the names its subscription asks for
    BufferSize,   \* REPLAY_BUFFER_SIZE
    RingSize,     \* BROADCAST_CAPACITY
    InboxSize,    \* CHANNEL_CAPACITY
    CoalesceMax,  \* COALESCE_MAX_BATCH; 1 when the coalesce window is zero
    MaxRv,        \* bound on the number of writes
    MaxFaults     \* bound on the number of failures

ASSUME DeliveryAssumption ==
    /\ Keys \subseteq Nat
    /\ CacheKey \in Keys
    /\ Names \in [Clients -> SUBSET Keys]
    /\ BufferSize \in Nat \ {0}
    /\ RingSize \in Nat \ {0}
    /\ InboxSize \in Nat \ {0}
    /\ CoalesceMax \in Nat \ {0}
    /\ MaxRv \in Nat
    /\ MaxFaults \in Nat

VARIABLES
    history,   \* the API server's writes; the resourceVersion is the index
    cache,     \* resourceVersion of the cached Config, 0 while unpopulated
    watch,     \* the namespace watch: "off", "starting" or "on"
    pending,   \* objects of the initial list not delivered yet
    seen,      \* the watch has delivered the writes up to this one
    log,       \* events pushed to the replay buffer since the watch started
    sent,      \* how many of them were broadcast
    flushing,  \* a coalesced batch is being dispatched
    stream,    \* per client: the server's side of its stream
    inbox,     \* per client: its mpsc channel
    resume,    \* per client: the last resourceVersion it observed, 0 for none
    store,     \* per client and name: resourceVersion of the snapshot, 0 for none
    stale,     \* per client: the names whose snapshot is marked stale
    faults     \* failures so far

watchVars  == <<watch, pending, seen, log, sent, flushing>>
clientVars == <<resume, store, stale>>
vars == <<history, cache, watchVars, stream, inbox, clientVars, faults>>

\* A committed write: the event the API server reports for it.
Write == [key : Keys, deleted : BOOLEAN]

(***************************************************************************)
(* A stream: "down" before Subscribe, "lookup" to "post" while the resume  *)
(* task runs, "live" in bridge_broadcast, "ended" once the sender is gone. *)
(* `queue' holds what its broadcast receiver has not received, `kept' the  *)
(* replay buffer of a watch that ended before the resume task was done.    *)
(* `done' records the events it has dealt with, `from' and `floor' which   *)
(* events it owes the client: those from position `from' of the log on     *)
(* (where its receiver was attached, or where the buffer that was replayed *)
(* to it begins) whose resourceVersion is above `floor'.                   *)
(***************************************************************************)
Phases == {"down", "lookup", "snapshot", "post", "live", "ended"}

Stream == [phase : Phases, queue : Seq(Nat), lagged : BOOLEAN, closed : BOOLEAN,
           kept : Seq(Nat), outbox : Seq(Nat), error : BOOLEAN, from : Nat,
           floor : Nat, done : SUBSET Nat]

NoStream == [phase |-> "down", queue |-> <<>>, lagged |-> FALSE, closed |-> FALSE,
             kept |-> <<>>, outbox |-> <<>>, error |-> FALSE, from |-> 0,
             floor |-> 0, done |-> {}]

Attached(c) == stream[c].phase \in {"lookup", "snapshot", "post", "live"}

\* What is live at the API server, and the writes that left an object behind.
WritesOf(k) == {r \in DOMAIN history : history[r].key = k}
Latest(k)   == CHOOSE r \in WritesOf(k) : \A q \in WritesOf(k) : q <= r
Exists(k)   == WritesOf(k) # {} /\ ~history[Latest(k)].deleted
Stored(k)   == {r \in WritesOf(k) : ~history[r].deleted}

\* No event is broadcast before it is in the replay buffer.
ServerOK ==
    /\ history \in Seq(Write)
    /\ cache \in Nat
    /\ watch \in {"off", "starting", "on"}
    /\ pending \in Seq(Nat)
    /\ seen \in Nat
    /\ log \in Seq(Nat)
    /\ sent \in 0..Len(log)
    /\ flushing \in BOOLEAN
    /\ faults \in 0..MaxFaults

\* The queues are bounded: BROADCAST_CAPACITY and CHANNEL_CAPACITY hold.
StreamsOK ==
    /\ stream \in [Clients -> Stream]
    /\ inbox \in [Clients -> Seq(Nat)]
    /\ \A c \in Clients : Len(inbox[c]) <= InboxSize /\ Len(stream[c].queue) <= RingSize

ClientsOK ==
    /\ resume \in [Clients -> Nat]
    /\ store \in [Clients -> [Keys -> Nat]]
    /\ stale \in [Clients -> SUBSET Keys]

TypeOK == ServerOK /\ StreamsOK /\ ClientsOK

Init ==
    /\ history = <<>>
    /\ cache = 0
    /\ watch = "off" /\ pending = <<>> /\ seen = 0
    /\ log = <<>> /\ sent = 0 /\ flushing = FALSE
    /\ stream = [c \in Clients |-> NoStream]
    /\ inbox = [c \in Clients |-> <<>>]
    /\ resume = [c \in Clients |-> 0]
    /\ store = [c \in Clients |-> [k \in Keys |-> 0]]
    /\ stale = [c \in Clients |-> {}]
    /\ faults = 0

-----------------------------------------------------------------------------
(* The API server *)

Commit(k, deleted) ==
    /\ Len(history) < MaxRv
    /\ deleted => Exists(k)
    /\ history' = Append(history, [key |-> k, deleted |-> deleted])
    /\ UNCHANGED <<cache, watchVars, stream, inbox, clientVars, faults>>

-----------------------------------------------------------------------------
(* The server's Config watcher, which fills the cache *)

\* The next event of its watch; a Delete keeps the last-known-good snapshot.
CacheEvent ==
    \E r \in Stored(CacheKey) :
        /\ r > cache
        /\ \A q \in Stored(CacheKey) : q > cache => r <= q
        /\ cache' = r
        /\ UNCHANGED <<history, watchVars, stream, inbox, clientVars, faults>>

\* The relist of a reconnect: what happened meanwhile is not replayed.
CacheRelist ==
    /\ Exists(CacheKey)
    /\ cache < Latest(CacheKey)
    /\ cache' = Latest(CacheKey)
    /\ UNCHANGED <<history, watchVars, stream, inbox, clientVars, faults>>

-----------------------------------------------------------------------------
(* The namespace watch *)

\* A finite set of numbers in ascending order.
InOrder(S) ==
    [i \in 1..Cardinality(S) |-> CHOOSE n \in S : Cardinality({m \in S : m < n}) = i - 1]

\* The live objects in name order, each with its own resourceVersion.
Listing ==
    LET names == InOrder({k \in Keys : Exists(k)})
    IN  [i \in DOMAIN names |-> Latest(names[i])]

ListObjects ==
    /\ watch = "starting"
    /\ watch' = "on"
    /\ pending' = Listing
    /\ seen' = Len(history)
    /\ UNCHANGED <<history, cache, log, sent, flushing, stream, inbox,
                   clientVars, faults>>

\* process_namespace_event pushes to the replay buffer before anything is sent.
process_namespace_event ==
    /\ watch = "on"
    /\ ~flushing
    /\ Len(log) - sent < CoalesceMax
    /\ \/ /\ pending # <<>>
          /\ log' = Append(log, Head(pending))
          /\ pending' = Tail(pending)
          /\ seen' = seen
       \/ /\ pending = <<>>
          /\ seen < Len(history)
          /\ log' = Append(log, seen + 1)
          /\ seen' = seen + 1
          /\ pending' = pending
    /\ UNCHANGED <<history, cache, watch, sent, flushing, stream, inbox,
                   clientVars, faults>>

\* Mutant of Receive: the oldest frame is forgotten and nobody is told.
ReceiveQuietly(s, r) ==
    IF Len(s.queue) < RingSize
    THEN [s EXCEPT !.queue = Append(s.queue, r)]
    ELSE [s EXCEPT !.queue = Append(Tail(s.queue), r)]

\* broadcast::send: a full ring forgets its oldest frame, and the receiver
\* that had not received it will get Lagged.
Receive(s, r) ==
    IF Len(s.queue) < RingSize
    THEN [s EXCEPT !.queue = Append(s.queue, r)]
    ELSE [s EXCEPT !.queue = Append(Tail(s.queue), r), !.lagged = TRUE]

\* The next frame of the batch goes to every attached receiver; a flush runs
\* on until the batch is empty.
send_to_all ==
    /\ watch = "on"
    /\ sent < Len(log)
    /\ sent' = sent + 1
    /\ flushing' = (sent + 1 < Len(log))
    /\ stream' = [c \in Clients |->
                     IF Attached(c) /\ ~stream[c].closed
                     THEN Receive(stream[c], log[sent + 1])
                     ELSE stream[c]]
    /\ UNCHANGED <<history, cache, watch, pending, seen, log, inbox,
                   clientVars, faults>>

\* The replay buffer is the last BufferSize entries of the log; a stream whose
\* watch has ended still holds the buffer it was handed.
BufferStart == IF Len(log) > BufferSize THEN Len(log) - BufferSize + 1 ELSE 1
Buffer      == SubSeq(log, BufferStart, Len(log))
BufferOf(c) == IF stream[c].closed THEN stream[c].kept ELSE Buffer

StopWatch ==
    /\ watch' = "off"
    /\ pending' = <<>> /\ seen' = 0
    /\ log' = <<>> /\ sent' = 0 /\ flushing' = FALSE

\* The watch stream ends or fails; what was accepted is flushed first.  The
\* senders are dropped: receivers drain their ring, then see Closed.
WatchEnds ==
    /\ watch # "off"
    /\ sent = Len(log)
    /\ faults < MaxFaults
    /\ faults' = faults + 1
    /\ StopWatch
    /\ stream' = [c \in Clients |->
                     IF Attached(c) /\ ~stream[c].closed
                     THEN [stream[c] EXCEPT !.closed = TRUE, !.kept = Buffer]
                     ELSE stream[c]]
    /\ UNCHANGED <<history, cache, inbox, clientVars>>

\* The collector takes the watch away when no receiver is left; how it finds out
\* is the subject of NamespaceLifecycle.
WatchCollected ==
    /\ watch # "off"
    /\ \A c \in Clients : Attached(c) => stream[c].closed
    /\ StopWatch
    /\ UNCHANGED <<history, cache, stream, inbox, clientVars, faults>>

\* get_or_create_broadcast: the first subscriber starts the watch.
StartWatch ==
    IF watch = "off"
    THEN /\ watch' = "starting"
         /\ UNCHANGED <<pending, seen, log, sent, flushing>>
    ELSE UNCHANGED watchVars

\* A subscriber outside the model makes the server start the watch.
OtherSubscriber ==
    /\ watch = "off"
    /\ cache # 0
    /\ StartWatch
    /\ UNCHANGED <<history, cache, stream, inbox, clientVars, faults>>

-----------------------------------------------------------------------------
(* Subscribe and the resume task *)

\* The receiver is attached before the replay buffer is looked at: the stream
\* owes what is broadcast from now on.
Attach == [NoStream EXCEPT !.phase = "lookup", !.from = sent + 1]

handle_subscribe(c) ==
    /\ stream[c].phase = "down"
    /\ cache # 0
    /\ StartWatch
    /\ stream' = [stream EXCEPT ![c] = Attach]
    /\ UNCHANGED <<history, cache, inbox, clientVars, faults>>

\* "cache not yet populated": the client marks its snapshots stale and retries.
SubscribeRefused(c) ==
    /\ stream[c].phase = "down"
    /\ cache = 0
    /\ stale' = [stale EXCEPT ![c] = Names[c]]
    /\ UNCHANGED <<history, cache, watchVars, stream, inbox, resume, store, faults>>

ResumeTask(c, phase) == stream[c].phase = phase /\ stream[c].outbox = <<>>

\* The resume task hands over to the bridge, what it collected in front: the
\* stream owes what was buffered as well.
GoLive(s, events, from) ==
    [s EXCEPT !.phase = "live", !.outbox = events, !.from = IF from < s.from THEN from ELSE s.from]

\* What follows the entry found at position i of the buffer.
MissedAfter(buffer, i) == SubSeq(buffer, i + 1, Len(buffer))

LookupHit(c) ==
    /\ ResumeTask(c, "lookup")
    /\ resume[c] # 0
    /\ \E i \in DOMAIN BufferOf(c) :
         /\ BufferOf(c)[i] = resume[c]
         /\ stream' = [stream EXCEPT ![c] =
                          GoLive(stream[c], MissedAfter(BufferOf(c), i), BufferStart + i)]
    /\ UNCHANGED <<history, cache, watchVars, inbox, clientVars, faults>>

\* A binary search finds for certain what is there only in a sorted buffer.
Sorted(buffer) == \A i, j \in DOMAIN buffer : i < j => buffer[i] <= buffer[j]

LookupMiss(c) ==
    /\ ResumeTask(c, "lookup")
    /\ ~Sorted(BufferOf(c)) \/ resume[c] \notin Range(BufferOf(c))
    /\ stream' = [stream EXCEPT ![c] = [stream[c] EXCEPT !.phase = "snapshot"]]
    /\ UNCHANGED <<history, cache, watchVars, inbox, clientVars, faults>>

\* all_in_namespace: the one cached name; its resourceVersion is max_snapshot_rv.
TakeSnapshot(c) ==
    /\ ResumeTask(c, "snapshot")
    /\ stream' = [stream EXCEPT ![c] = [stream[c] EXCEPT !.phase = "post", !.outbox = <<cache>>,
                                                        !.floor = cache]]
    /\ UNCHANGED <<history, cache, watchVars, inbox, clientVars, faults>>

\* Mutant of PostSnapshot: the race window stays open.
NoPostSnapshot(buffer, floor) == <<>>

\* The buffered events above the snapshot close the race window.
PostSnapshot(buffer, floor) ==
    LET above == InOrder({i \in DOMAIN buffer : buffer[i] > floor})
    IN  [n \in DOMAIN above |-> buffer[above[n]]]

ReadPostSnapshot(c) ==
    /\ ResumeTask(c, "post")
    /\ stream' = [stream EXCEPT ![c] =
                     GoLive(stream[c], PostSnapshot(BufferOf(c), stream[c].floor), BufferStart)]
    /\ UNCHANGED <<history, cache, watchVars, inbox, clientVars, faults>>

\* filter_allows_event, reduced to the names of the subscription.
Wanted(c, r) == history[r].key \in Names[c]

\* The sender is dropped.  The Status put behind the last event arrives only
\* if the channel has room for it.
End(s, told) == [s EXCEPT !.phase = "ended", !.queue = <<>>, !.outbox = <<>>,
                          !.kept = <<>>, !.done = {}, !.error = told]

\* Event r was offered to the channel, or is none of the client's.
Dealt(s, r) == [s EXCEPT !.done = s.done \cup {r}]

\* try_send of one event.  On a full channel the stream ends, and the Status
\* gets through only if the client has made room in between.
Offer(c, s, r) ==
    \/ /\ ~Wanted(c, r)
       /\ stream' = [stream EXCEPT ![c] = Dealt(s, r)]
       /\ UNCHANGED inbox
    \/ /\ Wanted(c, r)
       /\ Len(inbox[c]) < InboxSize
       /\ inbox' = [inbox EXCEPT ![c] = Append(@, r)]
       /\ stream' = [stream EXCEPT ![c] = Dealt(s, r)]
    \/ /\ Wanted(c, r)
       /\ Len(inbox[c]) = InboxSize
       /\ \E told \in BOOLEAN : stream' = [stream EXCEPT ![c] = End(s, told)]
       /\ UNCHANGED inbox

\* The resume task sends the events it collected.
try_send_or_disconnect(c) ==
    /\ Attached(c)
    /\ stream[c].outbox # <<>>
    /\ Offer(c, [stream[c] EXCEPT !.outbox = Tail(stream[c].outbox)], Head(stream[c].outbox))
    /\ UNCHANGED <<history, cache, watchVars, clientVars, faults>>

BridgeReady(c) == stream[c].phase = "live" /\ stream[c].outbox = <<>>

\* One turn of bridge_broadcast's loop: a frame, Lagged, or Closed.
bridge_broadcast(c) ==
    /\ BridgeReady(c)
    /\ \/ /\ ~stream[c].lagged
          /\ stream[c].queue # <<>>
          /\ Offer(c, [stream[c] EXCEPT !.queue = Tail(stream[c].queue)], Head(stream[c].queue))
       \/ /\ stream[c].lagged
          /\ \E told \in BOOLEAN :
               /\ Len(inbox[c]) < InboxSize => told
               /\ stream' = [stream EXCEPT ![c] = End(stream[c], told)]
          /\ UNCHANGED inbox
       \/ /\ ~stream[c].lagged
          /\ stream[c].queue = <<>>
          /\ stream[c].closed
          /\ stream' = [stream EXCEPT ![c] = End(stream[c], FALSE)]
          /\ UNCHANGED inbox
    /\ UNCHANGED <<history, cache, watchVars, clientVars, faults>>

-----------------------------------------------------------------------------
(* The consumer *)

\* apply: the cursor follows the event, whatever its number; a deletion keeps
\* the last snapshot; anything else replaces it, and clears the stale mark.
apply(c) ==
    /\ inbox[c] # <<>>
    /\ LET r == Head(inbox[c])
           k == history[r].key
       IN  /\ resume' = [resume EXCEPT ![c] = r]
           /\ IF history[r].deleted
              THEN UNCHANGED <<store, stale>>
              ELSE /\ store' = [store EXCEPT ![c][k] = r]
                   /\ stale' = [stale EXCEPT ![c] = @ \ {k}]
    /\ inbox' = [inbox EXCEPT ![c] = Tail(@)]
    /\ UNCHANGED <<history, cache, watchVars, stream, faults>>

\* Mutant of StreamEnd: a clean end is taken for the end of the subscription.
ReconnectOnError(c) ==
    /\ stream[c].phase = "ended" /\ stream[c].error
    /\ inbox[c] = <<>>
    /\ stream' = [stream EXCEPT ![c] = NoStream]
    /\ stale' = [stale EXCEPT ![c] = Names[c]]
    /\ UNCHANGED <<history, cache, watchVars, inbox, resume, store, faults>>

\* End of stream: an error marks the snapshots stale, a clean end does not.
StreamEnd(c) ==
    /\ stream[c].phase = "ended"
    /\ inbox[c] = <<>>
    /\ stream' = [stream EXCEPT ![c] = NoStream]
    /\ stale' = [stale EXCEPT ![c] = IF stream[c].error THEN Names[c] ELSE @]
    /\ UNCHANGED <<history, cache, watchVars, inbox, resume, store, faults>>

-----------------------------------------------------------------------------
(* Failures *)

\* The connection breaks; what the channel still held is lost.
ConnectionLost(c) ==
    /\ stream[c].phase # "down"
    /\ faults < MaxFaults
    /\ faults' = faults + 1
    /\ stream' = [stream EXCEPT ![c] = NoStream]
    /\ inbox' = [inbox EXCEPT ![c] = <<>>]
    /\ stale' = [stale EXCEPT ![c] = Names[c]]
    /\ UNCHANGED <<history, cache, watchVars, resume, store>>

\* The server is replaced by one with an empty cache and no watch.
ServerRestart ==
    /\ faults < MaxFaults
    /\ faults' = faults + 1
    /\ cache' = 0
    /\ StopWatch
    /\ stream' = [c \in Clients |-> NoStream]
    /\ inbox' = [c \in Clients |-> <<>>]
    /\ stale' = [c \in Clients |->
                    IF stream[c].phase = "down" THEN stale[c] ELSE Names[c]]
    /\ UNCHANGED <<history, resume, store>>

-----------------------------------------------------------------------------
ServerStep ==
    \/ CacheEvent \/ CacheRelist
    \/ ListObjects \/ process_namespace_event \/ send_to_all

StreamStep(c) ==
    \/ handle_subscribe(c) \/ SubscribeRefused(c)
    \/ LookupHit(c) \/ LookupMiss(c) \/ TakeSnapshot(c) \/ ReadPostSnapshot(c)
    \/ try_send_or_disconnect(c) \/ bridge_broadcast(c)

ClientStep(c) == apply(c) \/ StreamEnd(c)

Next ==
    \/ \E k \in Keys, deleted \in BOOLEAN : Commit(k, deleted)
    \/ ServerStep
    \/ WatchEnds \/ WatchCollected \/ OtherSubscriber \/ ServerRestart
    \/ \E c \in Clients : StreamStep(c) \/ ClientStep(c) \/ ConnectionLost(c)

Spec == Init /\ [][Next]_vars

\* Tasks and watches run on: no write, failure or collection is promised.
Fairness ==
    /\ WF_vars(CacheEvent)
    /\ WF_vars(ListObjects)
    /\ WF_vars(process_namespace_event)
    /\ WF_vars(send_to_all)
    /\ \A c \in Clients : WF_vars(StreamStep(c)) /\ WF_vars(ClientStep(c))

FairSpec == Spec /\ Fairness
-----------------------------------------------------------------------------
(* Properties *)

\* handle_subscribe, resume_from_buffer and bridge_broadcast: from the moment a
\* stream's receiver is attached, and as long as it has not lagged, every event it
\* owes the client was offered to the client's channel or waits in the resume task
\* or in the stream's ring; the switch from the replay buffer to the live
\* broadcast loses nothing.
NoSilentGap ==
    \A c \in Clients :
        LET s == stream[c]
        IN  Attached(c) /\ ~s.lagged /\ ~s.closed =>
                \A i \in s.from..sent :
                    log[i] > s.floor =>
                        log[i] \in s.done \cup Range(s.outbox) \cup Range(s.queue)

\* Nothing is under way between the API server and client c.
Quiescent(c) ==
    /\ watch = "on" /\ pending = <<>> /\ seen = Len(history) /\ sent = Len(log)
    /\ stream[c].phase = "live" /\ ~stream[c].closed /\ ~stream[c].lagged
    /\ stream[c].outbox = <<>> /\ stream[c].queue = <<>> /\ inbox[c] = <<>>

Current(c) == \A k \in Names[c] : Exists(k) => store[c][k] = Latest(k)

\* handle_subscribe sends the snapshot "so a fresh subscriber never has to wait
\* for the next apply to receive any state", and reconnecting_event_stream
\* resumes "so no events are missed across reconnects": a client with a healthy
\* stream and nothing under way holds the current version of every existing
\* Config it subscribed to.
QuiescentIsCurrent == \A c \in Clients : Quiescent(c) => Current(c)

\* Client c subscribed to the cached name and to nothing else.
Follows(c) == Names[c] = {CacheKey}

\* The latest write of k was broadcast before the client's receiver was attached
\* and had left the replay buffer when the resume task read it, and the snapshot
\* sent instead was older.
Outrun(c, k) ==
    /\ stream[c].floor # 0
    /\ \E i \in 1..sent : i < stream[c].from /\ log[i] = Latest(k) /\ log[i] > stream[c].floor

\* resume_from_buffer and bridge_broadcast, for a client of the cached name: with
\* a healthy stream and nothing under way the client holds the current version,
\* except when the cache lagged by more than the replay buffer holds.  Nothing
\* else leaves it behind: no reconnect, lost connection, full channel, list in
\* name order or restart of the server.
StaleWasOutrun ==
    \A c \in Clients :
        Follows(c) /\ Quiescent(c) /\ Exists(CacheKey) =>
            store[c][CacheKey] = Latest(CacheKey) \/ Outrun(c, CacheKey)

\* Once writes and failures stop, every client of the cached name ends up with
\* the current version, however often its stream was cut for being slow, unless
\* its last snapshot was outrun by the replay buffer.
Converges ==
    <>[](\A c \in Clients : Follows(c) => Current(c) \/ Outrun(c, CacheKey))

-----------------------------------------------------------------------------
(* The inductive invariants of DeliveryProofs.                             *)

\* A stream knows from which position of the log on it owes events, all of them
\* until a snapshot is taken.
FromInv ==
    \A c \in Clients :
        /\ Attached(c) => stream[c].from # 0
        /\ stream[c].phase \in {"lookup", "snapshot"} => stream[c].floor = 0

IndInv == TypeOK /\ FromInv /\ NoSilentGap

\* The writes of the cached name.
Mine == WritesOf(CacheKey)

\* Where the members of W are in q, and the last of them, b if there is none: what
\* a reader of q that looks for W and held b before ends up with.
Spots(W, q) == {j \in DOMAIN q : q[j] \in W}
Fate(W, q, b) ==
    IF Spots(W, q) = {}
    THEN b
    ELSE q[CHOOSE j \in Spots(W, q) : \A i \in Spots(W, q) : i <= j]

\* The members of W are in ascending order in q.
Ascending(W, q) == \A i, j \in DOMAIN q : i < j /\ q[i] \in W /\ q[j] \in W => q[i] <= q[j]

\* The watch reports what was written, the cached name in the order written, and
\* has reported the newest version of it that it has seen.
LogInv ==
    /\ seen <= Len(history)
    /\ watch # "on" => log = <<>> /\ pending = <<>>
    /\ Range(log) \cup Range(pending) \subseteq 1..seen
    /\ Ascending(Mine, log) /\ Ascending(Mine, pending)
    /\ \A i \in DOMAIN log, j \in DOMAIN pending :
          log[i] \in Mine /\ pending[j] \in Mine => log[i] <= pending[j]
    /\ watch = "on" =>
          \A r \in Stored(CacheKey) :
              r <= seen /\ (\A q \in Mine : q <= seen => q <= r) =>
                  r \in Range(log) \cup Range(pending)

\* Nobody subscribes before the cache holds a version of its name.
CacheInv ==
    /\ cache # 0 => cache \in Mine
    /\ \A c \in Clients : Attached(c) => cache # 0

\* A receiver that neither lagged nor was closed holds the last broadcasts; until
\* the bridge takes over, all since it was attached.
RingInv(c) ==
    LET q == stream[c].queue
    IN  Attached(c) /\ ~stream[c].lagged /\ ~stream[c].closed =>
            /\ Len(q) <= sent
            /\ stream[c].phase # "live" => stream[c].from = sent - Len(q) + 1
            /\ \A j \in DOMAIN q : q[j] = log[sent - Len(q) + j]

\* A client of the cached name remembers and is sent versions of it only, and
\* shows the one it remembers.
ValidInv(c) ==
    /\ Range(stream[c].queue) \cup Range(stream[c].outbox) \cup Range(stream[c].kept)
          \subseteq DOMAIN history
    /\ Range(inbox[c]) \subseteq Mine
    /\ resume[c] # 0 => resume[c] \in Mine
    /\ resume[c] \in Stored(CacheKey) => store[c][CacheKey] = resume[c]

\* The version client c remembers once it has handled all that is on its way.
Sent(c)  == Fate(Mine, stream[c].outbox, Fate(Mine, inbox[c], resume[c]))
Holds(c) == Fate(Mine, stream[c].queue, Sent(c))

\* The channel of a new stream is empty; a snapshot is what the client will hold;
\* and a live stream leads the client to every version that was broadcast, but for
\* those that outran its snapshot.
PipeInv(c) ==
    LET s == stream[c]
    IN  /\ s.phase \in {"down", "lookup", "snapshot"} => inbox[c] = <<>> /\ s.outbox = <<>>
        /\ s.phase = "post" => s.floor \in Mine /\ Sent(c) = s.floor
        /\ s.phase = "live" /\ ~s.lagged /\ ~s.closed =>
              \A p \in 1..sent :
                  log[p] \in Mine =>
                      \/ s.floor # 0 /\ p < s.from /\ log[p] > s.floor
                      \/ log[p] <= Holds(c)

CachedInv ==
    /\ LogInv /\ CacheInv
    /\ \A c \in Clients : Follows(c) => RingInv(c) /\ ValidInv(c) /\ PipeInv(c)
=============================================================================
