--------------------------- MODULE SecretDelivery ---------------------------
(***************************************************************************)
(* Secrets: the per-namespace watchers that fill SecretCache and broadcast *)
(* (secret_watcher.rs, with the reconnect loop and the relist router of    *)
(* watcher.rs), SubscribeSecrets (grpc/subscribe_secrets.rs) and           *)
(* ApplySecret (grpc/secret_apply.rs).                                     *)
(*                                                                         *)
(* Write number r of the API server gives its object resourceVersion r; an *)
(* event is denoted by r and history[r] is what it says.  What a value     *)
(* holds plays no part in any decision here and is left out.               *)
(***************************************************************************)
EXTENDS Naturals, Sequences, FiniteSets, SequencesExt

CONSTANTS
    Spaces,       \* namespaces
    Served,       \* the namespaces of --secret-namespaces: one watcher each
    Keys,         \* Secrets, numbers in name order
    Ns,           \* the namespace of each
    Clients,      \* SubscribeSecrets callers
    Writers,      \* ApplySecret handlers
    Versions,     \* konfig.io/schema-version values; 0 for none or unreadable
    RingSize,     \* BROADCAST_CAPACITY
    InboxSize,    \* CHANNEL_CAPACITY
    RetryBudget,  \* the length of RETRY_DELAYS_MS
    MaxRv, MaxFaults, MaxSubs   \* bounds

ASSUME SecretAssumption ==
    /\ Spaces # {}
    /\ Served \subseteq Spaces
    /\ Keys \subseteq Nat
    /\ Ns \in [Keys -> Spaces]
    /\ Versions \subseteq Nat
    /\ RingSize \in Nat \ {0} /\ InboxSize \in Nat \ {0} /\ RetryBudget \in Nat
    /\ MaxRv \in Nat /\ MaxFaults \in Nat /\ MaxSubs \in Nat

VARIABLES
    history,   \* the API server's writes; the resourceVersion is the index
    writer,    \* per ApplySecret handler: its progress
    cache,     \* SecretCache: per Secret its entry
    watcher,   \* per served namespace: its watcher task
    stream,    \* per client: the server's side of its stream
    inbox,     \* per client: its mpsc channel; 0 stands for an error Status
    view,      \* per client and Secret: the newest resourceVersion it was told
    faults, subs   \* failures and subscriptions so far

vars == <<history, writer, cache, watcher, stream, inbox, view, faults, subs>>
serverVars == <<cache, watcher, stream, inbox>>

\* A committed write: the event the API server reports for it.
Write == [key : Keys, version : Nat, deleted : BOOLEAN]

\* The cache keeps the resourceVersion and the stale mark; `conn' says which
\* connection of its watcher an entry came through.
Entry == [rv : Nat, stale : BOOLEAN, conn : Nat]

Absent == [rv |-> 0, stale |-> FALSE, conn |-> 0]

(***************************************************************************)
(* A watcher is "down" while it backs off, "listing" between Init and      *)
(* InitDone, "live" afterwards.  `list' is what the relist still has to    *)
(* deliver, `seen' the last write its watch reported, `buffer' the relist  *)
(* buffer (only used when `batching', on a reconnect), `conn' counts its   *)
(* connections.  `skipped' is history: the deletions that a list jumped    *)
(* over, which no watch event will report.                                 *)
(***************************************************************************)
Watcher == [phase : {"down", "listing", "live"}, list : SUBSET Nat, seen : Nat,
            batching : BOOLEAN, relist : BOOLEAN, buffer : Seq(Entry), conn : Nat,
            skipped : SUBSET Nat]

Watcher0 == [phase |-> "down", list |-> {}, seen |-> 0, batching |-> FALSE,
             relist |-> FALSE, buffer |-> <<>>, conn |-> 0, skipped |-> {}]

(***************************************************************************)
(* A stream: "snap" between its snapshot and its attachment, "live" in     *)
(* bridge_broadcast, "raw" in run_raw_watch, "ended" once its sender is    *)
(* gone.  `queue' is what its broadcast receiver has not received.         *)
(* `missed' collects the events broadcast while it was in neither the      *)
(* snapshot nor the ring, `owed' the deletions broadcast since it attached,*)
(* `at' is how far its watcher was then.                                   *)
(***************************************************************************)
Stream == [phase : {"idle", "snap", "live", "raw", "ended"}, space : Spaces, from : Nat,
           queue : Seq(Nat), lagged : BOOLEAN, seen : Nat, missed : SUBSET Nat,
           owed : SUBSET Nat, at : Nat]

Stream0 == [phase |-> "idle", space |-> CHOOSE s \in Spaces : TRUE, from |-> 0,
            queue |-> <<>>, lagged |-> FALSE, seen |-> 0, missed |-> {}, owed |-> {},
            at |-> 0]

Ended == [Stream0 EXCEPT !.phase = "ended"]

Writer == [pc : {"idle", "patch", "done"}, key : Keys \cup {0}, version : Nat,
           base : Nat, tries : 0..RetryBudget]

Writer0 == [pc |-> "idle", key |-> 0, version |-> 0, base |-> 0, tries |-> 0]

Init ==
    /\ history = <<>>
    /\ writer = [w \in Writers |-> Writer0]
    /\ cache = [k \in Keys |-> Absent]
    /\ watcher = [s \in Served |-> Watcher0]
    /\ stream = [c \in Clients |-> Stream0]
    /\ inbox = [c \in Clients |-> <<>>]
    /\ view = [c \in Clients |-> [k \in Keys |-> 0]]
    /\ faults = 0 /\ subs = 0

-----------------------------------------------------------------------------
(* The API server, and writers other than konfig. *)

WritesOf(k) == {r \in DOMAIN history : history[r].key = k}
Latest(k)   == IF WritesOf(k) = {} THEN 0
               ELSE CHOOSE r \in WritesOf(k) : \A q \in WritesOf(k) : q <= r
Exists(k)   == Latest(k) # 0 /\ ~history[Latest(k)].deleted

\* The annotation, 0 when the Secret or a readable annotation is missing.
parse_secret_schema_version(k) == IF Exists(k) THEN history[Latest(k)].version ELSE 0

\* What a watch on namespace s, past write `after', reports next; 0 if nothing.
EventsAfter(s, after) == {r \in DOMAIN history : Ns[history[r].key] = s /\ r > after}
NextEvent(s, after) ==
    IF EventsAfter(s, after) = {} THEN 0
    ELSE CHOOSE r \in EventsAfter(s, after) : \A q \in EventsAfter(s, after) : r <= q

Written(k, v, del) == Append(history, [key |-> k, version |-> v, deleted |-> del])

\* kubectl or another controller deletes the Secret.
Delete(k) ==
    /\ Len(history) < MaxRv
    /\ Exists(k)
    /\ history' = Written(k, history[Latest(k)].version, TRUE)
    /\ UNCHANGED <<writer, serverVars, view, faults, subs>>

Fault == faults < MaxFaults /\ faults' = faults + 1

-----------------------------------------------------------------------------
(* ApplySecret *)

Answer(w) == writer' = [writer EXCEPT ![w] = [Writer0 EXCEPT !.pc = "done"]]

\* Mutant of Gate: the version may stay the same.
GateAcceptsEqual(incoming, current) == incoming >= current

Gate(incoming, current) == incoming > current

\* apply_secret_inner up to the patch: the YAML's schema_version (0 when it has
\* none; unreadable YAML is INVALID_ARGUMENT), fetch_current_secret_version, and
\* the monotonicity gate.  A refusal or a failed read leaves no trace.
FetchVersion(w, k, v) ==
    /\ writer[w].pc = "idle"
    /\ Gate(v, parse_secret_schema_version(k))
    /\ writer' = [writer EXCEPT ![w] = [pc |-> "patch", key |-> k, version |-> v,
                                       base |-> Latest(k), tries |-> 0]]
    /\ UNCHANGED <<history, serverVars, view, faults, subs>>

\* The forced server-side apply carries no resourceVersion: it overwrites
\* whatever is there.  The caller's answer may be lost on its way.
PatchCommits(w) ==
    /\ writer[w].pc = "patch"
    /\ Len(history) < MaxRv
    /\ history' = Written(writer[w].key, writer[w].version, FALSE)
    /\ Answer(w)
    /\ UNCHANGED <<serverVars, view, faults, subs>>

\* classify_secret_patch_error: a 409 is retried with the same body while the
\* ladder lasts, then ABORTED; anything else is UNAVAILABLE.
PatchConflict(w) ==
    /\ writer[w].pc = "patch"
    /\ IF writer[w].tries < RetryBudget
       THEN writer' = [writer EXCEPT ![w].tries = @ + 1]
       ELSE Answer(w)
    /\ UNCHANGED <<history, serverVars, view, faults, subs>>

\* Nothing is written: the call fails, or it repeats what is stored.
PatchFails(w) ==
    /\ writer[w].pc = "patch"
    /\ Answer(w)
    /\ UNCHANGED <<history, serverVars, view, faults, subs>>

-----------------------------------------------------------------------------
(* The watcher of one namespace *)

\* parse_secret never fails; `stale_since' of a fresh snapshot is None.
Parsed(r, s) == [rv |-> r, stale |-> FALSE, conn |-> watcher[s].conn]

\* broadcast_tx.send: a receiver more than the ring behind has lagged.
Hears(st, r) ==
    [st EXCEPT !.queue  = Append(IF Len(st.queue) < RingSize THEN st.queue
                                 ELSE Tail(st.queue), r),
               !.lagged = st.lagged \/ Len(st.queue) = RingSize,
               !.owed   = IF history[r].deleted THEN st.owed \cup {r} ELSE st.owed]

Misses(st, r) == [st EXCEPT !.missed = st.missed \cup {r}]

Sent(r, s) ==
    [c \in Clients |->
        CASE stream[c].phase = "live" /\ stream[c].space = s -> Hears(stream[c], r)
          [] stream[c].phase = "snap" /\ stream[c].space = s -> Misses(stream[c], r)
          [] OTHER -> stream[c]]

\* run_with_reconnect calls run_namespace_watcher: the API server lists the
\* labelled Secrets.  On a reconnect the Init event opens the relist buffer.  A
\* Secret deleted since the watcher last looked is not in the list, and nothing
\* tells the subscribers.
Connect(s) ==
    /\ watcher[s].phase = "down"
    /\ watcher' = [watcher EXCEPT ![s] =
           [watcher[s] EXCEPT !.phase = "listing", !.seen = Max(EventsAfter(s, 0) \cup {0}),
                              !.list = {Latest(k) : k \in {k \in Keys : Ns[k] = s /\ Exists(k)}},
                              !.relist = watcher[s].batching,
                              !.skipped = watcher[s].skipped \cup
                                  {r \in EventsAfter(s, watcher[s].seen) : history[r].deleted}]]
    /\ UNCHANGED <<history, writer, cache, stream, inbox, view, faults, subs>>

\* route_relist_event on InitApply, in name order: buffered and broadcast on a
\* reconnect, cached and broadcast at once on a cold start.
InitApply(s) ==
    /\ watcher[s].phase = "listing"
    /\ \E r \in watcher[s].list :
       LET rest == [watcher[s] EXCEPT !.list = watcher[s].list \ {r}] IN
       /\ \A q \in watcher[s].list : history[r].key <= history[q].key
       /\ stream' = Sent(r, s)
       /\ \/ /\ watcher[s].relist
             /\ watcher' = [watcher EXCEPT ![s] =
                    [rest EXCEPT !.buffer = Append(watcher[s].buffer, Parsed(r, s))]]
             /\ UNCHANGED cache
          \/ /\ ~watcher[s].relist
             /\ watcher' = [watcher EXCEPT ![s] = rest]
             /\ cache' = [cache EXCEPT ![history[r].key] = Parsed(r, s)]
    /\ UNCHANGED <<history, writer, inbox, view, faults, subs>>

\* Mutant of Committed: InitDone forgets to write the buffer.
CommitsNothing(s) == cache

\* cache.apply_batch: the buffered upserts in order, so the last one of a Secret.
UpsertsOf(s, k) == {i \in DOMAIN watcher[s].buffer : history[watcher[s].buffer[i].rv].key = k}

Committed(s) ==
    [k \in Keys |-> IF UpsertsOf(s, k) = {} THEN cache[k]
                    ELSE watcher[s].buffer[Max(UpsertsOf(s, k))]]

InitDone(s) ==
    /\ watcher[s].phase = "listing"
    /\ watcher[s].list = {}
    /\ cache' = Committed(s)
    /\ watcher' = [watcher EXCEPT ![s] =
           [watcher[s] EXCEPT !.phase = "live", !.relist = FALSE, !.buffer = <<>>]]
    /\ UNCHANGED <<history, writer, stream, inbox, view, faults, subs>>

\* handle_secret_event: an Apply is cached, then broadcast; a Delete is only
\* broadcast, the cache keeps the last known good entry.
WatchEvent(s) ==
    LET r == NextEvent(s, watcher[s].seen) IN
    /\ watcher[s].phase = "live"
    /\ r # 0
    /\ watcher' = [watcher EXCEPT ![s] = [watcher[s] EXCEPT !.seen = r]]
    /\ stream' = Sent(r, s)
    /\ cache' = IF history[r].deleted THEN cache
                ELSE [cache EXCEPT ![history[r].key] = Parsed(r, s)]
    /\ UNCHANGED <<history, writer, inbox, view, faults, subs>>

mark_all_stale == [k \in Keys |-> [cache[k] EXCEPT !.stale = cache[k].rv # 0]]

\* Mutant of Disconnect: the buffer of a relist cut short survives.
DisconnectKeepsBuffer(s) ==
    /\ Fault
    /\ cache' = mark_all_stale
    /\ watcher' = [watcher EXCEPT ![s] =
           [@ EXCEPT !.phase = "down", !.list = {}, !.relist = FALSE,
                     !.batching = TRUE, !.conn = @ + 1]]
    /\ UNCHANGED <<history, writer, stream, inbox, view, subs>>

\* The stream ends or fails, or cannot be opened: the relist buffer is dropped,
\* on_disconnect marks every entry of every namespace, the task backs off.
Disconnect(s) ==
    /\ Fault
    /\ cache' = mark_all_stale
    /\ watcher' = [watcher EXCEPT ![s] =
           [watcher[s] EXCEPT !.phase = "down", !.list = {}, !.relist = FALSE,
                              !.buffer = <<>>, !.batching = TRUE,
                              !.conn = watcher[s].conn + 1]]
    /\ UNCHANGED <<history, writer, stream, inbox, view, subs>>

-----------------------------------------------------------------------------
(* SubscribeSecrets *)

\* all_in_namespace: the entries of the namespace, in the order of a HashMap.
Cached(s) == {cache[k].rv : k \in {k \in Keys : Ns[k] = s}} \ {0}
Frames(s) == SetToSeqs(Cached(s))

\* What a relist has broadcast and not committed yet.
Buffered(s) == {watcher[s].buffer[i].rv : i \in DOMAIN watcher[s].buffer}

Snapshot(c, s, from) ==
    /\ stream[c].phase \in {"idle", "ended"}
    /\ inbox[c] = <<>>
    /\ subs < MaxSubs
    /\ subs' = subs + 1
    /\ \E frames \in Frames(s) :
          stream' = [stream EXCEPT ![c] =
              [Stream0 EXCEPT !.phase = "snap", !.space = s, !.from = from, !.queue = frames,
                              !.missed = IF s \in Served THEN Buffered(s) ELSE {}]]
    /\ UNCHANGED <<history, writer, cache, watcher, inbox, view, faults>>

\* emit_snapshot_events: nobody reads the channel before the handler returns,
\* so a snapshot longer than the channel ends the stream, and the Status that
\* should say so finds no room either.
Emitted(frames) ==
    IF Len(frames) <= InboxSize THEN [ok |-> TRUE, sent |-> frames]
    ELSE [ok |-> FALSE, sent |-> SubSeq(frames, 1, InboxSize)]

\* The rest of the handler: emit the snapshot, then either start the raw watch
\* (resume), or attach to the namespace's broadcast, or answer UNAVAILABLE.
Attach(c) ==
    LET st == stream[c]
        e  == Emitted(st.queue) IN
    /\ st.phase = "snap"
    /\ \/ /\ ~e.ok
          /\ inbox' = [inbox EXCEPT ![c] = e.sent]
          /\ stream' = [stream EXCEPT ![c] = Ended]
       \/ /\ e.ok /\ st.from # 0
          /\ inbox' = [inbox EXCEPT ![c] = e.sent]
          /\ stream' = [stream EXCEPT ![c] =
                 [st EXCEPT !.phase = "raw", !.queue = <<>>, !.seen = st.from]]
       \/ /\ e.ok /\ st.from = 0 /\ st.space \in Served
          /\ inbox' = [inbox EXCEPT ![c] = e.sent]
          /\ stream' = [stream EXCEPT ![c] =
                 [st EXCEPT !.phase = "live", !.queue = <<>>, !.at = watcher[st.space].seen]]
       \/ /\ e.ok /\ st.from = 0 /\ st.space \notin Served
          /\ stream' = [stream EXCEPT ![c] = Ended]
          /\ UNCHANGED inbox
    /\ UNCHANGED <<history, writer, cache, watcher, view, faults, subs>>

Room(c) == Len(inbox[c]) < InboxSize

\* try_send of a Status before the sender is dropped: kept if there is room.
Fail(c, status) ==
    /\ inbox' = IF status /\ Room(c) THEN [inbox EXCEPT ![c] = Append(inbox[c], 0)] ELSE inbox
    /\ stream' = [stream EXCEPT ![c] = Ended]

\* Mutant of Bridge: a full channel drops the event and the stream goes on.
BridgeDrops(c) ==
    LET st == stream[c] IN
    /\ st.phase = "live"
    /\ st.queue # <<>>
    /\ IF st.lagged THEN Fail(c, TRUE)
       ELSE /\ stream' = [stream EXCEPT ![c].queue = Tail(@)]
            /\ inbox' = IF Room(c) THEN [inbox EXCEPT ![c] = Append(@, Head(st.queue))]
                        ELSE inbox
    /\ UNCHANGED <<history, writer, cache, watcher, view, faults, subs>>

\* bridge_broadcast, one turn of the loop.
Bridge(c) ==
    LET st == stream[c] IN
    /\ st.phase = "live"
    /\ st.queue # <<>>
    /\ IF st.lagged \/ ~Room(c) THEN Fail(c, TRUE)
       ELSE /\ stream' = [stream EXCEPT ![c] = [st EXCEPT !.queue = Tail(st.queue)]]
            /\ inbox' = [inbox EXCEPT ![c] = Append(inbox[c], Head(st.queue))]
    /\ UNCHANGED <<history, writer, cache, watcher, view, faults, subs>>

\* run_raw_watch, one event; Deleted is forwarded like Modified.
RawEvent(c) ==
    LET st == stream[c]
        r  == NextEvent(st.space, st.seen) IN
    /\ st.phase = "raw"
    /\ r # 0
    /\ IF ~Room(c) THEN Fail(c, TRUE)
       ELSE /\ stream' = [stream EXCEPT ![c] = [st EXCEPT !.seen = r]]
            /\ inbox' = [inbox EXCEPT ![c] = Append(inbox[c], r)]
    /\ UNCHANGED <<history, writer, cache, watcher, view, faults, subs>>

\* The raw watch cannot be opened or reports an error (a Status is tried), its
\* connection breaks or times out after 290 s (no Status), the bridge or the
\* raw watch sees the drain (no Status).
StreamEnds(c, status) ==
    /\ stream[c].phase \in {"raw", "live"}
    /\ status => stream[c].phase = "raw"
    /\ Fault
    /\ Fail(c, status)
    /\ UNCHANGED <<history, writer, cache, watcher, view, subs>>

\* The client hangs up; the server's task ends at its next send.
HangUp(c) ==
    /\ stream[c].phase \in {"raw", "live"}
    /\ Fault
    /\ stream' = [stream EXCEPT ![c] = Ended]
    /\ inbox' = [inbox EXCEPT ![c] = <<>>]
    /\ UNCHANGED <<history, writer, cache, watcher, view, subs>>

\* The client takes a frame; it compares resourceVersions, as the handler's
\* comment asks of it, so an older frame does not replace a newer one.
Receive(c) ==
    LET r == Head(inbox[c]) IN
    /\ inbox[c] # <<>>
    /\ stream[c].phase # "snap"
    /\ inbox' = [inbox EXCEPT ![c] = Tail(@)]
    /\ IF r = 0 THEN UNCHANGED view
       ELSE view' = [view EXCEPT ![c][history[r].key] = IF r > @ THEN r ELSE @]
    /\ UNCHANGED <<history, writer, cache, watcher, stream, faults, subs>>

-----------------------------------------------------------------------------
WriterNext(w) ==
    \/ \E k \in Keys, v \in Versions : FetchVersion(w, k, v)
    \/ PatchCommits(w) \/ PatchConflict(w) \/ PatchFails(w)

WatcherNext(s) == Connect(s) \/ InitApply(s) \/ InitDone(s) \/ WatchEvent(s)

StreamNext(c) == Attach(c) \/ Bridge(c) \/ RawEvent(c)

Next ==
    \/ \E k \in Keys : Delete(k)
    \/ \E w \in Writers : WriterNext(w)
    \/ \E s \in Served : WatcherNext(s) \/ Disconnect(s)
    \/ \E c \in Clients :
          \/ \E s \in Spaces, from \in 0..Len(history) : Snapshot(c, s, from)
          \/ StreamNext(c)
          \/ \E status \in BOOLEAN : StreamEnds(c, status)
          \/ HangUp(c) \/ Receive(c)

Spec == Init /\ [][Next]_vars

\* A watcher task runs for ever and its backoff is at most 30 s
\* (run_with_reconnect): while the API server answers it makes progress.
FairSpec == Spec /\ \A s \in Served : WF_vars(WatcherNext(s))

-----------------------------------------------------------------------------
(* Properties *)

\* A cached Secret without a stale mark came through the current connection of
\* its own namespace's watcher: no disconnect, and no relist cut short by one,
\* leaves an entry that looks fresh (secret_watcher.rs spawn_all,
\* route_relist_event).
FreshIsFromThisConnection ==
    \A k \in Keys : cache[k].rv # 0 /\ ~cache[k].stale =>
        /\ Ns[k] \in Served
        /\ cache[k].conn = watcher[Ns[k]].conn
        /\ watcher[Ns[k]].phase # "down"

\* The stream has nothing left to do and its client has read everything.
Idle(c) ==
    /\ inbox[c] = <<>>
    /\ \/ /\ stream[c].phase = "live"
          /\ stream[c].queue = <<>>
          /\ watcher[stream[c].space].phase = "live"
          /\ EventsAfter(stream[c].space, watcher[stream[c].space].seen) = {}
       \/ /\ stream[c].phase = "raw"
          /\ EventsAfter(stream[c].space, stream[c].seen) = {}

\* What an idle client does not know about a Secret of its namespace is one of:
\* an event broadcast after its snapshot was taken (or not yet committed by a
\* relist then) and before its receiver attached; a deletion its watcher had
\* handled before it attached, which the cache does not show; a deletion that
\* happened while the watcher was without a connection, before or after the
\* stream attached, because a relist reports what exists and broadcasts no
\* deletion; on a resumed stream, a write up to the resourceVersion it resumed
\* from.  Nothing else is ever missed: a full channel, a lagging receiver and a
\* long snapshot end the stream (handle_subscribe_secrets, bridge_broadcast,
\* run_raw_watch).
MissesAreNamed ==
    \A c \in Clients : Idle(c) =>
        \A k \in {k \in Keys : Ns[k] = stream[c].space} :
            LET r == Latest(k) IN
            \/ view[c][k] >= r
            \/ r \in stream[c].missed
            \/ /\ stream[c].phase = "live"
               /\ history[r].deleted
               /\ r <= stream[c].at \/ r \in watcher[stream[c].space].skipped
            \/ stream[c].phase = "raw" /\ r <= stream[c].from

\* ApplySecret writes a version that is not above the one in force only if
\* somebody else wrote or deleted the Secret between its read and its patch
\* (the gate and the forced patch are separate API calls).
RollbackWasRaced ==
    [][\A w \in Writers :
          writer[w].pc = "patch" /\ writer'[w].pc = "done" /\ Len(history') > Len(history)
              => \/ Latest(writer[w].key) # writer[w].base
                 \/ writer[w].version > parse_secret_schema_version(writer[w].key)]_vars

\* Once writes and failures stop, the cache holds the latest version of every
\* existing Secret of a served namespace, relists after reconnects included
\* (pump_secret_events, route_secret_event).
CacheCatchesUp ==
    <>[](\A k \in Keys : Ns[k] \in Served /\ Exists(k) => cache[k].rv = Latest(k))

-----------------------------------------------------------------------------
(* The inductive invariant of SecretDeliveryProofs.                        *)

StoreOK ==
    /\ history \in Seq(Write)
    /\ writer \in [Writers -> Writer]
    /\ faults \in 0..MaxFaults
    /\ subs \in 0..MaxSubs

WatchersOK ==
    /\ cache \in [Keys -> Entry]
    /\ watcher \in [Served -> Watcher]

\* The queues are bounded: CHANNEL_CAPACITY and BROADCAST_CAPACITY hold.
StreamsOK ==
    /\ stream \in [Clients -> Stream]
    /\ inbox \in [Clients -> Seq(Nat)]
    /\ view \in [Clients -> [Keys -> Nat]]
    /\ \A c \in Clients :
          /\ Len(inbox[c]) <= InboxSize
          /\ stream[c].phase = "live" => Len(stream[c].queue) <= RingSize

TypeOK == StoreOK /\ WatchersOK /\ StreamsOK

\* A patch under way was above the version in force when that was read.
WriterInv ==
    \A w \in Writers : writer[w].pc = "patch" =>
        /\ writer[w].key \in Keys /\ writer[w].base <= Len(history)
        /\ Latest(writer[w].key) = writer[w].base =>
               writer[w].version > parse_secret_schema_version(writer[w].key)

\* The existing Secrets of namespace s, as far as its watch has seen, and those
\* of them that the watcher has handled.
Reported(s) ==
    {r \in DOMAIN history :
        /\ Ns[history[r].key] = s /\ ~history[r].deleted /\ r <= watcher[s].seen
        /\ \A q \in WritesOf(history[r].key) : q <= watcher[s].seen => q <= r}

Delivered(s) ==
    {r \in Reported(s) : watcher[s].phase # "down" /\ r \notin watcher[s].list}

\* A relist delivers what exists, and its buffer is of this connection.
WatcherInv ==
    \A s \in Served :
        /\ watcher[s].seen <= Len(history)
        /\ watcher[s].list \cup Buffered(s) \subseteq Reported(s)
        /\ watcher[s].phase # "listing" => watcher[s].list = {} /\ watcher[s].buffer = <<>>
        /\ \A i \in DOMAIN watcher[s].buffer :
              ~watcher[s].buffer[i].stale /\ watcher[s].buffer[i].conn = watcher[s].conn

\* What a watcher has handled is in the cache, or will be when its relist is done.
CacheInv ==
    /\ \A k \in Keys : cache[k].rv <= Len(history)
    /\ \A s \in Served : \A r \in Delivered(s) :
          cache[history[r].key].rv = r \/ r \in Buffered(s)

\* Event r reached the client or is on its way to it.
Holds(c, r) ==
    \/ view[c][history[r].key] >= r
    \/ r \in Range(stream[c].queue)
    \/ stream[c].phase # "snap" /\ r \in Range(inbox[c])

\* A stream that has not lagged holds what its watcher has handled, apart from
\* what it missed between its snapshot and its attachment.
StreamInv ==
    \A c \in Clients : LET st == stream[c] IN
        /\ st.from <= Len(history) /\ st.seen <= Len(history)
        /\ st.phase = "live" => st.space \in Served /\ (st.lagged => st.queue # <<>>)
        /\ st.phase = "snap" => ~st.lagged /\ st.owed = {}
        /\ st.phase = "raw" => st.queue = <<>>
        /\ st.phase \in {"snap", "live"} /\ st.space \in Served /\ ~st.lagged =>
              \A r \in Delivered(st.space) : Holds(c, r) \/ r \in st.missed
        /\ st.phase = "live" /\ ~st.lagged =>
              \A r \in st.owed : r \in DOMAIN history /\ Holds(c, r)
        /\ st.phase = "raw" =>
              \A r \in DOMAIN history :
                 Ns[history[r].key] = st.space /\ r > st.from /\ r <= st.seen => Holds(c, r)

\* A deletion that a live stream's watcher came past since the stream attached was
\* broadcast to it, or a list jumped over it.
DeletionInv ==
    \A c \in Clients : stream[c].phase = "live" =>
        \A r \in EventsAfter(stream[c].space, stream[c].at) :
            history[r].deleted /\ r <= watcher[stream[c].space].seen =>
                r \in stream[c].owed \/ r \in watcher[stream[c].space].skipped

IndInv ==
    /\ TypeOK /\ WriterInv /\ WatcherInv /\ CacheInv
    /\ FreshIsFromThisConnection /\ StreamInv /\ DeletionInv
=============================================================================
