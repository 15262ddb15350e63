------------------------------- MODULE Handle -------------------------------
(***************************************************************************)
(* The client library's materialised view: KonfigClient::watch, the        *)
(* StreamDriver it spawns and the ConfigHandles it returns                 *)
(* (konfig-consumer/src/{lib,snapshot,stream}.rs).                         *)
(*                                                                         *)
(* Everything the driver does is decided by what its one Subscribe stream  *)
(* brings and by the handles its caller keeps, so a life of the driver is  *)
(* a script: a sequence of what happens to it.                             *)
(*   an Event   arrives (over a stream opened for it if none is open);     *)
(*   "refused"  the Subscribe call fails;                                  *)
(*   "clean"    the open stream ends without an error;                     *)
(*   "error"    the open stream ends with one;                             *)
(*   "clone", "drop"  the caller clones or drops a handle.                 *)
(***************************************************************************)
EXTENDS Integers, Sequences, FiniteSets, SequencesExt

CONSTANTS
    Tracked,        \* the names given to watch
    Contents,       \* values content_json can hold
    ScriptLength    \* bound on the enumerated scripts

BadJson == "bad json"
EmptyJson == ""
EmptyObject == "{}"
Null == "null"
NoRv == 0       \* the empty resource_version
Untracked == "untracked"
NoConfig == "no config"

BACKOFF_STEPS_SECS == <<1, 2, 4, 8, 16, 30>>

\* attempt is 0-based; past the end of the table the last step is used.
backoff_delay(attempt) ==
    BACKOFF_STEPS_SECS[IF attempt < Len(BACKOFF_STEPS_SECS) THEN attempt + 1
                       ELSE Len(BACKOFF_STEPS_SECS)]

(***************************************************************************)
(* ConfigSnapshot.  A failed parse of content_json yields none.            *)
(***************************************************************************)
DefaultSnapshot == [content |-> Null, rv |-> NoRv, stale |-> FALSE]

Parsed(json) == IF json = EmptyJson THEN EmptyObject ELSE json

snapshot_from_proto(cfg) ==
    [content |-> Parsed(cfg.json), rv |-> cfg.rv, stale |-> FALSE]

(***************************************************************************)
(* The driver: one store per name, the resume cursor, the reconnect        *)
(* attempt, the waits it has made, and the handles that keep it running.   *)
(***************************************************************************)
watch(names) ==
    [stores  |-> [n \in names |-> DefaultSnapshot],
     resume  |-> NoRv,
     attempt |-> 0,
     waits   |-> <<>>,
     handles |-> Cardinality(names)]

\* A slip: only the stores that have content are marked.
MarkLoadedStale(stores) ==
    [n \in DOMAIN stores |-> [stores[n] EXCEPT !.stale = @ \/ stores[n].rv # NoRv]]

mark_all_stale(stores) == [n \in DOMAIN stores |-> [stores[n] EXCEPT !.stale = TRUE]]

AdvanceResume(resume, event) ==
    IF event.name = NoConfig \/ event.rv = NoRv THEN resume ELSE event.rv

Publishes(event) == event.type # "Deleted" /\ event.json # BadJson

\* Demux one event.
apply(d, event) ==
    [d EXCEPT !.resume = AdvanceResume(@, event),
              !.attempt = 0,
              !.stores = IF event.name \in DOMAIN @ /\ Publishes(event)
                         THEN [@ EXCEPT ![event.name] = snapshot_from_proto(event)]
                         ELSE @]

\* The end of a pass of the reconnect loop, the stream having opened or not.
Reconnect(d, end) ==
    LET attempt == IF end = "refused" THEN d.attempt ELSE 0
    IN  [d EXCEPT !.stores = IF end = "clean" THEN @ ELSE mark_all_stale(@),
                  !.waits = Append(@, backoff_delay(attempt)),
                  !.attempt = attempt + 1]

Ends == {"refused", "clean", "error"}

\* The task is aborted when its last handle is dropped: what comes after changes nothing.
DriverStep(d, step) ==
    CASE d.handles = 0 -> d
      [] OTHER ->
    CASE step.what = "clone" -> [d EXCEPT !.handles = @ + 1]
      [] step.what = "drop"  -> [d EXCEPT !.handles = @ - 1]
      [] step.what \in Ends  -> Reconnect(d, step.what)
      [] step.what = "event" -> apply(d, step.event)

run(script) == FoldLeft(DriverStep, watch(Tracked), script)

(***************************************************************************)
(* KonfigClient::subscribe: the same loop, yielding raw events.            *)
(***************************************************************************)
RawStep(r, step) ==
    CASE step.what \in {"clone", "drop"} -> r
      [] step.what \in Ends ->
            LET attempt == IF step.what = "refused" THEN r.attempt ELSE 0
            IN  [r EXCEPT !.waits = Append(@, backoff_delay(attempt)), !.attempt = attempt + 1]
      [] step.what = "event" ->
            [r EXCEPT !.resume = AdvanceResume(@, step.event),
                      !.attempt = 0,
                      !.yielded = Append(@, step.event)]

reconnecting_event_stream(script) ==
    FoldLeft(RawStep, [resume |-> NoRv, attempt |-> 0, waits |-> <<>>, yielded |-> <<>>], script)

(***************************************************************************)
(* The scripts: short ones over every happening, and long runs of refused  *)
(* calls, which climb the backoff table to its end.  A call can be refused *)
(* only while no stream is open, and the caller can only use the handles   *)
(* it has.                                                                 *)
(***************************************************************************)
Events ==
    {[name |-> n, type |-> "Modified", rv |-> 1, json |-> c] :
        n \in Tracked, c \in Contents \cup {BadJson, EmptyJson}}
    \cup {[name |-> n, type |-> "Deleted", rv |-> 2, json |-> EmptyJson] : n \in Tracked}
    \cup {[name |-> n, type |-> "Snapshot", rv |-> NoRv, json |-> c] : n \in Tracked, c \in Contents}
    \cup {[name |-> Untracked, type |-> "Modified", rv |-> 3, json |-> EmptyJson],
          [name |-> NoConfig, type |-> "Modified", rv |-> 4, json |-> EmptyJson]}

Steps ==
    {[what |-> "event", event |-> e] : e \in Events}
        \cup {[what |-> w] : w \in Ends \cup {"clone", "drop"}}

Scripts ==
    {s \in UNION {[1 .. n -> Steps] : n \in 1 .. ScriptLength} :
        \A i \in 2 .. Len(s) : s[i].what = "refused" => s[i - 1].what \in Ends}
    \cup {[i \in 1 .. n |-> [what |-> "refused"]] : n \in 1 .. 8}

Observed(script) ==
    LET d == run(script)
        r == reconnecting_event_stream(script)
    IN  [stores |-> d.stores, resume |-> d.resume, waits |-> d.waits,
         yielded |-> r.yielded, rawResume |-> r.resume, rawWaits |-> r.waits]

(***************************************************************************)
(* Reference: what the script itself says.                                 *)
(***************************************************************************)
At(s, kinds) == {i \in DOMAIN s : s[i].what \in kinds}

\* The part of the script before the last handle goes.
Alive(s) ==
    LET held(i) == Cardinality(Tracked) + Cardinality({j \in At(s, {"clone"}) : j <= i})
                                        - Cardinality({j \in At(s, {"drop"}) : j <= i})
        gone == {i \in DOMAIN s : held(i) = 0}
    IN  IF gone = {} THEN s ELSE SubSeq(s, 1, Min(gone))

\* The last of a set of indices, or 0.
LastOf(S) == Max(S \cup {0})

\* The numbers of a set in increasing order.
Ordered(S) == [k \in 1 .. Cardinality(S) |-> CHOOSE x \in S : Cardinality({y \in S : y <= x}) = k]

Reference(s) ==
    LET ends    == At(s, Ends)
        Opened(i) == s[i].what \in {"clean", "error", "event"}
        streak(i) == Cardinality({j \in ends : LastOf({k \in 1 .. i - 1 : Opened(k)}) <= j /\ j < i})
        good(n) == LastOf({i \in At(s, {"event"}) : s[i].event.name = n /\ Publishes(s[i].event)})
        cursor  == LastOf({i \in At(s, {"event"}) : s[i].event.name # NoConfig /\ s[i].event.rv # NoRv})
        order   == Ordered(ends)
    IN  [stores |-> [n \in Tracked |->
                        [content |-> IF good(n) = 0 THEN Null ELSE Parsed(s[good(n)].event.json),
                         rv      |-> IF good(n) = 0 THEN NoRv ELSE s[good(n)].event.rv,
                         stale   |-> \E i \in At(s, {"refused", "error"}) : i > good(n)]],
         resume |-> IF cursor = 0 THEN NoRv ELSE s[cursor].event.rv,
         waits  |-> [i \in DOMAIN order |->
                        IF s[order[i]].what # "refused" THEN 1
                        ELSE BACKOFF_STEPS_SECS[Min({streak(order[i]), 5}) + 1]]]

(***************************************************************************)
(* A handle always shows the last event for its name that could be used,   *)
(* whatever deletions, unparseable payloads, foreign names, reconnects and *)
(* other handles' drops came after it, and is marked stale exactly when    *)
(* the connection was lost since; the next subscription resumes after the  *)
(* last event seen; the waits climb the table only while the server keeps  *)
(* refusing; and the raw stream yields every event and resumes at the same *)
(* place (konfig-consumer/src/stream.rs).                                  *)
(***************************************************************************)
HandleShowsLastGood(s, o) ==
    LET ref == Reference(Alive(s))
        raw == Reference(s)
    IN  /\ o.stores = ref.stores /\ o.resume = ref.resume /\ o.waits = ref.waits
        /\ o.yielded = LET seen == SelectSeq(s, LAMBDA x : x.what = "event")
                       IN  [i \in DOMAIN seen |-> seen[i].event]
        /\ o.rawResume = raw.resume /\ o.rawWaits = raw.waits
=============================================================================
