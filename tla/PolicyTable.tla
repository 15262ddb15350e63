---------------------------- MODULE PolicyTable ----------------------------
(***************************************************************************)
(* The tables the server keeps of cluster policy: ConfigACL grants         *)
(* (acl.rs), TenantQuota budgets (quota.rs) and ConfigSchema validators    *)
(* (schema.rs).  The three watchers are the same code: a mirror of the     *)
(* live objects that lives as long as one watch connection, and a table    *)
(* rebuilt from the mirror at every event that carries an object.          *)
(***************************************************************************)
EXTENDS Naturals, Sequences, Functions

CONSTANTS
    Objects,    \* the policy objects of the cluster
    NameOf,     \* their metadata.name, which keys the mirror
    Specs,      \* what a spec that parses may say
    Malformed,  \* a spec that does not parse
    Absent,     \* no object, no entry
    MaxWrites,  \* bound on the number of kubectl writes
    MaxFaults   \* bound on the number of failures

ASSUME PolicyAssumption ==
    /\ Malformed \notin Specs
    /\ Absent \notin Specs
    /\ Absent # Malformed
    /\ \A S \in SUBSET Specs : Absent # S
    /\ Absent \notin Objects
    /\ MaxWrites \in Nat
    /\ MaxFaults \in Nat

VARIABLES
    live,    \* the API server's objects
    conn,    \* the watch: "down", "listing" or "watching"
    todo,    \* objects of the initial list not delivered yet
    events,  \* watch events not delivered yet
    mirror,  \* the watcher's copy of the live objects, by metadata.name
    table,   \* the published table: the specs in force
    synced,  \* a list has completed once
    kept,    \* the table the connection found, until its first object arrives
    last,    \* history: by name, the object whose event this connection delivered last
    writes,  \* kubectl writes so far
    faults   \* failures so far

vars == <<live, conn, todo, events, mirror, table, synced, kept, last, writes, faults>>

Values    == Specs \cup {Malformed, Absent}
Event     == [obj : Objects, spec : Values]
ObjNames  == {NameOf[o] : o \in Objects}
NoObjects == [n \in ObjNames |-> Absent]

TypeOK ==
    /\ live \in [Objects -> Values]
    /\ conn \in {"down", "listing", "watching"}
    /\ todo \subseteq Event
    /\ events \in Seq(Event)
    /\ mirror \in [ObjNames -> Specs \cup {Absent}]
    /\ table \subseteq Specs
    /\ synced \in BOOLEAN
    /\ kept \in (SUBSET Specs) \cup {Absent}
    /\ last \in [ObjNames -> Objects \cup {Absent}]
    /\ writes \in 0..MaxWrites
    /\ faults \in 0..MaxFaults

Init ==
    /\ live \in [Objects -> {Absent} \cup Specs]
    /\ conn = "down"
    /\ todo = {} /\ events = <<>>
    /\ mirror = NoObjects /\ last = NoObjects
    /\ table = {}
    /\ synced = FALSE /\ kept = Absent
    /\ writes = 0 /\ faults = 0

\* kubectl creates, edits or deletes an object; an open watch will report it.
Kubectl(o, v) ==
    /\ writes < MaxWrites
    /\ writes' = writes + 1
    /\ live[o] # v
    /\ live' = [live EXCEPT ![o] = v]
    /\ events' = IF conn = "down" THEN events
                 ELSE Append(events, [obj |-> o, spec |-> v])
    /\ UNCHANGED <<conn, todo, mirror, table, synced, kept, last, faults>>

\* A connection starts with a list (Event::Init); pump_*_events starts with an
\* empty mirror, while the table is kept.
Connect ==
    /\ conn = "down"
    /\ conn' = "listing"
    /\ todo' = {[obj |-> o, spec |-> live[o]] : o \in {p \in Objects : live[p] # Absent}}
    /\ events' = <<>>
    /\ mirror' = NoObjects /\ last' = NoObjects
    /\ kept' = table
    /\ UNCHANGED <<live, table, synced, writes, faults>>

\* Mutant of MirrorWith: a malformed edit leaves the old entry in place.
MirrorKeepsMalformed(e) ==
    IF e.spec = Malformed THEN mirror ELSE [mirror EXCEPT ![NameOf[e.obj]] = e.spec]

\* Mutant of MirrorWith: a Delete is ignored.
MirrorIgnoresDelete(e) ==
    IF e.spec = Absent THEN mirror
    ELSE [mirror EXCEPT ![NameOf[e.obj]] = IF e.spec = Malformed THEN Absent ELSE e.spec]

\* Apply and InitApply: a spec that does not parse removes the object's entry.
MirrorWith(e) ==
    [mirror EXCEPT ![NameOf[e.obj]] = IF e.spec = Malformed THEN Absent ELSE e.spec]

publish == table' = Range(mirror') \ {Absent}

handle_event(e) ==
    /\ mirror' = MirrorWith(e)
    /\ publish
    /\ kept' = Absent
    /\ last' = [last EXCEPT ![NameOf[e.obj]] = e.obj]

InitApply ==
    /\ conn = "listing"
    /\ \E e \in todo :
         /\ todo' = todo \ {e}
         /\ handle_event(e)
    /\ UNCHANGED <<live, conn, events, synced, writes, faults>>

\* InitDone marks the table synced; it publishes nothing.
InitDone ==
    /\ conn = "listing"
    /\ todo = {}
    /\ conn' = "watching"
    /\ synced' = TRUE
    /\ UNCHANGED <<live, todo, events, mirror, table, kept, last, writes, faults>>

WatchEvent ==
    /\ conn = "watching"
    /\ events # <<>>
    /\ handle_event(Head(events))
    /\ events' = Tail(events)
    /\ UNCHANGED <<live, conn, todo, synced, writes, faults>>

\* The stream ends or fails at any point; the reconnect loop starts it again.
Disconnect ==
    /\ conn # "down"
    /\ faults < MaxFaults
    /\ faults' = faults + 1
    /\ conn' = "down"
    /\ todo' = {} /\ events' = <<>> /\ mirror' = NoObjects /\ kept' = Absent
    /\ last' = NoObjects
    /\ UNCHANGED <<live, table, synced, writes>>

ServerRestart ==
    /\ faults < MaxFaults
    /\ faults' = faults + 1
    /\ conn' = "down"
    /\ todo' = {} /\ events' = <<>> /\ mirror' = NoObjects /\ kept' = Absent
    /\ last' = NoObjects
    /\ table' = {} /\ synced' = FALSE
    /\ UNCHANGED <<live, writes>>

Next ==
    \/ \E o \in Objects, v \in Values : Kubectl(o, v)
    \/ Connect \/ InitApply \/ InitDone \/ WatchEvent
    \/ Disconnect \/ ServerRestart

Spec == Init /\ [][Next]_vars

\* run_with_reconnect always tries again, and the pump handles what arrives.
FairSpec ==
    /\ Spec
    /\ WF_vars(Connect) /\ WF_vars(InitApply) /\ WF_vars(InitDone) /\ WF_vars(WatchEvent)

-----------------------------------------------------------------------------
(* Properties *)

Says(O)   == {live[o] : o \in O} \ {Absent, Malformed}
AnyLive   == \E o \in Objects : live[o] # Absent
OwnName   == {o \in Objects : \A p \in Objects \ {o} : NameOf[p] # NameOf[o]}

Heard     == {last[n] : n \in ObjNames} \ {Absent}
Settled   == conn = "watching" /\ events = <<>>

\* The table says what the objects heard of last say now, one object for each
\* name; an object that has its name to itself is always heard.
Exact ==
    /\ table = Says(Heard)
    /\ \A o \in OwnName : live[o] # Absent => o \in Heard

\* What a delivered watch leaves in force: the exact table or, if the connection
\* has delivered no object, the table it found, over an empty cluster.
Reflects == IF kept = Absent THEN Exact ELSE ~AnyLive /\ table = kept

\* Once the watch has delivered everything, over any number of reconnects, the
\* table is the live objects', with the two windows the code leaves.  The mirror
\* is keyed by metadata.name alone, so of ConfigSchemas that share a name in two
\* namespaces only the one whose event came last counts, and if that event was a
\* deletion none does.  And a relist of an empty cluster delivers no object and
\* publishes nothing, so that what the table held before stays in force.  The code's
\* comments deny both: schema.rs:264-267 and 323-325 ("unique per object"), and
\* acl.rs:351 ("table now reflects the full live set").
SettledIsExact == Settled => Reflects

\* Once writes and failures stop, the table settles: for ever after it is the
\* exact one or, over an empty cluster whose list brought no object, the one the
\* last connection found, whose entries then stay although no object stands for
\* them.
TableConverges == <>[]Reflects

-----------------------------------------------------------------------------
(* The inductive invariant of PolicyTableProofs *)

Pending(o) == \E i \in DOMAIN events : events[i].obj = o
Listed(o)  == \E e \in todo : e.obj = o

\* A watcher without a connection holds nothing but the table.
DownInv ==
    /\ conn = "down" => /\ kept = Absent /\ todo = {} /\ events = <<>>
                        /\ mirror = NoObjects /\ last = NoObjects
    /\ conn = "watching" => todo = {}

\* The last event on its way for an object says what the object is now; so does
\* its place in the list, when no event is.
DeliveryInv ==
    /\ \A i \in DOMAIN events :
          (\A j \in DOMAIN events : j > i => events[j].obj # events[i].obj)
             => events[i].spec = live[events[i].obj]
    /\ \A e \in todo : ~Pending(e.obj) => e.spec = live[e.obj]

\* An entry of the mirror is what the last object heard of under its name says
\* now, unless more of that object is on its way; every live object is on its way
\* or something was heard under its name.
MirrorInv ==
    /\ \A n \in ObjNames : last[n] # Absent => NameOf[last[n]] = n
    /\ conn # "down" => \A n \in ObjNames :
          IF last[n] = Absent THEN mirror[n] = Absent
          ELSE Pending(last[n]) \/ Listed(last[n])
               \/ mirror[n] = IF live[last[n]] = Malformed THEN Absent ELSE live[last[n]]
    /\ conn # "down" => \A o \in Objects :
          live[o] # Absent => Pending(o) \/ Listed(o) \/ last[NameOf[o]] # Absent

\* Until the first object arrives the table is the one the connection found; from
\* then on it is the mirror's.
TableInv ==
    IF kept = Absent
    THEN conn # "down" => table = Range(mirror) \ {Absent}
    ELSE table = kept /\ mirror = NoObjects /\ last = NoObjects

IndInv == TypeOK /\ DownInv /\ DeliveryInv /\ MirrorInv /\ TableInv
=============================================================================
