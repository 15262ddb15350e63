------------------------- MODULE PolicyTableProofs -------------------------
(***************************************************************************)
(* For any objects, names, specs and any number of writes, failures and    *)
(* restarts: once a watch has delivered everything, the published table is *)
(* that of the objects heard of last under each name, or the table that a  *)
(* connection over an empty cluster found.                                 *)
(***************************************************************************)
EXTENDS PolicyTable, SequenceTheorems, TLAPS

\* Every object's name is a key of the mirror.
LEMMA NameType == \A o \in Objects : NameOf[o] \in ObjNames
BY DEF ObjNames

\* A queue with one event more.
LEMMA AppendFacts ==
    ASSUME NEW s \in Seq(Event), NEW e \in Event
    PROVE  /\ Append(s, e) \in Seq(Event)
           /\ DOMAIN Append(s, e) = 1..(Len(s) + 1) /\ Len(s) \in Nat
           /\ DOMAIN s = 1..Len(s)
           /\ \A i \in 1..Len(s) : Append(s, e)[i] = s[i]
           /\ Append(s, e)[Len(s) + 1] = e
BY AppendProperties, LenProperties

\* A queue without its first event.
LEMMA TailFacts ==
    ASSUME NEW s \in Seq(Event), s # <<>>
    PROVE  /\ Tail(s) \in Seq(Event) /\ Head(s) \in Event /\ Head(s) = s[1]
           /\ Len(s) \in Nat \ {0} /\ DOMAIN s = 1..Len(s)
           /\ DOMAIN Tail(s) = 1..(Len(s) - 1)
           /\ \A i \in 1..(Len(s) - 1) : Tail(s)[i] = s[i + 1]
BY HeadTailProperties, EmptySeq, LenProperties, ElementOfSeq

\* The server starts with an empty table and no connection.
LEMMA InitIndInv == Init => IndInv
<1> SUFFICES ASSUME Init PROVE IndInv
  OBVIOUS
<1>1. TypeOK
  <2>1. live \in [Objects -> Values]
    BY DEF Init, Values
  <2>2. mirror \in [ObjNames -> Specs \cup {Absent}] /\ last \in [ObjNames -> Objects \cup {Absent}]
    BY DEF Init, NoObjects
  <2>3. writes \in 0..MaxWrites /\ faults \in 0..MaxFaults
    BY PolicyAssumption DEF Init
  <2>4. events \in Seq(Event)
    BY DEF Init
  <2> QED
    BY <2>1, <2>2, <2>3, <2>4 DEF Init, TypeOK
<1>2. events = <<>> /\ DOMAIN events = {} /\ todo = {} /\ conn = "down" /\ kept = Absent
      /\ mirror = NoObjects /\ last = NoObjects
  BY DEF Init
<1>3. DownInv /\ DeliveryInv
  BY <1>2 DEF DownInv, DeliveryInv
<1>4. MirrorInv /\ TableInv
  BY <1>2 DEF MirrorInv, TableInv, NoObjects
<1> QED
  BY <1>1, <1>3, <1>4 DEF IndInv

\* A write to an object is reported on an open connection.
LEMMA KubectlStep ==
    ASSUME IndInv, NEW o \in Objects, NEW v \in Values, Kubectl(o, v)
    PROVE  IndInv'
<1> DEFINE e == [obj |-> o, spec |-> v]
<1>0. e \in Event /\ e.obj = o /\ e.spec = v
  BY DEF Event
<1>1. /\ live \in [Objects -> Values] /\ live' = [live EXCEPT ![o] = v]
      /\ live' \in [Objects -> Values] /\ events \in Seq(Event)
      /\ UNCHANGED <<conn, todo, mirror, table, synced, kept, last, faults>>
  BY DEF IndInv, TypeOK, Kubectl
<1>2. \A p \in Objects : live'[p] = IF p = o THEN v ELSE live[p]
  BY <1>1
<1>3. writes' \in 0..MaxWrites
  BY PolicyAssumption DEF Kubectl, IndInv, TypeOK
<1>4. CASE conn = "down"
  <2>1. events = <<>> /\ events' = events /\ todo = {} /\ kept = Absent /\ mirror = NoObjects
        /\ last = NoObjects /\ DOMAIN events = {}
    BY <1>4 DEF Kubectl, IndInv, DownInv
  <2>2. TypeOK'
    BY <1>1, <1>3, <2>1 DEF IndInv, TypeOK
  <2>3. DownInv' /\ DeliveryInv'
    BY <1>1, <1>4, <2>1 DEF DownInv, DeliveryInv, NoObjects
  <2>4. MirrorInv' /\ TableInv'
    BY <1>1, <1>4, <2>1 DEF MirrorInv, TableInv, NoObjects
  <2> QED
    BY <2>2, <2>3, <2>4 DEF IndInv
<1>5. CASE conn # "down"
  <2>1. events' = Append(events, e)
    BY <1>5 DEF Kubectl
  <2> DEFINE n == Len(events)
  <2>2. /\ events' \in Seq(Event) /\ n \in Nat
        /\ DOMAIN events' = 1..(n + 1) /\ DOMAIN events = 1..n
        /\ \A i \in 1..n : events'[i] = events[i]
        /\ events'[n + 1] = e
    BY <1>0, <1>1, <2>1, AppendFacts
  <2> HIDE DEF e
  <2>3. /\ Pending(o)'
        /\ \A p : p # o => (Pending(p)' <=> Pending(p))
        /\ \A p : Listed(p)' <=> Listed(p)
    <3>1. n + 1 \in DOMAIN events' /\ events'[n + 1].obj = o
      BY <1>0, <2>2
    <3>2. ASSUME NEW p, p # o PROVE Pending(p)' <=> Pending(p)
      <4>1. \A i \in 1..(n + 1) : i = n + 1 \/ i \in 1..n
        BY <2>2
      <4>2. \A i \in 1..n : i \in 1..(n + 1)
        BY <2>2
      <4> QED
        BY <1>0, <2>2, <3>2, <4>1, <4>2 DEF Pending
    <3> QED
      BY <1>1, <3>1, <3>2 DEF Pending, Listed
  <2>4. TypeOK'
    BY <1>1, <1>3, <2>2 DEF IndInv, TypeOK
  <2>5. DownInv'
    BY <1>1, <1>5 DEF IndInv, DownInv
  <2>6. DeliveryInv'
    <3>1. ASSUME NEW i \in DOMAIN events',
                 \A j \in DOMAIN events' : j > i => events'[j].obj # events'[i].obj
          PROVE  events'[i].spec = live'[events'[i].obj]
      <4>1. CASE i = n + 1
        BY <1>0, <1>1, <2>2, <4>1
      <4>2. CASE i \in 1..n
        <5>1. events'[i] = events[i] /\ events[i] \in Event
          BY <1>1, <2>2, <4>2, ElementOfSeq
        <5>2. events[i].obj # o
          <6>1. n + 1 \in DOMAIN events' /\ n + 1 > i
            BY <2>2, <4>2
          <6> QED
            BY <1>0, <2>2, <3>1, <5>1, <6>1
        <5>3. \A j \in DOMAIN events : j > i => events[j].obj # events[i].obj
          BY <2>2, <3>1, <4>2
        <5>4. events[i].spec = live[events[i].obj]
          BY <2>2, <4>2, <5>3 DEF IndInv, DeliveryInv
        <5> QED
          BY <1>2, <5>1, <5>2, <5>4 DEF Event
      <4> QED
        BY <2>2, <4>1, <4>2
    <3>2. ASSUME NEW a \in todo', ~Pending(a.obj)'
          PROVE  a.spec = live'[a.obj]
      <4>1. a \in Event /\ a.obj # o
        BY <1>1, <2>3, <3>2 DEF IndInv, TypeOK
      <4>2. a.spec = live[a.obj]
        BY <1>1, <2>3, <3>2, <4>1 DEF IndInv, DeliveryInv
      <4> QED
        BY <1>2, <4>1, <4>2 DEF Event
    <3> QED
      BY <3>1, <3>2 DEF DeliveryInv
  <2>7. MirrorInv'
    <3>1. ASSUME NEW m \in ObjNames, NEW p \in Objects, p = last[m], p # Absent,
                 ~Pending(p)', ~Listed(p)'
          PROVE  mirror'[m] = IF live'[p] = Malformed THEN Absent ELSE live'[p]
      <4>1. p # o
        BY <2>3, <3>1
      <4>2. ~Pending(p) /\ ~Listed(p)
        BY <2>3, <3>1, <4>1
      <4>3. mirror[m] = IF live[p] = Malformed THEN Absent ELSE live[p]
        BY <1>5, <3>1, <4>2 DEF IndInv, MirrorInv
      <4> QED
        BY <1>1, <1>2, <4>1, <4>3
    <3>2. \A m \in ObjNames : last[m] # Absent => NameOf[last[m]] = m
      BY DEF IndInv, MirrorInv
    <3>3. \A m \in ObjNames : last[m] = Absent => mirror[m] = Absent
      BY <1>5 DEF IndInv, MirrorInv
    <3>4. ASSUME NEW p \in Objects, live'[p] # Absent
          PROVE  Pending(p)' \/ Listed(p)' \/ last[NameOf[p]] # Absent
      BY <1>2, <1>5, <2>3, <3>4 DEF IndInv, MirrorInv
    <3>5. \A m \in ObjNames : last[m] = Absent \/ last[m] \in Objects
      BY DEF IndInv, TypeOK
    <3> QED
      BY <1>1, <3>1, <3>2, <3>3, <3>4, <3>5 DEF MirrorInv
  <2>8. TableInv'
    BY <1>1, <1>2, <2>3 DEF IndInv, TableInv
  <2> QED
    BY <2>4, <2>5, <2>6, <2>7, <2>8 DEF IndInv
<1> QED
  BY <1>4, <1>5

\* The connection starts: every live object is in the list.
LEMMA ConnectStep ==
    ASSUME IndInv, Connect
    PROVE  IndInv'
<1>1. /\ conn' = "listing" /\ events' = <<>> /\ DOMAIN events' = {}
      /\ mirror' = NoObjects /\ last' = NoObjects /\ kept' = table /\ live' = live /\ table' = table
      /\ todo' = {[obj |-> o, spec |-> live[o]] : o \in {p \in Objects : live[p] # Absent}}
  BY DEF Connect
<1>2. live \in [Objects -> Values] /\ table \in SUBSET Specs
  BY DEF IndInv, TypeOK
<1>3. ASSUME NEW e \in todo'
      PROVE  e \in Event /\ e.spec = live'[e.obj]
  BY <1>1, <1>2 DEF Event
<1>4. ASSUME NEW o \in Objects
      PROVE  live'[o] # Absent => Listed(o)'
  <2>1. live[o] # Absent => [obj |-> o, spec |-> live[o]] \in todo'
    BY <1>1
  <2> QED
    BY <1>1, <2>1 DEF Listed
<1>5. TypeOK'
  <2>1. todo' \subseteq Event /\ events' \in Seq(Event)
    BY <1>1, <1>3
  <2>2. mirror' \in [ObjNames -> Specs \cup {Absent}] /\ last' \in [ObjNames -> Objects \cup {Absent}]
    BY <1>1 DEF NoObjects
  <2> QED
    BY <1>1, <1>2, <2>1, <2>2 DEF IndInv, TypeOK, Connect
<1>6. DownInv' /\ DeliveryInv'
  BY <1>1, <1>3 DEF DownInv, DeliveryInv
<1>7. MirrorInv'
  <2>1. \A n \in ObjNames : mirror'[n] = Absent /\ last'[n] = Absent
    BY <1>1 DEF NoObjects
  <2> QED
    BY <1>4, <2>1 DEF MirrorInv
<1>8. TableInv'
  BY <1>1, <1>2, PolicyAssumption DEF TableInv
<1> QED
  BY <1>5, <1>6, <1>7, <1>8 DEF IndInv

\* handle_event for an object whose next word, if any, is on its way.
LEMMA HandleEvent ==
    ASSUME IndInv, NEW e \in Event, handle_event(e), conn # "down",
           UNCHANGED <<live, conn>>,
           ~Pending(e.obj)' => e.spec = live[e.obj],
           \A o \in Objects \ {e.obj} : /\ Pending(o) => Pending(o)'
                                        /\ Listed(o) => Listed(o)'
    PROVE  /\ mirror' \in [ObjNames -> Specs \cup {Absent}] /\ table' \subseteq Specs
           /\ last' \in [ObjNames -> Objects \cup {Absent}]
           /\ kept' = Absent /\ MirrorInv' /\ TableInv'
<1> DEFINE x == IF e.spec = Malformed THEN Absent ELSE e.spec
           k == NameOf[e.obj]
<1>1. e.obj \in Objects /\ e.spec \in Values /\ x \in Specs \cup {Absent} /\ k \in ObjNames
      /\ e.obj # Absent
  BY NameType, PolicyAssumption DEF Event, Values
<1>2. mirror' = [mirror EXCEPT ![k] = x] /\ last' = [last EXCEPT ![k] = e.obj] /\ kept' = Absent
      /\ table' = Range(mirror') \ {Absent} /\ mirror \in [ObjNames -> Specs \cup {Absent}]
      /\ last \in [ObjNames -> Objects \cup {Absent}]
  BY DEF handle_event, MirrorWith, publish, IndInv, TypeOK
<1>3. ~Pending(e.obj)' => x = IF live'[e.obj] = Malformed THEN Absent ELSE live'[e.obj]
  OBVIOUS
<1> HIDE DEF x
<1>4. mirror' \in [ObjNames -> Specs \cup {Absent}] /\ last' \in [ObjNames -> Objects \cup {Absent}]
  BY <1>1, <1>2
<1>5. \A n \in ObjNames : /\ mirror'[n] = IF n = k THEN x ELSE mirror[n]
                          /\ last'[n] = IF n = k THEN e.obj ELSE last[n]
  BY <1>1, <1>2
<1>6. table' \subseteq Specs
  BY <1>2, <1>4 DEF Range
<1>7. \A n \in ObjNames : last'[n] # Absent => NameOf[last'[n]] = n
  BY <1>5 DEF IndInv, MirrorInv
<1>8. ASSUME NEW n \in ObjNames, last'[n] = Absent PROVE mirror'[n] = Absent
  BY <1>1, <1>5, <1>8 DEF IndInv, MirrorInv
<1>9. ASSUME NEW n \in ObjNames, NEW p \in Objects, p = last'[n], p # Absent,
             ~Pending(p)', ~Listed(p)'
      PROVE  mirror'[n] = IF live'[p] = Malformed THEN Absent ELSE live'[p]
  <2>1. CASE n = k
    <3>1. p = e.obj /\ mirror'[n] = x
      BY <1>5, <1>9, <2>1
    <3> QED
      BY <1>3, <1>9, <3>1
  <2>2. CASE n # k
    <3>1. p = last[n] /\ mirror'[n] = mirror[n]
      BY <1>5, <1>9, <2>2
    <3>2. NameOf[p] = n
      BY <1>9, <3>1 DEF IndInv, MirrorInv
    <3>3. p # e.obj
      BY <2>2, <3>2
    <3>4. ~Pending(p) /\ ~Listed(p)
      BY <1>9, <3>3
    <3>5. mirror[n] = IF live[p] = Malformed THEN Absent ELSE live[p]
      BY <1>9, <3>1, <3>4 DEF IndInv, MirrorInv
    <3> QED
      BY <3>1, <3>5
  <2> QED
    BY <2>1, <2>2
<1>10. ASSUME NEW o \in Objects, live'[o] # Absent
       PROVE  Pending(o)' \/ Listed(o)' \/ last'[NameOf[o]] # Absent
  <2>0. NameOf[o] \in ObjNames
    BY NameType
  <2>1. CASE NameOf[o] = k
    BY <1>1, <1>5, <2>0, <2>1
  <2>2. CASE NameOf[o] # k
    <3>1. Pending(o) \/ Listed(o) \/ last[NameOf[o]] # Absent
      BY <1>10 DEF IndInv, MirrorInv
    <3>2. o # e.obj
      BY <2>2
    <3> QED
      BY <1>5, <2>0, <2>2, <3>1, <3>2
  <2> QED
    BY <2>1, <2>2
<1>11. MirrorInv'
  <2>1. \A n \in ObjNames : last'[n] = Absent \/ last'[n] \in Objects
    BY <1>4
  <2> QED
    BY <1>7, <1>8, <1>9, <1>10, <2>1 DEF MirrorInv
<1> QED
  BY <1>2, <1>4, <1>6, <1>11 DEF TableInv

\* InitApply: one object of the list.
LEMMA InitApplyStep ==
    ASSUME IndInv, InitApply
    PROVE  IndInv'
<1>1. PICK e \in todo : todo' = todo \ {e} /\ handle_event(e)
  BY DEF InitApply
<1>2. UNCHANGED <<live, conn, events, synced, writes, faults>> /\ conn = "listing"
  BY DEF InitApply
<1>3. todo \subseteq Event /\ e \in Event /\ e.obj \in Objects
  BY DEF IndInv, TypeOK, Event
<1>4. \A o : Pending(o)' <=> Pending(o)
  BY <1>2 DEF Pending
<1>5. \A o : o # e.obj => (Listed(o) => Listed(o)')
  BY <1>1 DEF Listed
<1>6. ~Pending(e.obj) => e.spec = live[e.obj]
  BY DEF IndInv, DeliveryInv
<1>7. /\ mirror' \in [ObjNames -> Specs \cup {Absent}] /\ table' \subseteq Specs
      /\ last' \in [ObjNames -> Objects \cup {Absent}]
      /\ kept' = Absent /\ MirrorInv' /\ TableInv'
  BY <1>1, <1>2, <1>3, <1>4, <1>5, <1>6, HandleEvent
<1>8. TypeOK'
  BY <1>1, <1>2, <1>3, <1>7 DEF IndInv, TypeOK
<1>9. DownInv'
  BY <1>2 DEF DownInv
<1>10. DeliveryInv'
  BY <1>1, <1>2, <1>4 DEF IndInv, DeliveryInv
<1> QED
  BY <1>7, <1>8, <1>9, <1>10 DEF IndInv

\* The watch delivers its next event.
LEMMA WatchEventStep ==
    ASSUME IndInv, WatchEvent
    PROVE  IndInv'
<1> DEFINE n == Len(events)
<1>0. PICK e \in Event : e = Head(events)
  BY TailFacts DEF WatchEvent, IndInv, TypeOK
<1>1. /\ events # <<>> /\ handle_event(e) /\ events' = Tail(events) /\ conn = "watching"
      /\ UNCHANGED <<live, conn, todo, synced, writes, faults>> /\ events \in Seq(Event)
  BY <1>0 DEF WatchEvent, IndInv, TypeOK
<1>2. /\ events' \in Seq(Event) /\ e \in Event /\ e = events[1]
      /\ n \in Nat \ {0} /\ DOMAIN events = 1..n /\ DOMAIN events' = 1..(n - 1)
      /\ \A i \in 1..(n - 1) : events'[i] = events[i + 1]
  BY <1>0, <1>1, TailFacts
<1>3. e.obj \in Objects
  BY <1>2 DEF Event
<1>4. ASSUME NEW i \in 1..n, i # 1
      PROVE  i - 1 \in DOMAIN events' /\ events'[i - 1] = events[i]
  <2>1. i - 1 \in 1..(n - 1) /\ (i - 1) + 1 = i
    BY <1>2, <1>4
  <2> QED
    BY <1>2, <2>1
<1>5. ASSUME NEW i \in DOMAIN events'
      PROVE  i + 1 \in 1..n /\ i + 1 # 1 /\ events'[i] = events[i + 1]
  BY <1>2
<1>6. ASSUME NEW o, o # e.obj
      PROVE  Pending(o) <=> Pending(o)'
  <2>1. ASSUME Pending(o) PROVE Pending(o)'
    <3>1. PICK i \in 1..n : events[i].obj = o
      BY <1>2, <2>1 DEF Pending
    <3>2. i # 1
      BY <1>2, <1>6, <3>1
    <3> QED
      BY <1>4, <3>1, <3>2 DEF Pending
  <2>2. ASSUME Pending(o)' PROVE Pending(o)
    BY <1>2, <1>5, <2>2 DEF Pending
  <2> QED
    BY <2>1, <2>2
<1>7. ~Pending(e.obj)' => e.spec = live[e.obj]
  <2> SUFFICES ASSUME ~Pending(e.obj)' PROVE e.spec = live[e.obj]
    OBVIOUS
  <2>1. 1 \in DOMAIN events
    BY <1>2
  <2>2. ASSUME NEW j \in DOMAIN events, j > 1 PROVE events[j].obj # events[1].obj
    BY <1>2, <1>4, <2>2 DEF Pending
  <2> QED
    BY <1>2, <2>1, <2>2 DEF IndInv, DeliveryInv
<1>8. \A o : Listed(o)' <=> Listed(o)
  BY <1>1 DEF Listed
<1>9. /\ mirror' \in [ObjNames -> Specs \cup {Absent}] /\ table' \subseteq Specs
      /\ last' \in [ObjNames -> Objects \cup {Absent}]
      /\ kept' = Absent /\ MirrorInv' /\ TableInv'
  BY <1>1, <1>2, <1>6, <1>7, <1>8, HandleEvent
<1>10. TypeOK'
  BY <1>1, <1>2, <1>9 DEF IndInv, TypeOK
<1>11. DownInv'
  BY <1>1 DEF IndInv, DownInv
<1>12. DeliveryInv'
  <2>1. ASSUME NEW i \in DOMAIN events',
               \A j \in DOMAIN events' : j > i => events'[j].obj # events'[i].obj
        PROVE  events'[i].spec = live'[events'[i].obj]
    <3>1. ASSUME NEW j \in 1..n, j > i + 1 PROVE events[j].obj # events[i + 1].obj
      <4>1. i \in Nat /\ j # 1 /\ j - 1 > i
        BY <1>2, <3>1
      <4> QED
        BY <1>4, <1>5, <2>1, <4>1
    <3> QED
      BY <1>1, <1>2, <1>5, <3>1 DEF IndInv, DeliveryInv
  <2>2. todo' = {}
    BY <1>1 DEF IndInv, DownInv
  <2> QED
    BY <2>1, <2>2 DEF DeliveryInv
<1> QED
  BY <1>9, <1>10, <1>11, <1>12 DEF IndInv

\* The end of the list changes nothing but the watcher's place.
LEMMA InitDoneStep ==
    ASSUME IndInv, InitDone
    PROVE  IndInv'
<1>1. UNCHANGED <<live, todo, events, mirror, table, kept, last, writes, faults>> /\ todo = {}
      /\ conn = "listing" /\ conn' = "watching" /\ synced' = TRUE
  BY DEF InitDone
<1>2. \A o : (Pending(o)' <=> Pending(o)) /\ (Listed(o)' <=> Listed(o))
  BY <1>1 DEF Pending, Listed
<1>3. TypeOK'
  BY <1>1 DEF IndInv, TypeOK
<1>4. DownInv'
  BY <1>1 DEF DownInv
<1>5. DeliveryInv'
  BY <1>1, <1>2 DEF IndInv, DeliveryInv
<1>6. MirrorInv'
  BY <1>1, <1>2 DEF IndInv, MirrorInv
<1>7. TableInv'
  BY <1>1, <1>2 DEF IndInv, TableInv
<1> QED
  BY <1>3, <1>4, <1>5, <1>6, <1>7 DEF IndInv

\* The connection is lost, or the server with it.
LEMMA FaultStep ==
    ASSUME IndInv, Disconnect \/ ServerRestart
    PROVE  IndInv'
<1>1. /\ conn' = "down" /\ todo' = {} /\ events' = <<>> /\ mirror' = NoObjects /\ kept' = Absent
      /\ last' = NoObjects /\ DOMAIN events' = {} /\ UNCHANGED <<live, writes>>
  BY DEF Disconnect, ServerRestart
<1>2. faults' \in 0..MaxFaults
  BY PolicyAssumption DEF Disconnect, ServerRestart, IndInv, TypeOK
<1>3. TypeOK'
  <2>1. /\ events' \in Seq(Event) /\ mirror' \in [ObjNames -> Specs \cup {Absent}]
        /\ last' \in [ObjNames -> Objects \cup {Absent}]
    BY <1>1 DEF NoObjects
  <2>2. table' \subseteq Specs /\ synced' \in BOOLEAN
    BY DEF Disconnect, ServerRestart, IndInv, TypeOK
  <2> QED
    BY <1>1, <1>2, <2>1, <2>2 DEF IndInv, TypeOK
<1>4. DownInv' /\ DeliveryInv'
  BY <1>1 DEF DownInv, DeliveryInv, NoObjects
<1>5. MirrorInv' /\ TableInv'
  BY <1>1 DEF MirrorInv, TableInv, NoObjects
<1> QED
  BY <1>3, <1>4, <1>5 DEF IndInv

\* Every step preserves the invariant.
LEMMA NextIndInv == IndInv /\ [Next]_vars => IndInv'
<1> SUFFICES ASSUME IndInv, [Next]_vars PROVE IndInv'
  OBVIOUS
<1>1. CASE UNCHANGED vars
  <2>1. \A o : (Pending(o)' <=> Pending(o)) /\ (Listed(o)' <=> Listed(o))
    BY <1>1 DEF Pending, Listed, vars
  <2>2. TypeOK' /\ DownInv'
    BY <1>1 DEF IndInv, TypeOK, DownInv, vars
  <2>3. DeliveryInv' /\ MirrorInv' /\ TableInv'
    BY <1>1, <2>1 DEF IndInv, DeliveryInv, MirrorInv, TableInv, vars
  <2> QED
    BY <2>2, <2>3 DEF IndInv
<1> QED
  BY <1>1, KubectlStep, ConnectStep, InitApplyStep, InitDoneStep, WatchEventStep, FaultStep DEF Next

\* The invariant holds in every reachable state.
THEOREM Inductive == Spec => []IndInv
BY InitIndInv, NextIndInv, PTL DEF Spec

\* The watcher's state is well-formed; what a malformed spec leaves behind is
\* never a value of the mirror or of the table.
THEOREM TypeCorrect == Spec => []TypeOK
<1>1. IndInv => TypeOK
  BY DEF IndInv
<1> QED
  BY <1>1, Inductive, PTL

\* Once the watch has delivered everything, over any number of reconnects, the
\* table says what the objects heard of last under their names say, every object
\* with a name of its own among them; or, when the connection delivered no object,
\* it is the table that was there before, over an empty cluster (handle_event and
\* publish in acl.rs, quota.rs and schema.rs).
THEOREM TableIsExact == Spec => []SettledIsExact
<1>1. ASSUME IndInv, Settled
      PROVE  Reflects
  <2>1. /\ conn # "down"
        /\ \A o : ~Pending(o) /\ ~Listed(o)
    BY <1>1 DEF Settled, Pending, Listed, IndInv, DownInv
  <2>2. mirror \in [ObjNames -> Specs \cup {Absent}] /\ last \in [ObjNames -> Objects \cup {Absent}]
    BY <1>1 DEF IndInv, TypeOK
  <2>3. \A o \in Objects : NameOf[o] \in ObjNames /\ (live[o] # Absent => last[NameOf[o]] # Absent)
    BY <1>1, <2>1, NameType DEF IndInv, MirrorInv
  <2>4. CASE kept = Absent
    <3>1. table = Range(mirror) \ {Absent}
      BY <1>1, <2>1, <2>4 DEF IndInv, TableInv
    <3>2. ASSUME NEW n \in ObjNames
          PROVE  IF last[n] = Absent THEN mirror[n] = Absent
                 ELSE mirror[n] = IF live[last[n]] = Malformed THEN Absent ELSE live[last[n]]
      BY <1>1, <2>1 DEF IndInv, MirrorInv
    <3>3. ASSUME NEW v \in table PROVE v \in Says(Heard)
      <4>1. v # Absent /\ v \in Specs
        BY <1>1, <3>1, <3>3 DEF IndInv, TypeOK
      <4>2. PICK n \in ObjNames : mirror[n] = v
        BY <2>2, <3>1, <3>3 DEF Range
      <4>3. last[n] # Absent /\ live[last[n]] = v
        BY <3>2, <4>1, <4>2
      <4> QED
        BY <4>1, <4>3, PolicyAssumption DEF Says, Heard
    <3>4. ASSUME NEW v \in Says(Heard) PROVE v \in table
      <4>1. v # Absent /\ v # Malformed
        BY <3>4 DEF Says
      <4>2. PICK n \in ObjNames : last[n] # Absent /\ live[last[n]] = v
        BY <3>4 DEF Says, Heard
      <4>3. mirror[n] = v
        BY <3>2, <4>1, <4>2
      <4> QED
        BY <2>2, <3>1, <4>1, <4>3 DEF Range
    <3>5. ASSUME NEW o \in OwnName, live[o] # Absent PROVE o \in Heard
      <4>1. o \in Objects /\ NameOf[o] \in ObjNames /\ last[NameOf[o]] # Absent
        BY <2>3, <3>5 DEF OwnName
      <4>2. last[NameOf[o]] \in Objects /\ NameOf[last[NameOf[o]]] = NameOf[o]
        BY <1>1, <2>2, <4>1 DEF IndInv, MirrorInv
      <4>3. last[NameOf[o]] = o
        BY <4>2 DEF OwnName
      <4>4. o # Absent
        BY <4>1, PolicyAssumption
      <4> QED
        BY <4>1, <4>3, <4>4 DEF Heard
    <3>6. table = Says(Heard)
      BY <3>3, <3>4
    <3> QED
      BY <2>4, <3>5, <3>6 DEF Reflects, Exact
  <2>5. CASE kept # Absent
    <3>1. table = kept /\ \A n \in ObjNames : last[n] = Absent
      BY <1>1, <2>5 DEF IndInv, TableInv, NoObjects
    <3> QED
      BY <2>3, <2>5, <3>1 DEF AnyLive, Reflects
  <2> QED
    BY <2>4, <2>5
<1>2. IndInv => SettledIsExact
  BY <1>1 DEF SettledIsExact
<1> QED
  BY <1>2, Inductive, PTL
=============================================================================
