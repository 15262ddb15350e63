------------------------ MODULE SecretDeliveryProofs ------------------------
(***************************************************************************)
(* For any namespaces, Secrets, clients and writers, any sizes of ring and *)
(* channel and any number of writes and failures: a Secret that looks      *)
(* fresh is, a client misses only what the handler's design lets it miss,  *)
(* and a version goes back only in a race.                                 *)
(***************************************************************************)
EXTENDS SecretDelivery, FiniteSetTheorems, SequenceTheorems, WellFoundedInduction, TLAPS

-----------------------------------------------------------------------------
(* Least and greatest numbers.                                             *)

\* A set of numbers has a least one.
LEMMA Least ==
    ASSUME NEW S \in SUBSET Nat, S # {}
    PROVE  \E m \in S : \A n \in S : m <= n
<1>1. \E m \in S : \A n \in S : ~(<<n, m>> \in OpToRel(<, Nat))
  BY WFMin, NatLessThanWellFounded
<1>2. PICK m \in S : \A n \in S : ~(<<n, m>> \in OpToRel(<, Nat))
  BY <1>1
<1>3. \A n \in S : ~(n < m)
  BY <1>2 DEF OpToRel
<1> QED
  BY <1>3

\* A bounded set of numbers has a greatest one.
LEMMA Greatest ==
    ASSUME NEW S \in SUBSET Nat, S # {}, NEW b \in Nat, \A n \in S : n <= b
    PROVE  \E m \in S : \A n \in S : n <= m
<1> DEFINE T == {m \in Nat : \A n \in S : n <= m}
<1>1. T \in SUBSET Nat /\ T # {}
  OBVIOUS
<1>2. PICK m \in T : \A n \in T : m <= n
  BY <1>1, Least
<1>3. m \in S
  <2> SUFFICES ASSUME m \notin S PROVE FALSE
    OBVIOUS
  <2>1. \A n \in S : n <= m - 1
    OBVIOUS
  <2>2. m # 0
    <3>1. PICK n \in S : n <= m - 1
      BY <2>1
    <3> QED
      BY <3>1
  <2>3. m - 1 \in T
    BY <2>1, <2>2
  <2> QED
    BY <1>2, <2>3
<1> QED
  BY <1>3

\* Max of a set of numbers with an upper bound.
LEMMA MaxFacts ==
    ASSUME NEW S \in SUBSET Nat, S # {}, NEW b \in Nat, \A n \in S : n <= b
    PROVE  Max(S) \in S /\ \A n \in S : n <= Max(S)
<1>1. \E m \in S : \A n \in S : m >= n
  BY Greatest
<1> QED
  BY <1>1 DEF Max

-----------------------------------------------------------------------------
(* The history.                                                            *)

\* The latest write of a Secret.
LatestIs(k) ==
    /\ Latest(k) \in 0..Len(history)
    /\ Latest(k) # 0 => Latest(k) \in WritesOf(k)
    /\ \A q \in WritesOf(k) : q <= Latest(k) /\ Latest(k) # 0

AllLatest == \A k : LatestIs(k)

\* Latest is the last write of its Secret, 0 when there is none.
LEMMA LatestFacts == StoreOK => AllLatest
<1> SUFFICES ASSUME StoreOK, NEW k PROVE LatestIs(k)
  BY DEF AllLatest
<1> USE DEF LatestIs
<1>1. Len(history) \in Nat /\ WritesOf(k) \subseteq 1..Len(history)
  BY LenProperties DEF StoreOK, WritesOf
<1>2. CASE WritesOf(k) = {}
  BY <1>1, <1>2 DEF Latest
<1>3. CASE WritesOf(k) # {}
  <2>1. WritesOf(k) \in SUBSET Nat /\ \A n \in WritesOf(k) : n <= Len(history)
    BY <1>1
  <2>2. \E m \in WritesOf(k) : \A n \in WritesOf(k) : n <= m
    BY <1>1, <1>3, <2>1, Greatest
  <2>3. Latest(k) = CHOOSE r \in WritesOf(k) : \A q \in WritesOf(k) : q <= r
    BY <1>3 DEF Latest
  <2>4. Latest(k) \in WritesOf(k) /\ \A q \in WritesOf(k) : q <= Latest(k)
    BY <2>2, <2>3
  <2> QED
    BY <1>1, <2>4
<1> QED
  BY <1>2, <1>3

\* The next event of a watch is the first one it has not reported.
LEMMA NextEventFacts ==
    ASSUME StoreOK, NEW s, NEW after \in Nat, NextEvent(s, after) # 0
    PROVE  /\ NextEvent(s, after) \in EventsAfter(s, after)
           /\ NextEvent(s, after) \in 1..Len(history)
           /\ \A q \in EventsAfter(s, after) : NextEvent(s, after) <= q
<1>1. Len(history) \in Nat /\ EventsAfter(s, after) \subseteq 1..Len(history)
  BY LenProperties DEF StoreOK, EventsAfter
<1>2. EventsAfter(s, after) # {}
  BY DEF NextEvent
<1>3. EventsAfter(s, after) \in SUBSET Nat
  BY <1>1
<1>4. \E m \in EventsAfter(s, after) : \A n \in EventsAfter(s, after) : m <= n
  BY <1>2, <1>3, Least
<1>5. NextEvent(s, after) =
        CHOOSE r \in EventsAfter(s, after) : \A q \in EventsAfter(s, after) : r <= q
  BY <1>2 DEF NextEvent
<1>6. /\ NextEvent(s, after) \in EventsAfter(s, after)
      /\ \A q \in EventsAfter(s, after) : NextEvent(s, after) <= q
  BY <1>4, <1>5
<1> QED
  BY <1>1, <1>6

\* One more write.
Grows(x) == x \in Write /\ history' = Append(history, x)

\* The past stays, and the new write is at the end.
LEMMA Grown ==
    ASSUME StoreOK, NEW x, Grows(x)
    PROVE  /\ Len(history) \in Nat /\ DOMAIN history = 1..Len(history)
           /\ history' \in Seq(Write) /\ Len(history') = Len(history) + 1
           /\ DOMAIN history' = 1..(Len(history) + 1)
           /\ \A i \in 1..Len(history) : history'[i] = history[i]
           /\ history'[Len(history) + 1] = x
<1>1. Len(history) \in Nat /\ DOMAIN history = 1..Len(history)
  BY LenProperties DEF StoreOK
<1>2. /\ history' \in Seq(Write) /\ Len(history') = Len(history) + 1
      /\ \A i \in 1..Len(history) : history'[i] = history[i]
      /\ history'[Len(history) + 1] = x
  BY AppendProperties DEF Grows, StoreOK
<1>3. DOMAIN history' = 1..(Len(history) + 1)
  BY <1>2, LenProperties
<1> QED
  BY <1>1, <1>2, <1>3

\* It is the latest of its Secret, and changes no other.
LEMMA LatestGrown ==
    ASSUME StoreOK, StoreOK', NEW x, Grows(x), NEW k
    PROVE  /\ k = x.key => Latest(k)' = Len(history) + 1
           /\ k # x.key => /\ Latest(k)' = Latest(k)
                           /\ parse_secret_schema_version(k)' = parse_secret_schema_version(k)
<1> DEFINE n == Len(history)
<1>1. /\ n \in Nat /\ DOMAIN history = 1..n /\ DOMAIN history' = 1..(n + 1)
      /\ Len(history') = n + 1 /\ history'[n + 1] = x
      /\ \A i \in 1..n : history'[i] = history[i]
  BY Grown
<1>2. /\ Latest(k) \in 0..n /\ (Latest(k) # 0 => Latest(k) \in WritesOf(k))
      /\ \A q \in WritesOf(k) : q <= Latest(k) /\ Latest(k) # 0
  BY LatestFacts DEF AllLatest, LatestIs
<1>3. AllLatest'
  BY LatestFacts, PTL
<1>4. /\ Latest(k)' \in 0..(n + 1) /\ (Latest(k)' # 0 => Latest(k)' \in WritesOf(k)')
      /\ \A q \in WritesOf(k)' : q <= Latest(k)' /\ Latest(k)' # 0
  BY <1>1, <1>3 DEF AllLatest, LatestIs
<1>5. \A q : q \in WritesOf(k) <=> q \in 1..n /\ history[q].key = k
  BY <1>1 DEF WritesOf
<1>6. \A q : q \in WritesOf(k)' <=> q \in 1..(n + 1) /\ history'[q].key = k
  BY <1>1 DEF WritesOf
<1> HIDE DEF n
<1>7. CASE k = x.key
  <2>1. n + 1 \in WritesOf(k)'
    BY <1>1, <1>6, <1>7
  <2> QED
    BY <1>1, <1>4, <1>7, <2>1 DEF n
<1>8. CASE k # x.key
  <2>1. \A q : q \in WritesOf(k)' <=> q \in WritesOf(k)
    BY <1>1, <1>5, <1>6, <1>8
  <2>2. Latest(k)' = Latest(k)
    BY <1>1, <1>2, <1>4, <2>1
  <2>3. Latest(k) # 0 => history'[Latest(k)] = history[Latest(k)]
    BY <1>1, <1>2
  <2>4. parse_secret_schema_version(k)' = parse_secret_schema_version(k)
    BY <2>2, <2>3 DEF parse_secret_schema_version, Exists
  <2> QED
    BY <1>8, <2>2, <2>4
<1> QED
  BY <1>7, <1>8

-----------------------------------------------------------------------------
(* ApplySecret.                                                            *)

\* The writes: a deletion from outside and a patch.
LEMMA WritesGrow ==
    ASSUME StoreOK, WriterInv,
           (\E k \in Keys : Delete(k)) \/ (\E w \in Writers : PatchCommits(w))
    PROVE  \E x : Grows(x)
<1>1. ASSUME NEW k \in Keys, Delete(k) PROVE \E x : Grows(x)
  <2> DEFINE v == history[Latest(k)].version
             x == [key |-> k, version |-> v, deleted |-> TRUE]
  <2>1. Latest(k) \in DOMAIN history
    BY <1>1, LatestFacts DEF Delete, Exists, AllLatest, LatestIs, WritesOf
  <2>2. history[Latest(k)] \in Write
    BY <2>1, ElementOfSeq, LenProperties DEF StoreOK
  <2>3. v \in Nat
    BY <2>2 DEF Write
  <2>4. x \in Write
    BY <2>3 DEF Write
  <2>5. history' = Append(history, x)
    BY <1>1 DEF Delete, Written
  <2> HIDE DEF x
  <2> QED
    BY <2>4, <2>5 DEF Grows
<1>2. ASSUME NEW w \in Writers, PatchCommits(w) PROVE \E x : Grows(x)
  <2> DEFINE x == [key |-> writer[w].key, version |-> writer[w].version, deleted |-> FALSE]
  <2>1. writer[w].key \in Keys /\ writer[w].version \in Nat
    BY <1>2 DEF PatchCommits, WriterInv, StoreOK, Writer
  <2>2. x \in Write
    BY <2>1 DEF Write
  <2>3. history' = Append(history, x)
    BY <1>2 DEF PatchCommits, Written
  <2> HIDE DEF x
  <2> QED
    BY <2>2, <2>3 DEF Grows
<1> QED
  BY <1>1, <1>2

\* One handler of WriterInv.
WriterIs(w) ==
    writer[w].pc = "patch" =>
        /\ writer[w].key \in Keys /\ writer[w].base <= Len(history)
        /\ Latest(writer[w].key) = writer[w].base =>
               writer[w].version > parse_secret_schema_version(writer[w].key)

\* A write by another leaves a patch under way with a base that is not the latest.
LEMMA WriterOutrun ==
    ASSUME StoreOK, StoreOK', NEW w \in Writers, WriterIs(w), writer'[w] = writer[w],
           history' = history \/ \E x : Grows(x)
    PROVE  WriterIs(w)'
<1>1. CASE history' = history
  BY <1>1 DEF WriterIs, Latest, WritesOf, parse_secret_schema_version, Exists
<1>2. ASSUME NEW x, Grows(x) PROVE WriterIs(w)'
  <2> SUFFICES ASSUME writer[w].pc = "patch"
               PROVE  /\ writer[w].key \in Keys /\ writer[w].base <= Len(history')
                      /\ Latest(writer[w].key)' = writer[w].base =>
                           writer[w].version > parse_secret_schema_version(writer[w].key)'
    BY DEF WriterIs
  <2> DEFINE k == writer[w].key
             b == writer[w].base
  <2>1. k \in Keys /\ b \in Nat /\ b <= Len(history)
    BY DEF WriterIs, StoreOK, Writer
  <2>2. Len(history) \in Nat /\ Len(history') = Len(history) + 1
    BY <1>2, Grown
  <2>3. /\ k = x.key => Latest(k)' = Len(history) + 1
        /\ k # x.key => /\ Latest(k)' = Latest(k)
                        /\ parse_secret_schema_version(k)' = parse_secret_schema_version(k)
    BY <1>2, LatestGrown
  <2>4. Latest(writer[w].key)' = Latest(k)'
        /\ parse_secret_schema_version(writer[w].key)' = parse_secret_schema_version(k)'
    BY DEF Latest, WritesOf, parse_secret_schema_version, Exists
  <2>5. CASE k = x.key
    BY <2>1, <2>2, <2>3, <2>4, <2>5
  <2>6. CASE k # x.key
    BY <2>1, <2>2, <2>3, <2>4, <2>6 DEF WriterIs
  <2> QED
    BY <2>5, <2>6
<1> QED
  BY <1>1, <1>2

\* What a step may do to the history: nothing, or one write that leaves the
\* server and the clients alone.
LEMMA HistoryStep ==
    ASSUME StoreOK, WriterInv, [Next]_vars
    PROVE  \/ history' = history
           \/ /\ \E x : Grows(x)
              /\ UNCHANGED <<serverVars, view>>
<1> USE DEF serverVars
<1>1. CASE (\E k \in Keys : Delete(k)) \/ (\E w \in Writers : PatchCommits(w))
  <2>1. \E x : Grows(x)
    BY <1>1, WritesGrow
  <2>2. UNCHANGED <<serverVars, view>>
    BY <1>1 DEF Delete, PatchCommits
  <2> QED
    BY <2>1, <2>2
<1>2. ASSUME NEW w \in Writers, WriterNext(w), ~PatchCommits(w) PROVE history' = history
  BY <1>2 DEF WriterNext, FetchVersion, PatchConflict, PatchFails
<1>3. ASSUME NEW s \in Served, WatcherNext(s) \/ Disconnect(s) PROVE history' = history
  BY <1>3 DEF WatcherNext, Connect, InitApply, InitDone, WatchEvent, Disconnect
<1>4. ASSUME NEW c \in Clients, NEW s, NEW from, Snapshot(c, s, from) PROVE history' = history
  BY <1>4 DEF Snapshot
<1>5. ASSUME NEW c \in Clients, StreamNext(c) \/ HangUp(c) \/ Receive(c)
      PROVE  history' = history
  BY <1>5 DEF StreamNext, Attach, Bridge, RawEvent, HangUp, Receive
<1>6. ASSUME NEW c \in Clients, NEW status, StreamEnds(c, status) PROVE history' = history
  BY <1>6 DEF StreamEnds
<1>7. CASE UNCHANGED vars
  BY <1>7 DEF vars
<1> QED
  BY <1>1, <1>2, <1>3, <1>4, <1>5, <1>6, <1>7 DEF Next

\* The steps of a writer, and of nobody else, change a writer.
LEMMA WriterStep ==
    ASSUME [Next]_vars, ~(\E w \in Writers : WriterNext(w))
    PROVE  writer' = writer
<1>1. ASSUME NEW k \in Keys, Delete(k) PROVE writer' = writer
  BY <1>1 DEF Delete
<1>2. ASSUME NEW s \in Served, WatcherNext(s) \/ Disconnect(s) PROVE writer' = writer
  BY <1>2 DEF WatcherNext, Connect, InitApply, InitDone, WatchEvent, Disconnect
<1>3. ASSUME NEW c \in Clients, NEW s, NEW from, Snapshot(c, s, from) PROVE writer' = writer
  BY <1>3 DEF Snapshot
<1>4. ASSUME NEW c \in Clients, StreamNext(c) \/ HangUp(c) \/ Receive(c)
      PROVE  writer' = writer
  BY <1>4 DEF StreamNext, Attach, Bridge, RawEvent, HangUp, Receive
<1>5. ASSUME NEW c \in Clients, NEW status, StreamEnds(c, status) PROVE writer' = writer
  BY <1>5 DEF StreamEnds
<1>6. CASE UNCHANGED vars
  BY <1>6 DEF vars
<1> QED
  BY <1>1, <1>2, <1>3, <1>4, <1>5, <1>6 DEF Next

\* A writer's step: the others keep still, and it starts a patch only above the
\* version it has just read.
LEMMA OneWriter ==
    ASSUME StoreOK, NEW w \in Writers, WriterNext(w)
    PROVE  \E z \in Writer :
              /\ writer' = [writer EXCEPT ![w] = z]
              /\ z.pc = "patch" =>
                    \/ /\ history' = history /\ z.key \in Keys /\ z.base = Latest(z.key)
                       /\ z.version > parse_secret_schema_version(z.key)
                    \/ /\ history' = history /\ writer[w].pc = "patch" /\ z.key = writer[w].key
                       /\ z.base = writer[w].base /\ z.version = writer[w].version
<1> DEFINE Over == [Writer0 EXCEPT !.pc = "done"]
<1>1. Over \in Writer /\ Over.pc = "done"
  BY SecretAssumption DEF Writer0, Writer
<1>2. writer[w] \in Writer
  BY DEF StoreOK
<1>3. CASE Answer(w)
  <2>1. writer' = [writer EXCEPT ![w] = Over]
    BY <1>3 DEF Answer
  <2> HIDE DEF Over
  <2> QED
    BY <1>1, <2>1
<1>4. ASSUME NEW k \in Keys, NEW v \in Versions, FetchVersion(w, k, v)
      PROVE  \E z \in Writer :
              /\ writer' = [writer EXCEPT ![w] = z]
              /\ history' = history /\ z.key \in Keys /\ z.base = Latest(z.key)
              /\ z.version > parse_secret_schema_version(z.key)
  <2> DEFINE z == [pc |-> "patch", key |-> k, version |-> v, base |-> Latest(k), tries |-> 0]
  <2>1. Latest(k) \in Nat
    BY LatestFacts DEF AllLatest, LatestIs
  <2>2. v \in Nat /\ RetryBudget \in Nat
    BY SecretAssumption
  <2>3. z \in Writer
    BY <2>1, <2>2 DEF Writer
  <2>4. z.key = k /\ z.base = Latest(k) /\ z.version = v
    OBVIOUS
  <2>5. writer' = [writer EXCEPT ![w] = z] /\ history' = history
    BY <1>4 DEF FetchVersion
  <2>6. v > parse_secret_schema_version(k)
    BY <1>4 DEF FetchVersion, Gate
  <2> HIDE DEF z
  <2> QED
    BY <2>3, <2>4, <2>5, <2>6
<1>5. CASE PatchConflict(w)
  <2>1. CASE writer[w].tries < RetryBudget
    <3> DEFINE z == [writer[w] EXCEPT !.tries = writer[w].tries + 1]
    <3>1. z \in Writer /\ z.key = writer[w].key /\ z.base = writer[w].base
          /\ z.version = writer[w].version
      BY <1>2, <2>1, SecretAssumption DEF Writer
    <3>2. writer' = [writer EXCEPT ![w] = z] /\ history' = history /\ writer[w].pc = "patch"
      BY <1>5, <2>1 DEF PatchConflict
    <3> HIDE DEF z
    <3> QED
      BY <3>1, <3>2
  <2>2. CASE ~(writer[w].tries < RetryBudget)
    BY <1>3, <1>5, <2>2 DEF PatchConflict
  <2> QED
    BY <2>1, <2>2
<1>6. CASE PatchCommits(w) \/ PatchFails(w)
  BY <1>3, <1>6 DEF PatchCommits, PatchFails
<1>7. CASE \E k \in Keys, v \in Versions : FetchVersion(w, k, v)
  BY <1>4, <1>7
<1> QED
  BY <1>5, <1>6, <1>7 DEF WriterNext

\* Every step keeps the history and the writers typed and WriterInv true.
LEMMA NextStore == StoreOK /\ WriterInv /\ [Next]_vars => StoreOK' /\ WriterInv'
<1> SUFFICES ASSUME StoreOK, WriterInv, [Next]_vars PROVE StoreOK' /\ WriterInv'
  OBVIOUS
<1>1. history' = history \/ \E x : Grows(x)
  BY HistoryStep
<1>2. history' \in Seq(Write)
  BY <1>1, Grown DEF StoreOK
<1>3. writer' \in [Writers -> Writer]
  BY WriterStep, OneWriter DEF StoreOK
<1> DEFINE Counts == /\ faults' = faults \/ (faults < MaxFaults /\ faults' = faults + 1)
                     /\ subs' = subs \/ (subs < MaxSubs /\ subs' = subs + 1)
<1>4. Counts
  <2>1. CASE \E k \in Keys : Delete(k)
    BY <2>1 DEF Delete
  <2>2. CASE \E w \in Writers : WriterNext(w)
    BY <2>2 DEF WriterNext, FetchVersion, PatchCommits, PatchConflict, PatchFails
  <2>3. CASE \E s \in Served : WatcherNext(s)
    BY <2>3 DEF WatcherNext, Connect, InitApply, InitDone, WatchEvent
  <2>4. CASE \E s \in Served : Disconnect(s)
    BY <2>4 DEF Disconnect, Fault
  <2>5. CASE \E c \in Clients, s \in Spaces, from \in 0..Len(history) : Snapshot(c, s, from)
    BY <2>5 DEF Snapshot
  <2>6. CASE \E c \in Clients : StreamNext(c)
    BY <2>6 DEF StreamNext, Attach, Bridge, RawEvent
  <2>7. CASE \E c \in Clients :
                (\E status \in BOOLEAN : StreamEnds(c, status)) \/ HangUp(c) \/ Receive(c)
    BY <2>7 DEF StreamEnds, HangUp, Receive, Fault
  <2>8. CASE UNCHANGED vars
    BY <2>8 DEF vars
  <2> HIDE DEF Counts
  <2> QED
    BY <2>1, <2>2, <2>3, <2>4, <2>5, <2>6, <2>7, <2>8, Zenon DEF Next
<1>5. faults' \in 0..MaxFaults /\ subs' \in 0..MaxSubs
  <2>1. /\ faults \in 0..MaxFaults /\ MaxFaults \in Nat
        /\ subs \in 0..MaxSubs /\ MaxSubs \in Nat
    BY SecretAssumption DEF StoreOK
  <2> QED
    BY ONLY <1>4, <2>1
<1>6. StoreOK'
  BY <1>2, <1>3, <1>4, <1>5 DEF StoreOK
<1>7. ASSUME NEW w \in Writers PROVE WriterIs(w)'
  <2>1. CASE writer'[w] = writer[w]
    BY <1>1, <1>6, <2>1, WriterOutrun DEF WriterInv, WriterIs
  <2>2. CASE writer'[w] # writer[w]
    <3>1. PICK u \in Writers : WriterNext(u)
      BY <2>2, WriterStep
    <3>2. PICK z \in Writer :
              /\ writer' = [writer EXCEPT ![u] = z]
              /\ z.pc = "patch" =>
                    \/ /\ history' = history /\ z.key \in Keys /\ z.base = Latest(z.key)
                       /\ z.version > parse_secret_schema_version(z.key)
                    \/ /\ history' = history /\ writer[u].pc = "patch" /\ z.key = writer[u].key
                       /\ z.base = writer[u].base /\ z.version = writer[u].version
      BY <3>1, OneWriter
    <3>3. u = w /\ writer'[w] = z
      BY <2>2, <3>2 DEF StoreOK
    <3> SUFFICES ASSUME z.pc = "patch" PROVE WriterIs(w)'
      BY <3>3 DEF WriterIs
    <3>4. history' = history
      BY <3>2
    <3>5. Latest(writer[w].key)' = Latest(z.key)
          /\ parse_secret_schema_version(writer[w].key)' = parse_secret_schema_version(z.key)
      BY <3>3, <3>4 DEF Latest, WritesOf, parse_secret_schema_version, Exists
    <3>6. Latest(z.key) <= Len(history)
      BY LatestFacts, LenProperties DEF AllLatest, LatestIs, StoreOK
    <3>7. /\ z.key \in Keys /\ z.base <= Len(history)
          /\ Latest(z.key) = z.base => z.version > parse_secret_schema_version(z.key)
      BY <3>2, <3>3, <3>6 DEF WriterInv
    <3> QED
      BY <3>3, <3>4, <3>5, <3>7 DEF WriterIs
  <2> QED
    BY <2>1, <2>2
<1>8. WriterInv'
  BY <1>7 DEF WriterInv, WriterIs
<1> QED
  BY <1>6, <1>8

-----------------------------------------------------------------------------
(* What a watch has reported.                                              *)

\* Reported, Delivered and Buffered of a history h and a watcher w.
RepIn(h, s, n) ==
    {r \in DOMAIN h : /\ Ns[h[r].key] = s /\ ~h[r].deleted /\ r <= n
                      /\ \A q \in DOMAIN h : h[q].key = h[r].key /\ q <= n => q <= r}

DelIn(h, s, w) == {r \in RepIn(h, s, w.seen) : w.phase # "down" /\ r \notin w.list}

BufIn(w) == {w.buffer[i].rv : i \in DOMAIN w.buffer}

\* They are what the model's operators say.
LEMMA Definitions ==
    \A s : /\ Reported(s) = RepIn(history, s, watcher[s].seen)
           /\ Delivered(s) = DelIn(history, s, watcher[s])
           /\ Buffered(s) = BufIn(watcher[s])
<1> TAKE s
<1>1. Reported(s) = RepIn(history, s, watcher[s].seen)
  BY DEF Reported, RepIn, WritesOf
<1>2. Delivered(s) = DelIn(history, s, watcher[s])
  BY <1>1 DEF Delivered, DelIn
<1>3. Buffered(s) = BufIn(watcher[s])
  BY DEF Buffered, BufIn
<1> QED
  BY <1>1, <1>2, <1>3

\* One reported version per Secret.
LEMMA RepFacts ==
    ASSUME NEW h \in Seq(Write), NEW s, NEW n \in Nat
    PROVE  \A r \in RepIn(h, s, n) :
              /\ r \in 1..Len(h) /\ r \in Nat \ {0} /\ h[r].key \in Keys /\ Ns[h[r].key] = s
              /\ \A q \in RepIn(h, s, n) : h[q].key = h[r].key => q = r
<1>1. Len(h) \in Nat /\ DOMAIN h = 1..Len(h)
  BY LenProperties
<1> TAKE r \in RepIn(h, s, n)
<1>2. r \in 1..Len(h) /\ Ns[h[r].key] = s /\ r <= n
      /\ \A q \in 1..Len(h) : h[q].key = h[r].key /\ q <= n => q <= r
  BY <1>1 DEF RepIn
<1>3. h[r] \in Write
  BY <1>2, ElementOfSeq
<1>4. ASSUME NEW q \in RepIn(h, s, n), h[q].key = h[r].key PROVE q = r
  <2>1. q \in 1..Len(h) /\ q <= n /\ \A p \in 1..Len(h) : h[p].key = h[q].key /\ p <= n => p <= q
    BY <1>1 DEF RepIn
  <2> QED
    BY <1>1, <1>2, <1>4, <2>1
<1> QED
  BY <1>1, <1>2, <1>3, <1>4 DEF Write

\* A write the watch has not seen changes nothing.
LEMMA RepGrown ==
    ASSUME StoreOK, NEW x, Grows(x), NEW s, NEW n \in Nat, n <= Len(history)
    PROVE  RepIn(history', s, n) = RepIn(history, s, n)
<1>1. /\ Len(history) \in Nat /\ DOMAIN history = 1..Len(history)
      /\ DOMAIN history' = 1..(Len(history) + 1)
      /\ \A i \in 1..Len(history) : history'[i] = history[i]
  BY Grown
<1>2. \A r : r \in DOMAIN history' /\ r <= n <=> r \in DOMAIN history /\ r <= n
  BY <1>1
<1>3. \A r \in DOMAIN history : history'[r] = history[r]
  BY <1>1
<1> QED
  BY <1>2, <1>3 DEF RepIn

\* The next event of a watch replaces what was reported of its Secret.
LEMMA RepNext ==
    ASSUME StoreOK, NEW s, NEW n \in Nat, NEW r, r \in EventsAfter(s, n),
           \A q \in EventsAfter(s, n) : r <= q
    PROVE  /\ ~history[r].deleted => r \in RepIn(history, s, r)
           /\ \A q \in RepIn(history, s, r) : q # r => /\ q \in RepIn(history, s, n)
                                                       /\ history[q].key # history[r].key
<1>1. Len(history) \in Nat /\ DOMAIN history = 1..Len(history)
  BY LenProperties DEF StoreOK
<1>2. r \in 1..Len(history) /\ Ns[history[r].key] = s /\ r > n
  BY <1>1 DEF EventsAfter
<1>3. ~history[r].deleted => r \in RepIn(history, s, r)
  BY <1>1, <1>2 DEF RepIn
<1>4. ASSUME NEW q \in RepIn(history, s, r), q # r
      PROVE  q \in RepIn(history, s, n) /\ history[q].key # history[r].key
  <2>1. /\ q \in 1..Len(history) /\ q <= r /\ Ns[history[q].key] = s /\ ~history[q].deleted
        /\ \A p \in 1..Len(history) : history[p].key = history[q].key /\ p <= r => p <= q
    BY <1>1 DEF RepIn
  <2>2. history[q].key # history[r].key
    BY <1>2, <1>4, <2>1
  <2>3. q <= n
    <3>1. ~(q > n)
      BY <1>1, <1>2, <1>4, <2>1 DEF EventsAfter
    <3> QED
      BY <2>1, <3>1
  <2>4. \A p \in 1..Len(history) : history[p].key = history[q].key /\ p <= n => p <= q
    BY <1>2, <2>1
  <2> QED
    BY <1>1, <2>1, <2>2, <2>3, <2>4 DEF RepIn
<1> QED
  BY <1>3, <1>4

\* A fresh list is what a watch started at its resourceVersion has reported.
LEMMA RepListed ==
    ASSUME StoreOK, NEW s
    PROVE  LET n == Max(EventsAfter(s, 0) \cup {0})
               l == {Latest(k) : k \in {k \in Keys : Ns[k] = s /\ Exists(k)}}
           IN  n \in Nat /\ n <= Len(history) /\ l = RepIn(history, s, n)
<1> DEFINE S == EventsAfter(s, 0) \cup {0}
           n == Max(S)
           l == {Latest(k) : k \in {k \in Keys : Ns[k] = s /\ Exists(k)}}
<1>1. Len(history) \in Nat /\ DOMAIN history = 1..Len(history)
  BY LenProperties DEF StoreOK
<1>2. S \subseteq 0..Len(history)
  BY <1>1 DEF EventsAfter
<1>3. S \in SUBSET Nat /\ S # {} /\ \A m \in S : m <= Len(history)
  BY <1>1, <1>2
<1> HIDE DEF S
<1>4. n \in S /\ \A m \in S : m <= n
  BY <1>1, <1>3, MaxFacts
<1> HIDE DEF n
<1>5. n \in Nat /\ n <= Len(history)
  BY <1>1, <1>2, <1>4
<1>6. \A r \in 1..Len(history) : Ns[history[r].key] = s => r <= n
  BY <1>1, <1>4 DEF S, EventsAfter
<1>7. ASSUME NEW k \in Keys, Ns[k] = s, Exists(k) PROVE Latest(k) \in RepIn(history, s, n)
  <2>1. Latest(k) \in WritesOf(k) /\ ~history[Latest(k)].deleted
        /\ \A q \in WritesOf(k) : q <= Latest(k)
    BY <1>7, LatestFacts DEF Exists, AllLatest, LatestIs
  <2>2. Latest(k) \in 1..Len(history) /\ history[Latest(k)].key = k
    BY <1>1, <2>1 DEF WritesOf
  <2>3. \A q \in DOMAIN history : history[q].key = k => q <= Latest(k)
    BY <2>1 DEF WritesOf
  <2> QED
    BY <1>1, <1>6, <1>7, <2>1, <2>2, <2>3 DEF RepIn
<1>8. ASSUME NEW r \in RepIn(history, s, n) PROVE r \in l
  <2> DEFINE k == history[r].key
  <2>1. /\ r \in 1..Len(history) /\ Ns[k] = s /\ ~history[r].deleted /\ r <= n
        /\ \A q \in 1..Len(history) : history[q].key = k /\ q <= n => q <= r
    BY <1>1 DEF RepIn
  <2>2. history[r] \in Write
    BY <2>1, ElementOfSeq DEF StoreOK
  <2>3. k \in Keys
    BY <2>2 DEF Write
  <2>4. r \in WritesOf(k)
    BY <1>1, <2>1 DEF WritesOf
  <2>5. Latest(k) \in WritesOf(k) /\ r <= Latest(k) /\ Latest(k) # 0 /\ Latest(k) \in Nat
    BY <2>4, LatestFacts DEF AllLatest, LatestIs
  <2>6. Latest(k) \in 1..Len(history) /\ history[Latest(k)].key = k
    BY <1>1, <2>5 DEF WritesOf
  <2>7. Latest(k) <= r
    BY <1>6, <2>1, <2>6
  <2>8. Latest(k) = r
    BY <1>1, <2>1, <2>5, <2>7
  <2>9. Exists(k)
    BY <2>1, <2>5, <2>8 DEF Exists
  <2> HIDE DEF k
  <2>10. Ns[k] = s
    BY <2>1 DEF k
  <2> QED
    BY <2>3, <2>8, <2>9, <2>10
<1>9. l = RepIn(history, s, n)
  <2>1. \A r \in l : r \in RepIn(history, s, n)
    BY <1>7
  <2>2. \A r \in RepIn(history, s, n) : r \in l
    BY <1>8
  <2> HIDE DEF l
  <2> QED
    BY <2>1, <2>2
<1> QED
  BY <1>5, <1>9 DEF n, S

-----------------------------------------------------------------------------
(* The watchers.                                                           *)

\* One watcher of WatcherInv, and the cache m as that watcher leaves it.
WatcherIs(h, s, w) ==
    /\ w.seen <= Len(h)
    /\ w.list \subseteq RepIn(h, s, w.seen) /\ BufIn(w) \subseteq RepIn(h, s, w.seen)
    /\ w.phase # "listing" => w.list = {} /\ w.buffer = <<>>
    /\ \A i \in DOMAIN w.buffer : ~w.buffer[i].stale /\ w.buffer[i].conn = w.conn

CacheIs(h, s, w, m) == \A r \in DelIn(h, s, w) : m[h[r].key].rv = r \/ r \in BufIn(w)

EachWatcher == \A s \in Served : WatcherIs(history, s, watcher[s])
EachCached ==
    /\ \A k \in Keys : cache[k].rv <= Len(history)
    /\ \A s \in Served : CacheIs(history, s, watcher[s], cache)

\* The invariants of the watchers, one watcher at a time.
LEMMA WatchersAre == (WatcherInv <=> EachWatcher) /\ (CacheInv <=> EachCached)
<1>1. \A s \in Served : /\ Reported(s) = RepIn(history, s, watcher[s].seen)
                        /\ Delivered(s) = DelIn(history, s, watcher[s])
                        /\ Buffered(s) = BufIn(watcher[s])
  BY Definitions
<1>2. WatcherInv <=> EachWatcher
  BY <1>1 DEF WatcherInv, WatcherIs, EachWatcher
<1>3. CacheInv <=> EachCached
  BY <1>1 DEF CacheInv, CacheIs, EachCached
<1> QED
  BY <1>2, <1>3

\* What the proofs of the watchers' steps start from.
ServerInv == StoreOK /\ WatchersOK /\ WatcherInv /\ CacheInv /\ FreshIsFromThisConnection

\* A step of the watcher of s to state z, with cache m: it takes care of s, leaves
\* the versions of the other namespaces alone, and adds at most r to what it has
\* delivered.
Tends(s, z, m) ==
    /\ z \in Watcher /\ WatcherIs(history, s, z)
    /\ m \in [Keys -> Entry] /\ CacheIs(history, s, z, m)
    /\ \A k \in Keys : m[k].rv <= Len(history) /\ (Ns[k] # s => m[k].rv = cache[k].rv)
    /\ \A k \in Keys : m[k].rv # 0 /\ ~m[k].stale =>
          /\ Ns[k] \in Served /\ m[k].conn = (IF Ns[k] = s THEN z ELSE watcher[Ns[k]]).conn
          /\ (IF Ns[k] = s THEN z ELSE watcher[Ns[k]]).phase # "down"

Adds(s, z, R) == \A r \in DelIn(history, s, z) : r \in DelIn(history, s, watcher[s]) \/ r \in R

\* What is known of a watcher, and of the numbers it has reported.
LEMMA WatcherFacts ==
    ASSUME ServerInv, NEW s \in Served
    PROVE  /\ watcher[s] \in Watcher /\ watcher[s].seen \in Nat /\ Len(history) \in Nat
           /\ WatcherIs(history, s, watcher[s]) /\ CacheIs(history, s, watcher[s], cache)
           /\ cache \in [Keys -> Entry] /\ \A k \in Keys : cache[k].rv <= Len(history)
           /\ \A r \in RepIn(history, s, watcher[s].seen) :
                 /\ r \in 1..Len(history) /\ r \in Nat \ {0}
                 /\ history[r].key \in Keys /\ Ns[history[r].key] = s
                 /\ \A q \in RepIn(history, s, watcher[s].seen) :
                       history[q].key = history[r].key => q = r
<1>1. watcher[s] \in Watcher /\ watcher[s].seen \in Nat /\ cache \in [Keys -> Entry]
  BY DEF ServerInv, WatchersOK, Watcher
<1>2. Len(history) \in Nat /\ history \in Seq(Write)
  BY LenProperties DEF ServerInv, StoreOK
<1>3. WatcherIs(history, s, watcher[s]) /\ CacheIs(history, s, watcher[s], cache)
      /\ \A k \in Keys : cache[k].rv <= Len(history)
  BY WatchersAre DEF ServerInv, EachWatcher, EachCached
<1>4. \A r \in RepIn(history, s, watcher[s].seen) :
         /\ r \in 1..Len(history) /\ r \in Nat \ {0}
         /\ history[r].key \in Keys /\ Ns[history[r].key] = s
         /\ \A q \in RepIn(history, s, watcher[s].seen) :
               history[q].key = history[r].key => q = r
  BY <1>1, <1>2, RepFacts
<1> QED
  BY <1>1, <1>2, <1>3, <1>4

\* The relist: everything that exists is still to be delivered.
LEMMA ConnectTends ==
    ASSUME ServerInv, NEW s \in Served, Connect(s)
    PROVE  \E z : watcher' = [watcher EXCEPT ![s] = z] /\ Tends(s, z, cache) /\ Adds(s, z, {})
<1> DEFINE w == watcher[s]
           n == Max(EventsAfter(s, 0) \cup {0})
           l == {Latest(k) : k \in {k \in Keys : Ns[k] = s /\ Exists(k)}}
           d == w.skipped \cup {r \in EventsAfter(s, w.seen) : history[r].deleted}
           z == [w EXCEPT !.phase = "listing", !.seen = n, !.list = l, !.relist = w.batching,
                          !.skipped = d]
<1>1. watcher' = [watcher EXCEPT ![s] = z] /\ w.phase = "down"
  BY Zenon DEF Connect
<1>2. w \in Watcher /\ WatcherIs(history, s, w) /\ Len(history) \in Nat
      /\ cache \in [Keys -> Entry] /\ \A k \in Keys : cache[k].rv <= Len(history)
  BY WatcherFacts
<1>3. n \in Nat /\ n <= Len(history) /\ l = RepIn(history, s, n)
  BY RepListed DEF ServerInv
<1> HIDE DEF n, l
<1>4. (\A r \in RepIn(history, s, n) : r \in Nat) /\ d \in SUBSET Nat
  <2>1. \A r \in RepIn(history, s, n) : r \in Nat
    BY <1>3, RepFacts DEF ServerInv, StoreOK
  <2>2. DOMAIN history \subseteq Nat
    BY LenProperties DEF ServerInv, StoreOK
  <2> QED
    BY <1>2, <2>1, <2>2 DEF EventsAfter, Watcher
<1> HIDE DEF d
<1>5. z \in Watcher /\ z.phase = "listing" /\ z.seen = n /\ z.list = l /\ z.buffer = w.buffer
      /\ z.conn = w.conn
  <2>1. l \in SUBSET Nat
    BY <1>3, <1>4
  <2> QED
    BY <1>2, <1>3, <1>4, <2>1 DEF Watcher
<1> HIDE DEF z
<1>6. w.buffer = <<>>
  BY <1>1, <1>2 DEF WatcherIs
<1>7. BufIn(z) = {}
  BY <1>5, <1>6 DEF BufIn
<1>8. WatcherIs(history, s, z)
  BY <1>3, <1>5, <1>6, <1>7 DEF WatcherIs
<1>9. DelIn(history, s, z) = {}
  BY <1>3, <1>5 DEF DelIn
<1>10. \A k \in Keys : cache[k].rv # 0 /\ ~cache[k].stale =>
          /\ Ns[k] \in Served /\ cache[k].conn = watcher[Ns[k]].conn
          /\ watcher[Ns[k]].phase # "down"
  BY DEF ServerInv, FreshIsFromThisConnection
<1>11. Tends(s, z, cache)
  BY <1>1, <1>2, <1>5, <1>8, <1>9, <1>10 DEF Tends, CacheIs
<1> QED
  BY <1>1, <1>9, <1>11 DEF Adds

\* A disconnect: every entry is marked, and nothing is delivered any more.
LEMMA DisconnectTends ==
    ASSUME ServerInv, NEW s \in Served, Disconnect(s)
    PROVE  \E z : watcher' = [watcher EXCEPT ![s] = z] /\ Tends(s, z, cache') /\ Adds(s, z, {})
<1> DEFINE w == watcher[s]
           z == [w EXCEPT !.phase = "down", !.list = {}, !.relist = FALSE, !.buffer = <<>>,
                          !.batching = TRUE, !.conn = w.conn + 1]
<1>1. watcher' = [watcher EXCEPT ![s] = z] /\ cache' = mark_all_stale
  BY DEF Disconnect
<1>2. w \in Watcher /\ WatcherIs(history, s, w) /\ Len(history) \in Nat
      /\ cache \in [Keys -> Entry] /\ \A k \in Keys : cache[k].rv <= Len(history)
  BY WatcherFacts
<1>3. <<>> \in Seq(Entry) /\ DOMAIN <<>> = {}
  BY EmptySeq
<1>4. z \in Watcher /\ z.phase = "down" /\ z.seen = w.seen /\ z.list = {} /\ z.buffer = <<>>
  <2>1. PICK e \in Seq(Entry) : e = <<>>
    BY <1>3
  <2>2. PICK n \in Nat : n = w.conn + 1
    BY <1>2 DEF Watcher
  <2> DEFINE y == [w EXCEPT !.phase = "down", !.list = {}, !.relist = FALSE, !.buffer = e,
                            !.batching = TRUE, !.conn = n]
  <2>3. y \in Watcher /\ y.phase = "down" /\ y.seen = w.seen /\ y.list = {} /\ y.buffer = e
    BY <1>2 DEF Watcher
  <2>4. z = y
    BY <2>1, <2>2
  <2> QED
    BY <2>1, <2>3, <2>4, Zenon
<1> HIDE DEF z
<1>5. BufIn(z) = {}
  BY <1>4 DEF BufIn
<1>6. WatcherIs(history, s, z)
  BY <1>2, <1>3, <1>4, <1>5 DEF WatcherIs
<1>7. DelIn(history, s, z) = {}
  BY <1>4 DEF DelIn
<1>8. \A k \in Keys : /\ cache'[k] \in Entry /\ cache'[k].rv = cache[k].rv
                      /\ cache'[k].stale = (cache[k].rv # 0)
  BY <1>1, <1>2 DEF mark_all_stale, Entry
<1>9. cache' \in [Keys -> Entry]
  BY <1>1, <1>8 DEF mark_all_stale
<1>10. Tends(s, z, cache')
  BY <1>2, <1>4, <1>6, <1>7, <1>8, <1>9 DEF Tends, CacheIs
<1> QED
  BY <1>1, <1>7, <1>10 DEF Adds

\* A new entry of the cache, of a Secret of this watcher's namespace.
LEMMA ParsedFacts ==
    ASSUME ServerInv, NEW s \in Served, NEW r \in 1..Len(history)
    PROVE  /\ Parsed(r, s) \in Entry /\ Parsed(r, s).rv = r /\ ~Parsed(r, s).stale
           /\ Parsed(r, s).conn = watcher[s].conn
BY WatcherFacts DEF Parsed, Entry, Watcher

\* One object of the list, buffered on a reconnect and cached on a cold start.
LEMMA InitApplyTends ==
    ASSUME ServerInv, NEW s \in Served, InitApply(s)
    PROVE  \E z : \E r \in 1..Len(history) :
              /\ watcher' = [watcher EXCEPT ![s] = z] /\ stream' = Sent(r, s)
              /\ Tends(s, z, cache') /\ Adds(s, z, {r})
<1> DEFINE w == watcher[s]
           rest(r) == [w EXCEPT !.list = w.list \ {r}]
<1>1. w.phase = "listing"
  BY DEF InitApply
<1>2. PICK r \in w.list :
        /\ stream' = Sent(r, s)
        /\ \/ /\ watcher' = [watcher EXCEPT ![s] =
                    [rest(r) EXCEPT !.buffer = Append(w.buffer, Parsed(r, s))]]
              /\ UNCHANGED cache
           \/ /\ watcher' = [watcher EXCEPT ![s] = rest(r)]
              /\ cache' = [cache EXCEPT ![history[r].key] = Parsed(r, s)]
  BY DEF InitApply
<1>3. /\ w \in Watcher /\ WatcherIs(history, s, w) /\ CacheIs(history, s, w, cache)
      /\ cache \in [Keys -> Entry] /\ (\A k \in Keys : cache[k].rv <= Len(history))
      /\ w.seen \in Nat /\ Len(history) \in Nat
  BY WatcherFacts
<1>4. /\ r \in RepIn(history, s, w.seen) /\ r \in 1..Len(history) /\ history[r].key \in Keys
      /\ Ns[history[r].key] = s
  BY <1>2, <1>3, WatcherFacts DEF WatcherIs
<1> DEFINE e == Parsed(r, s)
<1>5. e \in Entry /\ e.rv = r /\ ~e.stale /\ e.conn = w.conn
  BY <1>4, ParsedFacts
<1> HIDE DEF e
<1>6. \A k \in Keys : cache[k].rv # 0 /\ ~cache[k].stale =>
          /\ Ns[k] \in Served /\ cache[k].conn = watcher[Ns[k]].conn
          /\ watcher[Ns[k]].phase # "down"
  BY DEF ServerInv, FreshIsFromThisConnection
<1>7. CASE /\ watcher' = [watcher EXCEPT ![s] = [rest(r) EXCEPT !.buffer = Append(w.buffer, e)]]
           /\ UNCHANGED cache
  <2> DEFINE z == [rest(r) EXCEPT !.buffer = Append(w.buffer, e)]
  <2>1. w.buffer \in Seq(Entry)
    BY <1>3 DEF Watcher
  <2> DEFINE n == Len(w.buffer)
             b == Append(w.buffer, e)
  <2>2. n \in Nat /\ DOMAIN w.buffer = 1..n /\ b \in Seq(Entry) /\ DOMAIN b = 1..(n + 1)
        /\ b[n + 1] = e /\ \A i \in 1..n : b[i] = w.buffer[i]
    BY <1>5, <2>1, AppendProperties, LenProperties
  <2> HIDE DEF n, b
  <2>3. /\ z \in Watcher /\ z.phase = "listing" /\ z.seen = w.seen /\ z.list = w.list \ {r}
        /\ z.buffer = b /\ z.conn = w.conn
    BY <1>1, <1>3, <2>2 DEF Watcher, b
  <2> HIDE DEF z
  <2>4. BufIn(z) = BufIn(w) \cup {r}
    <3>1. \A x \in BufIn(z) : x \in BufIn(w) \/ x = r
      <4> TAKE x \in BufIn(z)
      <4>1. PICK i \in 1..(n + 1) : x = b[i].rv
        BY <2>2, <2>3 DEF BufIn
      <4>2. CASE i = n + 1
        BY <1>5, <2>2, <4>1, <4>2
      <4>3. CASE i # n + 1
        <5>1. i \in 1..n
          BY <2>2, <4>3
        <5> QED
          BY <2>2, <4>1, <5>1 DEF BufIn
      <4> QED
        BY <4>2, <4>3
    <3>2. r \in BufIn(z)
      <4>1. n + 1 \in DOMAIN b /\ b[n + 1].rv = r
        BY <1>5, <2>2
      <4> QED
        BY <2>3, <4>1 DEF BufIn
    <3>3. \A x \in BufIn(w) : x \in BufIn(z)
      <4> TAKE x \in BufIn(w)
      <4>1. PICK i \in 1..n : x = w.buffer[i].rv
        BY <2>2 DEF BufIn
      <4>2. i \in DOMAIN b /\ b[i].rv = x
        BY <2>2, <4>1
      <4> QED
        BY <2>3, <4>2 DEF BufIn
    <3> QED
      BY <3>1, <3>2, <3>3
  <2>5. \A i \in DOMAIN b : ~b[i].stale /\ b[i].conn = w.conn
    <3> TAKE i \in DOMAIN b
    <3>1. CASE i = n + 1
      BY <1>5, <2>2, <3>1
    <3>2. CASE i # n + 1
      <4>1. i \in 1..n
        BY <2>2, <3>2
      <4> QED
        BY <1>3, <2>2, <4>1 DEF WatcherIs
    <3> QED
      BY <3>1, <3>2
  <2>6. WatcherIs(history, s, z)
    BY <1>3, <1>4, <2>3, <2>4, <2>5 DEF WatcherIs
  <2>7. \A q \in DelIn(history, s, z) : q \in DelIn(history, s, w) \/ q = r
    BY <1>1, <2>3 DEF DelIn
  <2>8. CacheIs(history, s, z, cache)
    BY <1>3, <2>4, <2>7 DEF CacheIs
  <2>9. Tends(s, z, cache)
    BY <1>3, <1>6, <2>3, <2>6, <2>8 DEF Tends
  <2>10. watcher' = [watcher EXCEPT ![s] = z] /\ cache' = cache
    BY <1>7 DEF z
  <2> QED
    BY <1>2, <1>4, <2>7, <2>9, <2>10 DEF Adds
<1>8. CASE /\ watcher' = [watcher EXCEPT ![s] = rest(r)]
           /\ cache' = [cache EXCEPT ![history[r].key] = e]
  <2> DEFINE z == rest(r)
  <2>1. /\ z \in Watcher /\ z.phase = "listing" /\ z.seen = w.seen /\ z.list = w.list \ {r}
        /\ z.buffer = w.buffer /\ z.conn = w.conn
    BY <1>1, <1>3 DEF Watcher
  <2> HIDE DEF z
  <2>2. BufIn(z) = BufIn(w)
    BY <2>1 DEF BufIn
  <2>3. WatcherIs(history, s, z)
    BY <1>3, <2>1, <2>2 DEF WatcherIs
  <2>4. \A q \in DelIn(history, s, z) : q \in DelIn(history, s, w) \/ q = r
    BY <1>1, <2>1 DEF DelIn
  <2>5. cache' \in [Keys -> Entry]
        /\ \A k \in Keys : cache'[k] = IF k = history[r].key THEN e ELSE cache[k]
    BY <1>3, <1>5, <1>8
  <2>6. ASSUME NEW q \in DelIn(history, s, z)
        PROVE  cache'[history[q].key].rv = q \/ q \in BufIn(z)
    <3>1. CASE q = r
      BY <1>4, <1>5, <2>5, <3>1
    <3>2. CASE q # r
      <4>1. q \in RepIn(history, s, w.seen) /\ history[q].key \in Keys
            /\ history[q].key # history[r].key
        <5>1. q \in RepIn(history, s, w.seen)
          BY <2>1 DEF DelIn
        <5>2. \A x \in RepIn(history, s, watcher[s].seen) :
                 /\ history[x].key \in Keys
                 /\ \A y \in RepIn(history, s, watcher[s].seen) :
                       history[y].key = history[x].key => y = x
          BY WatcherFacts, Zenon
        <5> QED
          BY <1>4, <3>2, <5>1, <5>2, Zenon
      <4>2. cache[history[q].key].rv = q \/ q \in BufIn(w)
        BY <1>3, <2>4, <3>2 DEF CacheIs
      <4>3. cache'[history[q].key] = cache[history[q].key]
        BY <2>5, <4>1, Zenon
      <4> QED
        BY <2>2, <4>2, <4>3
    <3> QED
      BY <3>1, <3>2
  <2>7. Tends(s, z, cache')
    <3>1. \A k \in Keys : cache'[k].rv <= Len(history) /\ (Ns[k] # s => cache'[k].rv = cache[k].rv)
      BY <1>3, <1>4, <1>5, <2>5
    <3>2. \A k \in Keys : cache'[k].rv # 0 /\ ~cache'[k].stale =>
          /\ Ns[k] \in Served /\ cache'[k].conn = (IF Ns[k] = s THEN z ELSE watcher[Ns[k]]).conn
          /\ (IF Ns[k] = s THEN z ELSE watcher[Ns[k]]).phase # "down"
      BY <1>4, <1>5, <1>6, <2>1, <2>5
    <3> QED
      BY <2>1, <2>3, <2>5, <2>6, <3>1, <3>2 DEF Tends, CacheIs
  <2>8. watcher' = [watcher EXCEPT ![s] = z]
    BY <1>8 DEF z
  <2>9. Adds(s, z, {r})
    BY <2>4 DEF Adds
  <2> QED
    BY <1>2, <1>4, <2>7, <2>8, <2>9
<1> QED
  BY <1>2, <1>7, <1>8 DEF e

\* The next event of the watch: it takes the place of what was reported before.
LEMMA WatchEventTends ==
    ASSUME ServerInv, NEW s \in Served, WatchEvent(s)
    PROVE  \E z : \E r \in 1..Len(history) :
              /\ watcher' = [watcher EXCEPT ![s] = z] /\ stream' = Sent(r, s)
              /\ Tends(s, z, cache') /\ Adds(s, z, {r})
<1> DEFINE w == watcher[s]
           r == NextEvent(s, w.seen)
           e == Parsed(r, s)
           z == [w EXCEPT !.seen = r]
<1>1. /\ w.phase = "live" /\ r # 0 /\ watcher' = [watcher EXCEPT ![s] = z] /\ stream' = Sent(r, s)
      /\ cache' = IF history[r].deleted THEN cache ELSE [cache EXCEPT ![history[r].key] = e]
  BY DEF WatchEvent
<1>2. /\ w \in Watcher /\ WatcherIs(history, s, w) /\ CacheIs(history, s, w, cache)
      /\ cache \in [Keys -> Entry] /\ (\A k \in Keys : cache[k].rv <= Len(history))
      /\ w.seen \in Nat /\ Len(history) \in Nat
  BY WatcherFacts
<1>3. r \in EventsAfter(s, w.seen) /\ r \in 1..Len(history)
      /\ \A q \in EventsAfter(s, w.seen) : r <= q
  BY <1>1, <1>2, NextEventFacts DEF ServerInv
<1> HIDE DEF r
<1>4. e \in Entry /\ e.rv = r /\ ~e.stale /\ e.conn = w.conn
  BY <1>3, ParsedFacts
<1> HIDE DEF e
<1>5. Ns[history[r].key] = s /\ history[r].key \in Keys
  <2>1. history[r] \in Write
    BY <1>3, ElementOfSeq DEF ServerInv, StoreOK
  <2> QED
    BY <1>3, <2>1 DEF EventsAfter, Write
<1>6. \A q \in RepIn(history, s, r) : q # r => /\ q \in RepIn(history, s, w.seen)
                                              /\ history[q].key # history[r].key
  BY <1>2, <1>3, RepNext DEF ServerInv
<1>7. w.list = {} /\ w.buffer = <<>> /\ BufIn(w) = {}
  BY <1>1, <1>2 DEF WatcherIs, BufIn
<1>8. /\ z \in Watcher /\ z.phase = "live" /\ z.seen = r /\ z.list = {} /\ z.buffer = <<>>
      /\ z.conn = w.conn
  BY <1>1, <1>2, <1>3, <1>7 DEF Watcher
<1> HIDE DEF z
<1>9. BufIn(z) = {} /\ DelIn(history, s, z) = RepIn(history, s, r)
      /\ DelIn(history, s, w) = RepIn(history, s, w.seen)
  <2>1. BufIn(z) = {}
    BY <1>8 DEF BufIn
  <2> QED
    BY <1>1, <1>7, <1>8, <2>1 DEF DelIn
<1>10. WatcherIs(history, s, z)
  BY <1>3, <1>8, <1>9 DEF WatcherIs
<1>11. Adds(s, z, {r})
  BY <1>6, <1>9 DEF Adds
<1>12. cache' \in [Keys -> Entry]
       /\ \A k \in Keys : \/ cache'[k] = cache[k] /\ (k # history[r].key \/ history[r].deleted)
                          \/ cache'[k] = e /\ k = history[r].key
  BY <1>1, <1>2, <1>4
<1>13. ASSUME NEW q \in DelIn(history, s, z)
       PROVE  cache'[history[q].key].rv = q \/ q \in BufIn(z)
  <2>1. CASE q = r
    <3>1. ~history[r].deleted
      BY <1>9, <2>1 DEF RepIn
    <3> QED
      BY <1>4, <1>5, <1>12, <2>1, <3>1
  <2>2. CASE q # r
    <3>1. q \in RepIn(history, s, w.seen) /\ history[q].key # history[r].key
      BY <1>6, <1>9, <2>2
    <3>2. history[q].key \in Keys /\ cache[history[q].key].rv = q
      BY <1>2, <1>7, <1>9, <3>1, WatcherFacts DEF CacheIs
    <3> QED
      BY <1>12, <3>1, <3>2
  <2> QED
    BY <2>1, <2>2
<1>14. \A k \in Keys : cache[k].rv # 0 /\ ~cache[k].stale =>
          /\ Ns[k] \in Served /\ cache[k].conn = watcher[Ns[k]].conn
          /\ watcher[Ns[k]].phase # "down"
  BY DEF ServerInv, FreshIsFromThisConnection
<1>15. Tends(s, z, cache')
  <2>1. \A k \in Keys : cache'[k].rv <= Len(history) /\ (Ns[k] # s => cache'[k].rv = cache[k].rv)
    BY <1>2, <1>3, <1>4, <1>5, <1>12
  <2>2. \A k \in Keys : cache'[k].rv # 0 /\ ~cache'[k].stale =>
          /\ Ns[k] \in Served /\ cache'[k].conn = (IF Ns[k] = s THEN z ELSE watcher[Ns[k]]).conn
          /\ (IF Ns[k] = s THEN z ELSE watcher[Ns[k]]).phase # "down"
    BY <1>4, <1>5, <1>8, <1>12, <1>14
  <2> QED
    BY <1>8, <1>10, <1>12, <1>13, <2>1, <2>2 DEF Tends, CacheIs
<1> QED
  BY <1>1, <1>3, <1>11, <1>15

\* The end of the relist: the buffer is committed.
LEMMA InitDoneTends ==
    ASSUME ServerInv, NEW s \in Served, InitDone(s)
    PROVE  \E z : watcher' = [watcher EXCEPT ![s] = z] /\ Tends(s, z, cache') /\ Adds(s, z, {})
<1> DEFINE w == watcher[s]
           z == [w EXCEPT !.phase = "live", !.relist = FALSE, !.buffer = <<>>]
<1>1. /\ w.phase = "listing" /\ w.list = {} /\ cache' = Committed(s)
      /\ watcher' = [watcher EXCEPT ![s] = z]
  BY DEF InitDone
<1>2. /\ w \in Watcher /\ WatcherIs(history, s, w) /\ CacheIs(history, s, w, cache)
      /\ cache \in [Keys -> Entry] /\ (\A k \in Keys : cache[k].rv <= Len(history))
      /\ w.seen \in Nat /\ Len(history) \in Nat
  BY WatcherFacts
<1>3. /\ z \in Watcher /\ z.phase = "live" /\ z.seen = w.seen /\ z.list = {} /\ z.buffer = <<>>
      /\ z.conn = w.conn
  <2>1. PICK e \in Seq(Entry) : e = <<>>
    BY EmptySeq
  <2> DEFINE y == [w EXCEPT !.phase = "live", !.relist = FALSE, !.buffer = e]
  <2>2. /\ y \in Watcher /\ y.phase = "live" /\ y.seen = w.seen /\ y.list = {} /\ y.buffer = e
        /\ y.conn = w.conn
    BY <1>1, <1>2 DEF Watcher
  <2>3. z = y
    BY <2>1
  <2> QED
    BY <2>1, <2>2, <2>3, Zenon
<1> HIDE DEF z
<1>4. BufIn(z) = {} /\ DelIn(history, s, z) = RepIn(history, s, w.seen)
      /\ DelIn(history, s, w) = RepIn(history, s, w.seen)
  <2>1. BufIn(z) = {}
    BY <1>3 DEF BufIn
  <2> QED
    BY <1>1, <1>3, <2>1 DEF DelIn
<1>5. WatcherIs(history, s, z)
  BY <1>2, <1>3, <1>4 DEF WatcherIs
<1>6. ASSUME NEW k \in Keys
      PROVE  \/ cache'[k] = cache[k] /\ \A i \in DOMAIN w.buffer : history[w.buffer[i].rv].key # k
             \/ \E i \in DOMAIN w.buffer : cache'[k] = w.buffer[i] /\ history[w.buffer[i].rv].key = k
  <2> DEFINE U == UpsertsOf(s, k)
  <2>1. cache'[k] = IF U = {} THEN cache[k] ELSE w.buffer[Max(U)]
    BY <1>1 DEF Committed
  <2>2. \A i : i \in U <=> i \in DOMAIN w.buffer /\ history[w.buffer[i].rv].key = k
    BY DEF UpsertsOf
  <2> HIDE DEF U
  <2>3. CASE U = {}
    BY <2>1, <2>2, <2>3
  <2>4. CASE U # {}
    <3>1. DOMAIN w.buffer = 1..Len(w.buffer) /\ Len(w.buffer) \in Nat
      BY <1>2, LenProperties DEF Watcher
    <3>2. U \in SUBSET Nat /\ \A i \in U : i <= Len(w.buffer)
      BY <2>2, <3>1
    <3>3. Max(U) \in U
      BY <2>4, <3>1, <3>2, MaxFacts
    <3> QED
      BY <2>1, <2>2, <2>4, <3>3
  <2> QED
    BY <2>3, <2>4
<1>7. ASSUME NEW i \in DOMAIN w.buffer
      PROVE  /\ w.buffer[i] \in Entry /\ w.buffer[i].conn = w.conn
             /\ w.buffer[i].rv \in RepIn(history, s, w.seen)
  <2>1. w.buffer[i] \in Entry
    BY <1>2, ElementOfSeq, LenProperties DEF Watcher
  <2>2. w.buffer[i].rv \in BufIn(w)
    BY DEF BufIn
  <2> QED
    BY <1>2, <2>1, <2>2 DEF WatcherIs
<1>8. ASSUME NEW r \in RepIn(history, s, w.seen) PROVE cache'[history[r].key].rv = r
  <2> DEFINE k == history[r].key
  <2>1. k \in Keys
    BY WatcherFacts
  <2>2. CASE cache'[k] = cache[k] /\ \A i \in DOMAIN w.buffer : history[w.buffer[i].rv].key # k
    <3>1. r \notin BufIn(w)
      BY <2>2 DEF BufIn
    <3> QED
      BY <1>2, <1>4, <2>2, <3>1 DEF CacheIs
  <2>3. ASSUME NEW i \in DOMAIN w.buffer, cache'[k] = w.buffer[i], history[w.buffer[i].rv].key = k
        PROVE  cache'[k].rv = r
    <3>1. w.buffer[i].rv = r
      BY <1>7, <2>3, WatcherFacts
    <3> QED
      BY <2>3, <3>1
  <2> QED
    BY <1>6, <2>1, <2>2, <2>3
<1>9. ASSUME NEW k \in Keys
      PROVE  /\ cache'[k] \in Entry
             /\ \/ cache'[k] = cache[k]
                \/ /\ Ns[k] = s /\ cache'[k].rv <= Len(history) /\ cache'[k].conn = w.conn
  <2>1. CASE cache'[k] = cache[k]
    BY <1>2, <2>1
  <2>2. ASSUME NEW i \in DOMAIN w.buffer, cache'[k] = w.buffer[i], history[w.buffer[i].rv].key = k
        PROVE  /\ cache'[k] \in Entry /\ cache'[k].rv <= Len(history)
               /\ Ns[k] = s /\ cache'[k].conn = w.conn
    <3>1. /\ w.buffer[i] \in Entry /\ w.buffer[i].conn = w.conn
          /\ w.buffer[i].rv \in RepIn(history, s, w.seen)
      BY <1>7
    <3>2. w.buffer[i].rv \in 1..Len(history) /\ Ns[history[w.buffer[i].rv].key] = s
      BY <3>1, WatcherFacts
    <3> QED
      BY <1>2, <2>2, <3>1, <3>2
  <2> QED
    BY <1>6, <2>1, <2>2
<1>10. cache' \in [Keys -> Entry]
  <2>1. cache' = [k \in Keys |-> cache'[k]]
    BY <1>1 DEF Committed
  <2> QED
    BY <1>9, <2>1
<1>11. \A k \in Keys : cache[k].rv # 0 /\ ~cache[k].stale =>
          /\ Ns[k] \in Served /\ cache[k].conn = watcher[Ns[k]].conn
          /\ watcher[Ns[k]].phase # "down"
  BY DEF ServerInv, FreshIsFromThisConnection
<1>12. Tends(s, z, cache')
  <2>1. \A k \in Keys : cache'[k].rv <= Len(history) /\ (Ns[k] # s => cache'[k].rv = cache[k].rv)
    BY <1>2, <1>9
  <2>2. \A k \in Keys : cache'[k].rv # 0 /\ ~cache'[k].stale =>
          /\ Ns[k] \in Served /\ cache'[k].conn = (IF Ns[k] = s THEN z ELSE watcher[Ns[k]]).conn
          /\ (IF Ns[k] = s THEN z ELSE watcher[Ns[k]]).phase # "down"
    BY <1>3, <1>9, <1>11
  <2>3. CacheIs(history, s, z, cache')
    BY <1>4, <1>8 DEF CacheIs
  <2> QED
    BY <1>3, <1>5, <1>10, <2>1, <2>2, <2>3 DEF Tends
<1>13. Adds(s, z, {})
  BY <1>4 DEF Adds
<1> QED
  BY <1>1, <1>12, <1>13

\* A step of one watcher keeps what the watchers and the cache promise.
LEMMA TendedServer ==
    ASSUME ServerInv, StoreOK', NEW s \in Served, NEW z, history' = history,
           watcher' = [watcher EXCEPT ![s] = z], Tends(s, z, cache')
    PROVE  ServerInv'
<1>1. watcher \in [Served -> Watcher]
  BY DEF ServerInv, WatchersOK
<1>2. \A t \in Served : watcher'[t] = IF t = s THEN z ELSE watcher[t]
  BY <1>1
<1>3. WatchersOK'
  BY <1>1 DEF WatchersOK, Tends
<1>4. /\ \A t \in Served : WatcherIs(history, t, watcher[t]) /\ CacheIs(history, t, watcher[t], cache)
      /\ \A k \in Keys : cache[k].rv <= Len(history)
  BY WatchersAre DEF ServerInv, EachWatcher, EachCached
<1>5. \A t \in Served : WatcherIs(history, t, watcher'[t])
  BY <1>2, <1>4 DEF Tends
<1>6. ASSUME NEW t \in Served PROVE CacheIs(history, t, watcher'[t], cache')
  <2>1. CASE t = s
    BY <1>2, <2>1 DEF Tends
  <2>2. CASE t # s
    <3>1. ASSUME NEW r \in DelIn(history, t, watcher[t])
          PROVE  cache'[history[r].key].rv = cache[history[r].key].rv
      <4>1. history[r].key \in Keys /\ Ns[history[r].key] = t
        BY WatcherFacts DEF DelIn
      <4> QED
        BY <2>2, <4>1 DEF Tends
    <3> QED
      BY <1>2, <1>4, <2>2, <3>1 DEF CacheIs
  <2> QED
    BY <2>1, <2>2
<1>7. EachWatcher' /\ EachCached'
  BY <1>5, <1>6 DEF Tends, EachWatcher, EachCached
<1>8. WatcherInv' /\ CacheInv'
  BY <1>7, WatchersAre, PTL
<1>9. FreshIsFromThisConnection'
  BY <1>2 DEF Tends, FreshIsFromThisConnection
<1> QED
  BY <1>3, <1>8, <1>9 DEF ServerInv

\* A write that no watch has reported yet touches neither.
LEMMA GrownServer ==
    ASSUME ServerInv, StoreOK', NEW x, Grows(x), UNCHANGED <<cache, watcher>>
    PROVE  /\ ServerInv'
           /\ \A t \in Served : DelIn(history', t, watcher[t]) = DelIn(history, t, watcher[t])
<1> DEFINE n == Len(history)
<1>1. /\ n \in Nat /\ Len(history') = n + 1 /\ \A i \in 1..n : history'[i] = history[i]
  BY Grown DEF ServerInv
<1>2. \A t \in Served : RepIn(history', t, watcher[t].seen) = RepIn(history, t, watcher[t].seen)
  <2> TAKE t \in Served
  <2>1. watcher[t].seen \in Nat /\ watcher[t].seen <= n
    BY WatcherFacts DEF WatcherIs
  <2> QED
    BY <2>1, RepGrown DEF ServerInv
<1>3. \A t \in Served : DelIn(history', t, watcher[t]) = DelIn(history, t, watcher[t])
  BY <1>2 DEF DelIn
<1>4. /\ \A t \in Served : WatcherIs(history, t, watcher[t]) /\ CacheIs(history, t, watcher[t], cache)
      /\ \A k \in Keys : cache[k].rv <= n
  BY WatchersAre DEF ServerInv, EachWatcher, EachCached
<1>5. \A t \in Served : WatcherIs(history', t, watcher[t])
  <2> TAKE t \in Served
  <2>1. watcher[t].seen \in Nat
    BY WatcherFacts
  <2>2. watcher[t].seen <= Len(history')
    BY <1>1, <1>4, <2>1 DEF WatcherIs
  <2> QED
    BY <1>2, <1>4, <2>2 DEF WatcherIs
<1>6. ASSUME NEW t \in Served PROVE CacheIs(history', t, watcher[t], cache)
  <2>1. \A r \in DelIn(history, t, watcher[t]) : history'[r] = history[r]
    BY <1>1, WatcherFacts DEF DelIn
  <2> QED
    BY <1>3, <1>4, <2>1 DEF CacheIs
<1>7. \A k \in Keys : cache[k].rv <= Len(history')
  BY <1>1, <1>4 DEF ServerInv, WatchersOK, Entry
<1>8. EachWatcher' /\ EachCached'
  BY <1>5, <1>6, <1>7 DEF EachWatcher, EachCached
<1>9. WatcherInv' /\ CacheInv'
  BY <1>8, WatchersAre, PTL
<1>10. WatchersOK' /\ FreshIsFromThisConnection'
  BY DEF ServerInv, WatchersOK, FreshIsFromThisConnection
<1> QED
  BY <1>3, <1>9, <1>10 DEF ServerInv

-----------------------------------------------------------------------------
(* One stream.                                                             *)

\* Holds and StreamInv of one client with stream st, channel q and view v, when
\* the history is h and the watchers have delivered D.
Held(h, st, q, v, r) ==
    \/ v[h[r].key] >= r
    \/ r \in Range(st.queue)
    \/ st.phase # "snap" /\ r \in Range(q)

Sound(h, D, st, q, v) ==
    /\ st.from <= Len(h) /\ st.seen <= Len(h)
    /\ st.phase = "live" => st.space \in Served /\ (st.lagged => st.queue # <<>>)
    /\ st.phase = "snap" => ~st.lagged /\ st.owed = {}
    /\ st.phase = "raw" => st.queue = <<>>
    /\ st.phase \in {"snap", "live"} /\ st.space \in Served /\ ~st.lagged =>
          \A r \in D[st.space] : Held(h, st, q, v, r) \/ r \in st.missed
    /\ st.phase = "live" /\ ~st.lagged =>
          \A r \in st.owed : r \in DOMAIN h /\ Held(h, st, q, v, r)
    /\ st.phase = "raw" =>
          \A r \in DOMAIN h :
             Ns[h[r].key] = st.space /\ r > st.from /\ r <= st.seen => Held(h, st, q, v, r)

Del == [s \in Served |-> Delivered(s)]

EachStream == \A c \in Clients : Sound(history, Del, stream[c], inbox[c], view[c])

\* The invariant of the streams, one stream at a time.
LEMMA StreamsAre == StreamInv <=> EachStream
<1>1. \A s \in Served : Del[s] = Delivered(s)
  BY DEF Del
<1>2. \A c \in Clients : \A r :
      Holds(c, r) <=> Held(history, stream[c], inbox[c], view[c], r)
  BY DEF Holds, Held
<1> HIDE DEF Del
<1> QED
  BY <1>1, <1>2 DEF StreamInv, EachStream, Sound

\* A stream and its client, typed and within their bounds.
Fits(st, q, v) ==
    /\ st \in Stream /\ q \in Seq(Nat) /\ v \in [Keys -> Nat]
    /\ Len(q) <= InboxSize /\ (st.phase = "live" => Len(st.queue) <= RingSize)

EachFits == \A c \in Clients : Fits(stream[c], inbox[c], view[c])

\* Every stream fits.
LEMMA FitsAre == StreamsOK => EachFits
BY DEF StreamsOK, EachFits, Fits

\* More history, or less to deliver.
LEMMA SoundLater ==
    ASSUME NEW h \in Seq(Write), NEW g \in Seq(Write), Len(h) <= Len(g),
           \A r \in 1..Len(h) : g[r] = h[r],
           NEW D, NEW E, \A s \in Served : E[s] \subseteq D[s] /\ D[s] \subseteq 1..Len(h),
           NEW st, NEW q, NEW v, Fits(st, q, v), Sound(h, D, st, q, v)
    PROVE  Sound(g, E, st, q, v)
<1>1. Len(h) \in Nat /\ Len(g) \in Nat /\ DOMAIN h = 1..Len(h) /\ DOMAIN g = 1..Len(g)
  BY LenProperties
<1>2. \A r \in 1..Len(h) : Held(h, st, q, v, r) => Held(g, st, q, v, r)
  BY DEF Held
<1>3. st.seen \in Nat /\ st.from \in Nat
  BY DEF Fits, Stream
<1>4. st.from <= Len(g) /\ st.seen <= Len(g)
  BY <1>1, <1>3 DEF Sound
<1>5. ASSUME st.phase \in {"snap", "live"}, st.space \in Served, ~st.lagged, NEW r \in E[st.space]
      PROVE  Held(g, st, q, v, r) \/ r \in st.missed
  BY <1>2, <1>5 DEF Sound
<1>6. ASSUME st.phase = "live", ~st.lagged, NEW r \in st.owed
      PROVE  r \in DOMAIN g /\ Held(g, st, q, v, r)
  BY <1>1, <1>2, <1>6 DEF Sound
<1>7. ASSUME st.phase = "raw", NEW r \in DOMAIN g, Ns[g[r].key] = st.space, r > st.from,
             r <= st.seen
      PROVE  Held(g, st, q, v, r)
  <2>1. r \in 1..Len(h)
    BY <1>1, <1>3, <1>7 DEF Sound
  <2> QED
    BY <1>1, <1>2, <1>7, <2>1 DEF Sound
<1> QED
  BY <1>4, <1>5, <1>6, <1>7 DEF Sound

\* What is in a sequence, first and last.
LEMMA RangeHead ==
    ASSUME NEW q \in Seq(Nat), q # <<>>
    PROVE  /\ Head(q) \in Nat /\ Tail(q) \in Seq(Nat) /\ Len(Tail(q)) = Len(q) - 1
           /\ \A x \in Range(q) : x = Head(q) \/ x \in Range(Tail(q))
<1>1. /\ Head(q) \in Nat /\ Tail(q) \in Seq(Nat) /\ Len(Tail(q)) = Len(q) - 1
      /\ \A i \in 1..Len(Tail(q)) : Tail(q)[i] = q[i + 1]
  BY HeadTailProperties
<1>2. Len(q) \in Nat /\ DOMAIN q = 1..Len(q) /\ DOMAIN Tail(q) = 1..Len(Tail(q)) /\ Head(q) = q[1]
  BY <1>1, LenProperties
<1>3. ASSUME NEW x \in Range(q), x # Head(q) PROVE x \in Range(Tail(q))
  <2>1. PICK i \in 1..Len(q) : x = q[i]
    BY <1>2 DEF Range
  <2>2. i # 1 /\ i - 1 \in 1..Len(Tail(q)) /\ (i - 1) + 1 = i
    BY <1>1, <1>2, <1>3, <2>1
  <2>3. Tail(q)[i - 1] = x
    BY <1>1, <2>1, <2>2
  <2> QED
    BY <1>2, <2>2, <2>3 DEF Range
<1> QED
  BY <1>1, <1>3

\* What an appended sequence holds.
LEMMA RangeAppend ==
    ASSUME NEW q \in Seq(Nat), NEW r \in Nat
    PROVE  \A x : x \in Range(q) \/ x = r => x \in Range(Append(q, r))
<1> DEFINE p == Append(q, r)
<1>1. /\ p \in Seq(Nat) /\ Len(p) = Len(q) + 1 /\ p[Len(q) + 1] = r
      /\ \A i \in 1..Len(q) : p[i] = q[i]
  BY AppendProperties
<1>2. Len(q) \in Nat /\ DOMAIN q = 1..Len(q) /\ DOMAIN p = 1..(Len(q) + 1)
  BY <1>1, LenProperties
<1> HIDE DEF p
<1>3. Len(q) + 1 \in DOMAIN p /\ DOMAIN q \subseteq DOMAIN p
  BY <1>2
<1>4. ASSUME NEW x, x \in Range(q) PROVE x \in Range(p)
  BY <1>1, <1>2, <1>3, <1>4 DEF Range
<1>5. r \in Range(p)
  BY <1>1, <1>3 DEF Range
<1> QED
  BY <1>4, <1>5 DEF p

\* A broadcast: the ring takes it or the receiver has lagged.
LEMMA HearsFits ==
    ASSUME NEW st \in Stream, Len(st.queue) <= RingSize, NEW r \in Nat
    PROVE  /\ Hears(st, r) \in Stream /\ Len(Hears(st, r).queue) <= RingSize
           /\ Hears(st, r).queue # <<>>
           /\ Hears(st, r).phase = st.phase /\ Hears(st, r).space = st.space
           /\ Hears(st, r).from = st.from /\ Hears(st, r).seen = st.seen
           /\ Hears(st, r).missed = st.missed
           /\ \A x \in Hears(st, r).owed : x \in st.owed \/ x = r
           /\ ~Hears(st, r).lagged =>
                 ~st.lagged /\ \A x : x \in Range(st.queue) \/ x = r => x \in Range(Hears(st, r).queue)
<1> DEFINE b == IF Len(st.queue) < RingSize THEN st.queue ELSE Tail(st.queue)
           o == IF history[r].deleted THEN st.owed \cup {r} ELSE st.owed
           g == st.lagged \/ Len(st.queue) = RingSize
           z == [st EXCEPT !.queue = Append(b, r), !.lagged = g, !.owed = o]
<1>1. Hears(st, r) = z
  BY DEF Hears
<1>2. st.queue \in Seq(Nat) /\ Len(st.queue) \in Nat /\ RingSize \in Nat \ {0}
      /\ st.owed \in SUBSET Nat /\ st.lagged \in BOOLEAN
  BY SecretAssumption, LenProperties DEF Stream
<1>3. b \in Seq(Nat) /\ Len(b) \in Nat /\ Len(b) < RingSize
      /\ (Len(st.queue) # RingSize => b = st.queue)
  <2>1. CASE Len(st.queue) < RingSize
    BY <1>2, <2>1
  <2>2. CASE ~(Len(st.queue) < RingSize)
    <3>1. st.queue # <<>>
      BY <1>2, <2>2
    <3>2. Tail(st.queue) \in Seq(Nat) /\ Len(Tail(st.queue)) = Len(st.queue) - 1
      BY <1>2, <3>1, HeadTailProperties
    <3> QED
      BY <1>2, <2>2, <3>2
  <2> QED
    BY <2>1, <2>2
<1>4. o \in SUBSET Nat /\ \A x \in o : x \in st.owed \/ x = r
  BY <1>2
<1>5. g \in BOOLEAN
  BY <1>2
<1> HIDE DEF b, o
<1> DEFINE c == Append(b, r)
<1>6. c \in Seq(Nat) /\ Len(c) = Len(b) + 1 /\ c # <<>>
      /\ \A x : x \in Range(b) \/ x = r => x \in Range(c)
  BY <1>3, AppendProperties, RangeAppend
<1>7. Len(c) <= RingSize
  BY <1>2, <1>3, <1>6
<1>8. ~g => ~st.lagged /\ b = st.queue
  BY <1>3
<1> HIDE DEF g, c
<1>9. z = [st EXCEPT !.queue = c, !.lagged = g, !.owed = o]
  BY DEF c
<1> HIDE DEF z
<1>10. /\ z \in Stream /\ z.queue = c /\ z.lagged = g /\ z.owed = o /\ z.phase = st.phase
       /\ z.space = st.space /\ z.from = st.from /\ z.seen = st.seen /\ z.missed = st.missed
  BY <1>4, <1>5, <1>6, <1>9 DEF Stream
<1> QED
  BY <1>1, <1>4, <1>6, <1>7, <1>8, <1>10

\* A broadcast reaches every attached stream, and is noted by those between snapshot and attachment.
LEMMA SoundSent ==
    ASSUME StoreOK, NEW s \in Served, NEW r \in 1..Len(history),
           NEW D, NEW E, \A t \in Served : \A x \in E[t] : x \in D[t] \/ (t = s /\ x = r),
           NEW c \in Clients, Fits(stream[c], inbox[c], view[c]),
           Sound(history, D, stream[c], inbox[c], view[c])
    PROVE  /\ Fits(Sent(r, s)[c], inbox[c], view[c])
           /\ Sound(history, E, Sent(r, s)[c], inbox[c], view[c])
<1> DEFINE st == stream[c]
           q == inbox[c]
           v == view[c]
           h == history
           z == Sent(r, s)[c]
<1>1. /\ st.phase = "live" /\ st.space = s => z = Hears(st, r)
      /\ st.phase = "snap" /\ st.space = s => z = Misses(st, r)
      /\ ~(st.phase \in {"live", "snap"} /\ st.space = s) => z = st
  BY DEF Sent
<1>2. st \in Stream /\ Len(h) \in Nat /\ DOMAIN h = 1..Len(h) /\ r \in Nat
  BY LenProperties DEF Fits, StoreOK
<1> HIDE DEF z
<1>3. CASE st.phase = "live" /\ st.space = s
  <2>1. /\ z \in Stream /\ Len(z.queue) <= RingSize /\ z.queue # <<>>
        /\ z.phase = "live" /\ z.space = s /\ z.from = st.from /\ z.seen = st.seen
        /\ z.missed = st.missed /\ (\A x \in z.owed : x \in st.owed \/ x = r)
        /\ ~z.lagged =>
             ~st.lagged /\ \A x : x \in Range(st.queue) \/ x = r => x \in Range(z.queue)
    <3>1. PICK t \in Stream : t = st
      BY <1>2
    <3>2. Len(t.queue) <= RingSize /\ t.phase = "live" /\ t.space = s
      BY <1>3, <3>1 DEF Fits
    <3>3. z = Hears(t, r)
      BY <1>1, <1>3, <3>1, Zenon
    <3>4. /\ Hears(t, r) \in Stream /\ Len(Hears(t, r).queue) <= RingSize
          /\ Hears(t, r).queue # <<>>
          /\ Hears(t, r).phase = t.phase /\ Hears(t, r).space = t.space
          /\ Hears(t, r).from = t.from /\ Hears(t, r).seen = t.seen
          /\ Hears(t, r).missed = t.missed
          /\ \A x \in Hears(t, r).owed : x \in t.owed \/ x = r
          /\ ~Hears(t, r).lagged =>
                ~t.lagged /\ \A x : x \in Range(t.queue) \/ x = r => x \in Range(Hears(t, r).queue)
      BY <1>2, <3>2, HearsFits
    <3> QED
      BY <3>1, <3>2, <3>3, <3>4
  <2>2. Fits(z, q, v)
    BY <2>1 DEF Fits
  <2>3. ~z.lagged => \A x : Held(h, st, q, v, x) \/ x = r => Held(h, z, q, v, x)
    BY <1>3, <2>1 DEF Held
  <2>4. ASSUME ~z.lagged, NEW x \in E[s] PROVE Held(h, z, q, v, x) \/ x \in z.missed
    <3>1. x \in D[s] \/ x = r
      BY <2>4
    <3>2. x \in D[s] => Held(h, st, q, v, x) \/ x \in st.missed
      BY <1>3, <2>1, <2>4 DEF Sound
    <3> QED
      BY <2>1, <2>3, <2>4, <3>1, <3>2
  <2>5. ASSUME ~z.lagged, NEW x \in z.owed PROVE x \in DOMAIN h /\ Held(h, z, q, v, x)
    <3>1. x \in st.owed => x \in DOMAIN h /\ Held(h, st, q, v, x)
      BY <1>3, <2>1, <2>5 DEF Sound
    <3> QED
      BY <1>2, <2>1, <2>3, <2>5, <3>1
  <2>6. Sound(h, E, z, q, v)
    BY <2>1, <2>4, <2>5 DEF Sound
  <2> QED
    BY <2>2, <2>6 DEF z
<1>4. CASE st.phase = "snap" /\ st.space = s
  <2>1. /\ z \in Stream /\ z.phase = "snap" /\ z.space = s /\ z.from = st.from /\ z.seen = st.seen
        /\ z.missed = st.missed \cup {r} /\ z.owed = st.owed /\ z.queue = st.queue
        /\ z.lagged = st.lagged
    BY <1>1, <1>2, <1>4 DEF Misses, Stream
  <2>2. Fits(z, q, v)
    BY <2>1 DEF Fits
  <2>3. \A x : Held(h, st, q, v, x) => Held(h, z, q, v, x)
    BY <1>4, <2>1 DEF Held
  <2>4. Sound(h, E, z, q, v)
    BY <1>4, <2>1, <2>3 DEF Sound
  <2> QED
    BY <2>2, <2>4 DEF z
<1>5. CASE ~(st.phase \in {"live", "snap"} /\ st.space = s)
  <2>1. z = st
    BY <1>1, <1>5
  <2>2. st.phase \in {"snap", "live"} /\ st.space \in Served => \A x \in E[st.space] : x \in D[st.space]
    BY <1>5
  <2>3. Sound(h, E, st, q, v)
    BY <2>2 DEF Sound
  <2> QED
    BY <2>1, <2>3 DEF z
<1> QED
  BY <1>3, <1>4, <1>5

-----------------------------------------------------------------------------
(* The steps of one client's stream.                                       *)

Fine(z, q, v) == Fits(z, q, v) /\ Sound(history, Del, z, q, v)

Updates(c, z, q, v) ==
    /\ stream' = [stream EXCEPT ![c] = z]
    /\ inbox' = [inbox EXCEPT ![c] = q]
    /\ view' = [view EXCEPT ![c] = v]

\* What the proofs of a stream's steps start from.
ClientInv == ServerInv /\ StreamsOK /\ StreamInv

\* What is known of a client and its stream.
LEMMA ClientFacts ==
    ASSUME ClientInv, NEW c \in Clients
    PROVE  /\ Fine(stream[c], inbox[c], view[c]) /\ stream[c] \in Stream
           /\ inbox[c] \in Seq(Nat) /\ Len(inbox[c]) \in Nat /\ view[c] \in [Keys -> Nat]
           /\ Len(history) \in Nat /\ DOMAIN history = 1..Len(history)
           /\ stream = [stream EXCEPT ![c] = stream[c]] /\ inbox = [inbox EXCEPT ![c] = inbox[c]]
           /\ view = [view EXCEPT ![c] = view[c]]
<1>1. Fits(stream[c], inbox[c], view[c]) /\ Sound(history, Del, stream[c], inbox[c], view[c])
  BY FitsAre, StreamsAre DEF ClientInv, EachFits, EachStream
<1>2. /\ stream \in [Clients -> Stream] /\ inbox \in [Clients -> Seq(Nat)]
      /\ view \in [Clients -> [Keys -> Nat]]
  BY DEF ClientInv, StreamsOK
<1>3. Len(history) \in Nat /\ DOMAIN history = 1..Len(history)
  BY LenProperties DEF ClientInv, ServerInv, StoreOK
<1>4. Len(inbox[c]) \in Nat
  BY <1>2, LenProperties
<1> QED
  BY <1>1, <1>2, <1>3, <1>4 DEF Fine

\* What a watcher has delivered are writes of its namespace.
LEMMA DelFacts ==
    ASSUME ServerInv, NEW s \in Served
    PROVE  /\ Del[s] = DelIn(history, s, watcher[s])
           /\ \A r \in Del[s] : /\ r \in 1..Len(history) /\ r \in Nat \ {0}
                                /\ history[r].key \in Keys /\ Ns[history[r].key] = s
<1>1. Del[s] = DelIn(history, s, watcher[s])
  BY Definitions DEF Del
<1> QED
  BY <1>1, WatcherFacts DEF DelIn

\* A stream that has ended owes nothing.
LEMMA EndedFine ==
    ASSUME StoreOK, NEW q \in Seq(Nat), Len(q) <= InboxSize, NEW v \in [Keys -> Nat]
    PROVE  Stream0 \in Stream /\ Fine(Ended, q, v)
<1>1. (CHOOSE s \in Spaces : TRUE) \in Spaces
  BY SecretAssumption
<1>2. <<>> \in Seq(Nat)
  BY EmptySeq
<1>3. Stream0 \in Stream
  BY <1>1, <1>2 DEF Stream0, Stream
<1>4. Ended \in Stream /\ Ended.phase = "ended" /\ Ended.from = 0 /\ Ended.seen = 0
  BY <1>3 DEF Ended, Stream, Stream0
<1>5. Len(history) \in Nat
  BY LenProperties DEF StoreOK
<1> QED
  BY <1>3, <1>4, <1>5 DEF Fine, Fits, Sound

\* Fail drops the sender, with a Status where there is room.
LEMMA FailFine ==
    ASSUME ClientInv, NEW c \in Clients, NEW status, Fail(c, status), view' = view
    PROVE  \E z, q, v : Updates(c, z, q, v) /\ Fine(z, q, v)
<1> DEFINE q == IF status /\ Room(c) THEN Append(inbox[c], 0) ELSE inbox[c]
<1>1. /\ inbox[c] \in Seq(Nat) /\ Len(inbox[c]) \in Nat /\ view[c] \in [Keys -> Nat]
      /\ Len(inbox[c]) <= InboxSize
      /\ inbox = [inbox EXCEPT ![c] = inbox[c]] /\ view = [view EXCEPT ![c] = view[c]]
  BY ClientFacts DEF Fine, Fits
<1>2. q \in Seq(Nat) /\ Len(q) <= InboxSize
  <2>1. Append(inbox[c], 0) \in Seq(Nat) /\ Len(Append(inbox[c], 0)) = Len(inbox[c]) + 1
    BY <1>1, AppendProperties
  <2>2. Room(c) => Len(Append(inbox[c], 0)) <= InboxSize
    BY <1>1, <2>1, SecretAssumption DEF Room
  <2> QED
    BY <1>1, <2>1, <2>2
<1>3. inbox' = [inbox EXCEPT ![c] = q] /\ stream' = [stream EXCEPT ![c] = Ended]
  BY <1>1 DEF Fail
<1> HIDE DEF q
<1>4. Fine(Ended, q, view[c])
  BY <1>1, <1>2, EndedFine DEF ClientInv, ServerInv
<1> QED
  BY <1>1, <1>3, <1>4 DEF Updates

\* The snapshot has a frame for every entry of the namespace.
LEMMA FramesFacts ==
    ASSUME ServerInv, NEW s, NEW f \in Frames(s)
    PROVE  f \in Seq(Nat) /\ \A x \in Cached(s) : x \in Range(f)
<1> DEFINE S == Cached(s)
           n == Cardinality(S)
<1>1. Len(history) \in Nat /\ cache \in [Keys -> Entry]
      /\ \A k \in Keys : cache[k].rv \in Nat /\ cache[k].rv <= Len(history)
  BY WatchersAre, LenProperties DEF ServerInv, StoreOK, WatchersOK, EachCached, Entry
<1>2. S \subseteq 0..Len(history)
  BY <1>1 DEF Cached
<1>3. IsFiniteSet(0..Len(history))
  BY <1>1, FS_Interval
<1>4. IsFiniteSet(S) /\ n \in Nat
  BY <1>2, <1>3, FS_Subset, FS_CardinalityType
<1>5. f \in [1..n -> S] /\ \A i, j \in 1..n : i # j => f[i] # f[j]
  BY DEF Frames, SetToSeqs
<1> HIDE DEF S
<1>6. S \in SUBSET Nat
  BY <1>1, <1>2
<1>7. f \in Seq(Nat)
  <2>1. f \in [1..n -> Nat]
    BY <1>5, <1>6
  <2> HIDE DEF n
  <2> QED
    BY <1>4, <2>1, SeqDef
<1>8. IsFiniteSet(1..n) /\ Cardinality(1..n) = n
  <2>1. 1 \in Int /\ n \in Int
    BY <1>4
  <2>2. IsFiniteSet(1..n) /\ Cardinality(1..n) = IF 1 > n THEN 0 ELSE n - 1 + 1
    BY <2>1, FS_Interval
  <2> QED
    BY <1>4, <2>2
<1>9. f \in Injection(1..n, S)
  BY <1>5 DEF Injection, IsInjective
<1> DEFINE T == 1..n
<1>10. f \in Injection(T, S) /\ IsFiniteSet(T) /\ Cardinality(T) = Cardinality(S)
  BY <1>8, <1>9
<1> HIDE DEF T
<1>11. f \in Surjection(T, S)
  BY <1>4, <1>10, FS_Injection
<1>12. \A x \in S : \E i \in T : f[i] = x
  BY <1>11 DEF Surjection
<1>13. DOMAIN f = T
  BY <1>5 DEF T
<1> QED
  BY <1>7, <1>12, <1>13 DEF Range, S

\* The snapshot holds what its watcher has delivered; what a relist has only
\* buffered is missed.
LEMMA SnapshotFine ==
    ASSUME ClientInv, NEW c \in Clients, NEW s \in Spaces, NEW from \in 0..Len(history),
           Snapshot(c, s, from)
    PROVE  \E z, q, v : Updates(c, z, q, v) /\ Fine(z, q, v)
<1> DEFINE m == IF s \in Served THEN Buffered(s) ELSE {}
           q == inbox[c]
           v == view[c]
<1>1. PICK f \in Frames(s) :
         stream' = [stream EXCEPT ![c] =
             [Stream0 EXCEPT !.phase = "snap", !.space = s, !.from = from, !.queue = f,
                             !.missed = m]]
  BY DEF Snapshot
<1> DEFINE z == [Stream0 EXCEPT !.phase = "snap", !.space = s, !.from = from, !.queue = f,
                                !.missed = m]
<1>2. /\ q \in Seq(Nat) /\ Len(q) <= InboxSize /\ v \in [Keys -> Nat] /\ Len(history) \in Nat
      /\ inbox = [inbox EXCEPT ![c] = q] /\ view = [view EXCEPT ![c] = v]
  BY ClientFacts DEF Fine, Fits
<1>3. Updates(c, z, q, v)
  BY <1>1, <1>2 DEF Updates, Snapshot
<1>4. f \in Seq(Nat) /\ \A x \in Cached(s) : x \in Range(f)
  BY FramesFacts DEF ClientInv
<1>5. m \in SUBSET Nat /\ (s \in Served => m = BufIn(watcher[s]))
  <2>1. CASE s \in Served
    <3>1. Buffered(s) = BufIn(watcher[s])
      BY Definitions
    <3>2. \A x \in BufIn(watcher[s]) : x \in Nat
      BY <2>1, WatcherFacts DEF ClientInv, WatcherIs
    <3> QED
      BY <2>1, <3>1, <3>2
  <2>2. CASE s \notin Served
    BY <2>2
  <2> QED
    BY <2>1, <2>2
<1> HIDE DEF m
<1>6. Stream0 \in Stream /\ Stream0.lagged = FALSE /\ Stream0.owed = {} /\ Stream0.seen = 0
  <2>1. Stream0 \in Stream
    BY <1>2, EndedFine DEF ClientInv, ServerInv
  <2>2. Stream0.lagged = FALSE /\ Stream0.owed = {} /\ Stream0.seen = 0
    BY DEF Stream0
  <2> QED
    BY <2>1, <2>2
<1>7. /\ z \in Stream /\ z.phase = "snap" /\ z.space = s /\ z.from = from /\ z.queue = f
      /\ z.missed = m /\ z.lagged = FALSE /\ z.owed = {} /\ z.seen = 0
  <2>1. from \in Nat
    BY <1>2
  <2> QED
    BY <1>4, <1>5, <1>6, <2>1 DEF Stream
<1> HIDE DEF z
<1>8. ASSUME s \in Served, NEW r \in Del[s] PROVE Held(history, z, q, v, r) \/ r \in z.missed
  <2>1. /\ r \in DelIn(history, s, watcher[s]) /\ r # 0 /\ history[r].key \in Keys
        /\ Ns[history[r].key] = s
    BY <1>8, DelFacts DEF ClientInv
  <2>2. cache[history[r].key].rv = r \/ r \in BufIn(watcher[s])
    BY <1>8, <2>1, WatcherFacts DEF ClientInv, CacheIs
  <2>3. CASE cache[history[r].key].rv = r
    <3>1. r \in Cached(s)
      BY <2>1, <2>3 DEF Cached
    <3> QED
      BY <1>4, <1>7, <3>1 DEF Held
  <2>4. CASE r \in BufIn(watcher[s])
    BY <1>5, <1>7, <1>8, <2>4
  <2> QED
    BY <2>2, <2>3, <2>4
<1>9. Fine(z, q, v)
  BY <1>2, <1>7, <1>8 DEF Fine, Fits, Sound
<1> QED
  BY <1>3, <1>9

\* The snapshot goes to the channel before anything live does.
LEMMA AttachFine ==
    ASSUME ClientInv, NEW c \in Clients, Attach(c)
    PROVE  \E z, q, v : Updates(c, z, q, v) /\ Fine(z, q, v)
<1> DEFINE st == stream[c]
           e == Emitted(st.queue)
           v == view[c]
<1>1. st.phase = "snap" /\ view' = view
  BY DEF Attach
<1>2. /\ Fine(st, inbox[c], v) /\ st \in Stream /\ v \in [Keys -> Nat] /\ Len(history) \in Nat
      /\ inbox[c] \in Seq(Nat) /\ Len(inbox[c]) <= InboxSize /\ DOMAIN history = 1..Len(history)
      /\ inbox = [inbox EXCEPT ![c] = inbox[c]] /\ view = [view EXCEPT ![c] = v]
  BY ClientFacts DEF Fine, Fits
<1>3. st.queue \in Seq(Nat) /\ Len(st.queue) \in Nat /\ InboxSize \in Nat \ {0}
      /\ st.from \in Nat /\ RingSize \in Nat
  BY <1>2, SecretAssumption, LenProperties DEF Stream
<1>4. PICK o \in Seq(Nat) : o = <<>>
  BY EmptySeq
<1>5. Len(o) = 0 /\ \A x : x \notin Range(o)
  BY <1>4 DEF Range
<1>6. e.sent \in Seq(Nat) /\ Len(e.sent) <= InboxSize /\ (e.ok => e.sent = st.queue)
  <2>1. CASE Len(st.queue) <= InboxSize
    BY <1>3, <2>1 DEF Emitted
  <2>2. CASE ~(Len(st.queue) <= InboxSize)
    <3>1. e.sent = SubSeq(st.queue, 1, InboxSize) /\ ~e.ok
      BY <2>2 DEF Emitted
    <3>2. \A i \in 1..InboxSize : st.queue[i] \in Nat
      <4>1. \A i \in 1..InboxSize : i \in 1..Len(st.queue)
        BY <1>3, <2>2
      <4> QED
        BY <1>3, <4>1, ElementOfSeq
    <3>3. 1 \in Int /\ InboxSize \in Int /\ 1 <= InboxSize
      BY <1>3
    <3>4. /\ SubSeq(st.queue, 1, InboxSize) \in Seq(Nat)
          /\ Len(SubSeq(st.queue, 1, InboxSize)) =
                IF 1 <= InboxSize THEN InboxSize - 1 + 1 ELSE 0
      BY <3>2, <3>3, SubSeqProperties
    <3> QED
      BY <1>3, <3>1, <3>3, <3>4
  <2> QED
    BY <2>1, <2>2
<1> HIDE DEF e
<1>7. CASE inbox' = [inbox EXCEPT ![c] = e.sent] /\ stream' = [stream EXCEPT ![c] = Ended]
  <2>1. Fine(Ended, e.sent, v)
    BY <1>2, <1>6, EndedFine DEF ClientInv, ServerInv
  <2> QED
    BY <1>1, <1>2, <1>7, <2>1 DEF Updates
<1>8. CASE stream' = [stream EXCEPT ![c] = Ended] /\ inbox' = inbox
  <2>1. Fine(Ended, inbox[c], v)
    BY <1>2, EndedFine DEF ClientInv, ServerInv
  <2> QED
    BY <1>1, <1>2, <1>8, <2>1 DEF Updates
<1>9. CASE /\ e.ok /\ inbox' = [inbox EXCEPT ![c] = e.sent]
           /\ stream' = [stream EXCEPT ![c] =
                 [st EXCEPT !.phase = "raw", !.queue = <<>>, !.seen = st.from]]
  <2> DEFINE z == [st EXCEPT !.phase = "raw", !.queue = o, !.seen = st.from]
  <2>1. z \in Stream /\ z.phase = "raw" /\ z.from = st.from /\ z.seen = st.from /\ z.queue = o
    BY <1>2, <1>3 DEF Stream
  <2>2. stream' = [stream EXCEPT ![c] = z]
    BY <1>4, <1>9
  <2> HIDE DEF z
  <2>3. st.from <= Len(history)
    BY <1>2 DEF Fine, Sound
  <2>4. Fine(z, e.sent, v)
    BY <1>2, <1>3, <1>4, <1>6, <2>1, <2>3 DEF Fine, Fits, Sound
  <2> QED
    BY <1>1, <1>2, <1>9, <2>2, <2>4 DEF Updates
<1>10. CASE /\ e.ok /\ st.space \in Served /\ inbox' = [inbox EXCEPT ![c] = e.sent]
            /\ stream' = [stream EXCEPT ![c] =
                  [st EXCEPT !.phase = "live", !.queue = <<>>, !.at = watcher[st.space].seen]]
  <2> DEFINE z == [st EXCEPT !.phase = "live", !.queue = o, !.at = watcher[st.space].seen]
             q == st.queue
  <2>1. /\ z \in Stream /\ z.phase = "live" /\ z.from = st.from /\ z.seen = st.seen
        /\ z.space = st.space /\ z.lagged = st.lagged /\ z.owed = st.owed
        /\ z.missed = st.missed /\ z.queue = o
    <3>1. watcher[st.space].seen \in Nat
      BY <1>10, WatcherFacts DEF ClientInv
    <3> QED
      BY <1>2, <3>1 DEF Stream
  <2>2. stream' = [stream EXCEPT ![c] = z]
    BY <1>4, <1>10
  <2> HIDE DEF z
  <2>3. ~st.lagged /\ st.owed = {} /\ st.from <= Len(history) /\ st.seen <= Len(history)
        /\ \A r \in Del[st.space] : Held(history, st, inbox[c], v, r) \/ r \in st.missed
    BY <1>1, <1>2, <1>10 DEF Fine, Sound
  <2>4. \A r : Held(history, st, inbox[c], v, r) => Held(history, z, q, v, r)
    BY <1>1, <2>1 DEF Held
  <2>5. Sound(history, Del, z, q, v)
    BY <1>10, <2>1, <2>3, <2>4 DEF Sound
  <2>6. Fine(z, q, v)
    BY <1>2, <1>3, <1>5, <1>6, <1>10, <2>1, <2>5 DEF Fine, Fits
  <2> QED
    BY <1>1, <1>2, <1>6, <1>10, <2>2, <2>6 DEF Updates
<1> QED
  BY <1>7, <1>8, <1>9, <1>10 DEF Attach, e

\* One turn of the bridge: the next frame goes to the channel, or the stream ends.
LEMMA BridgeFine ==
    ASSUME ClientInv, NEW c \in Clients, Bridge(c)
    PROVE  \E z, q, v : Updates(c, z, q, v) /\ Fine(z, q, v)
<1> DEFINE st == stream[c]
           q == inbox[c]
           v == view[c]
           r == Head(st.queue)
           z == [st EXCEPT !.queue = Tail(st.queue)]
           p == Append(q, r)
<1>1. st.phase = "live" /\ st.queue # <<>> /\ view' = view
  BY DEF Bridge
<1>2. /\ Fine(st, q, v) /\ st \in Stream /\ v \in [Keys -> Nat] /\ q \in Seq(Nat)
      /\ Len(q) \in Nat /\ view = [view EXCEPT ![c] = v]
  BY ClientFacts
<1>3. st.queue \in Seq(Nat) /\ Len(st.queue) \in Nat /\ Len(st.queue) <= RingSize
      /\ RingSize \in Nat /\ InboxSize \in Nat
  BY <1>1, <1>2, SecretAssumption, LenProperties DEF Fine, Fits, Stream
<1>4. CASE st.lagged \/ ~Room(c)
  BY <1>1, <1>4, FailFine DEF Bridge
<1>5. CASE ~(st.lagged \/ ~Room(c))
  <2>1. stream' = [stream EXCEPT ![c] = z] /\ inbox' = [inbox EXCEPT ![c] = p]
    BY <1>5 DEF Bridge
  <2>2. /\ r \in Nat /\ Tail(st.queue) \in Seq(Nat) /\ Len(Tail(st.queue)) = Len(st.queue) - 1
        /\ \A x \in Range(st.queue) : x = r \/ x \in Range(Tail(st.queue))
    BY <1>1, <1>3, RangeHead
  <2>3. p \in Seq(Nat) /\ Len(p) = Len(q) + 1 /\ \A x : x \in Range(q) \/ x = r => x \in Range(p)
    BY <1>2, <2>2, AppendProperties, RangeAppend
  <2>4. Len(p) <= InboxSize
    BY <1>2, <1>3, <1>5, <2>3 DEF Room
  <2>5. /\ z \in Stream /\ z.phase = "live" /\ z.from = st.from /\ z.seen = st.seen
        /\ z.space = st.space /\ z.lagged = st.lagged /\ z.owed = st.owed
        /\ z.missed = st.missed /\ z.queue = Tail(st.queue)
    BY <1>1, <1>2, <2>2 DEF Stream
  <2> HIDE DEF z, p, r
  <2>6. \A x : Held(history, st, q, v, x) => Held(history, z, p, v, x)
    BY <1>1, <2>2, <2>3, <2>5 DEF Held
  <2>7. Sound(history, Del, z, p, v)
    BY <1>1, <1>2, <1>5, <2>5, <2>6 DEF Fine, Sound
  <2>8. Fine(z, p, v)
    BY <1>2, <1>3, <2>2, <2>3, <2>4, <2>5, <2>7 DEF Fine, Fits
  <2> QED
    BY <1>1, <1>2, <2>1, <2>8 DEF Updates
<1> QED
  BY <1>4, <1>5

\* One event of the raw watch: the next one after the last.
LEMMA RawEventFine ==
    ASSUME ClientInv, NEW c \in Clients, RawEvent(c)
    PROVE  \E z, q, v : Updates(c, z, q, v) /\ Fine(z, q, v)
<1> DEFINE st == stream[c]
           q == inbox[c]
           v == view[c]
           r == NextEvent(st.space, st.seen)
           z == [st EXCEPT !.seen = r]
           p == Append(q, r)
<1>1. st.phase = "raw" /\ r # 0 /\ view' = view
  BY DEF RawEvent
<1>2. /\ Fine(st, q, v) /\ st \in Stream /\ v \in [Keys -> Nat] /\ q \in Seq(Nat)
      /\ Len(q) \in Nat /\ view = [view EXCEPT ![c] = v]
      /\ Len(history) \in Nat /\ DOMAIN history = 1..Len(history)
  BY ClientFacts
<1>3. st.seen \in Nat /\ st.from \in Nat /\ InboxSize \in Nat
  BY <1>2, SecretAssumption DEF Stream
<1>4. CASE ~Room(c)
  BY <1>1, <1>4, FailFine DEF RawEvent
<1>5. CASE Room(c)
  <2>1. stream' = [stream EXCEPT ![c] = z] /\ inbox' = [inbox EXCEPT ![c] = p]
    BY <1>5 DEF RawEvent
  <2>2. /\ r \in EventsAfter(st.space, st.seen) /\ r \in 1..Len(history)
        /\ \A x \in EventsAfter(st.space, st.seen) : r <= x
    BY <1>1, <1>3, NextEventFacts DEF ClientInv, ServerInv
  <2> HIDE DEF r
  <2>3. p \in Seq(Nat) /\ Len(p) = Len(q) + 1 /\ \A x : x \in Range(q) \/ x = r => x \in Range(p)
    BY <1>2, <2>2, AppendProperties, RangeAppend
  <2>4. Len(p) <= InboxSize
    BY <1>2, <1>3, <1>5, <2>3 DEF Room
  <2>5. /\ z \in Stream /\ z.phase = "raw" /\ z.from = st.from /\ z.seen = r
        /\ z.space = st.space /\ z.queue = st.queue
    <3>1. r \in Nat
      BY <1>2, <2>2
    <3> QED
      BY <1>1, <1>2, <3>1 DEF Stream
  <2> HIDE DEF z, p
  <2>6. \A x : Held(history, st, q, v, x) \/ x = r => Held(history, z, p, v, x)
    BY <1>1, <2>3, <2>5 DEF Held
  <2>7. ASSUME NEW x \in DOMAIN history, Ns[history[x].key] = st.space, x > st.from, x <= r
        PROVE  Held(history, z, p, v, x)
    <3>1. CASE x <= st.seen
      <4>1. Held(history, st, q, v, x)
        BY <1>1, <1>2, <2>7, <3>1 DEF Fine, Sound
      <4> QED
        BY <2>6, <4>1
    <3>2. CASE ~(x <= st.seen)
      <4>1. x \in EventsAfter(st.space, st.seen)
        BY <1>2, <1>3, <2>7, <3>2 DEF EventsAfter
      <4>2. x = r
        BY <1>2, <2>2, <2>7, <4>1
      <4> QED
        BY <2>6, <4>2
    <3> QED
      BY <3>1, <3>2
  <2>8. st.from <= Len(history) /\ st.queue = <<>>
    BY <1>1, <1>2 DEF Fine, Sound
  <2>9. Sound(history, Del, z, p, v)
    BY <1>2, <2>2, <2>5, <2>7, <2>8 DEF Sound
  <2>10. Fine(z, p, v)
    BY <1>2, <2>3, <2>4, <2>5, <2>9 DEF Fine, Fits
  <2> QED
    BY <1>1, <1>2, <2>1, <2>10 DEF Updates
<1> QED
  BY <1>4, <1>5

\* The client takes a frame.
LEMMA ReceiveFine ==
    ASSUME ClientInv, NEW c \in Clients, Receive(c)
    PROVE  \E z, q, v : Updates(c, z, q, v) /\ Fine(z, q, v)
<1> DEFINE st == stream[c]
           q == inbox[c]
           p == Tail(q)
           r == Head(q)
           k == history[r].key
           u == view[c]
           v == IF r = 0 THEN u ELSE [u EXCEPT ![k] = IF r > u[k] THEN r ELSE u[k]]
<1>1. q # <<>> /\ st.phase # "snap" /\ inbox' = [inbox EXCEPT ![c] = p] /\ stream' = stream
  BY DEF Receive
<1>2. /\ Fine(st, q, u) /\ st \in Stream /\ u \in [Keys -> Nat] /\ q \in Seq(Nat)
      /\ Len(q) \in Nat /\ view = [view EXCEPT ![c] = u] /\ Len(q) <= InboxSize
      /\ Len(history) \in Nat /\ DOMAIN history = 1..Len(history)
      /\ stream = [stream EXCEPT ![c] = st]
  BY ClientFacts DEF Fine, Fits
<1>3. view' = [view EXCEPT ![c] = v]
  BY <1>2 DEF Receive
<1>4. /\ r \in Nat /\ p \in Seq(Nat) /\ Len(p) = Len(q) - 1
      /\ \A x \in Range(q) : x = r \/ x \in Range(p)
  BY <1>1, <1>2, RangeHead
<1>5. Len(p) <= InboxSize
  BY <1>2, <1>4, SecretAssumption
<1> HIDE DEF r, p
<1>6. /\ v \in [Keys -> Nat] /\ \A j \in Keys : v[j] >= u[j]
      /\ r # 0 /\ k \in Keys => v[k] >= r
  <2>1. CASE r = 0
    BY <1>2, <2>1
  <2>2. CASE r # 0
    <3> HIDE DEF k
    <3>1. v = [u EXCEPT ![k] = IF r > u[k] THEN r ELSE u[k]]
      BY <2>2
    <3>2. v \in [Keys -> Nat] /\ \A j \in Keys : v[j] = IF j = k THEN (IF r > u[k] THEN r ELSE u[k])
                                                        ELSE u[j]
      BY <1>2, <1>4, <3>1
    <3>3. \A j \in Keys : u[j] \in Nat
      BY <1>2
    <3> QED
      BY <1>4, <3>2, <3>3
  <2> QED
    BY <2>1, <2>2
<1> HIDE DEF v
<1>7. ASSUME NEW x \in 1..Len(history), Held(history, st, q, u, x) PROVE Held(history, st, p, v, x)
  <2>1. history[x] \in Write
    BY ElementOfSeq DEF ClientInv, ServerInv, StoreOK
  <2>2. history[x].key \in Keys
    BY <2>1 DEF Write
  <2>3. CASE u[history[x].key] >= x
    <3>1. v[history[x].key] >= x
      <4>1. u[history[x].key] \in Nat /\ v[history[x].key] \in Nat /\ x \in Nat
        BY <1>2, <1>6, <2>2
      <4> QED
        BY <1>6, <2>2, <2>3, <4>1
    <3> QED
      BY <3>1 DEF Held
  <2>4. CASE x \in Range(st.queue)
    BY <2>4 DEF Held
  <2>5. CASE x \in Range(q)
    <3>1. CASE x \in Range(p)
      BY <1>1, <3>1 DEF Held
    <3>2. CASE x = r
      <4>1. v[history[x].key] >= x
        BY <1>6, <2>2, <3>2
      <4> QED
        BY <4>1 DEF Held
    <3> QED
      BY <1>4, <2>5, <3>1, <3>2
  <2> QED
    BY <1>7, <2>3, <2>4, <2>5 DEF Held
<1>8. \A s \in Served : \A x \in Del[s] : x \in 1..Len(history)
  BY DelFacts DEF ClientInv
<1>9. Sound(history, Del, st, p, v)
  BY <1>2, <1>7, <1>8 DEF Fine, Sound
<1>10. Fine(st, p, v)
  BY <1>2, <1>4, <1>5, <1>6, <1>9 DEF Fine, Fits
<1>11. Updates(c, st, p, v)
  BY <1>1, <1>2, <1>3 DEF Updates
<1> QED
  BY <1>10, <1>11

\* The client hangs up.
LEMMA HangUpFine ==
    ASSUME ClientInv, NEW c \in Clients, HangUp(c)
    PROVE  \E z, q, v : Updates(c, z, q, v) /\ Fine(z, q, v)
<1>1. PICK o \in Seq(Nat) : o = <<>>
  BY EmptySeq
<1>2. Len(o) <= InboxSize
  BY <1>1, SecretAssumption
<1>3. view[c] \in [Keys -> Nat] /\ view = [view EXCEPT ![c] = view[c]]
  BY ClientFacts
<1>4. Fine(Ended, o, view[c])
  BY <1>2, <1>3, EndedFine DEF ClientInv, ServerInv
<1>5. Updates(c, Ended, o, view[c])
  BY <1>1, <1>3 DEF HangUp, Updates
<1> QED
  BY <1>4, <1>5

-----------------------------------------------------------------------------
(* Every step.                                                             *)

DeliveredIn == \A s \in Served : Del[s] = DelIn(history, s, watcher[s])

\* Del in terms of the history and the watchers.
LEMMA DelIs == DeliveredIn
BY Definitions DEF Del, DeliveredIn

\* All streams after a step, and what they promise.
LEMMA AllFine ==
    ASSUME stream' \in [Clients -> Stream], inbox' \in [Clients -> Seq(Nat)],
           view' \in [Clients -> [Keys -> Nat]],
           \A c \in Clients : /\ Fits(stream'[c], inbox'[c], view'[c])
                              /\ Sound(history', Del', stream'[c], inbox'[c], view'[c])
    PROVE  StreamsOK' /\ StreamInv'
<1>1. StreamsOK'
  BY DEF StreamsOK, Fits
<1>2. EachStream'
  BY DEF EachStream
<1>3. StreamInv'
  BY <1>2, StreamsAre, PTL
<1> QED
  BY <1>1, <1>3

\* A step of one client's stream.
LEMMA OneClient ==
    ASSUME ClientInv, StoreOK', NEW c \in Clients, UNCHANGED <<history, cache, watcher>>,
           NEW z, NEW q, NEW v, Updates(c, z, q, v), Fine(z, q, v)
    PROVE  ClientInv'
<1>1. EachWatcher' /\ EachCached'
  BY WatchersAre DEF ClientInv, ServerInv, EachWatcher, EachCached
<1>2. WatcherInv' /\ CacheInv'
  BY <1>1, WatchersAre, PTL
<1>3. ServerInv'
  BY <1>2 DEF ClientInv, ServerInv, WatchersOK, FreshIsFromThisConnection
<1>4. \A s \in Served : Del'[s] = Del[s]
  <2>1. DeliveredIn /\ DeliveredIn'
    BY DelIs, PTL
  <2> QED
    BY <2>1 DEF DeliveredIn
<1>5. \A s \in Served : Del'[s] \subseteq Del[s] /\ Del[s] \subseteq 1..Len(history)
  BY <1>4, DelFacts DEF ClientInv
<1>6. stream \in [Clients -> Stream] /\ inbox \in [Clients -> Seq(Nat)]
      /\ view \in [Clients -> [Keys -> Nat]] /\ history \in Seq(Write)
  BY DEF ClientInv, ServerInv, StreamsOK, StoreOK
<1>7. z \in Stream /\ q \in Seq(Nat) /\ v \in [Keys -> Nat]
  BY DEF Fine, Fits
<1>8. stream' \in [Clients -> Stream] /\ inbox' \in [Clients -> Seq(Nat)]
      /\ view' \in [Clients -> [Keys -> Nat]]
  BY <1>6, <1>7 DEF Updates
<1>9. ASSUME NEW d \in Clients PROVE Fine(stream'[d], inbox'[d], view'[d])
  <2>1. Fine(stream[d], inbox[d], view[d])
    BY ClientFacts
  <2>2. CASE d = c
    <3>1. stream'[d] = z /\ inbox'[d] = q /\ view'[d] = v
      BY <1>6, <2>2 DEF Updates
    <3> QED
      BY <3>1
  <2>3. CASE d # c
    <3>1. stream'[d] = stream[d] /\ inbox'[d] = inbox[d] /\ view'[d] = view[d]
      BY <1>6, <2>3 DEF Updates
    <3> QED
      BY <2>1, <3>1
  <2> QED
    BY <2>2, <2>3
<1>10. ASSUME NEW d \in Clients
       PROVE  /\ Fits(stream'[d], inbox'[d], view'[d])
              /\ Sound(history', Del', stream'[d], inbox'[d], view'[d])
  <2>1. Fits(stream'[d], inbox'[d], view'[d]) /\ Sound(history, Del, stream'[d], inbox'[d], view'[d])
    BY <1>9 DEF Fine
  <2>2. Len(history) <= Len(history) /\ \A i \in 1..Len(history) : history[i] = history[i]
    BY <1>6, LenProperties
  <2>3. Sound(history, Del', stream'[d], inbox'[d], view'[d])
    BY <1>5, <1>6, <2>1, <2>2, SoundLater
  <2> QED
    BY <2>1, <2>3
<1>11. StreamsOK' /\ StreamInv'
  BY <1>8, <1>10, AllFine
<1> QED
  BY <1>3, <1>11 DEF ClientInv

\* A step of one watcher, which sends at most the event it adds.
LEMMA OneWatcher ==
    ASSUME ClientInv, StoreOK', NEW s \in Served, UNCHANGED <<history, inbox, view>>,
           NEW z, watcher' = [watcher EXCEPT ![s] = z], Tends(s, z, cache'),
           \/ Adds(s, z, {}) /\ stream' = stream
           \/ \E r \in 1..Len(history) : Adds(s, z, {r}) /\ stream' = Sent(r, s)
    PROVE  ClientInv'
<1>1. ServerInv'
  BY TendedServer DEF ClientInv
<1>2. stream \in [Clients -> Stream] /\ inbox \in [Clients -> Seq(Nat)]
      /\ view \in [Clients -> [Keys -> Nat]] /\ history \in Seq(Write)
      /\ watcher \in [Served -> Watcher]
  BY DEF ClientInv, ServerInv, StreamsOK, StoreOK, WatchersOK
<1>3. \A t \in Served : /\ Del[t] = DelIn(history, t, watcher[t])
                        /\ Del'[t] = DelIn(history, t, IF t = s THEN z ELSE watcher[t])
  <2>1. DeliveredIn /\ DeliveredIn'
    BY DelIs, PTL
  <2> QED
    BY <1>2, <2>1 DEF DeliveredIn
<1>4. \A d \in Clients : /\ Fits(stream[d], inbox[d], view[d])
                         /\ Sound(history, Del, stream[d], inbox[d], view[d])
  BY ClientFacts DEF Fine
<1>5. CASE Adds(s, z, {}) /\ stream' = stream
  <2>1. \A t \in Served : Del'[t] \subseteq Del[t] /\ Del[t] \subseteq 1..Len(history)
    <3>1. \A t \in Served : Del'[t] \subseteq Del[t]
      BY <1>3, <1>5 DEF Adds
    <3>2. \A t \in Served : Del[t] \subseteq 1..Len(history)
      BY DelFacts DEF ClientInv
    <3> QED
      BY <3>1, <3>2
  <2>2. Len(history) <= Len(history) /\ \A i \in 1..Len(history) : history[i] = history[i]
    BY <1>2, LenProperties
  <2>3. \A d \in Clients : Sound(history, Del', stream[d], inbox[d], view[d])
    BY <1>2, <1>4, <2>1, <2>2, SoundLater
  <2>4. StreamsOK' /\ StreamInv'
    BY <1>2, <1>4, <1>5, <2>3, AllFine
  <2> QED
    BY <1>1, <2>4 DEF ClientInv
<1>6. ASSUME NEW r \in 1..Len(history), Adds(s, z, {r}), stream' = Sent(r, s) PROVE ClientInv'
  <2>1. \A t \in Served : \A x \in Del'[t] : x \in Del[t] \/ (t = s /\ x = r)
    BY <1>3, <1>6 DEF Adds
  <2>2. \A d \in Clients : /\ Fits(Sent(r, s)[d], inbox[d], view[d])
                           /\ Sound(history, Del', Sent(r, s)[d], inbox[d], view[d])
    BY <1>4, <2>1, SoundSent DEF ClientInv, ServerInv
  <2>3. Sent(r, s) \in [Clients -> Stream]
    <3>1. \A d \in Clients : Sent(r, s)[d] \in Stream
      BY <2>2 DEF Fits
    <3>2. Sent(r, s) = [d \in Clients |-> Sent(r, s)[d]]
      BY DEF Sent
    <3> QED
      BY <3>1, <3>2, Zenon
  <2>4. StreamsOK' /\ StreamInv'
    BY <1>2, <1>6, <2>2, <2>3, AllFine
  <2> QED
    BY <1>1, <2>4 DEF ClientInv
<1> QED
  BY <1>5, <1>6

\* A write, which no watcher has reported yet.
LEMMA OneWrite ==
    ASSUME ClientInv, StoreOK', NEW x, Grows(x), UNCHANGED <<serverVars, view>>
    PROVE  ClientInv'
<1>1. UNCHANGED <<cache, watcher, stream, inbox, view>>
  BY DEF serverVars
<1>2. ServerInv' /\ \A t \in Served : DelIn(history', t, watcher[t]) = DelIn(history, t, watcher[t])
  BY <1>1, GrownServer DEF ClientInv
<1>3. \A t \in Served : Del'[t] \subseteq Del[t] /\ Del[t] \subseteq 1..Len(history)
  <2>1. DeliveredIn /\ DeliveredIn'
    BY DelIs, PTL
  <2>2. \A t \in Served : Del'[t] = Del[t]
    BY <1>1, <1>2, <2>1 DEF DeliveredIn
  <2> QED
    BY <2>2, DelFacts DEF ClientInv
<1>4. /\ history \in Seq(Write) /\ history' \in Seq(Write) /\ Len(history) <= Len(history')
      /\ \A i \in 1..Len(history) : history'[i] = history[i]
  BY Grown DEF ClientInv, ServerInv, StoreOK
<1>5. \A d \in Clients : /\ Fits(stream[d], inbox[d], view[d])
                         /\ Sound(history', Del', stream[d], inbox[d], view[d])
  <2> TAKE d \in Clients
  <2>1. Fits(stream[d], inbox[d], view[d]) /\ Sound(history, Del, stream[d], inbox[d], view[d])
    BY ClientFacts DEF Fine
  <2> QED
    BY <1>3, <1>4, <2>1, SoundLater
<1>6. StreamsOK' /\ StreamInv'
  <2>1. stream \in [Clients -> Stream] /\ inbox \in [Clients -> Seq(Nat)]
        /\ view \in [Clients -> [Keys -> Nat]]
    BY DEF ClientInv, StreamsOK
  <2> QED
    BY <1>1, <1>5, <2>1, AllFine
<1> QED
  BY <1>2, <1>6 DEF ClientInv

\* Every step of a watcher keeps what clients rely on.
LEMMA WatcherSteps ==
    ASSUME ClientInv, StoreOK', NEW s \in Served, WatcherNext(s) \/ Disconnect(s)
    PROVE  ClientInv'
<1> USE DEF ClientInv
<1>1. CASE Connect(s)
  <2>1. PICK z : watcher' = [watcher EXCEPT ![s] = z] /\ Tends(s, z, cache) /\ Adds(s, z, {})
    BY <1>1, ConnectTends
  <2>2. UNCHANGED <<history, cache, stream, inbox, view>>
    BY <1>1 DEF Connect
  <2> QED
    BY <2>1, <2>2, OneWatcher
<1>2. CASE Disconnect(s)
  <2>1. PICK z : watcher' = [watcher EXCEPT ![s] = z] /\ Tends(s, z, cache') /\ Adds(s, z, {})
    BY <1>2, DisconnectTends
  <2>2. UNCHANGED <<history, stream, inbox, view>>
    BY <1>2 DEF Disconnect
  <2> QED
    BY <2>1, <2>2, OneWatcher
<1>3. CASE InitDone(s)
  <2>1. PICK z : watcher' = [watcher EXCEPT ![s] = z] /\ Tends(s, z, cache') /\ Adds(s, z, {})
    BY <1>3, InitDoneTends
  <2>2. UNCHANGED <<history, stream, inbox, view>>
    BY <1>3 DEF InitDone
  <2> QED
    BY <2>1, <2>2, OneWatcher
<1>4. CASE InitApply(s)
  <2>1. PICK z : \E r \in 1..Len(history) :
           /\ watcher' = [watcher EXCEPT ![s] = z] /\ stream' = Sent(r, s)
           /\ Tends(s, z, cache') /\ Adds(s, z, {r})
    BY <1>4, InitApplyTends
  <2>2. UNCHANGED <<history, inbox, view>>
    BY <1>4 DEF InitApply
  <2> QED
    BY <2>1, <2>2, OneWatcher
<1>5. CASE WatchEvent(s)
  <2>1. PICK z : \E r \in 1..Len(history) :
           /\ watcher' = [watcher EXCEPT ![s] = z] /\ stream' = Sent(r, s)
           /\ Tends(s, z, cache') /\ Adds(s, z, {r})
    BY <1>5, WatchEventTends
  <2>2. UNCHANGED <<history, inbox, view>>
    BY <1>5 DEF WatchEvent
  <2> QED
    BY <2>1, <2>2, OneWatcher
<1> QED
  BY <1>1, <1>2, <1>3, <1>4, <1>5 DEF WatcherNext

ClientStep(c) ==
    \/ \E s \in Spaces, from \in 0..Len(history) : Snapshot(c, s, from)
    \/ StreamNext(c)
    \/ \E status \in BOOLEAN : StreamEnds(c, status)
    \/ HangUp(c) \/ Receive(c)

\* A client's step leaves the store and the watchers alone.
LEMMA ClientStepKeeps ==
    ASSUME NEW c \in Clients, ClientStep(c)
    PROVE  UNCHANGED <<history, cache, watcher>>
<1>1. CASE \E s \in Spaces, from \in 0..Len(history) : Snapshot(c, s, from)
  BY <1>1 DEF Snapshot
<1>2. CASE StreamNext(c)
  BY <1>2 DEF StreamNext, Attach, Bridge, RawEvent
<1>3. CASE (\E status \in BOOLEAN : StreamEnds(c, status)) \/ HangUp(c) \/ Receive(c)
  BY <1>3 DEF StreamEnds, HangUp, Receive
<1> QED
  BY <1>1, <1>2, <1>3, Zenon DEF ClientStep

\* Every step of a client or its stream keeps what clients rely on.
LEMMA ClientSteps ==
    ASSUME ClientInv, StoreOK', NEW c \in Clients, ClientStep(c)
    PROVE  ClientInv'
<1>1. UNCHANGED <<history, cache, watcher>>
  BY ClientStepKeeps
<1>2. \E z, q, v : Updates(c, z, q, v) /\ Fine(z, q, v)
  <2>1. ASSUME NEW s \in Spaces, NEW from \in 0..Len(history), Snapshot(c, s, from)
        PROVE  \E z, q, v : Updates(c, z, q, v) /\ Fine(z, q, v)
    BY <2>1, SnapshotFine
  <2>2. CASE Attach(c)
    BY <2>2, AttachFine
  <2>3. CASE Bridge(c)
    BY <2>3, BridgeFine
  <2>4. CASE RawEvent(c)
    BY <2>4, RawEventFine
  <2>5. ASSUME NEW status \in BOOLEAN, StreamEnds(c, status)
        PROVE  \E z, q, v : Updates(c, z, q, v) /\ Fine(z, q, v)
    <3>1. Fail(c, status) /\ view' = view
      BY <2>5 DEF StreamEnds
    <3> QED
      BY <3>1, FailFine
  <2>6. CASE HangUp(c)
    BY <2>6, HangUpFine
  <2>7. CASE Receive(c)
    BY <2>7, ReceiveFine
  <2> QED
    BY <2>1, <2>2, <2>3, <2>4, <2>5, <2>6, <2>7, Zenon DEF ClientStep, StreamNext
<1>3. PICK z, q, v : Updates(c, z, q, v) /\ Fine(z, q, v)
  BY <1>2
<1> QED
  BY <1>1, <1>3, OneClient

-----------------------------------------------------------------------------
(* Deletions: DeletionInv of one stream st, when the history is h and the  *)
(* watchers are w.                                                         *)

Told(h, w, st) ==
    st.phase = "live" =>
        \A r \in DOMAIN h :
            /\ Ns[h[r].key] = st.space /\ r > st.at
            /\ h[r].deleted /\ r <= w[st.space].seen
            => r \in st.owed \/ r \in w[st.space].skipped

EachTold == \A c \in Clients : Told(history, watcher, stream[c])

\* DeletionInv, one stream at a time.
LEMMA ToldAre == DeletionInv <=> EachTold
BY DEF DeletionInv, EachTold, Told, EventsAfter

\* A write is past everything a watcher has seen.
LEMMA ToldWrite ==
    ASSUME ClientInv, DeletionInv, NEW x, Grows(x), UNCHANGED <<serverVars, view>>
    PROVE  DeletionInv'
<1>1. UNCHANGED <<watcher, stream>>
  BY DEF serverVars
<1>2. EachTold'
  <2> SUFFICES ASSUME NEW c \in Clients, stream[c].phase = "live", NEW r \in DOMAIN history',
                      Ns[history'[r].key] = stream[c].space, r > stream[c].at,
                      history'[r].deleted, r <= watcher[stream[c].space].seen
               PROVE  r \in stream[c].owed \/ r \in watcher[stream[c].space].skipped
    BY <1>1 DEF EachTold, Told
  <2>1. stream[c].space \in Served
    BY DEF ClientInv, StreamInv
  <2>2. watcher[stream[c].space].seen <= Len(history) /\ watcher[stream[c].space].seen \in Nat
    BY <2>1, WatcherFacts DEF ClientInv, WatcherIs
  <2>3. r \in DOMAIN history /\ history'[r] = history[r]
    BY <2>2, Grown DEF ClientInv, ServerInv
  <2> QED
    BY <2>3, ToldAre DEF EachTold, Told
<1> QED
  BY <1>2, ToldAre, PTL

\* A stream that attaches starts from where its watcher is; no other step of a
\* client or its stream changes what it is owed.
LEMMA ToldClient ==
    ASSUME ClientInv, DeletionInv, NEW c \in Clients, ClientStep(c)
    PROVE  DeletionInv'
<1> DEFINE st == stream[c]
           Kept(z) == /\ z.phase = st.phase /\ z.space = st.space
                      /\ z.at = st.at /\ z.owed = st.owed
           Starts(z) == z.phase = "live" => z.at = watcher[z.space].seen /\ z.space \in Served
<1>1. stream \in [Clients -> Stream] /\ st \in Stream
  BY DEF ClientInv, StreamsOK
<1>2. Ended.phase = "ended" /\ Ended.phase # "live"
  BY EndedFine, EmptySeq DEF Ended, Stream0
<1>3. UNCHANGED <<history, watcher>>
  BY ClientStepKeeps
<1>4. \E z : stream' = [stream EXCEPT ![c] = z] /\ (Kept(z) \/ Starts(z))
  <2>1. ASSUME NEW s \in Spaces, NEW from \in 0..Len(history), Snapshot(c, s, from)
        PROVE  \E z : stream' = [stream EXCEPT ![c] = z] /\ Starts(z)
    <3> DEFINE Z(f, m) == [Stream0 EXCEPT !.phase = "snap", !.space = s, !.from = from,
                                          !.queue = f, !.missed = m]
    <3>1. \E f, m : stream' = [stream EXCEPT ![c] = Z(f, m)]
      BY <2>1, Zenon DEF Snapshot
    <3>2. \A f, m : Z(f, m).phase = "snap"
      BY DEF Stream0
    <3> HIDE DEF Z
    <3> QED
      BY <3>1, <3>2
  <2>2. CASE Attach(c)
    <3> DEFINE R == [st EXCEPT !.phase = "raw", !.queue = <<>>, !.seen = st.from]
               L == [st EXCEPT !.phase = "live", !.queue = <<>>, !.at = watcher[st.space].seen]
    <3>1. \/ stream' = [stream EXCEPT ![c] = Ended]
          \/ stream' = [stream EXCEPT ![c] = R]
          \/ stream' = [stream EXCEPT ![c] = L] /\ st.space \in Served
      BY <2>2, Zenon DEF Attach
    <3>2. R.phase = "raw" /\ L.at = watcher[L.space].seen /\ L.space = st.space
      BY <1>1 DEF Stream
    <3> HIDE DEF R, L
    <3> QED
      BY <1>2, <3>1, <3>2
  <2>3. CASE Bridge(c)
    <3> DEFINE Z == [st EXCEPT !.queue = Tail(st.queue)]
    <3>1. \/ stream' = [stream EXCEPT ![c] = Ended]
          \/ stream' = [stream EXCEPT ![c] = Z]
      BY <2>3, Zenon DEF Bridge, Fail
    <3>2. Kept(Z)
      BY <1>1 DEF Stream
    <3> HIDE DEF Z
    <3> QED
      BY <1>2, <3>1, <3>2
  <2>4. CASE RawEvent(c)
    <3> DEFINE Z(r) == [st EXCEPT !.seen = r]
    <3>1. \/ stream' = [stream EXCEPT ![c] = Ended]
          \/ \E r : stream' = [stream EXCEPT ![c] = Z(r)]
      BY <2>4, Zenon DEF RawEvent, Fail
    <3>2. \A r : Kept(Z(r))
      BY <1>1 DEF Stream
    <3> HIDE DEF Z
    <3> QED
      BY <1>2, <3>1, <3>2
  <2>5. CASE (\E status \in BOOLEAN : StreamEnds(c, status)) \/ HangUp(c)
    <3>1. stream' = [stream EXCEPT ![c] = Ended]
      BY <2>5, Zenon DEF StreamEnds, Fail, HangUp
    <3> QED
      BY <1>2, <3>1
  <2>6. CASE Receive(c)
    BY <1>1, <2>6 DEF Receive
  <2> QED
    BY <2>1, <2>2, <2>3, <2>4, <2>5, <2>6, Zenon DEF ClientStep, StreamNext
<1>5. PICK z : stream' = [stream EXCEPT ![c] = z] /\ (Kept(z) \/ Starts(z))
  BY <1>4
<1>6. EachTold'
  <2> SUFFICES ASSUME NEW d \in Clients PROVE Told(history', watcher', stream'[d])
    BY DEF EachTold
  <2>1. Told(history, watcher, stream[d])
    BY ToldAre DEF EachTold
  <2>2. CASE d # c
    <3>1. stream'[d] = stream[d]
      BY <1>1, <1>5, <2>2
    <3> QED
      BY <1>3, <2>1, <3>1 DEF Told
  <2>3. CASE d = c
    <3>1. stream'[d] = z
      BY <1>1, <1>5, <2>3
    <3>2. CASE Kept(z)
      BY <1>3, <2>1, <2>3, <3>1, <3>2 DEF Told
    <3>3. CASE Starts(z)
      <4>1. z.space \in Served => watcher[z.space].seen \in Nat
        BY WatcherFacts DEF ClientInv
      <4>2. DOMAIN history \subseteq Nat
        BY LenProperties DEF ClientInv, ServerInv, StoreOK
      <4> QED
        BY <1>3, <3>1, <3>3, <4>1, <4>2 DEF Told
    <3> QED
      BY <1>5, <3>2, <3>3
  <2> QED
    BY <2>2, <2>3
<1> QED
  BY <1>6, ToldAre, PTL

\* A broadcast owes a deletion to every live stream of the namespace.
LEMMA SentOwes ==
    ASSUME StreamsOK, NEW s \in Served, NEW r, NEW c \in Clients
    PROVE  LET z == Sent(r, s)[c] IN
           /\ z.phase = stream[c].phase /\ z.space = stream[c].space /\ z.at = stream[c].at
           /\ stream[c].owed \subseteq z.owed
           /\ stream[c].phase = "live" /\ stream[c].space = s /\ history[r].deleted => r \in z.owed
<1> DEFINE st == stream[c]
           o == IF history[r].deleted THEN st.owed \cup {r} ELSE st.owed
           H(b, g) == [st EXCEPT !.queue = b, !.lagged = g, !.owed = o]
<1>1. st \in Stream
  BY DEF StreamsOK
<1>2. Sent(r, s)[c] = CASE st.phase = "live" /\ st.space = s -> Hears(st, r)
                        [] st.phase = "snap" /\ st.space = s -> Misses(st, r)
                        [] OTHER -> st
  BY DEF Sent
<1>3. \E b, g : Hears(st, r) = H(b, g)
  BY Zenon DEF Hears
<1>4. st.owed \subseteq o /\ (history[r].deleted => r \in o)
  OBVIOUS
<1> HIDE DEF o
<1>5. \A b, g : H(b, g).phase = st.phase /\ H(b, g).space = st.space /\ H(b, g).at = st.at
                /\ H(b, g).owed = o
  BY <1>1 DEF Stream
<1>6. /\ Misses(st, r).phase = st.phase /\ Misses(st, r).space = st.space
      /\ Misses(st, r).at = st.at /\ Misses(st, r).owed = st.owed
  BY <1>1 DEF Misses, Stream
<1> HIDE DEF H
<1>7. CASE st.phase = "live" /\ st.space = s
  BY <1>2, <1>3, <1>4, <1>5, <1>7
<1>8. CASE st.phase = "snap" /\ st.space = s
  BY <1>2, <1>6, <1>8
<1>9. CASE st.phase \notin {"live", "snap"} \/ st.space # s
  BY <1>2, <1>9
<1> QED
  BY <1>7, <1>8, <1>9

\* A watch reports a deletion, or a list jumps over it.
LEMMA ToldWatcher ==
    ASSUME ClientInv, DeletionInv, NEW s \in Served, WatcherNext(s) \/ Disconnect(s)
    PROVE  DeletionInv'
<1> DEFINE w == watcher[s]
<1>1. /\ watcher \in [Served -> Watcher] /\ w \in Watcher /\ w.seen \in Nat /\ StreamsOK
      /\ StoreOK /\ DOMAIN history \subseteq Nat
  BY WatcherFacts, LenProperties DEF ClientInv, ServerInv, WatchersOK, StoreOK
<1>2. history' = history /\ (stream' = stream \/ \E r : stream' = Sent(r, s))
  <2>1. CASE Connect(s) \/ InitDone(s) \/ Disconnect(s)
    BY <2>1 DEF Connect, InitDone, Disconnect
  <2>2. CASE InitApply(s)
    BY <2>2, Zenon DEF InitApply
  <2>3. CASE WatchEvent(s)
    BY <2>3, Zenon DEF WatchEvent
  <2> QED
    BY <2>1, <2>2, <2>3 DEF WatcherNext
<1>3. \A c \in Clients :
         /\ stream'[c].phase = stream[c].phase /\ stream'[c].space = stream[c].space
         /\ stream'[c].at = stream[c].at /\ stream[c].owed \subseteq stream'[c].owed
  BY <1>1, <1>2, SentOwes
<1>4. ASSUME NEW z, watcher' = [watcher EXCEPT ![s] = z],
             w.skipped \subseteq z.skipped,
             \A r \in DOMAIN history :
                 Ns[history[r].key] = s /\ history[r].deleted /\ r > w.seen /\ r <= z.seen
                 => \/ r \in z.skipped
                    \/ \A c \in Clients : stream[c].phase = "live" /\ stream[c].space = s
                                          => r \in stream'[c].owed
      PROVE  EachTold'
  <2> SUFFICES ASSUME NEW c \in Clients, stream[c].phase = "live", NEW r \in DOMAIN history,
                      Ns[history[r].key] = stream[c].space, r > stream[c].at,
                      history[r].deleted, r <= watcher'[stream[c].space].seen
               PROVE  r \in stream'[c].owed \/ r \in watcher'[stream[c].space].skipped
    BY <1>2, <1>3 DEF EachTold, Told
  <2>1. stream[c].space \in Served
    BY DEF ClientInv, StreamInv
  <2>2. r <= watcher[stream[c].space].seen =>
           r \in stream[c].owed \/ r \in watcher[stream[c].space].skipped
    BY ToldAre DEF EachTold, Told
  <2>3. CASE stream[c].space # s
    BY <1>1, <1>3, <1>4, <2>1, <2>2, <2>3
  <2>4. CASE stream[c].space = s
    <3>1. watcher'[s] = z
      BY <1>1, <1>4
    <3>2. r \in Nat
      BY <1>1
    <3>3. r <= w.seen \/ r > w.seen
      BY <1>1, <3>2
    <3> QED
      BY <1>3, <1>4, <2>2, <2>4, <3>1, <3>3
  <2> QED
    BY <2>3, <2>4
<1>5. ASSUME NEW z, watcher' = [watcher EXCEPT ![s] = z], z.seen = w.seen, z.skipped = w.skipped
      PROVE  EachTold'
  <2>1. \A r \in DOMAIN history : ~(r > w.seen /\ r <= z.seen)
    BY <1>1, <1>5
  <2> QED
    BY <1>4, <1>5, <2>1
<1>6. ASSUME Connect(s) PROVE EachTold'
  <2> DEFINE d == w.skipped \cup {r \in EventsAfter(s, w.seen) : history[r].deleted}
             Z(n, l, b) == [w EXCEPT !.phase = "listing", !.seen = n, !.list = l, !.relist = b,
                                     !.skipped = d]
  <2>1. \E n, l, b : watcher' = [watcher EXCEPT ![s] = Z(n, l, b)]
    BY <1>6, Zenon DEF Connect
  <2>2. \A r \in DOMAIN history :
           Ns[history[r].key] = s /\ history[r].deleted /\ r > w.seen => r \in d
    BY DEF EventsAfter
  <2>3. w.skipped \subseteq d
    OBVIOUS
  <2> HIDE DEF d
  <2>4. \A n, l, b : Z(n, l, b).skipped = d
    BY <1>1 DEF Watcher
  <2> HIDE DEF Z
  <2>5. PICK z : watcher' = [watcher EXCEPT ![s] = z] /\ z.skipped = d
    <3>1. PICK n, l, b : watcher' = [watcher EXCEPT ![s] = Z(n, l, b)]
      BY <2>1, Zenon
    <3>2. Z(n, l, b).skipped = d
      BY <2>4, Zenon
    <3> QED
      BY <3>1, <3>2, Zenon
  <2>6. w.skipped \subseteq z.skipped
    BY <2>3, <2>5
  <2> QED
    BY <1>4, <2>2, <2>5, <2>6
<1>7. ASSUME InitApply(s) PROVE EachTold'
  <2> DEFINE Z(l) == [w EXCEPT !.list = l]
             Y(l, b) == [Z(l) EXCEPT !.buffer = b]
  <2>1. \/ \E l : watcher' = [watcher EXCEPT ![s] = Z(l)]
        \/ \E l, b : watcher' = [watcher EXCEPT ![s] = Y(l, b)]
    BY <1>7, Zenon DEF InitApply
  <2>2. /\ \A l : Z(l).seen = w.seen /\ Z(l).skipped = w.skipped
        /\ \A l, b : Y(l, b).seen = w.seen /\ Y(l, b).skipped = w.skipped
    BY <1>1 DEF Watcher
  <2> HIDE DEF Z, Y
  <2> QED
    BY <1>5, <2>1, <2>2
<1>8. ASSUME InitDone(s) PROVE EachTold'
  <2> DEFINE Z == [w EXCEPT !.phase = "live", !.relist = FALSE, !.buffer = <<>>]
  <2>1. watcher' = [watcher EXCEPT ![s] = Z]
    BY <1>8, Zenon DEF InitDone
  <2>2. Z.seen = w.seen /\ Z.skipped = w.skipped
    BY <1>1 DEF Watcher
  <2> HIDE DEF Z
  <2> QED
    BY <1>5, <2>1, <2>2
<1>9. ASSUME Disconnect(s) PROVE EachTold'
  <2> DEFINE Z == [w EXCEPT !.phase = "down", !.list = {}, !.relist = FALSE,
                            !.buffer = <<>>, !.batching = TRUE, !.conn = w.conn + 1]
  <2>1. watcher' = [watcher EXCEPT ![s] = Z]
    BY <1>9, Zenon DEF Disconnect
  <2>2. Z.seen = w.seen /\ Z.skipped = w.skipped
    BY <1>1 DEF Watcher
  <2> HIDE DEF Z
  <2> QED
    BY <1>5, <2>1, <2>2
<1>10. ASSUME WatchEvent(s) PROVE EachTold'
  <2> DEFINE n == NextEvent(s, w.seen)
             Z == [w EXCEPT !.seen = n]
  <2>1. watcher' = [watcher EXCEPT ![s] = Z] /\ stream' = Sent(n, s) /\ n # 0
    BY <1>10, Zenon DEF WatchEvent
  <2>2. n \in Nat /\ \A q \in EventsAfter(s, w.seen) : n <= q
    BY <1>1, <2>1, NextEventFacts, LenProperties DEF StoreOK
  <2> HIDE DEF n
  <2>3. Z.seen = n /\ Z.skipped = w.skipped
    BY <1>1 DEF Watcher
  <2> HIDE DEF Z
  <2>4. ASSUME NEW r \in DOMAIN history, Ns[history[r].key] = s, history[r].deleted,
               r > w.seen, r <= Z.seen
        PROVE  \A c \in Clients : stream[c].phase = "live" /\ stream[c].space = s
                                  => r \in stream'[c].owed
    <3>1. r = n
      BY <1>1, <2>2, <2>3, <2>4 DEF EventsAfter
    <3> QED
      BY <1>1, <2>1, <2>4, <3>1, SentOwes
  <2> QED
    BY <1>4, <2>1, <2>3, <2>4
<1>11. EachTold'
  BY <1>6, <1>7, <1>8, <1>9, <1>10 DEF WatcherNext
<1> QED
  BY <1>11, ToldAre, PTL

-----------------------------------------------------------------------------
\* Nothing was written and nobody has subscribed.
LEMMA StartInv == Init => IndInv
<1> SUFFICES ASSUME Init PROVE IndInv
  OBVIOUS
<1>1. PICK o : o = <<>> /\ o \in Seq(Nat) /\ o \in Seq(Entry) /\ o \in Seq(Write) /\ Len(o) = 0
               /\ DOMAIN o = {}
  <2>1. \A S : <<>> \in Seq(S)
    BY EmptySeq
  <2>2. Len(<<>>) = 0 /\ DOMAIN <<>> = {}
    OBVIOUS
  <2> QED
    BY <2>1, <2>2, Zenon
<1>2. StoreOK
  BY <1>1, SecretAssumption DEF Init, StoreOK, Writer0, Writer
<1>3. WatchersOK
  <2>1. Watcher0 \in Watcher /\ Absent \in Entry
    BY <1>1 DEF Watcher0, Watcher, Absent, Entry
  <2> QED
    BY <2>1 DEF Init, WatchersOK
<1>4. Stream0 \in Stream /\ Stream0.phase = "idle" /\ Stream0.from = 0 /\ Stream0.seen = 0
  <2>1. Len(o) <= InboxSize
    BY <1>1, SecretAssumption
  <2>2. [k \in Keys |-> 0] \in [Keys -> Nat]
    OBVIOUS
  <2>3. Stream0 \in Stream
    BY <1>1, <1>2, <2>1, <2>2, EndedFine
  <2> QED
    BY <2>3 DEF Stream0
<1>5. StreamsOK /\ StreamInv
  <2>1. StreamsOK
    BY <1>1, <1>4, SecretAssumption DEF Init, StreamsOK
  <2>2. StreamInv
    BY <1>1, <1>4 DEF Init, StreamInv
  <2> QED
    BY <2>1, <2>2
<1>6. WriterInv
  BY DEF Init, WriterInv, Writer0
<1>7. /\ history = o /\ \A s \in Served : watcher[s] = Watcher0
      /\ \A k \in Keys : cache[k] = Absent
  BY <1>1 DEF Init
<1>8. /\ Watcher0.phase = "down" /\ Watcher0.list = {} /\ Watcher0.seen = 0
      /\ Watcher0.buffer = o /\ Absent.rv = 0
  BY <1>1 DEF Watcher0, Absent
<1>9. BufIn(Watcher0) = {} /\ \A s : DelIn(o, s, Watcher0) = {}
  BY <1>1, <1>8 DEF BufIn, DelIn
<1>10. WatcherInv /\ CacheInv
  <2>1. \A s : WatcherIs(o, s, Watcher0)
    BY <1>1, <1>8, <1>9 DEF WatcherIs
  <2>2. \A s : CacheIs(o, s, Watcher0, cache)
    BY <1>9 DEF CacheIs
  <2>3. EachWatcher /\ EachCached
    BY <1>1, <1>7, <1>8, <2>1, <2>2 DEF EachWatcher, EachCached
  <2> QED
    BY <2>3, WatchersAre
<1>11. FreshIsFromThisConnection
  BY <1>7, <1>8 DEF FreshIsFromThisConnection
<1>12. DeletionInv
  BY <1>4 DEF Init, DeletionInv
<1> QED
  BY <1>2, <1>3, <1>5, <1>6, <1>10, <1>11, <1>12 DEF IndInv, TypeOK

\* Every step keeps the inductive invariant.
LEMMA NextInv == IndInv /\ [Next]_vars => IndInv'
<1> SUFFICES ASSUME IndInv, [Next]_vars PROVE IndInv'
  OBVIOUS
<1>1. StoreOK' /\ WriterInv'
  BY NextStore DEF IndInv, TypeOK
<1>2. ClientInv
  BY DEF IndInv, TypeOK, ClientInv, ServerInv
<1>3. ClientInv' /\ DeletionInv'
  <2>0. DeletionInv
    BY DEF IndInv
  <2>1. CASE \E x : Grows(x) /\ UNCHANGED <<serverVars, view>>
    BY <1>1, <1>2, <2>0, <2>1, OneWrite, ToldWrite
  <2>2. CASE history' = history /\ UNCHANGED <<serverVars, view>>
    <3>1. UNCHANGED <<history, cache, watcher, stream, inbox, view>>
      BY <2>2 DEF serverVars
    <3>2. EachWatcher' /\ EachCached' /\ WatchersOK' /\ FreshIsFromThisConnection' /\ StreamsOK'
      BY <1>2, <3>1, WatchersAre DEF ClientInv, ServerInv, EachWatcher, EachCached, WatchersOK,
         FreshIsFromThisConnection, StreamsOK
    <3>3. EachStream'
      <4>1. DeliveredIn /\ DeliveredIn'
        BY DelIs, PTL
      <4>2. \A t \in Served : Del'[t] = Del[t]
        BY <3>1, <4>1 DEF DeliveredIn
      <4>3. EachStream
        BY <1>2, StreamsAre DEF ClientInv
      <4> QED
        BY <3>1, <4>2, <4>3 DEF EachStream, Sound
    <3>4. WatcherInv' /\ CacheInv' /\ StreamInv'
      BY <3>2, <3>3, WatchersAre, StreamsAre, PTL
    <3>5. DeletionInv'
      BY <2>0, <3>1 DEF DeletionInv, EventsAfter
    <3> QED
      BY <1>1, <3>2, <3>4, <3>5 DEF ClientInv, ServerInv
  <2>3. CASE \E s \in Served : WatcherNext(s) \/ Disconnect(s)
    BY <1>1, <1>2, <2>0, <2>3, WatcherSteps, ToldWatcher
  <2>4. CASE \E c \in Clients : ClientStep(c)
    BY <1>1, <1>2, <2>0, <2>4, ClientSteps, ToldClient
  <2>5. ASSUME NEW w \in Writers, WriterNext(w), history' = history
        PROVE  UNCHANGED <<serverVars, view>>
    BY <2>5 DEF WriterNext, FetchVersion, PatchCommits, PatchConflict, PatchFails, serverVars
  <2>6. ASSUME NEW k \in Keys, Delete(k) PROVE UNCHANGED <<serverVars, view>>
    BY <2>6 DEF Delete, serverVars
  <2>7. CASE UNCHANGED vars
    BY <2>2, <2>7 DEF vars, serverVars
  <2>8. history' = history \/ \E x : Grows(x) /\ UNCHANGED <<serverVars, view>>
    BY HistoryStep DEF IndInv, TypeOK
  <2> QED
    BY <2>1, <2>2, <2>3, <2>4, <2>5, <2>6, <2>7, <2>8 DEF Next, ClientStep
<1> QED
  BY <1>1, <1>3 DEF IndInv, TypeOK, ClientInv, ServerInv

\* The inductive invariant holds in every reachable state.
LEMMA Inductive == Spec => []IndInv
BY StartInv, NextInv, PTL DEF Spec

-----------------------------------------------------------------------------
(* The theorems.                                                           *)

\* The channel of a SubscribeSecrets stream never holds more than
\* CHANNEL_CAPACITY frames and its broadcast receiver never more than
\* BROADCAST_CAPACITY; the cache, the watchers and the retry ladder of
\* ApplySecret keep to their shapes (subscribe_secrets.rs, secret_apply.rs).
THEOREM QueuesAreBounded == Spec => []TypeOK
<1>1. IndInv => TypeOK
  BY DEF IndInv
<1> QED
  BY <1>1, Inductive, PTL

\* An entry of SecretCache without a stale mark came through the connection that
\* its namespace's watcher has now (secret_watcher.rs spawn_all).
THEOREM FreshIsFresh == Spec => []FreshIsFromThisConnection
<1>1. IndInv => FreshIsFromThisConnection
  BY DEF IndInv
<1> QED
  BY <1>1, Inductive, PTL

\* The latest write of a Secret is all that a watch without news can have reported.
LEMMA LatestReported ==
    ASSUME StoreOK, NEW s, NEW k \in Keys, Ns[k] = s, NEW n \in Nat, Latest(k) # 0,
           EventsAfter(s, n) = {}
    PROVE  /\ Latest(k) \in DOMAIN history /\ history[Latest(k)].key = k /\ Latest(k) <= n
           /\ ~history[Latest(k)].deleted => Latest(k) \in RepIn(history, s, n)
<1> DEFINE r == Latest(k)
<1>1. r \in DOMAIN history /\ history[r].key = k /\ \A q \in DOMAIN history : history[q].key = k => q <= r
  BY LatestFacts DEF AllLatest, LatestIs, WritesOf
<1>2. DOMAIN history \subseteq Nat
  BY LenProperties DEF StoreOK
<1>3. r <= n
  BY <1>1, <1>2 DEF EventsAfter
<1> HIDE DEF r
<1>4. ~history[r].deleted => r \in RepIn(history, s, n)
  BY <1>1, <1>3 DEF RepIn
<1> QED
  BY <1>1, <1>3, <1>4 DEF r

\* What an idle SubscribeSecrets client does not know was missed between its
\* snapshot and its attachment, or is a deletion that its watcher had handled
\* before it attached or that a relist jumped over at any time, or was written up
\* to where it resumed: nothing is lost anywhere else (handle_subscribe_secrets,
\* bridge_broadcast, run_raw_watch, pump_secret_events).
THEOREM NothingElseIsMissed == Spec => []MissesAreNamed
<1>1. ASSUME IndInv PROVE MissesAreNamed
  <2> SUFFICES ASSUME NEW c \in Clients, Idle(c), NEW k \in Keys, Ns[k] = stream[c].space
               PROVE  \/ view[c][k] >= Latest(k)
                      \/ Latest(k) \in stream[c].missed
                      \/ /\ stream[c].phase = "live" /\ history[Latest(k)].deleted
                         /\ \/ Latest(k) <= stream[c].at
                            \/ Latest(k) \in watcher[stream[c].space].skipped
                      \/ stream[c].phase = "raw" /\ Latest(k) <= stream[c].from
    BY DEF MissesAreNamed
  <2> DEFINE st == stream[c]
             r == Latest(k)
  <2>1. ClientInv /\ StoreOK
    BY <1>1 DEF IndInv, TypeOK, ClientInv, ServerInv
  <2>2. /\ Sound(history, Del, st, inbox[c], view[c]) /\ st \in Stream
        /\ view[c] \in [Keys -> Nat] /\ inbox[c] = <<>>
    BY <2>1, ClientFacts DEF Fine, Idle
  <2>3. CASE r = 0
    BY <2>2, <2>3
  <2>4. CASE r # 0 /\ st.phase = "live"
    <3> DEFINE w == watcher[st.space]
    <3>1. /\ st.space \in Served /\ st.queue = <<>> /\ ~st.lagged /\ w.phase = "live"
          /\ EventsAfter(st.space, w.seen) = {}
      BY <2>2, <2>4 DEF Idle, Sound
    <3>2. w.seen \in Nat /\ WatcherIs(history, st.space, w)
      BY <2>1, <3>1, WatcherFacts DEF ClientInv
    <3>3. /\ r \in DOMAIN history /\ history[r].key = k /\ r <= w.seen
          /\ ~history[r].deleted => r \in RepIn(history, st.space, w.seen)
      BY <2>1, <2>4, <3>1, <3>2, LatestReported
    <3>4. Held(history, st, inbox[c], view[c], r) => view[c][k] >= r
      BY <2>2, <3>1, <3>3 DEF Held, Range
    <3>5. CASE ~history[r].deleted
      <4>1. r \in DelIn(history, st.space, w)
        BY <3>1, <3>2, <3>3, <3>5 DEF DelIn, WatcherIs
      <4>2. r \in Del[st.space]
        BY <2>1, <3>1, <4>1, DelFacts DEF ClientInv
      <4>3. Held(history, st, inbox[c], view[c], r) \/ r \in st.missed
        BY <2>2, <2>4, <3>1, <4>2 DEF Sound
      <4> QED
        BY <3>4, <4>3
    <3>6. CASE history[r].deleted /\ r \in st.owed
      <4>1. Held(history, st, inbox[c], view[c], r)
        BY <2>2, <2>4, <3>1, <3>6 DEF Sound
      <4> QED
        BY <3>4, <4>1
    <3>7. CASE history[r].deleted /\ r \notin st.owed
      <4>1. Told(history, watcher, st)
        BY <1>1, ToldAre DEF IndInv, EachTold
      <4>2. r \in Nat /\ st.at \in Nat
        BY <2>1, <2>2, <3>3, LenProperties DEF StoreOK, Stream
      <4>3. r <= st.at \/ r \in w.skipped
        BY <2>4, <3>3, <3>7, <4>1, <4>2 DEF Told
      <4> QED
        BY <2>4, <3>7, <4>3
    <3> QED
      BY <3>5, <3>6, <3>7
  <2>5. CASE r # 0 /\ st.phase = "raw"
    <3>1. EventsAfter(st.space, st.seen) = {} /\ st.seen \in Nat /\ st.from \in Nat
      BY <2>2, <2>5 DEF Idle, Stream
    <3>2. r \in DOMAIN history /\ history[r].key = k /\ r <= st.seen
      BY <2>1, <2>5, <3>1, LatestReported
    <3>3. r \in Nat
      BY <2>1, <3>2, LenProperties DEF StoreOK
    <3>4. CASE r > st.from
      <4>1. Held(history, st, inbox[c], view[c], r)
        BY <2>2, <2>5, <3>2, <3>4 DEF Sound
      <4> QED
        <5>1. st.queue = <<>>
          BY <2>2, <2>5 DEF Sound
        <5> QED
          BY <2>2, <3>2, <4>1, <5>1 DEF Held, Range
    <3> QED
      BY <2>5, <3>1, <3>3, <3>4
  <2> QED
    BY <2>3, <2>4, <2>5 DEF Idle
<1> QED
  BY <1>1, Inductive, PTL

\* A version that is not above the one in force goes through only when somebody
\* else wrote or deleted the Secret after ApplySecret read it
\* (secret_apply.rs apply_secret_inner).
THEOREM RollbackNeedsARace == Spec => RollbackWasRaced
<1> DEFINE Raced == \A w \in Writers :
          writer[w].pc = "patch" /\ writer'[w].pc = "done" /\ Len(history') > Len(history)
              => \/ Latest(writer[w].key) # writer[w].base
                 \/ writer[w].version > parse_secret_schema_version(writer[w].key)
<1>1. IndInv => Raced
  BY DEF IndInv, WriterInv
<1> QED
  BY <1>1, Inductive, PTL DEF RollbackWasRaced
=============================================================================
