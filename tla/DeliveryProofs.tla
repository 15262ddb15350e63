--------------------------- MODULE DeliveryProofs ---------------------------
(***************************************************************************)
(* For any clients, names, buffer, ring and channel sizes and any number   *)
(* of writes and failures: the queues keep their bounds, the switch from   *)
(* the replay buffer to the live broadcast loses nothing, and a client of  *)
(* the cached name ends up with its latest version unless its snapshot was *)
(* outrun.                                                                 *)
(***************************************************************************)
EXTENDS Delivery, FiniteSetTheorems, SequenceTheorems, WellFoundedInduction, TLAPS

-----------------------------------------------------------------------------
(* Sets of numbers in ascending order.                                     *)

\* The numbers of S below n, and how many they are.
Lower(S, n) == {m \in S : m < n}
Below(S, n) == Cardinality(Lower(S, n))

\* The numbers of a finite set have the ranks 0, 1, 2, ..., one each.
LEMMA Ranks ==
    ASSUME NEW S \in SUBSET Nat, IsFiniteSet(S)
    PROVE  /\ Cardinality(S) \in Nat
           /\ \A n \in S : Below(S, n) \in Nat /\ Below(S, n) < Cardinality(S)
           /\ \A r \in Nat : r < Cardinality(S) => \E n \in S : Below(S, n) = r
           /\ \A n, m \in S : Below(S, n) = Below(S, m) => n = m
           /\ \A n, m \in S : n < m => Below(S, n) < Below(S, m)
<1> DEFINE c == Cardinality(S)
<1>1. c \in Nat
  BY FS_CardinalityType
<1>2. \A n \in S : IsFiniteSet(Lower(S, n)) /\ Below(S, n) \in Nat
  <2>1. \A n \in S : Lower(S, n) \in SUBSET S
    BY DEF Lower
  <2> QED
    BY <2>1, FS_Subset, FS_CardinalityType DEF Below
<1>3. ASSUME NEW n \in S, NEW T, IsFiniteSet(T), Lower(S, n) \cup {n} \in SUBSET T
      PROVE  Below(S, n) < Cardinality(T)
  <2>1. n \notin Lower(S, n)
    BY DEF Lower
  <2>2. Cardinality(Lower(S, n) \cup {n}) = Below(S, n) + 1
    BY <1>2, <2>1, FS_AddElement DEF Below
  <2>3. Cardinality(Lower(S, n) \cup {n}) <= Cardinality(T) /\ Cardinality(T) \in Nat
    BY <1>3, FS_Subset, FS_CardinalityType
  <2> QED
    BY <1>2, <2>2, <2>3
<1>4. \A n \in S : Below(S, n) < c
  <2>1. \A n \in S : Lower(S, n) \cup {n} \in SUBSET S
    BY DEF Lower
  <2> QED
    BY <1>3, <2>1
<1>5. ASSUME NEW n \in S, NEW m \in S, n < m PROVE Below(S, n) < Below(S, m)
  <2>1. Lower(S, n) \cup {n} \in SUBSET Lower(S, m)
    <3>1. \A x \in S : x < n => x < m
      BY <1>5
    <3> QED
      BY <1>5, <3>1 DEF Lower
  <2>2. Below(S, n) < Cardinality(Lower(S, m))
    BY <1>2, <1>3, <2>1
  <2> QED
    BY <2>2 DEF Below
<1>6. ASSUME NEW n \in S, NEW m \in S, Below(S, n) = Below(S, m) PROVE n = m
  <2>1. ~(n < m) /\ ~(m < n)
    BY <1>2, <1>5, <1>6
  <2> QED
    BY <2>1
<1>7. ASSUME NEW r \in Nat, r < c PROVE \E n \in S : Below(S, n) = r
  <2> DEFINE T == 0..(c - 1)
             f == [n \in S |-> Below(S, n)]
  <2>1. IsFiniteSet(T) /\ Cardinality(T) = c
    <3>1. c - 1 \in Int /\ ~(0 > c - 1) /\ 0 \in Int
      BY <1>1, <1>7
    <3>2. IsFiniteSet(T) /\ Cardinality(T) = IF 0 > c - 1 THEN 0 ELSE (c - 1) - 0 + 1
      BY <3>1, FS_Interval
    <3> QED
      BY <1>1, <3>1, <3>2
  <2>2. f \in [S -> T]
    BY <1>1, <1>2, <1>4
  <2>3. f \in Injection(S, T)
    BY <1>6, <2>2 DEF Injection, IsInjective
  <2> HIDE DEF f, T
  <2>4. f \in Surjection(S, T)
    BY <2>1, <2>3, FS_Injection
  <2>5. r \in T
    BY <1>1, <1>7 DEF T
  <2> QED
    BY <2>4, <2>5 DEF Surjection, f
<1> QED
  BY <1>1, <1>2, <1>4, <1>5, <1>6, <1>7

\* InOrder lists the whole set and nothing else, in ascending order.
LEMMA InOrderFacts ==
    ASSUME NEW S \in SUBSET Nat, IsFiniteSet(S)
    PROVE  /\ Cardinality(S) \in Nat
           /\ InOrder(S) \in [1..Cardinality(S) -> S]
           /\ \A n \in S : \E i \in 1..Cardinality(S) : InOrder(S)[i] = n
           /\ \A i, j \in 1..Cardinality(S) : i < j => InOrder(S)[i] < InOrder(S)[j]
<1> DEFINE c == Cardinality(S)
           Nth(i) == CHOOSE n \in S : Below(S, n) = i - 1
<1>1. /\ c \in Nat
      /\ \A n \in S : Below(S, n) \in Nat /\ Below(S, n) < c
      /\ \A r \in Nat : r < c => \E n \in S : Below(S, n) = r
      /\ \A n, m \in S : Below(S, n) = Below(S, m) => n = m
      /\ \A n, m \in S : n < m => Below(S, n) < Below(S, m)
  BY Ranks
<1>2. InOrder(S) = [i \in 1..c |-> Nth(i)]
  BY DEF InOrder, Below, Lower
<1>3. ASSUME NEW i \in 1..c PROVE Nth(i) \in S /\ Below(S, Nth(i)) = i - 1
  <2>1. i - 1 \in Nat /\ i - 1 < c
    BY <1>1
  <2>2. \E n \in S : Below(S, n) = i - 1
    BY <1>1, <2>1
  <2> QED
    BY <2>2
<1> HIDE DEF Nth
<1>4. ASSUME NEW n \in S PROVE \E i \in 1..c : Nth(i) = n
  <2>1. Below(S, n) + 1 \in 1..c /\ (Below(S, n) + 1) - 1 = Below(S, n)
    BY <1>1
  <2>2. Below(S, Nth(Below(S, n) + 1)) = Below(S, n) /\ Nth(Below(S, n) + 1) \in S
    BY <1>3, <2>1
  <2>3. Nth(Below(S, n) + 1) = n
    BY <1>1, <2>2
  <2> QED
    BY <2>1, <2>3
<1>5. ASSUME NEW i \in 1..c, NEW j \in 1..c, i < j PROVE Nth(i) < Nth(j)
  <2>1. /\ Nth(i) \in S /\ Below(S, Nth(i)) = i - 1
        /\ Nth(j) \in S /\ Below(S, Nth(j)) = j - 1
    BY <1>3
  <2>2. i \in Nat /\ j \in Nat /\ i - 1 # j - 1 /\ ~(j - 1 < i - 1)
    BY <1>1, <1>5
  <2>3. Nth(i) # Nth(j)
    BY <2>1, <2>2
  <2>4. ~(Nth(j) < Nth(i))
    <3>1. Nth(j) < Nth(i) => Below(S, Nth(j)) < Below(S, Nth(i))
      BY <1>1, <2>1
    <3> QED
      BY <2>1, <2>2, <3>1
  <2>5. Nth(i) \in Nat /\ Nth(j) \in Nat
    BY <2>1
  <2> QED
    BY ONLY <2>3, <2>4, <2>5
<1> QED
  BY <1>1, <1>2, <1>3, <1>4, <1>5

\* A set of numbers with an upper bound that is not empty has a greatest one.
LEMMA Greatest ==
    ASSUME NEW S \in SUBSET Nat, S # {}, NEW b \in Nat, \A n \in S : n <= b
    PROVE  \E m \in S : \A n \in S : n <= m
<1> DEFINE c == Cardinality(S)
<1>1. IsFiniteSet(S)
  BY FS_BoundedSetOfNaturals
<1>2. /\ c \in Nat
      /\ \A n \in S : Below(S, n) \in Nat /\ Below(S, n) < c
      /\ \A r \in Nat : r < c => \E n \in S : Below(S, n) = r
  BY <1>1, Ranks
<1>3. c # 0
  BY <1>1, FS_EmptySet
<1>4. PICK m \in S : Below(S, m) = c - 1
  <2>1. c - 1 \in Nat /\ c - 1 < c
    BY <1>2, <1>3
  <2> QED
    BY <1>2, <2>1
<1>5. ASSUME NEW n \in S, ~(n <= m) PROVE FALSE
  <2>1. Lower(S, m) \cup {m} \in SUBSET Lower(S, n) /\ m \notin Lower(S, m)
    <3>1. m < n /\ ~(m < m) /\ \A x \in S : x < m => x < n
      BY <1>5
    <3> QED
      BY <3>1 DEF Lower
  <2>2. IsFiniteSet(Lower(S, m)) /\ IsFiniteSet(Lower(S, n))
    <3>1. Lower(S, m) \in SUBSET S /\ Lower(S, n) \in SUBSET S
      BY DEF Lower
    <3> QED
      BY <1>1, <3>1, FS_Subset
  <2>3. Cardinality(Lower(S, m) \cup {m}) = Below(S, m) + 1
    BY <2>1, <2>2, FS_AddElement DEF Below
  <2>4. Cardinality(Lower(S, m) \cup {m}) <= Below(S, n)
    BY <2>1, <2>2, FS_Subset DEF Below
  <2> QED
    BY <1>2, <1>4, <2>3, <2>4
<1> QED
  BY <1>5

-----------------------------------------------------------------------------
(* Types and bounds.                                                       *)

\* What is sent is a sequence of numbers, and a receiver keeps its ring's size.
LEMMA ReceiveType ==
    ASSUME NEW s \in Stream, Len(s.queue) <= RingSize, NEW r \in Nat
    PROVE  /\ Receive(s, r) \in Stream /\ Len(Receive(s, r).queue) <= RingSize
           /\ Receive(s, r).phase = s.phase /\ Receive(s, r).closed = s.closed
           /\ Receive(s, r).from = s.from /\ Receive(s, r).floor = s.floor
           /\ Receive(s, r).done = s.done /\ Receive(s, r).outbox = s.outbox
           /\ ~Receive(s, r).lagged => /\ ~s.lagged
                                       /\ Receive(s, r).queue = Append(s.queue, r)
<1>1. s.queue \in Seq(Nat) /\ Len(s.queue) \in Nat /\ RingSize \in Nat \ {0}
  BY DeliveryAssumption, LenProperties DEF Stream
<1>2. CASE Len(s.queue) < RingSize
  <2>1. Append(s.queue, r) \in Seq(Nat) /\ Len(Append(s.queue, r)) <= RingSize
    BY <1>1, <1>2, AppendProperties
  <2>2. Receive(s, r) = [s EXCEPT !.queue = Append(s.queue, r)]
    BY <1>2 DEF Receive
  <2> QED
    BY <2>1, <2>2 DEF Stream
<1>3. CASE ~(Len(s.queue) < RingSize)
  <2>1. s.queue # <<>>
    BY <1>1, <1>3
  <2>2. Tail(s.queue) \in Seq(Nat) /\ Len(Tail(s.queue)) = Len(s.queue) - 1
    BY <1>1, <2>1, HeadTailProperties
  <2>3. Append(Tail(s.queue), r) \in Seq(Nat)
        /\ Len(Append(Tail(s.queue), r)) = Len(Tail(s.queue)) + 1
    BY <2>2, AppendProperties
  <2>4. Len(Append(Tail(s.queue), r)) <= RingSize
    BY <1>1, <2>2, <2>3
  <2>5. Receive(s, r) = [s EXCEPT !.queue = Append(Tail(s.queue), r), !.lagged = TRUE]
    BY <1>3 DEF Receive
  <2> QED
    BY <2>3, <2>4, <2>5 DEF Stream
<1> QED
  BY <1>2, <1>3

\* The latest write of a name that has one is one of its writes.
LEMMA LatestFacts ==
    ASSUME ServerOK, NEW k, WritesOf(k) # {}
    PROVE  /\ Latest(k) \in WritesOf(k) /\ Latest(k) \in 1..Len(history) /\ Len(history) \in Nat
           /\ \A r \in WritesOf(k) : r <= Latest(k)
<1>1. Len(history) \in Nat /\ DOMAIN history = 1..Len(history)
  BY LenProperties DEF ServerOK
<1>2. WritesOf(k) \in SUBSET Nat /\ WritesOf(k) \subseteq 1..Len(history)
  BY <1>1 DEF WritesOf
<1>3. \A n \in WritesOf(k) : n <= Len(history)
  BY <1>1, <1>2
<1>4. \E m \in WritesOf(k) : \A n \in WritesOf(k) : n <= m
  BY <1>1, <1>2, <1>3, Greatest
<1>5. Latest(k) \in WritesOf(k) /\ \A r \in WritesOf(k) : r <= Latest(k)
  BY <1>4 DEF Latest
<1> QED
  BY <1>1, <1>2, <1>5

\* The initial list is a finite sequence of resourceVersions: the latest one of
\* every object there is, and nothing else.
LEMMA ListingFacts ==
    ASSUME ServerOK
    PROVE  /\ Listing \in Seq(Nat)
           /\ \A i \in DOMAIN Listing : \E k \in Keys : Exists(k) /\ Listing[i] = Latest(k)
           /\ \A k \in Keys : Exists(k) => \E i \in DOMAIN Listing : Listing[i] = Latest(k)
<1> DEFINE live == {k \in Keys : Exists(k)}
           f == [k \in live |-> Latest(k)]
           T == 1..Len(history)
           names == InOrder(live)
<1>1. \A k \in live : Latest(k) \in WritesOf(k) /\ Latest(k) \in T
  BY LatestFacts DEF Exists
<1>2. Len(history) \in Nat
  BY LenProperties DEF ServerOK
<1>3. \A k, j \in live : Latest(k) = Latest(j) => k = j
  BY <1>1 DEF WritesOf
<1>4. f \in Injection(live, T)
  BY <1>1, <1>3 DEF Injection, IsInjective
<1>5. IsFiniteSet(T)
  BY <1>2, FS_Interval
<1> HIDE DEF f, T
<1>6. IsFiniteSet(live)
  BY <1>4, <1>5, FS_Injection
<1>7. live \in SUBSET Nat
  BY DeliveryAssumption
<1> HIDE DEF live
<1>8. /\ Cardinality(live) \in Nat /\ names \in [1..Cardinality(live) -> live]
      /\ \A k \in live : \E i \in 1..Cardinality(live) : names[i] = k
  BY <1>6, <1>7, InOrderFacts
<1>9. Listing = [i \in DOMAIN names |-> Latest(names[i])]
  BY DEF Listing, live
<1> HIDE DEF names
<1>10. Listing \in [1..Cardinality(live) -> Nat]
  BY <1>1, <1>2, <1>8, <1>9 DEF T
<1>11. Listing \in Seq(Nat)
  BY <1>8, <1>10, SeqDef
<1>12. \A i \in 1..Cardinality(live) : names[i] \in live /\ Listing[i] = Latest(names[i])
  BY <1>8, <1>9
<1>13. DOMAIN Listing = 1..Cardinality(live)
  BY <1>10
<1> QED
  BY <1>8, <1>11, <1>12, <1>13 DEF live

\* Every step keeps the server's part typed.
LEMMA NextServer == ServerOK /\ [Next]_vars => ServerOK'
<1> SUFFICES ASSUME ServerOK, [Next]_vars PROVE ServerOK'
  OBVIOUS
<1> USE DEF watchVars
<1>1. ASSUME UNCHANGED <<history, cache, watchVars, faults>> PROVE ServerOK'
  BY <1>1 DEF ServerOK
<1>2. ASSUME NEW k \in Keys, NEW deleted \in BOOLEAN, Commit(k, deleted) PROVE ServerOK'
  <2>1. [key |-> k, deleted |-> deleted] \in Write
    BY DEF Write
  <2>2. history' \in Seq(Write)
    BY <1>2, <2>1, AppendProperties DEF Commit, ServerOK
  <2> QED
    BY <1>2, <2>2 DEF Commit, ServerOK
<1>3. ASSUME CacheEvent \/ CacheRelist PROVE ServerOK'
  <2>1. cache' \in Nat
    <3>1. CASE CacheEvent
      <4>1. PICK r \in Stored(CacheKey) : cache' = r
        BY <3>1 DEF CacheEvent
      <4>2. r \in 1..Len(history)
        BY LenProperties DEF Stored, WritesOf, ServerOK
      <4> QED
        BY <4>1, <4>2
    <3>2. CASE CacheRelist
      BY <3>2, LatestFacts DEF CacheRelist, Exists
    <3> QED
      BY <1>3, <3>1, <3>2
  <2> QED
    BY <1>3, <2>1 DEF CacheEvent, CacheRelist, ServerOK
<1>4. ASSUME ListObjects PROVE ServerOK'
  <2>1. pending' \in Seq(Nat) /\ seen' \in Nat
    BY <1>4, ListingFacts, LenProperties DEF ListObjects, ServerOK
  <2> QED
    BY <1>4, <2>1 DEF ListObjects, ServerOK
<1>5. ASSUME process_namespace_event PROVE ServerOK'
  <2>1. log' \in Seq(Nat) /\ Len(log') = Len(log) + 1 /\ pending' \in Seq(Nat) /\ seen' \in Nat
    <3>1. CASE pending # <<>>
      <4>1. Head(pending) \in Nat /\ Tail(pending) \in Seq(Nat)
        BY <3>1, HeadTailProperties DEF ServerOK
      <4>2. /\ Append(log, Head(pending)) \in Seq(Nat)
            /\ Len(Append(log, Head(pending))) = Len(log) + 1
        BY <4>1, AppendProperties DEF ServerOK
      <4>3. log' = Append(log, Head(pending)) /\ pending' = Tail(pending) /\ seen' = seen
        BY <1>5, <3>1 DEF process_namespace_event
      <4> QED
        BY <4>1, <4>2, <4>3 DEF ServerOK
    <3>2. CASE pending = <<>>
      <4>1. seen + 1 \in Nat
        BY DEF ServerOK
      <4>2. Append(log, seen + 1) \in Seq(Nat) /\ Len(Append(log, seen + 1)) = Len(log) + 1
        BY <4>1, AppendProperties DEF ServerOK
      <4>3. log' = Append(log, seen + 1) /\ pending' = pending /\ seen' = seen + 1
        BY <1>5, <3>2 DEF process_namespace_event
      <4> QED
        BY <4>1, <4>2, <4>3 DEF ServerOK
    <3> QED
      BY <3>1, <3>2
  <2>2. sent \in 0..Len(log')
    BY <2>1, LenProperties DEF ServerOK
  <2> QED
    BY <1>5, <2>1, <2>2 DEF process_namespace_event, ServerOK
<1>6. ASSUME send_to_all PROVE ServerOK'
  <2>1. sent' \in 0..Len(log')
    BY <1>6, LenProperties DEF send_to_all, ServerOK
  <2>2. flushing' \in BOOLEAN
    BY <1>6 DEF send_to_all
  <2> QED
    BY <1>6, <2>1, <2>2 DEF send_to_all, ServerOK
<1>7. ASSUME StopWatch, history' = history, cache' \in Nat, faults' \in 0..MaxFaults PROVE ServerOK'
  <2>1. pending' \in Seq(Nat) /\ log' \in Seq(Nat) /\ Len(log') = 0 /\ sent' = 0
    BY <1>7, EmptySeq DEF StopWatch
  <2>2. flushing' \in BOOLEAN
    BY <1>7 DEF StopWatch
  <2> QED
    BY <1>7, <2>1, <2>2 DEF StopWatch, ServerOK
<1>8. ASSUME WatchEnds \/ WatchCollected \/ ServerRestart PROVE ServerOK'
  <2>1. StopWatch /\ history' = history
    BY <1>8, Zenon DEF WatchEnds, WatchCollected, ServerRestart
  <2>2. cache' \in {cache, 0}
    BY <1>8, Zenon DEF WatchEnds, WatchCollected, ServerRestart
  <2>3. faults' = faults \/ (faults' = faults + 1 /\ faults < MaxFaults)
    BY <1>8, Zenon DEF WatchEnds, WatchCollected, ServerRestart
  <2>4. cache' \in Nat /\ faults' \in 0..MaxFaults
    BY <2>2, <2>3, DeliveryAssumption DEF ServerOK
  <2> QED
    BY <1>7, <2>1, <2>4
<1>9. ASSUME StartWatch, UNCHANGED <<history, cache, faults>> PROVE ServerOK'
  BY <1>9 DEF StartWatch, ServerOK
<1>10. ASSUME NEW c \in Clients, ConnectionLost(c) PROVE ServerOK'
  BY <1>10, DeliveryAssumption DEF ConnectionLost, ServerOK
<1>11. ASSUME NEW c \in Clients, handle_subscribe(c) \/ OtherSubscriber PROVE ServerOK'
  BY <1>9, <1>11 DEF handle_subscribe, OtherSubscriber
<1>12. ASSUME NEW c \in Clients, StreamStep(c) \/ ClientStep(c) PROVE ServerOK'
  BY <1>1, <1>11, <1>12
  DEF StreamStep, ClientStep, SubscribeRefused, LookupHit, LookupMiss, TakeSnapshot,
      ReadPostSnapshot, try_send_or_disconnect, bridge_broadcast, apply, StreamEnd
<1>13. CASE OtherSubscriber
  BY <1>9, <1>13 DEF OtherSubscriber
<1>14. CASE UNCHANGED vars
  BY <1>1, <1>14 DEF vars
<1> QED
  BY <1>2, <1>3, <1>4, <1>5, <1>6, <1>8, <1>10, <1>12, <1>13, <1>14 DEF Next, ServerStep

-----------------------------------------------------------------------------
(* One stream.                                                             *)

\* A stream between Subscribe and its end; Attached, of a stream.
Up(s) == s.phase \in {"lookup", "snapshot", "post", "live"}

\* What s owes of the first n events of the log lg, and where it may be.
Owes(s, lg, n) ==
    Up(s) /\ ~s.lagged /\ ~s.closed =>
        \A i \in s.from..n :
            lg[i] > s.floor => lg[i] \in s.done \cup Range(s.outbox) \cup Range(s.queue)

Good(s, lg, n) ==
    /\ s \in Stream /\ Len(s.queue) <= RingSize
    /\ Up(s) => s.from # 0
    /\ s.phase \in {"lookup", "snapshot"} => s.floor = 0
    /\ Owes(s, lg, n)

\* A stream that is not up owes nothing.
LEMMA NotUp ==
    ASSUME NEW s \in Stream, Len(s.queue) <= RingSize, ~Up(s), NEW lg, NEW n
    PROVE  Good(s, lg, n)
BY DEF Good, Owes, Up

\* A client without a stream is owed nothing, and a new stream nothing yet.
LEMMA NoStreamGood ==
    ASSUME NEW lg
    PROVE  /\ \A n : Good(NoStream, lg, n)
           /\ sent \in Nat => Good(Attach, lg, sent)
<1>1. <<>> \in Seq(Nat) /\ Len(<<>>) = 0 /\ 0 <= RingSize
  BY EmptySeq, DeliveryAssumption
<1>2. NoStream \in Stream
  BY <1>1 DEF NoStream, Stream, Phases
<1>3. NoStream.queue = <<>> /\ ~Up(NoStream)
  BY DEF NoStream, Up
<1>4. ASSUME sent \in Nat PROVE Good(Attach, lg, sent)
  <2>1. Attach \in Stream /\ Attach.queue = <<>> /\ Attach.from = sent + 1 /\ Attach.floor = 0
    <3>1. ASSUME NEW s \in Stream, NEW n \in Nat
          PROVE  LET z == [s EXCEPT !.phase = "lookup", !.from = n]
                 IN  z \in Stream /\ z.queue = s.queue /\ z.from = n /\ z.floor = s.floor
      BY DEF Stream, Phases
    <3>2. sent + 1 \in Nat /\ NoStream.floor = 0
      BY <1>4 DEF NoStream
    <3> QED
      BY <1>2, <1>3, <3>1, <3>2 DEF Attach
  <2>2. Owes(Attach, lg, sent)
    BY <1>4, <2>1 DEF Owes
  <2> QED
    BY <1>1, <1>4, <2>1, <2>2 DEF Good
<1>5. \A n : Good(NoStream, lg, n)
  BY <1>1, <1>2, <1>3, NotUp
<1> QED
  BY <1>4, <1>5

\* The steps before the bridge takes over.
LEMMA LookupGood ==
    ASSUME NEW lg \in Seq(Nat), NEW n \in 0..Len(lg), NEW s, Good(s, lg, n), s.outbox = <<>>,
           NEW v \in Nat
    PROVE  /\ s.phase = "lookup" => Good([s EXCEPT !.phase = "snapshot"], lg, n)
           /\ s.phase = "snapshot" =>
                 Good([s EXCEPT !.phase = "post", !.outbox = <<v>>, !.floor = v], lg, n)
<1> DEFINE a == [s EXCEPT !.phase = "snapshot"]
           b == [s EXCEPT !.phase = "post", !.outbox = <<v>>, !.floor = v]
<1>1. s \in Stream /\ Len(s.queue) <= RingSize /\ <<v>> \in Seq(Nat)
  BY DEF Good
<1>2. ASSUME s.phase = "lookup" PROVE Good(a, lg, n)
  <2>1. /\ a \in Stream /\ a.phase = "snapshot" /\ a.queue = s.queue /\ a.from = s.from
        /\ a.floor = s.floor /\ a.lagged = s.lagged /\ a.closed = s.closed
        /\ a.outbox = s.outbox /\ a.done = s.done
    BY <1>1 DEF Stream, Phases
  <2> HIDE DEF a
  <2> QED
    BY <1>1, <1>2, <2>1 DEF Good, Owes, Up
<1>3. ASSUME s.phase = "snapshot" PROVE Good(b, lg, n)
  <2>1. /\ b \in Stream /\ b.phase = "post" /\ b.queue = s.queue /\ b.from = s.from
        /\ b.floor = v /\ b.lagged = s.lagged /\ b.closed = s.closed /\ b.done = s.done
    BY <1>1 DEF Stream, Phases
  <2> HIDE DEF b
  <2>2. Up(s) /\ s.from \in Nat \ {0} /\ s.floor = 0 /\ Range(s.outbox) = {}
    <3>1. DOMAIN s.outbox = {}
      OBVIOUS
    <3> QED
      BY <1>3, <3>1 DEF Good, Up, Stream, Range
  <2>3. \A i \in s.from..n : lg[i] \in Nat
    <3>1. \A i \in s.from..n : i \in 1..Len(lg)
      BY <2>2, LenProperties
    <3> QED
      BY <3>1, ElementOfSeq
  <2>4. \A i \in s.from..n : lg[i] > v => lg[i] > s.floor
    BY <2>2, <2>3
  <2>5. Owes(b, lg, n)
    BY <2>1, <2>2, <2>4 DEF Owes, Up, Good
  <2> QED
    BY <1>1, <2>1, <2>2, <2>5 DEF Good
<1> QED
  BY <1>2, <1>3

\* The end of a stream.
LEMMA EndGood ==
    ASSUME NEW s \in Stream, NEW told \in BOOLEAN, NEW lg, NEW n
    PROVE  Good(End(s, told), lg, n)
<1>1. <<>> \in Seq(Nat) /\ Len(<<>>) = 0 /\ 0 <= RingSize
  BY EmptySeq, DeliveryAssumption
<1>2. End(s, told) \in Stream
  BY <1>1 DEF End, Stream, Phases
<1>3. ~Up(End(s, told)) /\ End(s, told).queue = <<>>
  BY DEF End, Stream, Up
<1> QED
  BY <1>1, <1>2, <1>3, NotUp

\* What is in a sequence, first and last.
LEMMA RangeHead ==
    ASSUME NEW q \in Seq(Nat), q # <<>>
    PROVE  /\ Head(q) \in Nat /\ Tail(q) \in Seq(Nat) /\ Len(Tail(q)) = Len(q) - 1
           /\ \A x \in Range(q) : x = Head(q) \/ x \in Range(Tail(q))
<1>1. /\ Head(q) \in Nat /\ Tail(q) \in Seq(Nat) /\ Len(Tail(q)) = Len(q) - 1
      /\ \A i \in 1..Len(Tail(q)) : Tail(q)[i] = q[i + 1]
  BY HeadTailProperties
<1>2. Len(q) \in Nat /\ DOMAIN q = 1..Len(q) /\ DOMAIN Tail(q) = 1..Len(Tail(q)) /\ Head(q) = q[1]
  BY <1>1, LenProperties
<1>3. ASSUME NEW x \in Range(q), x # Head(q) PROVE x \in Range(Tail(q))
  <2>1. PICK i \in 1..Len(q) : x = q[i]
    BY <1>2 DEF Range
  <2>2. i # 1 /\ i - 1 \in 1..Len(Tail(q)) /\ (i - 1) + 1 = i
    BY <1>1, <1>2, <1>3, <2>1
  <2>3. Tail(q)[i - 1] = x
    BY <1>1, <2>1, <2>2
  <2> QED
    BY <1>2, <2>2, <2>3 DEF Range
<1> QED
  BY <1>1, <1>3

\* What an appended sequence holds.
LEMMA RangeAppend ==
    ASSUME NEW q \in Seq(Nat), NEW r \in Nat
    PROVE  \A x : x \in Range(q) \/ x = r => x \in Range(Append(q, r))
<1> DEFINE p == Append(q, r)
<1>1. /\ p \in Seq(Nat) /\ Len(p) = Len(q) + 1 /\ p[Len(q) + 1] = r
      /\ \A i \in 1..Len(q) : p[i] = q[i]
  BY AppendProperties
<1>2. Len(q) \in Nat /\ DOMAIN q = 1..Len(q) /\ DOMAIN p = 1..(Len(q) + 1)
  BY <1>1, LenProperties
<1> HIDE DEF p
<1>3. Len(q) + 1 \in DOMAIN p /\ DOMAIN q \subseteq DOMAIN p
  BY <1>2
<1>4. ASSUME NEW x, x \in Range(q) PROVE x \in Range(p)
  BY <1>1, <1>2, <1>3, <1>4 DEF Range
<1>5. r \in Range(p)
  BY <1>1, <1>3 DEF Range
<1> QED
  BY <1>4, <1>5 DEF p

\* An event that was next in the outbox or in the ring has been dealt with.
LEMMA DealtGood ==
    ASSUME NEW lg, NEW n, NEW s, Good(s, lg, n)
    PROVE  /\ s.outbox # <<>> =>
                  LET z == Dealt([s EXCEPT !.outbox = Tail(s.outbox)], Head(s.outbox))
                  IN  Head(s.outbox) \in Nat /\ Good(z, lg, n)
           /\ s.queue # <<>> =>
                  LET z == Dealt([s EXCEPT !.queue = Tail(s.queue)], Head(s.queue))
                  IN  Head(s.queue) \in Nat /\ Good(z, lg, n)
<1>1. s \in Stream /\ s.outbox \in Seq(Nat) /\ s.queue \in Seq(Nat) /\ Len(s.queue) <= RingSize
  BY DEF Good, Stream
<1>2. ASSUME s.outbox # <<>>
      PROVE  LET z == Dealt([s EXCEPT !.outbox = Tail(s.outbox)], Head(s.outbox))
             IN  Head(s.outbox) \in Nat /\ Good(z, lg, n)
  <2> DEFINE r == Head(s.outbox)
             q == Tail(s.outbox)
             z == Dealt([s EXCEPT !.outbox = q], r)
  <2>1. r \in Nat /\ q \in Seq(Nat) /\ \A x \in Range(s.outbox) : x = r \/ x \in Range(q)
    BY <1>1, <1>2, RangeHead
  <2> HIDE DEF r, q
  <2>2. /\ z \in Stream /\ z.phase = s.phase /\ z.lagged = s.lagged /\ z.closed = s.closed
        /\ z.from = s.from /\ z.floor = s.floor /\ z.queue = s.queue /\ z.outbox = q
        /\ z.done = s.done \cup {r}
    BY <1>1, <2>1 DEF Dealt, Stream
  <2> HIDE DEF z
  <2>3. Owes(z, lg, n)
    BY <2>1, <2>2 DEF Good, Owes, Up
  <2> QED
    BY <1>1, <2>1, <2>2, <2>3 DEF Good, Up, z, r, q
<1>3. ASSUME s.queue # <<>>
      PROVE  LET z == Dealt([s EXCEPT !.queue = Tail(s.queue)], Head(s.queue))
             IN  Head(s.queue) \in Nat /\ Good(z, lg, n)
  <2> DEFINE r == Head(s.queue)
             q == Tail(s.queue)
             z == Dealt([s EXCEPT !.queue = q], r)
  <2>1. /\ r \in Nat /\ q \in Seq(Nat) /\ Len(q) = Len(s.queue) - 1
        /\ \A x \in Range(s.queue) : x = r \/ x \in Range(q)
    BY <1>1, <1>3, RangeHead
  <2>2. Len(q) <= RingSize
    BY <1>1, <2>1, LenProperties, DeliveryAssumption
  <2> HIDE DEF r, q
  <2>3. /\ z \in Stream /\ z.phase = s.phase /\ z.lagged = s.lagged /\ z.closed = s.closed
        /\ z.from = s.from /\ z.floor = s.floor /\ z.queue = q /\ z.outbox = s.outbox
        /\ z.done = s.done \cup {r}
    BY <1>1, <2>1 DEF Dealt, Stream
  <2> HIDE DEF z
  <2>4. Owes(z, lg, n)
    BY <2>1, <2>3 DEF Good, Owes, Up
  <2> QED
    BY <1>1, <2>1, <2>2, <2>3, <2>4 DEF Good, Up, z, r, q
<1> QED
  BY <1>2, <1>3

-----------------------------------------------------------------------------
(* The hand-over from the replay buffer to the live broadcast.             *)

\* The replay buffer is the end of the log.
LEMMA BufferFacts ==
    ASSUME ServerOK
    PROVE  /\ BufferStart \in Nat \ {0} /\ Len(log) \in Nat /\ BufferStart <= Len(log) + 1
           /\ Buffer \in Seq(Nat) /\ Len(Buffer) = Len(log) - BufferStart + 1
           /\ \A j \in BufferStart..Len(log) :
                 /\ j - BufferStart + 1 \in 1..Len(Buffer)
                 /\ Buffer[j - BufferStart + 1] = log[j]
<1>1. log \in Seq(Nat) /\ Len(log) \in Nat /\ DOMAIN log = 1..Len(log)
  BY LenProperties DEF ServerOK
<1>2. BufferStart \in Nat \ {0} /\ BufferStart <= Len(log) + 1
  BY <1>1, DeliveryAssumption DEF BufferStart
<1> DEFINE b == BufferStart
<1> HIDE DEF b
<1>3. \A i \in b..Len(log) : log[i] \in Nat
  <2>1. \A i \in b..Len(log) : i \in 1..Len(log)
    BY <1>1, <1>2 DEF b
  <2>2. \A i \in 1..Len(log) : log[i] \in Nat
    BY <1>1, ElementOfSeq
  <2> QED
    BY <2>1, <2>2
<1>4. b \in Int /\ Len(log) \in Int
  BY <1>1, <1>2 DEF b
<1>5. /\ SubSeq(log, b, Len(log)) \in Seq(Nat)
      /\ Len(SubSeq(log, b, Len(log))) = IF b <= Len(log) THEN Len(log) - b + 1 ELSE 0
      /\ \A i \in 1..(Len(log) - b + 1) : SubSeq(log, b, Len(log))[i] = log[b + i - 1]
  BY <1>3, <1>4, SubSeqProperties
<1>6. Buffer = SubSeq(log, b, Len(log))
  BY DEF Buffer, b
<1>7. Len(Buffer) = Len(log) - b + 1
  BY <1>1, <1>2, <1>5, <1>6 DEF b
<1>8. ASSUME NEW j \in b..Len(log)
      PROVE  j - b + 1 \in 1..Len(Buffer) /\ Buffer[j - b + 1] = log[j]
  <2>1. j - b + 1 \in 1..(Len(log) - b + 1) /\ b + (j - b + 1) - 1 = j
    BY <1>1, <1>2 DEF b
  <2>2. SubSeq(log, b, Len(log))[j - b + 1] = log[b + (j - b + 1) - 1]
    BY <1>5, <2>1
  <2> QED
    BY <1>6, <1>7, <2>1, <2>2
<1> QED
  BY <1>1, <1>2, <1>5, <1>6, <1>7, <1>8 DEF b

\* Whichever buffer a stream holds.
LEMMA BufferOfType ==
    ASSUME ServerOK, NEW c \in Clients, stream[c] \in Stream
    PROVE  BufferOf(c) \in Seq(Nat)
BY BufferFacts DEF BufferOf, Stream

\* Switching to the live broadcast with every buffered event in the outbox: what
\* was broadcast since the receiver was attached is in the ring.
LEMMA GoLiveGood ==
    ASSUME NEW lg, NEW n \in Nat, NEW s, Good(s, lg, n), Up(s), s.outbox = <<>>,
           NEW e \in Seq(Nat), NEW f \in Nat \ {0},
           ~s.closed => \A i \in f..n : lg[i] > s.floor => lg[i] \in Range(e)
    PROVE  Good(GoLive(s, e, f), lg, n)
<1> DEFINE z == GoLive(s, e, f)
<1>1. s \in Stream /\ s.from \in Nat \ {0} /\ Len(s.queue) <= RingSize /\ Owes(s, lg, n)
  BY DEF Good, Stream
<1>2. /\ z \in Stream /\ z.phase = "live" /\ z.outbox = e /\ z.floor = s.floor
      /\ z.from = (IF f < s.from THEN f ELSE s.from)
      /\ z.queue = s.queue /\ z.closed = s.closed /\ z.lagged = s.lagged /\ z.done = s.done
  BY <1>1 DEF GoLive, Stream, Phases
<1> HIDE DEF z
<1>3. Range(s.outbox) = {}
  <2>1. DOMAIN s.outbox = {}
    OBVIOUS
  <2> QED
    BY <2>1 DEF Range
<1>4. \A i \in z.from..n : i \in f..n \/ i \in s.from..n
  BY <1>1, <1>2
<1>5. Owes(z, lg, n)
  BY <1>1, <1>2, <1>3, <1>4 DEF Owes
<1> QED
  BY <1>1, <1>2, <1>5 DEF Good, z

\* A hit: everything after the entry found is collected.
LEMMA HitGood ==
    ASSUME ServerOK, NEW c \in Clients, Good(stream[c], log, sent), Up(stream[c]),
           stream[c].outbox = <<>>, NEW i \in DOMAIN BufferOf(c)
    PROVE  Good(GoLive(stream[c], MissedAfter(BufferOf(c), i), BufferStart + i), log, sent)
<1> DEFINE b == BufferOf(c)
           m == MissedAfter(b, i)
<1>1. b \in Seq(Nat) /\ Len(b) \in Nat /\ DOMAIN b = 1..Len(b) /\ i \in 1..Len(b)
  BY BufferOfType, LenProperties DEF Good
<1> HIDE DEF b
<1>2. \A k \in (i + 1)..Len(b) : b[k] \in Nat
  <2>1. \A k \in (i + 1)..Len(b) : k \in 1..Len(b)
    BY <1>1
  <2> QED
    BY <1>1, <2>1, ElementOfSeq
<1>3. i + 1 \in Int /\ Len(b) \in Int
  BY <1>1
<1>4. /\ m \in Seq(Nat) /\ Len(m) = IF i + 1 <= Len(b) THEN Len(b) - (i + 1) + 1 ELSE 0
      /\ \A k \in 1..(Len(b) - (i + 1) + 1) : m[k] = b[(i + 1) + k - 1]
  BY <1>2, <1>3, SubSeqProperties DEF MissedAfter
<1> HIDE DEF m
<1>5. DOMAIN m = 1..Len(m)
  BY <1>4, LenProperties
<1>6. BufferStart + i \in Nat \ {0}
  <2>1. BufferStart \in Nat /\ i \in Nat \ {0}
    BY <1>1, BufferFacts
  <2> QED
    BY ONLY <2>1
<1>7. ASSUME ~stream[c].closed, NEW j \in (BufferStart + i)..sent PROVE log[j] \in Range(m)
  <2>1. b = Buffer
    BY <1>7 DEF b, BufferOf
  <2>2. /\ BufferStart \in Nat /\ Len(log) \in Nat /\ Len(b) = Len(log) - BufferStart + 1
        /\ sent \in 0..Len(log)
    BY <2>1, BufferFacts DEF ServerOK
  <2>3. j \in BufferStart..Len(log)
    BY <1>1, <2>2
  <2>4. b[j - BufferStart + 1] = log[j]
    BY <2>1, <2>3, BufferFacts
  <2> DEFINE k == j - BufferStart + 1 - i
  <2>5. k \in 1..(Len(b) - (i + 1) + 1) /\ (i + 1) + k - 1 = j - BufferStart + 1
    <3>1. j \in Nat /\ i \in Nat /\ j >= BufferStart + i /\ j <= Len(log)
      BY <1>1, <1>7, <2>2, <2>3
    <3>2. PICK x \in Nat, y \in Nat : x = BufferStart /\ y = Len(log)
      BY <2>2
    <3>3. Len(b) = y - x + 1 /\ j >= x + i /\ j <= y
      BY <2>2, <3>1, <3>2
    <3>4. j - x + 1 - i \in 1..((y - x + 1) - (i + 1) + 1) /\ (i + 1) + (j - x + 1 - i) - 1 = j - x + 1
      BY <3>1, <3>2, <3>3
    <3> QED
      BY <3>2, <3>3, <3>4
  <2>6. k \in 1..Len(m)
    BY <1>1, <1>4, <2>5
  <2>7. m[k] = b[(i + 1) + k - 1]
    BY <1>4, <2>5
  <2>8. m[k] = log[j]
    BY <2>4, <2>5, <2>7
  <2> HIDE DEF k
  <2> QED
    BY <1>5, <2>6, <2>8 DEF Range
<1>8. sent \in Nat
  BY LenProperties DEF ServerOK
<1> QED
  BY <1>4, <1>6, <1>7, <1>8, GoLiveGood DEF m, b

\* A miss: what is buffered above the snapshot is collected.
LEMMA PostGood ==
    ASSUME ServerOK, NEW c \in Clients, Good(stream[c], log, sent), Up(stream[c]),
           stream[c].outbox = <<>>
    PROVE  Good(GoLive(stream[c], PostSnapshot(BufferOf(c), stream[c].floor), BufferStart), log, sent)
<1> DEFINE b == BufferOf(c)
           fl == stream[c].floor
           S == {i \in DOMAIN b : b[i] > fl}
           o == InOrder(S)
           e == PostSnapshot(b, fl)
<1>1. b \in Seq(Nat) /\ Len(b) \in Nat /\ DOMAIN b = 1..Len(b) /\ b \in [1..Len(b) -> Nat]
  BY BufferOfType, LenProperties DEF Good
<1> HIDE DEF b, fl
<1>2. S \in SUBSET Nat /\ IsFiniteSet(S)
  <2>1. S \in SUBSET (1..Len(b))
    BY <1>1
  <2>2. IsFiniteSet(1..Len(b))
    BY <1>1, FS_Interval
  <2> QED
    BY <2>1, <2>2, FS_Subset
<1>3. e = [k \in DOMAIN o |-> b[o[k]]]
  BY DEF PostSnapshot
<1>4. \A i \in S : i \in 1..Len(b) /\ b[i] \in Nat
  BY <1>1
<1>5. \A i \in 1..Len(b) : b[i] > fl => i \in S
  BY <1>1
<1> HIDE DEF S, e
<1>6. /\ Cardinality(S) \in Nat /\ o \in [1..Cardinality(S) -> S]
      /\ \A i \in S : \E k \in 1..Cardinality(S) : o[k] = i
  BY <1>2, InOrderFacts
<1> HIDE DEF o
<1>7. e \in [1..Cardinality(S) -> Nat]
  BY <1>3, <1>4, <1>6
<1>8. e \in Seq(Nat)
  BY <1>6, <1>7, SeqDef
<1>9. ASSUME ~stream[c].closed, NEW j \in BufferStart..sent, log[j] > fl PROVE log[j] \in Range(e)
  <2>1. b = Buffer
    BY <1>9 DEF b, BufferOf
  <2>2. j \in BufferStart..Len(log)
    BY <1>9, BufferFacts DEF ServerOK
  <2> DEFINE i == j - BufferStart + 1
  <2>3. i \in 1..Len(b) /\ b[i] = log[j]
    BY <2>1, <2>2, BufferFacts
  <2> HIDE DEF i
  <2>4. i \in S
    BY <1>5, <1>9, <2>3
  <2>5. PICK k \in 1..Cardinality(S) : o[k] = i
    BY <1>6, <2>4
  <2>6. k \in DOMAIN e /\ e[k] = log[j]
    BY <1>3, <1>6, <1>7, <2>3, <2>5
  <2> QED
    BY <2>6 DEF Range
<1>10. sent \in Nat
  BY LenProperties DEF ServerOK
<1> QED
  BY <1>8, <1>9, <1>10, BufferFacts, GoLiveGood DEF e, b, fl

-----------------------------------------------------------------------------
(* The steps.                                                              *)

\* The invariant, stream by stream and channel by channel.
AllGood == stream \in [Clients -> Stream] /\ \A c \in Clients : Good(stream[c], log, sent)
InboxOK == inbox \in [Clients -> Seq(Nat)] /\ \A c \in Clients : Len(inbox[c]) <= InboxSize

\* The invariants of the streams, one stream at a time.
LEMMA StreamsAre == (StreamsOK /\ FromInv /\ NoSilentGap) <=> (AllGood /\ InboxOK)
<1>1. ASSUME StreamsOK, FromInv, NoSilentGap PROVE AllGood /\ InboxOK
  BY <1>1 DEF StreamsOK, FromInv, NoSilentGap, AllGood, InboxOK, Good, Owes, Up, Attached
<1>2. ASSUME AllGood, InboxOK PROVE StreamsOK /\ FromInv /\ NoSilentGap
  BY <1>2 DEF StreamsOK, FromInv, NoSilentGap, AllGood, InboxOK, Good, Owes, Up, Attached
<1> QED
  BY <1>1, <1>2

\* A step of one stream.
LEMMA OneStream ==
    ASSUME AllGood, NEW c \in Clients, NEW z, Good(z, log, sent),
           stream' = [stream EXCEPT ![c] = z], log' = log, sent' = sent
    PROVE  AllGood'
<1>1. /\ stream' \in [Clients -> Stream]
      /\ \A d \in Clients : stream'[d] = IF d = c THEN z ELSE stream[d]
  BY DEF AllGood, Good
<1>2. \A d \in Clients : Good(stream'[d], log, sent)
  BY <1>1 DEF AllGood
<1> QED
  BY <1>1, <1>2 DEF AllGood

\* A client's channel takes one more event, or loses its first.
LEMMA InboxStep ==
    ASSUME InboxOK, NEW c \in Clients, NEW q \in Seq(Nat), Len(q) <= InboxSize,
           inbox' = [inbox EXCEPT ![c] = q]
    PROVE  InboxOK'
BY DEF InboxOK

\* Sending one event of the outbox or of the ring.
LEMMA OfferGood ==
    ASSUME AllGood, InboxOK, NEW c \in Clients, NEW s, s \in Stream, NEW r \in Nat,
           Good(Dealt(s, r), log, sent), Offer(c, s, r), log' = log, sent' = sent
    PROVE  AllGood' /\ InboxOK'
<1>1. \A told \in BOOLEAN : Good(End(s, told), log, sent)
  BY EndGood
<1>2. CASE stream' = [stream EXCEPT ![c] = Dealt(s, r)] /\ UNCHANGED inbox
  <2>1. AllGood'
    BY <1>2, OneStream
  <2> QED
    BY <1>2, <2>1 DEF InboxOK
<1>3. CASE /\ Len(inbox[c]) < InboxSize /\ inbox' = [inbox EXCEPT ![c] = Append(inbox[c], r)]
           /\ stream' = [stream EXCEPT ![c] = Dealt(s, r)]
  <2>1. AllGood'
    BY <1>3, OneStream
  <2>2. inbox[c] \in Seq(Nat) /\ Len(inbox[c]) \in Nat
    BY LenProperties DEF InboxOK
  <2>3. Append(inbox[c], r) \in Seq(Nat) /\ Len(Append(inbox[c], r)) = Len(inbox[c]) + 1
    BY <2>2, AppendProperties
  <2>4. Len(Append(inbox[c], r)) <= InboxSize
    BY <1>3, <2>2, <2>3, DeliveryAssumption
  <2> QED
    BY <1>3, <2>1, <2>3, <2>4, InboxStep
<1>4. CASE UNCHANGED inbox /\ \E told \in BOOLEAN : stream' = [stream EXCEPT ![c] = End(s, told)]
  <2>1. AllGood'
    BY <1>1, <1>4, OneStream
  <2> QED
    BY <1>4, <2>1 DEF InboxOK
<1> QED
  BY <1>2, <1>3, <1>4 DEF Offer

\* A step of the resume task, of the bridge or of the consumer.
LEMMA StreamStepGood ==
    ASSUME ServerOK, AllGood, InboxOK, NEW c \in Clients,
           StreamStep(c) \/ ClientStep(c) \/ ConnectionLost(c)
    PROVE  AllGood' /\ InboxOK'
<1> USE DEF watchVars
<1> DEFINE s == stream[c]
<1>1. Good(s, log, sent) /\ s \in Stream /\ Len(s.queue) <= RingSize
  BY DEF AllGood, Good
<1>2. ASSUME UNCHANGED <<stream, log, sent, inbox>> PROVE AllGood' /\ InboxOK'
  BY <1>2 DEF AllGood, InboxOK
<1>3. ASSUME NEW z, Good(z, log, sent), stream' = [stream EXCEPT ![c] = z],
             UNCHANGED <<log, sent, inbox>>
      PROVE  AllGood' /\ InboxOK'
  <2>1. AllGood'
    BY <1>3, OneStream
  <2> QED
    BY <1>3, <2>1 DEF InboxOK
<1>4. CASE handle_subscribe(c)
  <2>1. UNCHANGED <<log, sent, inbox>>
    BY <1>4 DEF handle_subscribe, StartWatch
  <2>2. sent \in Nat
    BY LenProperties DEF ServerOK
  <2> QED
    BY <1>3, <1>4, <2>1, <2>2, NoStreamGood DEF handle_subscribe
<1>5. CASE SubscribeRefused(c)
  BY <1>2, <1>5 DEF SubscribeRefused
<1>6. CASE LookupHit(c)
  <2>1. PICK i \in DOMAIN BufferOf(c) :
           stream' = [stream EXCEPT ![c] = GoLive(s, MissedAfter(BufferOf(c), i), BufferStart + i)]
    BY <1>6 DEF LookupHit
  <2>2. UNCHANGED <<log, sent, inbox>> /\ Up(s) /\ s.outbox = <<>>
    BY <1>6 DEF LookupHit, ResumeTask, Up
  <2> QED
    BY <1>1, <1>3, <2>1, <2>2, HitGood
<1>7. CASE LookupMiss(c)
  <2>1. stream' = [stream EXCEPT ![c] = [s EXCEPT !.phase = "snapshot"]]
        /\ UNCHANGED <<log, sent, inbox>> /\ s.phase = "lookup" /\ s.outbox = <<>>
    BY <1>7 DEF LookupMiss, ResumeTask
  <2>2. Good([s EXCEPT !.phase = "snapshot"], log, sent)
    BY <1>1, <2>1, LookupGood DEF ServerOK
  <2> QED
    BY <1>3, <2>1, <2>2
<1>8. CASE TakeSnapshot(c)
  <2> DEFINE z == [s EXCEPT !.phase = "post", !.outbox = <<cache>>, !.floor = cache]
  <2>1. stream' = [stream EXCEPT ![c] = z] /\ UNCHANGED <<log, sent, inbox>>
        /\ s.phase = "snapshot" /\ s.outbox = <<>>
    BY <1>8 DEF TakeSnapshot, ResumeTask
  <2>2. Good(z, log, sent)
    BY <1>1, <2>1, LookupGood DEF ServerOK
  <2> QED
    BY <1>3, <2>1, <2>2
<1>9. CASE ReadPostSnapshot(c)
  <2>1. stream' = [stream EXCEPT ![c] = GoLive(s, PostSnapshot(BufferOf(c), s.floor), BufferStart)]
        /\ UNCHANGED <<log, sent, inbox>> /\ Up(s) /\ s.outbox = <<>>
    BY <1>9 DEF ReadPostSnapshot, ResumeTask, Up
  <2> QED
    BY <1>1, <1>3, <2>1, PostGood
<1>10. CASE try_send_or_disconnect(c)
  <2> DEFINE t == [s EXCEPT !.outbox = Tail(s.outbox)]
             r == Head(s.outbox)
  <2>1. s.outbox # <<>> /\ Offer(c, t, r) /\ UNCHANGED <<log, sent>>
    BY <1>10 DEF try_send_or_disconnect
  <2>2. r \in Nat /\ Good(Dealt(t, r), log, sent)
    BY <1>1, <2>1, DealtGood
  <2>3. t \in Stream
    BY <1>1, <2>1, RangeHead DEF Stream
  <2> QED
    BY <2>1, <2>2, <2>3, OfferGood
<1>11. CASE bridge_broadcast(c)
  <2>1. UNCHANGED <<log, sent>>
    BY <1>11 DEF bridge_broadcast
  <2> DEFINE t == [s EXCEPT !.queue = Tail(s.queue)]
             r == Head(s.queue)
  <2>2. CASE s.queue # <<>> /\ Offer(c, t, r)
    <3>1. r \in Nat /\ Good(Dealt(t, r), log, sent)
      BY <1>1, <2>2, DealtGood
    <3>2. t \in Stream
      BY <1>1, <2>2, RangeHead DEF Stream
    <3> QED
      BY <2>1, <2>2, <3>1, <3>2, OfferGood
  <2>3. CASE UNCHANGED inbox /\ \E told \in BOOLEAN : stream' = [stream EXCEPT ![c] = End(s, told)]
    BY <1>1, <1>3, <2>1, <2>3, EndGood
  <2> QED
    BY <1>11, <2>2, <2>3 DEF bridge_broadcast
<1>12. CASE apply(c)
  <2>1. inbox[c] # <<>> /\ inbox[c] \in Seq(Nat) /\ Len(inbox[c]) <= InboxSize
    BY <1>12 DEF apply, InboxOK
  <2>2. Tail(inbox[c]) \in Seq(Nat) /\ Len(Tail(inbox[c])) = Len(inbox[c]) - 1
    BY <2>1, HeadTailProperties
  <2>3. Len(Tail(inbox[c])) <= InboxSize
    BY <2>1, <2>2, LenProperties, DeliveryAssumption
  <2>4. inbox' = [inbox EXCEPT ![c] = Tail(inbox[c])] /\ UNCHANGED <<stream, log, sent>>
    BY <1>12 DEF apply
  <2> QED
    BY <2>2, <2>3, <2>4, InboxStep DEF AllGood
<1>13. CASE StreamEnd(c)
  BY <1>3, <1>13, NoStreamGood DEF StreamEnd
<1>14. CASE ConnectionLost(c)
  <2>1. stream' = [stream EXCEPT ![c] = NoStream] /\ UNCHANGED <<log, sent>>
        /\ inbox' = [inbox EXCEPT ![c] = <<>>]
    BY <1>14 DEF ConnectionLost
  <2>2. <<>> \in Seq(Nat) /\ Len(<<>>) <= InboxSize
    BY EmptySeq, DeliveryAssumption
  <2> QED
    BY <2>1, <2>2, NoStreamGood, OneStream, InboxStep
<1> QED
  BY <1>4, <1>5, <1>6, <1>7, <1>8, <1>9, <1>10, <1>11, <1>12, <1>13, <1>14
  DEF StreamStep, ClientStep

\* An event enters the replay buffer: nothing that was broadcast changes.
LEMMA PushGood ==
    ASSUME ServerOK, AllGood, NEW r, log' = Append(log, r), UNCHANGED <<stream, sent>>
    PROVE  AllGood'
<1>1. Len(log) \in Nat /\ sent \in 0..Len(log) /\ log \in Seq(Nat)
  BY LenProperties DEF ServerOK
<1>2. \A i \in 1..Len(log) : log'[i] = log[i]
  BY <1>1
<1>3. ASSUME NEW c \in Clients PROVE Owes(stream[c], log', sent)
  <2> SUFFICES ASSUME Up(stream[c]), ~stream[c].lagged, ~stream[c].closed,
                      NEW i \in stream[c].from..sent, log'[i] > stream[c].floor
               PROVE  log'[i] \in stream[c].done \cup Range(stream[c].outbox)
                                                \cup Range(stream[c].queue)
    BY DEF Owes
  <2>1. stream[c].from \in Nat \ {0}
    BY DEF AllGood, Good, Stream
  <2>2. i \in 1..Len(log)
    BY <1>1, <2>1
  <2> QED
    BY <1>2, <2>2 DEF AllGood, Good, Owes
<1> QED
  BY <1>3 DEF AllGood, Good

\* A broadcast reaches a receiver's ring, or costs it its place.
LEMMA SendGood ==
    ASSUME ServerOK, AllGood, send_to_all
    PROVE  AllGood'
<1> DEFINE r == log[sent + 1]
<1>1. /\ Len(log) \in Nat /\ sent \in Nat /\ sent' = sent + 1 /\ log' = log /\ r \in Nat
  <2>1. sent + 1 \in 1..Len(log) /\ Len(log) \in Nat /\ sent \in Nat
    BY LenProperties DEF ServerOK, send_to_all
  <2> QED
    BY <2>1, ElementOfSeq DEF ServerOK, send_to_all
<1> HIDE DEF r
<1>2. ASSUME NEW c \in Clients
      PROVE  stream'[c] = IF Attached(c) /\ ~stream[c].closed THEN Receive(stream[c], r)
                                                              ELSE stream[c]
  BY DEF send_to_all, r
<1>3. ASSUME NEW c \in Clients PROVE Good(stream'[c], log, sent + 1)
  <2> DEFINE s == stream[c]
             z == Receive(s, r)
  <2>1. s \in Stream /\ Len(s.queue) <= RingSize /\ (Up(s) => s.from # 0)
        /\ (s.phase \in {"lookup", "snapshot"} => s.floor = 0) /\ Owes(s, log, sent)
    BY DEF AllGood, Good
  <2>2. CASE Attached(c) /\ ~s.closed
    <3>1. /\ z \in Stream /\ Len(z.queue) <= RingSize
          /\ z.phase = s.phase /\ z.closed = s.closed /\ z.from = s.from /\ z.floor = s.floor
          /\ z.done = s.done /\ z.outbox = s.outbox
          /\ ~z.lagged => ~s.lagged /\ z.queue = Append(s.queue, r)
      BY <1>1, <2>1, ReceiveType
    <3> HIDE DEF z
    <3>2. ASSUME Up(z), ~z.lagged, ~z.closed, NEW i \in z.from..(sent + 1),
                 log[i] > z.floor
          PROVE  log[i] \in z.done \cup Range(z.outbox) \cup Range(z.queue)
      <4>1. \A x : x \in Range(s.queue) \/ x = r => x \in Range(z.queue)
        <5>1. s.queue \in Seq(Nat)
          BY <2>1 DEF Stream
        <5>2. \A x : x \in Range(s.queue) \/ x = r => x \in Range(Append(s.queue, r))
          BY <1>1, <5>1, RangeAppend
        <5>3. z.queue = Append(s.queue, r)
          BY <3>1, <3>2
        <5> QED
          BY <5>2, <5>3, Zenon
      <4>2. CASE i = sent + 1
        BY <4>1, <4>2 DEF r
      <4>3. CASE i # sent + 1
        <5>1. i \in s.from..sent
          BY <1>1, <2>1, <3>1, <3>2, <4>3 DEF Stream, Up
        <5>2. log[i] \in s.done \cup Range(s.outbox) \cup Range(s.queue)
          BY <2>1, <3>1, <3>2, <5>1 DEF Owes, Up
        <5> QED
          BY <3>1, <4>1, <5>2
      <4> QED
        BY <4>2, <4>3
    <3>3. Good(z, log, sent + 1)
      <4>1. Up(z) => Up(s)
        BY <3>1 DEF Up
      <4>2. Owes(z, log, sent + 1)
        BY <3>2 DEF Owes
      <4> QED
        BY <2>1, <3>1, <4>1, <4>2 DEF Good
    <3> QED
      BY <1>2, <2>2, <3>3 DEF z
  <2>3. CASE ~(Attached(c) /\ ~s.closed)
    <3>1. ~Up(s) \/ s.closed
      BY <2>3 DEF Attached, Up
    <3> QED
      BY <1>2, <2>1, <2>3, <3>1 DEF Good, Owes
  <2> QED
    BY <2>2, <2>3
<1>4. stream' \in [Clients -> Stream]
  <2>1. \A c \in Clients : stream'[c] \in Stream
    BY <1>3 DEF Good
  <2>2. stream' = [c \in Clients |-> stream'[c]]
    BY DEF send_to_all
  <2> QED
    BY <2>1, <2>2
<1> QED
  BY <1>1, <1>3, <1>4 DEF AllGood

\* A watch that stops leaves its streams closed, and a closed stream owes nothing.
LEMMA StopGood ==
    ASSUME ServerOK, AllGood, WatchEnds \/ WatchCollected
    PROVE  AllGood'
<1> DEFINE Closed(s) == [s EXCEPT !.closed = TRUE, !.kept = Buffer]
<1>1. ASSUME NEW s \in Stream, Len(s.queue) <= RingSize, Up(s) => s.from # 0 /\ s.closed,
             s.phase \in {"lookup", "snapshot"} => s.floor = 0, NEW lg, NEW n
      PROVE  Good(s, lg, n)
  BY <1>1 DEF Good, Owes
<1>2. \A c \in Clients : /\ stream[c] \in Stream /\ Len(stream[c].queue) <= RingSize
                         /\ Up(stream[c]) => stream[c].from # 0
                         /\ stream[c].phase \in {"lookup", "snapshot"} => stream[c].floor = 0
  BY DEF AllGood, Good
<1>3. CASE WatchEnds
  <2>1. ASSUME NEW c \in Clients
        PROVE  stream'[c] = IF Attached(c) /\ ~stream[c].closed THEN Closed(stream[c])
                                                                ELSE stream[c]
    BY <1>3 DEF WatchEnds
  <2>2. ASSUME NEW c \in Clients PROVE Good(stream'[c], log', sent')
    <3>1. CASE Attached(c) /\ ~stream[c].closed
      <4> DEFINE z == Closed(stream[c])
      <4>1. Buffer \in Seq(Nat)
        BY BufferFacts
      <4>2. z \in Stream /\ z.closed /\ z.queue = stream[c].queue /\ z.phase = stream[c].phase
            /\ z.from = stream[c].from /\ z.floor = stream[c].floor
        BY <1>2, <4>1 DEF Stream
      <4> HIDE DEF z
      <4>3. Good(z, log', sent')
        BY <1>1, <1>2, <4>2 DEF Up
      <4> QED
        BY <2>1, <3>1, <4>3 DEF z
    <3>2. CASE ~(Attached(c) /\ ~stream[c].closed)
      <4>1. Up(stream[c]) => stream[c].closed
        BY <3>2 DEF Attached, Up
      <4> QED
        BY <1>1, <1>2, <2>1, <3>2, <4>1
    <3> QED
      BY <3>1, <3>2
  <2>3. stream' \in [Clients -> Stream]
    <3>1. \A c \in Clients : stream'[c] \in Stream
      BY <2>2 DEF Good
    <3>2. stream' = [c \in Clients |-> stream'[c]]
      BY <1>3 DEF WatchEnds
    <3> QED
      BY <3>1, <3>2
  <2> QED
    BY <2>2, <2>3 DEF AllGood
<1>4. CASE WatchCollected
  <2>1. stream' = stream /\ \A c \in Clients : Up(stream[c]) => stream[c].closed
    BY <1>4 DEF WatchCollected, Attached, Up
  <2>2. \A c \in Clients : Good(stream[c], log', sent')
    BY <1>1, <1>2, <2>1
  <2> QED
    BY <2>1, <2>2 DEF AllGood
<1> QED
  BY <1>3, <1>4

\* Every step keeps every stream good and every channel within its capacity.
LEMMA NextStreams == ServerOK /\ AllGood /\ InboxOK /\ [Next]_vars => AllGood' /\ InboxOK'
<1> SUFFICES ASSUME ServerOK, AllGood, InboxOK, [Next]_vars PROVE AllGood' /\ InboxOK'
  OBVIOUS
<1> USE DEF watchVars
<1>1. ASSUME UNCHANGED <<stream, log, sent, inbox>> PROVE AllGood' /\ InboxOK'
  BY <1>1 DEF AllGood, InboxOK
<1>2. ASSUME UNCHANGED inbox PROVE InboxOK'
  BY <1>2 DEF InboxOK
<1>3. ASSUME NEW k \in Keys, NEW deleted \in BOOLEAN, Commit(k, deleted)
      PROVE  AllGood' /\ InboxOK'
  BY <1>1, <1>3 DEF Commit
<1>4. CASE CacheEvent \/ CacheRelist \/ ListObjects
  BY <1>1, <1>4 DEF CacheEvent, CacheRelist, ListObjects
<1>5. CASE process_namespace_event
  <2>1. \E r : log' = Append(log, r)
    BY <1>5 DEF process_namespace_event
  <2>2. UNCHANGED <<stream, sent, inbox>>
    BY <1>5 DEF process_namespace_event
  <2> QED
    BY <1>2, <2>1, <2>2, PushGood
<1>6. CASE send_to_all
  BY <1>2, <1>6, SendGood DEF send_to_all
<1>7. CASE WatchEnds \/ WatchCollected
  BY <1>2, <1>7, StopGood DEF WatchEnds, WatchCollected
<1>8. CASE OtherSubscriber
  BY <1>1, <1>8 DEF OtherSubscriber, StartWatch
<1>9. CASE ServerRestart
  <2>1. stream' = [c \in Clients |-> NoStream] /\ inbox' = [c \in Clients |-> <<>>]
    BY <1>9 DEF ServerRestart
  <2>2. Good(NoStream, log', sent') /\ NoStream \in Stream
    BY NoStreamGood DEF Good
  <2>3. <<>> \in Seq(Nat) /\ Len(<<>>) <= InboxSize
    BY EmptySeq, DeliveryAssumption
  <2>4. AllGood'
    BY <2>1, <2>2 DEF AllGood
  <2> QED
    BY <2>1, <2>3, <2>4 DEF InboxOK
<1>10. ASSUME NEW c \in Clients, StreamStep(c) \/ ClientStep(c) \/ ConnectionLost(c)
       PROVE  AllGood' /\ InboxOK'
  BY <1>10, StreamStepGood
<1>11. CASE UNCHANGED vars
  BY <1>1, <1>11 DEF vars
<1> QED
  BY <1>3, <1>4, <1>5, <1>6, <1>7, <1>8, <1>9, <1>10, <1>11 DEF Next, ServerStep

\* Every step keeps the consumers' part typed.
LEMMA NextClients == ClientsOK /\ InboxOK /\ [Next]_vars => ClientsOK'
<1> SUFFICES ASSUME ClientsOK, InboxOK, [Next]_vars PROVE ClientsOK'
  OBVIOUS
<1> USE DEF clientVars
<1>1. ASSUME UNCHANGED clientVars PROVE ClientsOK'
  BY <1>1 DEF ClientsOK
<1>2. ASSUME NEW c \in Clients, NEW m \in SUBSET Keys, stale' = [stale EXCEPT ![c] = m],
             UNCHANGED <<resume, store>>
      PROVE  ClientsOK'
  BY <1>2 DEF ClientsOK
<1>3. \A c \in Clients : Names[c] \in SUBSET Keys /\ stale[c] \in SUBSET Keys
  BY DeliveryAssumption DEF ClientsOK
<1>4. CASE ServerRestart
  BY <1>3, <1>4 DEF ServerRestart, ClientsOK
<1>5. ASSUME NEW c \in Clients, SubscribeRefused(c) \/ StreamEnd(c) \/ ConnectionLost(c)
      PROVE  ClientsOK'
  <2>1. \E m \in SUBSET Keys : stale' = [stale EXCEPT ![c] = m]
    BY <1>3, <1>5 DEF SubscribeRefused, StreamEnd, ConnectionLost
  <2>2. UNCHANGED <<resume, store>>
    BY <1>5 DEF SubscribeRefused, StreamEnd, ConnectionLost
  <2> QED
    BY <1>2, <2>1, <2>2
<1>6. ASSUME NEW c \in Clients, apply(c) PROVE ClientsOK'
  <2> DEFINE r == Head(inbox[c])
             k == history[r].key
  <2>1. r \in Nat
    BY <1>6, HeadTailProperties DEF apply, InboxOK
  <2>2. /\ resume' = [resume EXCEPT ![c] = r]
        /\ \/ UNCHANGED <<store, stale>>
           \/ /\ store' = [store EXCEPT ![c] = [store[c] EXCEPT ![k] = r]]
              /\ stale' = [stale EXCEPT ![c] = stale[c] \ {k}]
    BY <1>6 DEF apply
  <2> HIDE DEF r, k
  <2>3. resume' \in [Clients -> Nat]
    BY <2>1, <2>2 DEF ClientsOK
  <2>4. store' \in [Clients -> [Keys -> Nat]]
    <3>1. [store[c] EXCEPT ![k] = r] \in [Keys -> Nat]
      BY <2>1 DEF ClientsOK
    <3> QED
      BY <2>2, <3>1 DEF ClientsOK
  <2>5. stale' \in [Clients -> SUBSET Keys]
    <3>1. stale[c] \ {k} \in SUBSET Keys
      BY <1>3
    <3> QED
      BY <2>2, <3>1 DEF ClientsOK
  <2> QED
    BY <2>3, <2>4, <2>5 DEF ClientsOK
<1>7. ASSUME NEW c \in Clients, StreamStep(c) \/ ClientStep(c) \/ ConnectionLost(c)
      PROVE  ClientsOK'
  BY <1>1, <1>5, <1>6, <1>7
  DEF StreamStep, ClientStep, handle_subscribe, LookupHit, LookupMiss, TakeSnapshot,
      ReadPostSnapshot, try_send_or_disconnect, bridge_broadcast
<1>8. CASE \/ \E k \in Keys, deleted \in BOOLEAN : Commit(k, deleted)
           \/ ServerStep \/ WatchEnds \/ WatchCollected \/ OtherSubscriber \/ UNCHANGED vars
  BY <1>1, <1>8
  DEF Commit, ServerStep, CacheEvent, CacheRelist, ListObjects, process_namespace_event,
      send_to_all, WatchEnds, WatchCollected, OtherSubscriber, vars
<1> QED
  BY <1>4, <1>7, <1>8 DEF Next

-----------------------------------------------------------------------------
(* The theorems.                                                           *)

\* Nobody is connected and nothing was written.
LEMMA InitInv == Init => IndInv
<1> SUFFICES ASSUME Init PROVE IndInv
  OBVIOUS
<1>1. <<>> \in Seq(Nat) /\ <<>> \in Seq(Write) /\ Len(<<>>) = 0
  BY EmptySeq
<1>2. ServerOK
  <2>1. history \in Seq(Write) /\ pending \in Seq(Nat) /\ log \in Seq(Nat)
    BY <1>1, Zenon DEF Init
  <2>2. sent \in 0..Len(log) /\ faults \in 0..MaxFaults /\ cache \in Nat /\ seen \in Nat
    BY <1>1, DeliveryAssumption DEF Init
  <2>3. flushing \in BOOLEAN /\ watch \in {"off", "starting", "on"}
    BY DEF Init
  <2> QED
    BY <2>1, <2>2, <2>3 DEF ServerOK
<1>3. ClientsOK
  BY DEF Init, ClientsOK
<1>4. Good(NoStream, log, sent) /\ NoStream \in Stream
  BY NoStreamGood DEF Good
<1>5. AllGood
  BY <1>4 DEF Init, AllGood
<1>6. InboxOK
  BY <1>1, DeliveryAssumption DEF Init, InboxOK
<1> QED
  BY <1>2, <1>3, <1>5, <1>6, StreamsAre DEF IndInv, TypeOK

\* Every step keeps the inductive invariant.
LEMMA NextInv == IndInv /\ [Next]_vars => IndInv'
<1> SUFFICES ASSUME IndInv, [Next]_vars PROVE IndInv'
  OBVIOUS
<1>1. ServerOK /\ ClientsOK /\ AllGood /\ InboxOK
  BY StreamsAre DEF IndInv, TypeOK
<1>2. ServerOK' /\ ClientsOK' /\ AllGood' /\ InboxOK'
  BY <1>1, NextServer, NextStreams, NextClients
<1>3. (StreamsOK /\ FromInv /\ NoSilentGap)'
  BY <1>2, StreamsAre, PTL
<1> QED
  BY <1>2, <1>3 DEF IndInv, TypeOK

\* The inductive invariant holds in every reachable state.
LEMMA Inductive == Spec => []IndInv
BY InitInv, NextInv, PTL DEF Spec

\* Whatever is written, lost, lagged or restarted, a ring never holds more than
\* BROADCAST_CAPACITY frames and a channel never more than CHANNEL_CAPACITY
\* events, and nothing is broadcast that is not in the replay buffer.
THEOREM QueuesAreBounded == Spec => []TypeOK
<1>1. IndInv => TypeOK
  BY DEF IndInv
<1> QED
  BY <1>1, Inductive, PTL

\* bridge_broadcast and resume_from_buffer: the switch from the replay buffer to
\* the live broadcast loses nothing, whatever the sizes of buffer, ring and
\* channel and whenever the receiver was attached.
THEOREM HandOverLosesNothing == Spec => []NoSilentGap
<1>1. IndInv => NoSilentGap
  BY DEF IndInv
<1> QED
  BY <1>1, Inductive, PTL

-----------------------------------------------------------------------------
(* What a reader of a sequence ends up with.                               *)

\* Fate is the last member of W, if there is one.
LEMMA FateLast ==
    ASSUME NEW W, NEW q \in Seq(Nat), NEW b
    PROVE  /\ Spots(W, q) = {} => Fate(W, q, b) = b
           /\ Spots(W, q) # {} =>
                 \E j \in Spots(W, q) : (\A i \in Spots(W, q) : i <= j) /\ Fate(W, q, b) = q[j]
<1> DEFINE S == Spots(W, q)
           top == CHOOSE j \in S : \A i \in S : i <= j
<1>1. Fate(W, q, b) = IF S = {} THEN b ELSE q[top]
  BY DEF Fate
<1>2. Len(q) \in Nat /\ DOMAIN q = 1..Len(q)
  BY LenProperties
<1>3. S \in SUBSET Nat /\ \A j \in S : j <= Len(q)
  BY <1>2 DEF Spots
<1> HIDE DEF S
<1>4. S # {} => \E j \in S : \A i \in S : i <= j
  BY <1>2, <1>3, Greatest
<1>5. S # {} => top \in S /\ \A i \in S : i <= top
  BY <1>4
<1> HIDE DEF top
<1> QED
  BY <1>1, <1>5 DEF S

\* The last member of W is the fate.
LEMMA FateIs ==
    ASSUME NEW W, NEW q \in Seq(Nat), NEW b, NEW j \in Spots(W, q), \A i \in Spots(W, q) : i <= j
    PROVE  Fate(W, q, b) = q[j]
<1>1. PICK k \in Spots(W, q) : (\A i \in Spots(W, q) : i <= k) /\ Fate(W, q, b) = q[k]
  BY FateLast
<1>2. Len(q) \in Nat /\ DOMAIN q = 1..Len(q)
  BY LenProperties
<1>3. j \in Nat /\ k \in Nat /\ j <= k /\ k <= j
  BY <1>1, <1>2 DEF Spots
<1> QED
  BY <1>1, <1>3

\* Nothing is read from an empty sequence.
LEMMA FateEmpty == ASSUME NEW W, NEW b PROVE Fate(W, <<>>, b) = b
<1>1. DOMAIN <<>> = {} /\ <<>> \in Seq(Nat)
  BY EmptySeq
<1> QED
  BY <1>1, FateLast DEF Spots

\* A reader that meets a member of W ends up with one.
LEMMA FateHit ==
    ASSUME NEW W, NEW q \in Seq(Nat), NEW b, Spots(W, q) # {}
    PROVE  \E j \in Spots(W, q) : (\A i \in Spots(W, q) : i <= j) /\ Fate(W, q, b) = q[j]
BY FateLast

\* One more element at the end.
LEMMA FateAppend ==
    ASSUME NEW W, NEW q \in Seq(Nat), NEW x \in Nat, NEW b
    PROVE  Fate(W, Append(q, x), b) = IF x \in W THEN x ELSE Fate(W, q, b)
<1> DEFINE p == Append(q, x)
<1>1. /\ p \in Seq(Nat) /\ Len(p) = Len(q) + 1 /\ p[Len(q) + 1] = x
      /\ \A i \in 1..Len(q) : p[i] = q[i]
  BY AppendProperties
<1>2. Len(q) \in Nat /\ DOMAIN q = 1..Len(q) /\ DOMAIN p = 1..(Len(q) + 1)
  BY <1>1, LenProperties
<1> HIDE DEF p
<1>3. CASE x \in W
  <2>1. Len(q) + 1 \in Spots(W, p) /\ \A i \in Spots(W, p) : i <= Len(q) + 1
    BY <1>1, <1>2, <1>3 DEF Spots
  <2>2. Fate(W, p, b) = p[Len(q) + 1]
    BY <1>1, <2>1, FateIs
  <2> QED
    BY <1>1, <1>3, <2>2 DEF p
<1>4. CASE x \notin W
  <2>1. Spots(W, p) = Spots(W, q)
    <3>1. \A i \in DOMAIN p : i \in DOMAIN q \/ i = Len(q) + 1
      BY <1>2
    <3>2. \A i \in DOMAIN q : i \in DOMAIN p /\ p[i] = q[i]
      BY <1>1, <1>2
    <3> QED
      BY <1>1, <1>4, <3>1, <3>2 DEF Spots
  <2>2. CASE Spots(W, q) = {}
    BY <1>1, <1>4, <2>1, <2>2, FateLast DEF p
  <2>3. CASE Spots(W, q) # {}
    <3>1. PICK j \in Spots(W, q) : (\A i \in Spots(W, q) : i <= j) /\ Fate(W, q, b) = q[j]
      BY <2>3, FateLast
    <3>2. Fate(W, p, b) = p[j]
      <4>1. j \in Spots(W, p) /\ \A i \in Spots(W, p) : i <= j
        BY <2>1, <3>1
      <4> QED
        BY <1>1, <4>1, FateIs
    <3>3. p[j] = q[j]
      BY <1>1, <1>2, <3>1 DEF Spots
    <3> QED
      BY <1>4, <3>1, <3>2, <3>3 DEF p
  <2> QED
    BY <2>2, <2>3
<1> QED
  BY <1>3, <1>4

\* The positions of a sequence and of its tail.
LEMMA Shift ==
    ASSUME NEW m \in Nat \ {0}, NEW n \in Nat
    PROVE  /\ \A j \in 1..(m - 1) : j + 1 \in 1..m /\ n - m + (j + 1) = n - (m - 1) + j
           /\ \A j \in 1..m : j # 1 => j - 1 \in 1..(m - 1) /\ (j - 1) + 1 = j
OBVIOUS

\* One element less at the front.
LEMMA FateTail ==
    ASSUME NEW W, NEW q \in Seq(Nat), q # <<>>, NEW b
    PROVE  Fate(W, q, b) = Fate(W, Tail(q), IF Head(q) \in W THEN Head(q) ELSE b)
<1> DEFINE t == Tail(q)
           d == IF Head(q) \in W THEN Head(q) ELSE b
<1>1. /\ t \in Seq(Nat) /\ Len(t) = Len(q) - 1 /\ Head(q) = q[1]
      /\ \A i \in 1..Len(t) : t[i] = q[i + 1]
  BY HeadTailProperties
<1>2. Len(q) \in Nat \ {0} /\ DOMAIN q = 1..Len(q) /\ DOMAIN t = 1..Len(t)
  BY <1>1, LenProperties, EmptySeq
<1> HIDE DEF t
<1>3. ASSUME NEW j \in Spots(W, t) PROVE j + 1 \in Spots(W, q) /\ t[j] = q[j + 1]
  <2>1. j \in 1..Len(t) /\ t[j] \in W
    BY <1>2 DEF Spots
  <2>2. j + 1 \in 1..Len(q)
    BY <1>1, <1>2, <2>1, Shift
  <2> QED
    BY <1>1, <1>2, <2>1, <2>2 DEF Spots
<1>4. \A j \in Spots(W, q) : j # 1 => j - 1 \in Spots(W, t)
  <2>1. ASSUME NEW j \in Spots(W, q), j # 1 PROVE j - 1 \in Spots(W, t)
    <3>1. j - 1 \in 1..Len(t) /\ (j - 1) + 1 = j
      <4>1. j \in 1..Len(q)
        BY <1>2 DEF Spots
      <4> QED
        BY <1>1, <1>2, <2>1, <4>1, Shift
    <3>2. t[j - 1] = q[j]
      BY <1>1, <3>1
    <3> QED
      BY <1>2, <3>1, <3>2 DEF Spots
  <2> QED
    BY <2>1
<1>5. CASE Spots(W, t) # {}
  <2>1. PICK j \in Spots(W, t) : (\A i \in Spots(W, t) : i <= j) /\ Fate(W, t, d) = t[j]
    BY <1>1, <1>5, FateLast
  <2>2. j + 1 \in Spots(W, q) /\ t[j] = q[j + 1]
    BY <1>3
  <2>3. ASSUME NEW i \in Spots(W, q) PROVE i <= j + 1
    <3>1. i \in Nat /\ j \in Nat
      BY <1>2 DEF Spots
    <3>2. CASE i = 1
      BY <3>1, <3>2
    <3>3. CASE i # 1
      <4>1. i - 1 <= j
        BY <1>4, <2>1, <3>3
      <4> QED
        BY <3>1, <4>1
    <3> QED
      BY <3>2, <3>3
  <2>4. Fate(W, q, b) = q[j + 1]
    BY <2>2, <2>3, FateIs
  <2> QED
    BY <2>1, <2>2, <2>4 DEF t
<1>6. CASE Spots(W, t) = {}
  <2>1. Fate(W, t, d) = d
    BY <1>1, <1>6, FateLast
  <2>2. \A j \in Spots(W, q) : j = 1
    BY <1>4, <1>6
  <2>3. CASE Head(q) \in W
    <3>1. 1 \in Spots(W, q) /\ \A i \in Spots(W, q) : i <= 1
      BY <1>1, <1>2, <2>2, <2>3 DEF Spots
    <3>2. Fate(W, q, b) = q[1]
      BY <3>1, FateIs
    <3> QED
      BY <1>1, <2>1, <2>3, <3>2 DEF t
  <2>4. CASE Head(q) \notin W
    <3>1. Spots(W, q) = {}
      BY <1>1, <2>2, <2>4 DEF Spots
    <3> QED
      BY <2>1, <2>4, <3>1, FateLast DEF t
  <2> QED
    BY <2>3, <2>4
<1> QED
  BY <1>5, <1>6

\* Sets that agree on what is in q.
LEMMA FateSame ==
    ASSUME NEW W, NEW V, NEW q \in Seq(Nat), \A j \in DOMAIN q : q[j] \in W <=> q[j] \in V, NEW b
    PROVE  Fate(W, q, b) = Fate(V, q, b)
<1>1. Spots(W, q) = Spots(V, q)
  BY DEF Spots
<1>2. CASE Spots(W, q) = {}
  BY <1>1, <1>2, FateLast
<1>3. CASE Spots(W, q) # {}
  <2>1. PICK j \in Spots(W, q) : (\A i \in Spots(W, q) : i <= j) /\ Fate(W, q, b) = q[j]
    BY <1>3, FateLast
  <2>2. j \in Spots(V, q) /\ \A i \in Spots(V, q) : i <= j
    BY <1>1, <2>1
  <2>3. Fate(V, q, b) = q[j]
    BY <2>2, FateIs
  <2> QED
    BY <2>1, <2>3
<1> QED
  BY <1>2, <1>3

\* What is read from an ascending sequence is the greatest of it.
LEMMA FateAscending ==
    ASSUME NEW W, NEW q \in Seq(Nat), Ascending(W, q), NEW b
    PROVE  /\ \A j \in DOMAIN q : q[j] \in W => q[j] <= Fate(W, q, b)
           /\ (\A j \in DOMAIN q : q[j] \notin W) => Fate(W, q, b) = b
<1>1. Len(q) \in Nat /\ DOMAIN q = 1..Len(q) /\ \A j \in DOMAIN q : q[j] \in Nat
  BY LenProperties, ElementOfSeq
<1>2. ASSUME NEW j \in DOMAIN q, q[j] \in W PROVE q[j] <= Fate(W, q, b)
  <2>1. j \in Spots(W, q)
    BY <1>2 DEF Spots
  <2>2. PICK k \in Spots(W, q) : (\A i \in Spots(W, q) : i <= k) /\ Fate(W, q, b) = q[k]
    BY <2>1, FateLast
  <2>3. k \in DOMAIN q /\ q[k] \in W /\ j <= k
    BY <2>1, <2>2 DEF Spots
  <2>4. j = k \/ j < k
    BY <1>1, <2>3
  <2>5. q[j] <= q[k]
    BY <1>1, <1>2, <2>3, <2>4 DEF Ascending
  <2> QED
    BY <2>2, <2>5
<1>3. ASSUME \A j \in DOMAIN q : q[j] \notin W PROVE Fate(W, q, b) = b
  BY <1>3, FateLast DEF Spots
<1> QED
  BY <1>2, <1>3

\* A fate is a number.
LEMMA FateNat ==
    ASSUME NEW W, NEW q \in Seq(Nat), NEW b \in Nat
    PROVE  Fate(W, q, b) \in Nat
<1>1. \A j \in DOMAIN q : q[j] \in Nat
  BY LenProperties, ElementOfSeq
<1>2. CASE Spots(W, q) = {}
  BY <1>2, FateLast
<1>3. CASE Spots(W, q) # {}
  <2>1. PICK j \in Spots(W, q) : Fate(W, q, b) = q[j]
    BY <1>3, FateLast
  <2> QED
    BY <1>1, <2>1 DEF Spots
<1> QED
  BY <1>2, <1>3

-----------------------------------------------------------------------------
(* The namespace watch and the cache.                                      *)

\* The versions of the cached name are resourceVersions.
LEMMA MineFacts ==
    ASSUME ServerOK
    PROVE  /\ Len(history) \in Nat /\ DOMAIN history = 1..Len(history)
           /\ Mine \subseteq 1..Len(history) /\ Stored(CacheKey) \subseteq Mine
           /\ 0 \notin Mine
<1>1. Len(history) \in Nat /\ DOMAIN history = 1..Len(history)
  BY LenProperties DEF ServerOK
<1>2. Mine \subseteq 1..Len(history) /\ Stored(CacheKey) \subseteq Mine
  BY <1>1 DEF Mine, WritesOf, Stored
<1> QED
  BY <1>1, <1>2

\* Only a commit changes what was written.
LEMMA MineSame ==
    ASSUME history' = history
    PROVE  Mine' = Mine /\ Stored(CacheKey)' = Stored(CacheKey)
BY DEF Mine, WritesOf, Stored

\* A commit changes nothing about earlier writes.
LEMMA MineCommit ==
    ASSUME ServerOK, NEW k \in Keys, NEW deleted \in BOOLEAN, Commit(k, deleted)
    PROVE  /\ Len(history)' = Len(history) + 1 /\ DOMAIN history' = 1..(Len(history) + 1)
           /\ \A r \in 1..Len(history) :
                 /\ history'[r] = history[r]
                 /\ r \in Mine' <=> r \in Mine
                 /\ r \in Stored(CacheKey)' <=> r \in Stored(CacheKey)
           /\ Mine \subseteq Mine'
           /\ Mine' \subseteq 1..(Len(history) + 1) /\ Stored(CacheKey)' \subseteq Mine'
<1> DEFINE n == Len(history)
           e == [key |-> k, deleted |-> deleted]
<1>1. n \in Nat /\ DOMAIN history = 1..n /\ history \in Seq(Write) /\ e \in Write
  BY LenProperties DEF ServerOK, Write
<1>2. history' = Append(history, e)
  BY DEF Commit
<1> HIDE DEF e
<1>3. /\ history' \in Seq(Write) /\ Len(history)' = n + 1
      /\ \A r \in 1..n : history'[r] = history[r]
  BY <1>1, <1>2, AppendProperties
<1>4. DOMAIN history' = 1..(n + 1)
  BY <1>3, LenProperties
<1>5. \A r \in 1..n : r \in DOMAIN history /\ r \in DOMAIN history' /\ history'[r] = history[r]
  BY <1>1, <1>3, <1>4
<1> HIDE DEF n
<1>6. \A r \in 1..n : (r \in Mine' <=> r \in Mine) /\ (r \in Stored(CacheKey)' <=> r \in Stored(CacheKey))
  BY <1>5 DEF Mine, WritesOf, Stored
<1>7. Mine \subseteq Mine'
  BY <1>1, <1>5 DEF Mine, WritesOf, n
<1>8. Mine' \subseteq 1..(n + 1) /\ Stored(CacheKey)' \subseteq Mine'
  BY <1>4 DEF Mine, WritesOf, Stored
<1> QED
  BY <1>3, <1>4, <1>5, <1>6, <1>7, <1>8 DEF n

\* A commit leaves what the watch reported as it was.
LEMMA CommitLog ==
    ASSUME ServerOK, LogInv, NEW k \in Keys, NEW deleted \in BOOLEAN, Commit(k, deleted)
    PROVE  LogInv'
<1>1. UNCHANGED <<watch, pending, seen, log>>
  BY DEF Commit, watchVars
<1>2. /\ Len(history) \in Nat /\ seen \in Nat /\ seen <= Len(history)
      /\ Range(log) \subseteq 1..seen /\ Range(pending) \subseteq 1..seen
      /\ \A r \in 1..seen : r \in 1..Len(history)
  BY MineFacts DEF LogInv, ServerOK
<1>3. /\ Len(history)' = Len(history) + 1
      /\ \A r \in 1..seen : /\ r \in Mine' <=> r \in Mine
                            /\ r \in Stored(CacheKey)' <=> r \in Stored(CacheKey)
      /\ Mine \subseteq Mine' /\ Stored(CacheKey)' \subseteq 1..(Len(history) + 1)
  BY <1>2, MineCommit
<1>4. /\ \A i \in DOMAIN log : log[i] \in 1..seen
      /\ \A i \in DOMAIN pending : pending[i] \in 1..seen
  BY <1>2 DEF Range
<1>5. (seen <= Len(history))' /\ (Range(log) \cup Range(pending) \subseteq 1..seen)'
  BY <1>1, <1>2, <1>3
<1>6. (watch # "on" => log = <<>> /\ pending = <<>>)'
  BY <1>1 DEF LogInv
<1>7. /\ \A i, j \in DOMAIN log :
             i < j /\ log[i] \in Mine' /\ log[j] \in Mine' => log[i] <= log[j]
      /\ \A i, j \in DOMAIN pending :
             i < j /\ pending[i] \in Mine' /\ pending[j] \in Mine' => pending[i] <= pending[j]
      /\ \A i \in DOMAIN log, j \in DOMAIN pending :
             log[i] \in Mine' /\ pending[j] \in Mine' => log[i] <= pending[j]
  BY <1>3, <1>4 DEF LogInv, Ascending
<1>8. ASSUME watch = "on", NEW r \in Stored(CacheKey)', r <= seen,
             \A q \in Mine' : q <= seen => q <= r
      PROVE  r \in Range(log) \cup Range(pending)
  <2>1. r \in 1..seen
    BY <1>2, <1>3, <1>8
  <2>2. r \in Stored(CacheKey) /\ \A q \in Mine : q <= seen => q <= r
    BY <1>3, <1>8, <2>1
  <2> QED
    BY <1>8, <2>2 DEF LogInv
<1>9. (watch = "on" =>
          \A r \in Stored(CacheKey) :
              r <= seen /\ (\A q \in Mine : q <= seen => q <= r) =>
                  r \in Range(log) \cup Range(pending))'
  BY <1>1, <1>8
<1> QED
  BY <1>1, <1>5, <1>6, <1>7, <1>9 DEF LogInv, Ascending

\* The initial list reports the latest version of the cached name, once.
LEMMA ListLog ==
    ASSUME ServerOK, LogInv, ListObjects
    PROVE  LogInv'
<1>1. /\ watch' = "on" /\ pending' = Listing /\ seen' = Len(history)
      /\ history' = history /\ log' = <<>>
  BY DEF ListObjects, LogInv
<1>2. Mine' = Mine /\ Stored(CacheKey)' = Stored(CacheKey)
  BY <1>1, MineSame
<1>3. /\ Len(history) \in Nat /\ Mine \subseteq 1..Len(history) /\ Stored(CacheKey) \subseteq Mine
  BY MineFacts
<1>4. DOMAIN <<>> = {} /\ Range(<<>>) = {}
  BY DEF Range
<1>5. ASSUME NEW i \in DOMAIN Listing
      PROVE  Listing[i] \in 1..Len(history) /\ (Listing[i] \in Mine => Listing[i] = Latest(CacheKey))
  <2>1. PICK k \in Keys : Exists(k) /\ Listing[i] = Latest(k)
    BY ListingFacts
  <2>2. Latest(k) \in WritesOf(k) /\ Latest(k) \in 1..Len(history)
    BY <2>1, LatestFacts DEF Exists
  <2>3. Latest(k) \in Mine => k = CacheKey
    BY <2>2 DEF Mine, WritesOf
  <2> QED
    BY <2>1, <2>2, <2>3
<1>6. Ascending(Mine, Listing)
  <2>1. ASSUME NEW i \in DOMAIN Listing, NEW j \in DOMAIN Listing,
               Listing[i] \in Mine, Listing[j] \in Mine
        PROVE  Listing[i] <= Listing[j]
    <3>1. Listing[i] = Listing[j] /\ Listing[i] \in Nat
      BY <1>5, <2>1
    <3> QED
      BY <3>1
  <2> QED
    BY <2>1 DEF Ascending
<1>7. ASSUME NEW r \in Stored(CacheKey), \A q \in Mine : q <= Len(history) => q <= r
      PROVE  r \in Range(Listing)
  <2>1. r \in WritesOf(CacheKey) /\ ~history[r].deleted
    BY DEF Stored
  <2>2. /\ Latest(CacheKey) \in WritesOf(CacheKey) /\ Latest(CacheKey) \in 1..Len(history)
        /\ r <= Latest(CacheKey)
    BY <2>1, LatestFacts
  <2>3. Latest(CacheKey) <= r
    BY <1>3, <1>7, <2>2 DEF Mine
  <2>4. r = Latest(CacheKey)
    <3>1. r \in 1..Len(history)
      BY <1>3
    <3> QED
      BY <2>2, <2>3, <3>1
  <2>5. Exists(CacheKey) /\ CacheKey \in Keys
    BY <2>1, <2>4, DeliveryAssumption DEF Exists
  <2>6. PICK i \in DOMAIN Listing : Listing[i] = Latest(CacheKey)
    BY <2>5, ListingFacts
  <2> QED
    BY <2>4, <2>6 DEF Range
<1>8. Range(Listing) \subseteq 1..Len(history)
  BY <1>5 DEF Range
<1>9. Ascending(Mine, <<>>)
  BY <1>4 DEF Ascending
<1>10. Len(history) <= Len(history)
  BY <1>3
<1> HIDE DEF Listing
<1> QED
  BY <1>1, <1>2, <1>4, <1>6, <1>7, <1>8, <1>9, <1>10 DEF LogInv

\* The next object of the list goes to the replay buffer.
LEMMA ListedLog ==
    ASSUME ServerOK, LogInv, watch = "on", pending # <<>>, log' = Append(log, Head(pending)),
           pending' = Tail(pending), UNCHANGED <<history, watch, seen>>
    PROVE  LogInv'
<1> DEFINE x == Head(pending)
           t == Tail(pending)
           g == Append(log, x)
<1>1. /\ pending \in Seq(Nat) /\ log \in Seq(Nat) /\ Len(log) \in Nat /\ seen \in Nat
      /\ DOMAIN log = 1..Len(log)
  BY LenProperties DEF ServerOK
<1>2. /\ t \in Seq(Nat) /\ Len(t) = Len(pending) - 1 /\ x = pending[1] /\ x \in Nat
      /\ \A i \in 1..Len(t) : t[i] = pending[i + 1]
  BY <1>1, HeadTailProperties
<1>3. Len(pending) \in Nat \ {0} /\ DOMAIN pending = 1..Len(pending) /\ DOMAIN t = 1..Len(t)
  BY <1>1, <1>2, LenProperties, EmptySeq
<1> HIDE DEF x, t
<1>4. /\ g \in Seq(Nat) /\ Len(g) = Len(log) + 1 /\ g[Len(log) + 1] = x
      /\ \A i \in 1..Len(log) : g[i] = log[i]
  BY <1>1, <1>2, AppendProperties
<1>5. DOMAIN g = 1..(Len(log) + 1)
  BY <1>4, LenProperties
<1> HIDE DEF g
<1>6. \A i \in DOMAIN g : (i \in DOMAIN log /\ g[i] = log[i]) \/ (i = Len(log) + 1 /\ g[i] = x)
  BY <1>1, <1>4, <1>5
<1>7. \A i \in DOMAIN t : i + 1 \in DOMAIN pending /\ i + 1 > 1 /\ t[i] = pending[i + 1]
  BY <1>2, <1>3
<1>8. 1 \in DOMAIN pending /\ x = pending[1]
  BY <1>2, <1>3
<1>9. Mine' = Mine /\ Stored(CacheKey)' = Stored(CacheKey)
  BY MineSame
<1>10. Range(g) \cup Range(t) = Range(log) \cup Range(pending)
  <2>1. \A i \in DOMAIN log : i \in DOMAIN g /\ g[i] = log[i]
    BY <1>1, <1>4, <1>5
  <2>2. Len(log) + 1 \in DOMAIN g
    BY <1>1, <1>5
  <2>3. ASSUME NEW i \in DOMAIN pending, i # 1 PROVE i - 1 \in DOMAIN t /\ t[i - 1] = pending[i]
    <3>1. i - 1 \in 1..Len(t) /\ (i - 1) + 1 = i
      BY <1>2, <1>3, <2>3
    <3> QED
      BY <1>2, <1>3, <3>1
  <2>4. \A y \in Range(g) : y \in Range(log) \cup Range(pending)
    BY <1>6, <1>8 DEF Range
  <2>5. \A y \in Range(t) : y \in Range(pending)
    BY <1>7 DEF Range
  <2>6. \A y \in Range(log) : y \in Range(g)
    BY <2>1 DEF Range
  <2>7. \A y \in Range(pending) : y \in Range(g) \cup Range(t)
    <3>1. ASSUME NEW i \in DOMAIN pending PROVE pending[i] \in Range(g) \cup Range(t)
      <4>1. CASE i = 1
        BY <1>4, <1>8, <2>2, <4>1 DEF Range
      <4>2. CASE i # 1
        BY <2>3, <4>2 DEF Range
      <4> QED
        BY <4>1, <4>2
    <3> QED
      BY <3>1 DEF Range
  <2> QED
    BY <2>4, <2>5, <2>6, <2>7
<1>11. Ascending(Mine, g)
  <2>1. ASSUME NEW i \in DOMAIN g, NEW j \in DOMAIN g, i < j, g[i] \in Mine, g[j] \in Mine
        PROVE  g[i] <= g[j]
    <3>1. i \in DOMAIN log /\ g[i] = log[i]
      BY <1>1, <1>5, <1>6, <2>1
    <3>2. CASE j \in DOMAIN log /\ g[j] = log[j]
      BY <2>1, <3>1, <3>2 DEF LogInv, Ascending
    <3>3. CASE g[j] = x
      BY <1>8, <2>1, <3>1, <3>3 DEF LogInv
    <3> QED
      BY <1>6, <3>2, <3>3
  <2> QED
    BY <2>1 DEF Ascending
<1>12. Ascending(Mine, t)
  <2>1. ASSUME NEW i \in DOMAIN t, NEW j \in DOMAIN t, i < j, t[i] \in Mine, t[j] \in Mine
        PROVE  t[i] <= t[j]
    <3>1. i + 1 < j + 1
      BY <1>2, <1>3, <2>1
    <3> QED
      BY <1>7, <2>1, <3>1 DEF LogInv, Ascending
  <2> QED
    BY <2>1 DEF Ascending
<1>13. ASSUME NEW i \in DOMAIN g, NEW j \in DOMAIN t, g[i] \in Mine, t[j] \in Mine
       PROVE  g[i] <= t[j]
  <2>1. j + 1 \in DOMAIN pending /\ 1 < j + 1 /\ t[j] = pending[j + 1]
    BY <1>2, <1>3, <1>7
  <2>2. CASE i \in DOMAIN log /\ g[i] = log[i]
    BY <1>13, <2>1, <2>2 DEF LogInv
  <2>3. CASE g[i] = x
    BY <1>8, <1>13, <2>1, <2>3 DEF LogInv, Ascending
  <2> QED
    BY <1>6, <2>2, <2>3
<1>14. log' = g /\ pending' = t
  BY DEF g, t, x
<1> QED
  BY <1>9, <1>10, <1>11, <1>12, <1>13, <1>14 DEF LogInv

\* The next write goes to the replay buffer.
LEMMA WatchedLog ==
    ASSUME ServerOK, LogInv, watch = "on", pending = <<>>, seen < Len(history),
           log' = Append(log, seen + 1), seen' = seen + 1, UNCHANGED <<history, watch, pending>>
    PROVE  LogInv'
<1> DEFINE x == seen + 1
           g == Append(log, x)
<1>1. /\ log \in Seq(Nat) /\ Len(log) \in Nat /\ seen \in Nat /\ x \in Nat /\ seen < x
      /\ DOMAIN log = 1..Len(log) /\ Len(history) \in Nat /\ x <= Len(history)
      /\ \A r \in 1..seen : r \in 1..x /\ r <= x
  BY LenProperties, MineFacts DEF ServerOK
<1>2. /\ g \in Seq(Nat) /\ Len(g) = Len(log) + 1 /\ g[Len(log) + 1] = x
      /\ \A i \in 1..Len(log) : g[i] = log[i]
  BY <1>1, AppendProperties
<1>3. DOMAIN g = 1..(Len(log) + 1)
  BY <1>2, LenProperties
<1> HIDE DEF g
<1>4. /\ \A i \in DOMAIN g : (i \in DOMAIN log /\ g[i] = log[i]) \/ (i = Len(log) + 1 /\ g[i] = x)
      /\ \A i \in DOMAIN log : i \in DOMAIN g /\ g[i] = log[i]
      /\ Len(log) + 1 \in DOMAIN g
  BY <1>1, <1>2, <1>3
<1>5. DOMAIN pending = {} /\ Range(pending) = {}
  BY DEF Range
<1>6. \A i \in DOMAIN log : log[i] \in 1..seen
  BY DEF LogInv, Range
<1>7. Mine' = Mine /\ Stored(CacheKey)' = Stored(CacheKey)
  BY MineSame
<1>8. Range(g) \subseteq 1..x /\ Range(log) \subseteq Range(g) /\ x \in Range(g)
  <2>1. x \in 1..x
    BY <1>1
  <2>2. ASSUME NEW i \in DOMAIN g PROVE g[i] \in 1..x
    BY <1>1, <1>4, <1>6, <2>1
  <2> QED
    BY <1>2, <1>4, <2>2 DEF Range
<1>9. Ascending(Mine, g)
  <2>1. ASSUME NEW i \in DOMAIN g, NEW j \in DOMAIN g, i < j, g[i] \in Mine, g[j] \in Mine
        PROVE  g[i] <= g[j]
    <3>1. i \in DOMAIN log /\ g[i] = log[i]
      BY <1>1, <1>3, <1>4, <2>1
    <3>2. CASE j \in DOMAIN log /\ g[j] = log[j]
      BY <2>1, <3>1, <3>2 DEF LogInv, Ascending
    <3>3. CASE g[j] = x
      BY <1>1, <1>6, <3>1, <3>3
    <3> QED
      BY <1>4, <3>2, <3>3
  <2> QED
    BY <2>1 DEF Ascending
<1>10. ASSUME NEW r \in Stored(CacheKey), r <= x, \A q \in Mine : q <= x => q <= r
       PROVE  r \in Range(g)
  <2>1. r \in Nat
    BY MineFacts
  <2>2. CASE r = x
    BY <1>8, <2>2
  <2>3. CASE r # x
    <3>1. r <= seen
      BY <1>1, <1>10, <2>1, <2>3
    <3>2. \A q \in Mine : q <= seen => q <= x
      BY <1>1, MineFacts
    <3>3. r \in Range(log)
      BY <1>5, <1>10, <3>1, <3>2 DEF LogInv
    <3> QED
      BY <1>8, <3>3
  <2> QED
    BY <2>2, <2>3
<1>11. log' = g /\ seen' = x /\ Ascending(Mine, pending)
  BY DEF g, LogInv
<1> HIDE DEF x
<1> QED
  BY <1>1, <1>5, <1>7, <1>8, <1>9, <1>10, <1>11 DEF LogInv

\* A watch that is not on has reported nothing.
LEMMA NoLog ==
    ASSUME ServerOK', watch' # "on", log' = <<>>, pending' = <<>>, seen' <= Len(history)'
    PROVE  LogInv'
<1>1. DOMAIN log' = {} /\ DOMAIN pending' = {} /\ Range(log)' = {} /\ Range(pending)' = {}
  BY DEF Range
<1> QED
  BY <1>1 DEF LogInv, Ascending

\* Every step keeps the report in order and complete.
LEMMA NextLog == ServerOK /\ ServerOK' /\ LogInv /\ [Next]_vars => LogInv'
<1> SUFFICES ASSUME ServerOK, ServerOK', LogInv, [Next]_vars PROVE LogInv'
  OBVIOUS
<1> USE DEF watchVars
<1>1. ASSUME UNCHANGED <<history, watch, pending, seen, log>> PROVE LogInv'
  BY <1>1, MineSame DEF LogInv, Ascending
<1>2. ASSUME StopWatch, history' = history PROVE LogInv'
  <2>1. Len(history) \in Nat
    BY MineFacts
  <2>2. seen' <= Len(history)'
    BY <1>2, <2>1 DEF StopWatch
  <2> QED
    BY <1>2, <2>2, NoLog DEF StopWatch
<1>3. ASSUME StartWatch, history' = history PROVE LogInv'
  <2>1. CASE watch = "off"
    <3>1. watch' = "starting" /\ UNCHANGED <<pending, seen, log>>
      BY <1>3, <2>1 DEF StartWatch
    <3> QED
      BY <1>3, <2>1, <3>1, NoLog DEF LogInv
  <2>2. CASE watch # "off"
    BY <1>1, <1>3, <2>2 DEF StartWatch
  <2> QED
    BY <2>1, <2>2
<1>4. CASE process_namespace_event
  BY <1>4, ListedLog, WatchedLog DEF process_namespace_event
<1>5. CASE ServerStep
  BY <1>1, <1>4, <1>5, ListLog DEF ServerStep, CacheEvent, CacheRelist, send_to_all
<1>6. CASE WatchEnds \/ WatchCollected \/ OtherSubscriber \/ ServerRestart
  BY <1>2, <1>3, <1>6 DEF WatchEnds, WatchCollected, OtherSubscriber, ServerRestart
<1>7. ASSUME NEW c \in Clients, StreamStep(c) \/ ClientStep(c) \/ ConnectionLost(c)
      PROVE  LogInv'
  <2>1. CASE handle_subscribe(c)
    BY <1>3, <2>1 DEF handle_subscribe
  <2>2. CASE ~handle_subscribe(c)
    <3>1. UNCHANGED <<history, watchVars>>
      BY <1>7, <2>2
      DEF StreamStep, ClientStep, ConnectionLost, SubscribeRefused, LookupHit, LookupMiss,
          TakeSnapshot, ReadPostSnapshot, try_send_or_disconnect, bridge_broadcast, apply, StreamEnd
    <3> QED
      BY <1>1, <3>1
  <2> QED
    BY <2>1, <2>2
<1>8. CASE UNCHANGED vars
  BY <1>1, <1>8 DEF vars
<1> QED
  BY <1>5, <1>6, <1>7, <1>8, CommitLog DEF Next

\* Every step keeps the cache filled while somebody is subscribed.
LEMMA NextCache == ServerOK /\ StreamsOK /\ CacheInv /\ [Next]_vars => CacheInv'
<1> SUFFICES ASSUME ServerOK, StreamsOK, CacheInv, [Next]_vars PROVE CacheInv'
  OBVIOUS
<1> USE DEF watchVars
<1>1. ASSUME Mine \subseteq Mine', cache' \in Mine \cup {0}, cache' = 0 => cache = 0,
             \A c \in Clients : Attached(c)' => Attached(c) \/ cache # 0
      PROVE  CacheInv'
  BY <1>1 DEF CacheInv
<1>2. history' = history => Mine \subseteq Mine'
  BY MineSame
<1>3. cache \in Mine \cup {0} /\ 0 \notin Mine
  BY MineFacts DEF CacheInv
<1>4. stream' = stream => \A c \in Clients : Attached(c)' = Attached(c)
  BY DEF Attached
<1>5. ASSUME NEW k \in Keys, NEW deleted \in BOOLEAN, Commit(k, deleted) PROVE CacheInv'
  <2>1. Mine \subseteq Mine' /\ cache' = cache /\ stream' = stream
    BY <1>5, MineCommit DEF Commit
  <2> QED
    BY <1>1, <1>3, <1>4, <2>1
<1>6. CASE CacheEvent \/ CacheRelist
  <2>1. history' = history /\ stream' = stream
    BY <1>6 DEF CacheEvent, CacheRelist
  <2>2. cache' \in Mine
    <3>1. CASE CacheEvent
      BY <3>1, MineFacts DEF CacheEvent
    <3>2. CASE CacheRelist
      BY <3>2, LatestFacts DEF CacheRelist, Exists, Mine
    <3> QED
      BY <1>6, <3>1, <3>2
  <2> QED
    BY <1>1, <1>2, <1>3, <1>4, <2>1, <2>2
<1>7. CASE UNCHANGED <<history, cache, stream>>
  BY <1>1, <1>2, <1>3, <1>4, <1>7
<1>8. CASE send_to_all \/ WatchEnds
  <2>1. ASSUME NEW c \in Clients, Attached(c)' PROVE Attached(c)
    <3>1. stream[c] \in Stream
      BY DEF StreamsOK
    <3>2. \A r : Receive(stream[c], r).phase = stream[c].phase
      BY <3>1 DEF Receive, Stream
    <3>3. [stream[c] EXCEPT !.closed = TRUE, !.kept = Buffer].phase = stream[c].phase
      BY <3>1 DEF Stream
    <3>4. stream'[c].phase = stream[c].phase
      BY <1>8, <3>2, <3>3 DEF send_to_all, WatchEnds
    <3> QED
      BY <2>1, <3>4 DEF Attached
  <2>2. history' = history /\ cache' = cache
    BY <1>8 DEF send_to_all, WatchEnds
  <2> QED
    BY <1>1, <1>2, <1>3, <2>1, <2>2
<1>9. CASE ServerRestart
  <2>1. cache' = 0 /\ \A c \in Clients : stream'[c].phase = "down"
    BY <1>9 DEF ServerRestart, NoStream
  <2> QED
    BY <2>1 DEF CacheInv, Attached
<1>10. ASSUME NEW c \in Clients, StreamStep(c) \/ ClientStep(c) \/ ConnectionLost(c)
       PROVE  CacheInv'
  <2>1. history' = history /\ cache' = cache
    BY <1>10
    DEF StreamStep, ClientStep, ConnectionLost, SubscribeRefused, LookupHit, LookupMiss,
        TakeSnapshot, ReadPostSnapshot, try_send_or_disconnect, bridge_broadcast, apply, StreamEnd,
        handle_subscribe
  <2>2. \A d \in Clients : d # c => stream'[d] = stream[d]
    BY <1>10
    DEF StreamStep, ClientStep, ConnectionLost, SubscribeRefused, LookupHit, LookupMiss,
        TakeSnapshot, ReadPostSnapshot, try_send_or_disconnect, bridge_broadcast, apply, StreamEnd,
        handle_subscribe, Offer, StreamsOK
  <2>3. Attached(c) \/ cache # 0 \/ ~Attached(c)'
    <3>1. CASE handle_subscribe(c)
      BY <3>1 DEF handle_subscribe
    <3>2. CASE SubscribeRefused(c) \/ apply(c)
      BY <3>2 DEF SubscribeRefused, apply, Attached
    <3>3. CASE StreamEnd(c) \/ ConnectionLost(c)
      <4>1. stream'[c] = NoStream
        BY <3>3 DEF StreamEnd, ConnectionLost, StreamsOK
      <4> QED
        BY <4>1 DEF Attached, NoStream
    <3>4. CASE \/ LookupHit(c) \/ LookupMiss(c) \/ TakeSnapshot(c) \/ ReadPostSnapshot(c)
               \/ try_send_or_disconnect(c) \/ bridge_broadcast(c)
      BY <3>4
      DEF LookupHit, LookupMiss, TakeSnapshot, ReadPostSnapshot, ResumeTask,
          try_send_or_disconnect, bridge_broadcast, BridgeReady, Attached
    <3> QED
      BY <1>10, <3>1, <3>2, <3>3, <3>4 DEF StreamStep, ClientStep
  <2> QED
    BY <1>1, <1>2, <1>3, <2>1, <2>2, <2>3 DEF Attached
<1>11. CASE UNCHANGED vars
  BY <1>7, <1>11 DEF vars
<1>12. CASE ListObjects \/ process_namespace_event \/ WatchCollected \/ OtherSubscriber
  BY <1>7, <1>12 DEF ListObjects, process_namespace_event, WatchCollected, OtherSubscriber
<1> QED
  BY <1>5, <1>6, <1>8, <1>9, <1>10, <1>11, <1>12 DEF Next, ServerStep

-----------------------------------------------------------------------------
(* One client of the cached name.                                          *)

\* RingInv, ValidInv and PipeInv, of one stream s, channel ib, cursor rs and
\* version shown st.
Ring(s, lg, n) ==
    Up(s) /\ ~s.lagged /\ ~s.closed =>
        /\ Len(s.queue) <= n
        /\ s.phase # "live" => s.from = n - Len(s.queue) + 1
        /\ \A j \in DOMAIN s.queue : s.queue[j] = lg[n - Len(s.queue) + j]

Keeps(rs, st, W, L) == (rs # 0 => rs \in W) /\ (rs \in L => st = rs)

Valid(s, ib, D, W) ==
    /\ Range(s.queue) \cup Range(s.outbox) \cup Range(s.kept) \subseteq D
    /\ Range(ib) \subseteq W

Pipe(s, ib, rs, W, lg, n) ==
    LET told == Fate(W, s.outbox, Fate(W, ib, rs))
    IN  /\ s.phase \in {"down", "lookup", "snapshot"} => ib = <<>> /\ s.outbox = <<>>
        /\ s.phase = "post" => s.floor \in W /\ told = s.floor
        /\ s.phase = "live" /\ ~s.lagged /\ ~s.closed =>
              \A p \in 1..n :
                  lg[p] \in W =>
                      \/ s.floor # 0 /\ p < s.from /\ lg[p] > s.floor
                      \/ lg[p] <= Fate(W, s.queue, told)

Line(s, ib, rs, st) ==
    /\ Ring(s, log, sent)
    /\ Valid(s, ib, DOMAIN history, Mine)
    /\ Keeps(rs, st, Mine, Stored(CacheKey))
    /\ Pipe(s, ib, rs, Mine, log, sent)

LineOf(c) == Line(stream[c], inbox[c], resume[c], store[c][CacheKey])

\* The invariant, client by client.
LEMMA LinesAre ==
    ASSUME NEW c \in Clients
    PROVE  RingInv(c) /\ ValidInv(c) /\ PipeInv(c) <=> LineOf(c)
BY DEF RingInv, ValidInv, PipeInv, LineOf, Line, Ring, Valid, Keeps, Pipe, Up, Attached, Sent, Holds

\* Nothing is in an empty sequence.
LEMMA EmptyFacts == /\ <<>> \in Seq(Nat) /\ Len(<<>>) = 0 /\ DOMAIN <<>> = {} /\ Range(<<>>) = {}
<1>1. <<>> \in Seq(Nat) /\ Len(<<>>) = 0 /\ DOMAIN <<>> = {}
  BY EmptySeq
<1> QED
  BY <1>1 DEF Range

\* No stream, and one that was just attached.
LEMMA LineNone ==
    ASSUME NEW rs, NEW st, Keeps(rs, st, Mine, Stored(CacheKey)), sent \in Nat
    PROVE  Line(NoStream, <<>>, rs, st) /\ Line(Attach, <<>>, rs, st)
<1>1. /\ NoStream.phase = "down" /\ NoStream.queue = <<>> /\ NoStream.outbox = <<>>
      /\ NoStream.kept = <<>>
  BY DEF NoStream
<1>2. /\ Attach.phase = "lookup" /\ Attach.queue = <<>> /\ Attach.outbox = <<>>
      /\ Attach.kept = <<>> /\ Attach.from = sent + 1
  BY DEF Attach, NoStream
<1>3. sent + 1 = sent - 0 + 1 /\ 0 <= sent
  OBVIOUS
<1>4. Line(NoStream, <<>>, rs, st)
  BY <1>1, EmptyFacts DEF Line, Ring, Valid, Pipe, Up
<1>5. Line(Attach, <<>>, rs, st)
  BY <1>2, <1>3, EmptyFacts DEF Line, Ring, Valid, Pipe, Up
<1> QED
  BY <1>4, <1>5

\* The end of a stream.
LEMMA LineEnd ==
    ASSUME NEW s \in Stream, NEW told, NEW ib, NEW rs, NEW st, Range(ib) \subseteq Mine,
           Keeps(rs, st, Mine, Stored(CacheKey))
    PROVE  Line(End(s, told), ib, rs, st)
<1> DEFINE z == End(s, told)
<1>1. z.phase = "ended" /\ z.queue = <<>> /\ z.outbox = <<>> /\ z.kept = <<>>
  BY DEF End, Stream
<1> HIDE DEF z
<1>2. Line(z, ib, rs, st)
  BY <1>1, EmptyFacts DEF Line, Ring, Valid, Pipe, Up
<1> QED
  BY <1>2 DEF z

\* The buffer does not have it.
LEMMA LineMiss ==
    ASSUME NEW s \in Stream, s.phase = "lookup", NEW ib, NEW rs, NEW st, Line(s, ib, rs, st)
    PROVE  Line([s EXCEPT !.phase = "snapshot"], ib, rs, st)
<1> DEFINE z == [s EXCEPT !.phase = "snapshot"]
<1>1. /\ z.phase = "snapshot" /\ z.queue = s.queue /\ z.outbox = s.outbox /\ z.kept = s.kept
      /\ z.from = s.from /\ z.lagged = s.lagged /\ z.closed = s.closed
  BY DEF Stream
<1> HIDE DEF z
<1>2. Line(z, ib, rs, st)
  BY <1>1 DEF Line, Ring, Valid, Pipe, Up
<1> QED
  BY <1>2 DEF z

\* The snapshot is what the client will hold.
LEMMA LineSnapshot ==
    ASSUME ServerOK, NEW v \in Mine, NEW s \in Stream, s.phase = "snapshot",
           NEW ib, NEW rs, NEW st, Line(s, ib, rs, st)
    PROVE  Line([s EXCEPT !.phase = "post", !.outbox = <<v>>, !.floor = v], ib, rs, st)
<1> DEFINE z == [s EXCEPT !.phase = "post", !.outbox = <<v>>, !.floor = v]
<1>1. /\ z.phase = "post" /\ z.queue = s.queue /\ z.outbox = <<v>> /\ z.kept = s.kept
      /\ z.from = s.from /\ z.lagged = s.lagged /\ z.closed = s.closed /\ z.floor = v
  BY DEF Stream
<1> HIDE DEF z
<1>2. v \in Nat /\ v \in DOMAIN history
  BY MineFacts
<1>3. \A b : Fate(Mine, <<v>>, b) = v
  <2>1. <<v>> \in Seq(Nat) /\ 1 \in Spots(Mine, <<v>>) /\ \A i \in Spots(Mine, <<v>>) : i <= 1
    BY <1>2 DEF Spots
  <2>2. \A b : Fate(Mine, <<v>>, b) = <<v>>[1]
    BY <2>1, FateIs
  <2> QED
    BY <2>2
<1>4. Range(<<v>>) = {v}
  BY DEF Range
<1>5. Ring(z, log, sent)
  BY <1>1 DEF Line, Ring, Up
<1>6. Valid(z, ib, DOMAIN history, Mine)
  BY <1>1, <1>2, <1>4 DEF Line, Valid
<1>7. Pipe(z, ib, rs, Mine, log, sent)
  BY <1>1, <1>3 DEF Pipe
<1>8. Line(z, ib, rs, st)
  BY <1>5, <1>6, <1>7 DEF Line
<1> QED
  BY <1>8 DEF z

\* An event that goes into the channel, or that the client does not want, changes
\* nothing about what the client will hold.
LEMMA FateMoves ==
    ASSUME NEW W, NEW q \in Seq(Nat), q # <<>>, NEW ib \in Seq(Nat), NEW rs
    PROVE  LET ic == IF Head(q) \in W THEN Append(ib, Head(q)) ELSE ib
           IN  Fate(W, Tail(q), Fate(W, ic, rs)) = Fate(W, q, Fate(W, ib, rs))
<1>1. Head(q) \in Nat
  BY HeadTailProperties
<1>2. CASE Head(q) \in W
  <2>1. Fate(W, Append(ib, Head(q)), rs) = Head(q)
    BY <1>1, <1>2, FateAppend
  <2> QED
    BY <1>2, <2>1, FateTail
<1>3. CASE Head(q) \notin W
  BY <1>3, FateTail
<1> QED
  BY <1>2, <1>3

\* What was in the tail was in the sequence.
LEMMA RangeTail ==
    ASSUME NEW q \in Seq(Nat), q # <<>>
    PROVE  Head(q) \in Range(q) /\ Range(Tail(q)) \subseteq Range(q)
<1>1. /\ Tail(q) \in Seq(Nat) /\ Len(Tail(q)) = Len(q) - 1 /\ Head(q) = q[1]
      /\ \A i \in 1..Len(Tail(q)) : Tail(q)[i] = q[i + 1]
  BY HeadTailProperties
<1>2. Len(q) \in Nat \ {0} /\ DOMAIN q = 1..Len(q) /\ DOMAIN Tail(q) = 1..Len(Tail(q))
  BY <1>1, LenProperties, EmptySeq
<1>3. \A i \in DOMAIN Tail(q) : i + 1 \in DOMAIN q /\ Tail(q)[i] = q[i + 1]
  BY <1>1, <1>2
<1>4. 1 \in DOMAIN q
  BY <1>2
<1> QED
  BY <1>1, <1>3, <1>4 DEF Range

\* What an appended sequence holds, and nothing else.
LEMMA RangeOfAppend ==
    ASSUME NEW q \in Seq(Nat), NEW r \in Nat
    PROVE  Range(Append(q, r)) \subseteq Range(q) \cup {r}
<1> DEFINE p == Append(q, r)
<1>1. /\ p \in Seq(Nat) /\ Len(p) = Len(q) + 1 /\ p[Len(q) + 1] = r
      /\ \A i \in 1..Len(q) : p[i] = q[i]
  BY AppendProperties
<1>2. Len(q) \in Nat /\ DOMAIN q = 1..Len(q) /\ DOMAIN p = 1..(Len(q) + 1)
  BY <1>1, LenProperties
<1> HIDE DEF p
<1>3. \A i \in DOMAIN p : p[i] = r \/ (i \in DOMAIN q /\ p[i] = q[i])
  BY <1>1, <1>2
<1>4. Range(p) \subseteq Range(q) \cup {r}
  BY <1>3 DEF Range
<1> QED
  BY <1>4 DEF p

\* An event of the outbox is dealt with.
LEMMA LineSend ==
    ASSUME NEW s \in Stream, s.outbox # <<>>, NEW ib \in Seq(Nat), NEW ic, NEW rs, NEW st,
           Line(s, ib, rs, st),
           ic = IF Head(s.outbox) \in Mine THEN Append(ib, Head(s.outbox)) ELSE ib
    PROVE  Line(Dealt([s EXCEPT !.outbox = Tail(s.outbox)], Head(s.outbox)), ic, rs, st)
<1> DEFINE x == Head(s.outbox)
           t == Tail(s.outbox)
           z == Dealt([s EXCEPT !.outbox = t], x)
<1>1. s.outbox \in Seq(Nat)
  BY DEF Stream
<1>2. x \in Nat /\ x \in Range(s.outbox) /\ Range(t) \subseteq Range(s.outbox)
  BY <1>1, RangeTail, HeadTailProperties
<1>3. Fate(Mine, t, Fate(Mine, ic, rs)) = Fate(Mine, s.outbox, Fate(Mine, ib, rs))
  BY <1>1, FateMoves
<1>4. Range(ic) \subseteq Mine
  <2>1. Range(ib) \subseteq Mine
    BY DEF Line, Valid
  <2>2. CASE x \in Mine
    BY <1>2, <2>1, <2>2, RangeOfAppend
  <2>3. CASE x \notin Mine
    BY <2>1, <2>3
  <2> QED
    BY <2>2, <2>3
<1> HIDE DEF x, t
<1>5. /\ z.phase = s.phase /\ z.queue = s.queue /\ z.outbox = t /\ z.kept = s.kept
      /\ z.from = s.from /\ z.lagged = s.lagged /\ z.closed = s.closed /\ z.floor = s.floor
  BY DEF Stream, Dealt
<1> HIDE DEF z
<1>6. Ring(z, log, sent)
  BY <1>5 DEF Line, Ring, Up
<1>7. Valid(z, ic, DOMAIN history, Mine)
  BY <1>2, <1>4, <1>5 DEF Line, Valid
<1>8. Pipe(z, ic, rs, Mine, log, sent)
  BY <1>3, <1>5 DEF Line, Pipe
<1>9. Line(z, ic, rs, st)
  BY <1>6, <1>7, <1>8 DEF Line
<1> QED
  BY <1>9 DEF z, x, t

\* A frame of the ring is dealt with.
LEMMA LineBridge ==
    ASSUME ServerOK, NEW s \in Stream, s.phase = "live", s.outbox = <<>>, s.queue # <<>>,
           NEW ib \in Seq(Nat), NEW ic, NEW rs, NEW st, Line(s, ib, rs, st),
           ic = IF Head(s.queue) \in Mine THEN Append(ib, Head(s.queue)) ELSE ib
    PROVE  Line(Dealt([s EXCEPT !.queue = Tail(s.queue)], Head(s.queue)), ic, rs, st)
<1> DEFINE x == Head(s.queue)
           t == Tail(s.queue)
           z == Dealt([s EXCEPT !.queue = t], x)
<1>1. s.queue \in Seq(Nat) /\ sent \in Nat
  BY LenProperties DEF Stream, ServerOK
<1>2. x \in Nat /\ x \in Range(s.queue) /\ Range(t) \subseteq Range(s.queue)
  BY <1>1, RangeTail, HeadTailProperties
<1>3. Fate(Mine, t, Fate(Mine, ic, rs)) = Fate(Mine, s.queue, Fate(Mine, ib, rs))
  BY <1>1, FateMoves
<1>4. Range(ic) \subseteq Mine
  <2>1. Range(ib) \subseteq Mine
    BY DEF Line, Valid
  <2>2. CASE x \in Mine
    BY <1>2, <2>1, <2>2, RangeOfAppend
  <2>3. CASE x \notin Mine
    BY <2>1, <2>3
  <2> QED
    BY <2>2, <2>3
<1>5. /\ t \in Seq(Nat) /\ Len(t) = Len(s.queue) - 1
      /\ \A i \in 1..Len(t) : t[i] = s.queue[i + 1]
  BY <1>1, HeadTailProperties
<1>6. /\ Len(s.queue) \in Nat \ {0} /\ DOMAIN s.queue = 1..Len(s.queue) /\ DOMAIN t = 1..Len(t)
  BY <1>1, <1>5, LenProperties, EmptySeq
<1> HIDE DEF x, t
<1>7. /\ z.phase = s.phase /\ z.queue = t /\ z.outbox = s.outbox /\ z.kept = s.kept
      /\ z.from = s.from /\ z.lagged = s.lagged /\ z.closed = s.closed /\ z.floor = s.floor
  BY DEF Stream, Dealt
<1> HIDE DEF z
<1>8. Ring(z, log, sent)
  <2> SUFFICES ASSUME ~s.lagged, ~s.closed
               PROVE  Len(t) <= sent /\ \A j \in DOMAIN t : t[j] = log[sent - Len(t) + j]
    BY <1>7 DEF Ring
  <2>1. /\ Len(s.queue) <= sent
        /\ \A j \in DOMAIN s.queue : s.queue[j] = log[sent - Len(s.queue) + j]
    BY DEF Line, Ring, Up
  <2>2. ASSUME NEW j \in DOMAIN t PROVE t[j] = log[sent - Len(t) + j]
    <3>1. PICK m \in Nat \ {0} : m = Len(s.queue)
      BY <1>6
    <3>2. Len(t) = m - 1 /\ DOMAIN t = 1..(m - 1) /\ DOMAIN s.queue = 1..m
      BY <1>5, <1>6, <3>1
    <3>3. j + 1 \in DOMAIN s.queue /\ sent - m + (j + 1) = sent - (m - 1) + j
      BY <1>1, <3>2, Shift
    <3>4. t[j] = s.queue[j + 1]
      BY <1>5, <1>6
    <3> QED
      BY <2>1, <3>1, <3>2, <3>3, <3>4
  <2>3. Len(t) <= sent
    BY <1>1, <1>5, <1>6, <2>1
  <2> QED
    BY <2>2, <2>3
<1>9. Valid(z, ic, DOMAIN history, Mine)
  BY <1>2, <1>4, <1>7 DEF Line, Valid
<1>10. Pipe(z, ic, rs, Mine, log, sent)
  BY <1>3, <1>7, FateEmpty DEF Line, Pipe
<1>11. Line(z, ic, rs, st)
  BY <1>8, <1>9, <1>10 DEF Line
<1> QED
  BY <1>11 DEF z, x, t

\* The client handles the first event of its channel.
LEMMA LineApply ==
    ASSUME ServerOK, NEW s \in Stream, NEW ib \in Seq(Nat), ib # <<>>, NEW rs, NEW st,
           Line(s, ib, rs, st), NEW sv, Head(ib) \in Stored(CacheKey) => sv = Head(ib)
    PROVE  Line(s, Tail(ib), Head(ib), sv)
<1>1. Head(ib) \in Mine /\ Range(Tail(ib)) \subseteq Mine
  BY RangeTail DEF Line, Valid
<1>2. Fate(Mine, Tail(ib), Head(ib)) = Fate(Mine, ib, rs)
  BY <1>1, FateTail
<1>3. Keeps(Head(ib), sv, Mine, Stored(CacheKey))
  BY <1>1 DEF Keeps
<1>4. Valid(s, Tail(ib), DOMAIN history, Mine)
  BY <1>1 DEF Line, Valid
<1>5. Pipe(s, Tail(ib), Head(ib), Mine, log, sent)
  BY <1>2 DEF Line, Pipe
<1> QED
  BY <1>3, <1>4, <1>5 DEF Line

-----------------------------------------------------------------------------
(* The hand-over, for a client of the cached name.                         *)

\* A part of an ascending sequence is ascending.
LEMMA SliceAscending ==
    ASSUME NEW W, NEW lg \in Seq(Nat), Ascending(W, lg), NEW q \in Seq(Nat), NEW d \in Nat,
           \A j \in DOMAIN q : d + j \in DOMAIN lg /\ q[j] = lg[d + j]
    PROVE  Ascending(W, q)
<1>1. DOMAIN q \subseteq Nat
  BY LenProperties
<1>2. ASSUME NEW i \in DOMAIN q, NEW j \in DOMAIN q, i < j, q[i] \in W, q[j] \in W
      PROVE  q[i] <= q[j]
  <2>1. d + i < d + j
    BY <1>1, <1>2
  <2> QED
    BY <1>2, <2>1 DEF Ascending
<1> QED
  BY <1>2 DEF Ascending

\* A reader of a ring that holds the last broadcasts ends up with a version at
\* least as new as any that was broadcast, if it held one as new as those that
\* went before the ring.
LEMMA FateRing ==
    ASSUME NEW W, NEW lg \in Seq(Nat), Ascending(W, lg), NEW n \in 0..Len(lg),
           NEW q \in Seq(Nat), Len(q) <= n, \A j \in DOMAIN q : q[j] = lg[n - Len(q) + j],
           NEW b \in Nat, NEW p \in 1..n, lg[p] \in W, p <= n - Len(q) => lg[p] <= b
    PROVE  lg[p] <= Fate(W, q, b)
<1>1. PICK m \in Nat : m = Len(q)
  BY LenProperties
<1>2. PICK l \in Nat : l = Len(lg)
  BY LenProperties
<1>3. DOMAIN q = 1..m /\ DOMAIN lg = 1..l /\ m <= n /\ n <= l /\ n \in Nat /\ p \in 1..l
  BY <1>1, <1>2, LenProperties
<1>4. \A i \in DOMAIN lg : lg[i] \in Nat
  BY <1>2, <1>3, ElementOfSeq
<1>5. ASSUME p > n - m PROVE p - (n - m) \in Spots(W, q)
  <2>1. p - (n - m) \in DOMAIN q /\ n - m + (p - (n - m)) = p
    BY <1>3, <1>5
  <2>2. q[p - (n - m)] = lg[p]
    BY <1>1, <2>1
  <2> QED
    BY <2>1, <2>2 DEF Spots
<1>6. CASE Spots(W, q) = {}
  <2>1. p <= n - m
    BY <1>3, <1>5, <1>6
  <2> QED
    BY <1>1, <1>6, <2>1, FateLast
<1>7. CASE Spots(W, q) # {}
  <2>1. PICK j \in Spots(W, q) : (\A i \in Spots(W, q) : i <= j) /\ Fate(W, q, b) = q[j]
    BY <1>7, FateHit
  <2>2. j \in DOMAIN q /\ j \in 1..m /\ q[j] = lg[n - m + j] /\ q[j] \in W
    BY <1>1, <1>3, <2>1 DEF Spots
  <2>3. n - m + j \in DOMAIN lg /\ p \in DOMAIN lg
    BY <1>3, <2>2
  <2>4. p <= n - m + j
    <3>1. CASE p > n - m
      <4>1. p - (n - m) <= j
        BY <1>5, <2>1, <3>1
      <4> QED
        BY <1>3, <2>2, <4>1
    <3>2. CASE ~(p > n - m)
      BY <1>3, <2>2, <3>2
    <3> QED
      BY <3>1, <3>2
  <2>5. p = n - m + j \/ p < n - m + j
    BY <1>3, <2>2, <2>4
  <2>6. lg[p] <= lg[n - m + j]
    BY <1>4, <2>2, <2>3, <2>5 DEF Ascending
  <2> QED
    BY <2>1, <2>2, <2>6
<1> QED
  BY <1>6, <1>7

\* Whatever buffer a stream holds, what is in it was written.
LEMMA BufferWritten ==
    ASSUME ServerOK, LogInv, NEW c \in Clients, stream[c] \in Stream,
           Range(stream[c].kept) \subseteq DOMAIN history
    PROVE  Range(Buffer) \subseteq DOMAIN history /\ Range(BufferOf(c)) \subseteq DOMAIN history
<1>1. Range(log) \subseteq DOMAIN history
  <2>1. seen <= Len(history) /\ seen \in Nat /\ Range(log) \subseteq 1..seen
    BY DEF LogInv, ServerOK
  <2> QED
    BY <2>1, MineFacts
<1>2. Len(Buffer) \in Nat /\ DOMAIN Buffer = 1..Len(Buffer) /\ DOMAIN log = 1..Len(log)
  BY BufferFacts, LenProperties DEF ServerOK
<1>3. ASSUME NEW i \in DOMAIN Buffer PROVE Buffer[i] \in Range(log)
  <2>1. PICK b \in Nat \ {0}, l \in Nat : b = BufferStart /\ l = Len(log)
    BY BufferFacts
  <2>2. Len(Buffer) = l - b + 1
    BY <2>1, BufferFacts
  <2>3. i + b - 1 \in b..l /\ (i + b - 1) - b + 1 = i
    BY <1>2, <2>1, <2>2
  <2>4. Buffer[i] = log[i + b - 1]
    BY <2>1, <2>3, BufferFacts
  <2>5. i + b - 1 \in DOMAIN log
    BY <1>2, <2>1, <2>3
  <2> QED
    BY <2>4, <2>5 DEF Range
<1>4. Range(Buffer) \subseteq DOMAIN history
  BY <1>1, <1>3 DEF Range
<1> QED
  BY <1>4 DEF BufferOf

\* Going live: the fields of the stream.
LEMMA GoLiveFields ==
    ASSUME NEW s \in Stream, NEW e, NEW f
    PROVE  LET z == GoLive(s, e, f)
           IN  /\ z.phase = "live" /\ z.queue = s.queue /\ z.outbox = e /\ z.kept = s.kept
               /\ z.lagged = s.lagged /\ z.closed = s.closed /\ z.floor = s.floor
               /\ z.from = IF f < s.from THEN f ELSE s.from
BY DEF GoLive, Stream

\* Going live with e in the outbox keeps the line, if the client is led to every
\* version that was broadcast.
LEMMA LineGoLive ==
    ASSUME NEW s \in Stream, Up(s), NEW e \in Seq(Nat), NEW f, NEW ib, NEW rs, NEW st,
           Line(s, ib, rs, st), Range(e) \subseteq DOMAIN history,
           ~s.lagged /\ ~s.closed =>
               \A p \in 1..sent :
                   log[p] \in Mine =>
                       \/ s.floor # 0 /\ p < (IF f < s.from THEN f ELSE s.from) /\ log[p] > s.floor
                       \/ log[p] <= Fate(Mine, s.queue, Fate(Mine, e, Fate(Mine, ib, rs)))
    PROVE  Line(GoLive(s, e, f), ib, rs, st)
<1> DEFINE z == GoLive(s, e, f)
<1>1. /\ z.phase = "live" /\ z.queue = s.queue /\ z.outbox = e /\ z.kept = s.kept
      /\ z.lagged = s.lagged /\ z.closed = s.closed /\ z.floor = s.floor
      /\ z.from = IF f < s.from THEN f ELSE s.from
  BY GoLiveFields
<1> HIDE DEF z
<1>2. Ring(z, log, sent)
  BY <1>1 DEF Line, Ring
<1>3. Valid(z, ib, DOMAIN history, Mine)
  BY <1>1 DEF Line, Valid
<1>4. Pipe(z, ib, rs, Mine, log, sent)
  BY <1>1 DEF Pipe
<1>5. Line(z, ib, rs, st)
  BY <1>2, <1>3, <1>4 DEF Line
<1> QED
  BY <1>5 DEF z

\* A hit: the events after the one the client remembers lead it to the newest.
LEMMA LineHit ==
    ASSUME ServerOK, LogInv, NEW c \in Clients, stream[c] \in Stream, stream[c].phase = "lookup",
           resume[c] # 0, resume[c] \in Nat, LineOf(c), NEW i \in DOMAIN BufferOf(c),
           BufferOf(c)[i] = resume[c]
    PROVE  Line(GoLive(stream[c], MissedAfter(BufferOf(c), i), BufferStart + i),
                inbox[c], resume[c], store[c][CacheKey])
<1> DEFINE s == stream[c]
           b == BufferOf(c)
           m == MissedAfter(b, i)
           rs == resume[c]
<1>1. b \in Seq(Nat) /\ Len(b) \in Nat /\ DOMAIN b = 1..Len(b) /\ i \in 1..Len(b)
  BY BufferOfType, LenProperties
<1>2. Range(b) \subseteq DOMAIN history
  BY BufferWritten DEF LineOf, Line, Valid
<1>3. Up(s) /\ inbox[c] = <<>> /\ rs \in Mine
  BY DEF LineOf, Line, Pipe, Keeps, Up
<1> HIDE DEF b
<1>4. \A k \in (i + 1)..Len(b) : b[k] \in Nat
  <2>1. \A k \in (i + 1)..Len(b) : k \in 1..Len(b)
    BY <1>1
  <2> QED
    BY <1>1, <2>1, ElementOfSeq
<1>5. /\ m \in Seq(Nat) /\ Len(m) = IF i + 1 <= Len(b) THEN Len(b) - (i + 1) + 1 ELSE 0
      /\ \A k \in 1..(Len(b) - (i + 1) + 1) : m[k] = b[(i + 1) + k - 1]
  <2>1. i + 1 \in Int /\ Len(b) \in Int
    BY <1>1
  <2> QED
    BY <1>4, <2>1, SubSeqProperties DEF MissedAfter
<1> HIDE DEF m
<1>6. Len(m) = Len(b) - i /\ DOMAIN m = 1..Len(m) /\ \A k \in DOMAIN m : m[k] = b[i + k]
  <2>1. Len(m) = Len(b) - i /\ DOMAIN m = 1..Len(m)
    BY <1>1, <1>5, LenProperties
  <2>2. ASSUME NEW k \in DOMAIN m PROVE m[k] = b[i + k]
    <3>1. k \in 1..(Len(b) - (i + 1) + 1) /\ (i + 1) + k - 1 = i + k
      BY <1>1, <2>1
    <3> QED
      BY <1>5, <3>1
  <2> QED
    BY <2>1, <2>2
<1>7. Range(m) \subseteq DOMAIN history
  <2>1. \A k \in DOMAIN m : i + k \in DOMAIN b
    BY <1>1, <1>6
  <2> QED
    BY <1>2, <1>6, <2>1 DEF Range
<1>8. ASSUME ~s.lagged, ~s.closed, NEW p \in 1..sent, log[p] \in Mine
      PROVE  log[p] <= Fate(Mine, s.queue, Fate(Mine, m, rs))
  <2>1. b = Buffer /\ log \in Seq(Nat) /\ Ascending(Mine, log) /\ s.queue \in Seq(Nat)
    BY <1>8 DEF b, BufferOf, ServerOK, LogInv, Stream
  <2>2. PICK bs \in Nat \ {0}, l \in Nat : bs = BufferStart /\ l = Len(log)
    BY BufferFacts
  <2>3. /\ Len(b) = l - bs + 1 /\ DOMAIN log = 1..l /\ sent \in 0..l
        /\ \A j \in bs..l : b[j - bs + 1] = log[j]
    BY <2>1, <2>2, BufferFacts, LenProperties DEF ServerOK
  <2> DEFINE h == bs + i - 1
  <2>4. h \in Nat /\ h \in DOMAIN log /\ h \in bs..l /\ h - bs + 1 = i /\ Len(m) = l - h
    BY <1>1, <1>6, <2>2, <2>3
  <2>5. log[h] = rs
    BY <2>3, <2>4 DEF b
  <2> HIDE DEF h
  <2>6. ASSUME NEW k \in DOMAIN m PROVE h + k \in DOMAIN log /\ m[k] = log[h + k]
    <3>1. h + k \in bs..l /\ (h + k) - bs + 1 = i + k
      <4>1. k \in 1..(l - h) /\ i \in Nat
        BY <1>1, <1>6, <2>2, <2>4
      <4>2. PICK g \in Nat : g = h
        BY <2>4
      <4>3. g \in bs..l /\ g - bs + 1 = i /\ k \in 1..(l - g)
        BY <2>4, <4>1, <4>2
      <4>4. g + k \in bs..l /\ (g + k) - bs + 1 = i + k
        BY ONLY <4>3, bs \in Nat, l \in Nat, g \in Nat
      <4> QED
        BY <4>2, <4>4
    <3>2. h + k \in DOMAIN log
      BY <2>2, <2>3, <3>1
    <3> QED
      BY <1>6, <2>3, <3>1, <3>2
  <2>7. Ascending(Mine, m)
    BY <1>5, <2>1, <2>4, <2>6, SliceAscending
  <2> DEFINE e == Fate(Mine, m, rs)
  <2>8. e \in Nat
    BY <1>5, FateNat
  <2>9. rs <= e
    <3>1. CASE \A k \in DOMAIN m : m[k] \notin Mine
      BY <1>5, <2>7, <3>1, FateAscending
    <3>2. ASSUME NEW k \in DOMAIN m, m[k] \in Mine PROVE rs <= e
      <4>1. h < h + k
        BY <1>6, <2>4
      <4>2. rs <= m[k]
        BY <1>3, <2>1, <2>4, <2>5, <2>6, <3>2, <4>1 DEF Ascending
      <4>3. m[k] <= e
        BY <1>5, <2>7, <3>2, FateAscending
      <4>4. m[k] \in Nat
        BY <1>5, <1>6, ElementOfSeq
      <4> QED
        BY <2>8, <4>2, <4>3, <4>4
    <3> QED
      BY <3>1, <3>2
  <2>10. p \in DOMAIN log /\ log[p] \in Nat
    <3>1. p \in 1..l
      BY <2>3
    <3> QED
      BY <2>1, <2>2, <2>3, <3>1, ElementOfSeq
  <2>11. log[p] <= e
    <3>1. CASE p > h
      <4>1. p - h \in DOMAIN m /\ h + (p - h) = p
        <5>1. DOMAIN m = 1..(l - h) /\ p \in 1..l /\ h \in Nat
          BY <1>6, <2>3, <2>4, <2>10
        <5> QED
          BY ONLY <3>1, <5>1, l \in Nat
      <4>2. m[p - h] = log[p]
        BY <2>6, <4>1
      <4> QED
        BY <1>5, <1>8, <2>7, <4>1, <4>2, FateAscending
    <3>2. CASE p = h
      BY <2>5, <2>9, <3>2
    <3>3. CASE p < h
      <4>1. log[p] <= rs
        BY <1>3, <1>8, <2>1, <2>4, <2>5, <2>10, <3>3 DEF Ascending
      <4> QED
        BY <2>8, <2>9, <2>10, <4>1
    <3> QED
      BY <2>4, <3>1, <3>2, <3>3
  <2>12. Len(s.queue) <= sent /\ \A j \in DOMAIN s.queue : s.queue[j] = log[sent - Len(s.queue) + j]
    BY <1>3, <1>8 DEF LineOf, Line, Ring
  <2> HIDE DEF e
  <2>13. log[p] <= Fate(Mine, s.queue, e)
    BY <1>8, <2>1, <2>2, <2>3, <2>8, <2>11, <2>12, FateRing
  <2> QED
    BY <2>13 DEF e
<1>9. Fate(Mine, inbox[c], rs) = rs
  BY <1>3, FateEmpty
<1>10. Line(GoLive(s, m, BufferStart + i), inbox[c], rs, store[c][CacheKey])
  BY <1>3, <1>5, <1>7, <1>8, <1>9, LineGoLive DEF LineOf
<1> QED
  BY <1>10 DEF m, b

\* A function on 1..n is a sequence.
LEMMA FunctionIsSeq == ASSUME NEW n \in Nat, NEW f \in [1..n -> Nat] PROVE f \in Seq(Nat)
BY ONLY SeqDef, n \in Nat, f \in [1..n -> Nat]

\* What is read above a snapshot: the buffered events above it, in their order.
LEMMA PostFacts ==
    ASSUME NEW b \in Seq(Nat), NEW fl \in Nat
    PROVE  LET e == PostSnapshot(b, fl)
           IN  /\ e \in Seq(Nat)
               /\ \A k \in DOMAIN e : e[k] > fl /\ e[k] \in Range(b)
               /\ \A i \in DOMAIN b : b[i] > fl => \E k \in DOMAIN e : e[k] = b[i]
               /\ \A W : Ascending(W, b) => Ascending(W, e)
<1> DEFINE S == {i \in DOMAIN b : b[i] > fl}
           o == InOrder(S)
           e == PostSnapshot(b, fl)
<1>1. Len(b) \in Nat /\ DOMAIN b = 1..Len(b) /\ b \in [1..Len(b) -> Nat]
  BY LenProperties
<1>2. S \in SUBSET Nat /\ IsFiniteSet(S)
  <2>1. S \in SUBSET (1..Len(b))
    BY <1>1
  <2>2. IsFiniteSet(1..Len(b))
    BY <1>1, FS_Interval
  <2> QED
    BY <2>1, <2>2, FS_Subset
<1>3. e = [k \in DOMAIN o |-> b[o[k]]]
  BY DEF PostSnapshot
<1>4. \A i \in S : i \in DOMAIN b /\ b[i] \in Nat /\ b[i] > fl
  BY <1>1
<1>5. \A i \in DOMAIN b : b[i] > fl => i \in S
  OBVIOUS
<1> HIDE DEF S, e
<1>6. /\ Cardinality(S) \in Nat /\ o \in [1..Cardinality(S) -> S]
      /\ \A i \in S : \E k \in 1..Cardinality(S) : o[k] = i
      /\ \A i, j \in 1..Cardinality(S) : i < j => o[i] < o[j]
  BY <1>2, InOrderFacts
<1> HIDE DEF o
<1>7. /\ DOMAIN e = 1..Cardinality(S)
      /\ \A k \in DOMAIN e : o[k] \in S /\ e[k] = b[o[k]]
  BY <1>3, <1>6
<1>8. e \in Seq(Nat)
  <2>1. e \in [1..Cardinality(S) -> Nat]
    BY <1>3, <1>4, <1>6
  <2>2. Cardinality(S) \in Nat
    BY <1>6
  <2> QED
    BY <2>1, <2>2, FunctionIsSeq
<1>9. \A k \in DOMAIN e : e[k] > fl /\ e[k] \in Range(b)
  BY <1>4, <1>7 DEF Range
<1>10. ASSUME NEW i \in DOMAIN b, b[i] > fl PROVE \E k \in DOMAIN e : e[k] = b[i]
  <2>1. i \in S
    BY <1>5, <1>10
  <2>2. PICK k \in 1..Cardinality(S) : o[k] = i
    BY <1>6, <2>1
  <2>3. k \in DOMAIN e /\ e[k] = b[i]
    BY <1>7, <2>2
  <2> QED
    BY <2>3
<1>11. ASSUME NEW W, Ascending(W, b) PROVE Ascending(W, e)
  <2>1. ASSUME NEW i \in DOMAIN e, NEW j \in DOMAIN e, i < j, e[i] \in W, e[j] \in W
        PROVE  e[i] <= e[j]
    <3>1. o[i] < o[j] /\ o[i] \in DOMAIN b /\ o[j] \in DOMAIN b
      BY <1>4, <1>6, <1>7, <2>1
    <3> QED
      BY <1>7, <1>11, <2>1, <3>1 DEF Ascending
  <2> QED
    BY <2>1 DEF Ascending
<1> QED
  BY <1>8, <1>9, <1>10, <1>11 DEF e

\* A miss: the snapshot and what is buffered above it lead to the newest version,
\* unless that was broadcast before the receiver was attached and has been evicted.
LEMMA LinePost ==
    ASSUME ServerOK, LogInv, NEW c \in Clients, stream[c] \in Stream, stream[c].phase = "post",
           stream[c].outbox = <<>>, LineOf(c)
    PROVE  Line(GoLive(stream[c], PostSnapshot(BufferOf(c), stream[c].floor), BufferStart),
                inbox[c], resume[c], store[c][CacheKey])
<1> DEFINE s == stream[c]
           b == BufferOf(c)
           fl == s.floor
           e == PostSnapshot(b, fl)
<1>1. b \in Seq(Nat) /\ fl \in Nat /\ s.from \in Nat /\ DOMAIN b \subseteq Nat
  BY BufferOfType, LenProperties DEF Stream
<1>2. Range(b) \subseteq DOMAIN history
  BY BufferWritten DEF LineOf, Line, Valid
<1>3. Up(s) /\ fl \in Mine /\ Fate(Mine, inbox[c], resume[c]) = fl
  BY FateEmpty DEF LineOf, Line, Pipe, Up
<1>4. /\ e \in Seq(Nat)
      /\ \A k \in DOMAIN e : e[k] > fl /\ e[k] \in Range(b)
      /\ \A i \in DOMAIN b : b[i] > fl => \E k \in DOMAIN e : e[k] = b[i]
      /\ Ascending(Mine, b) => Ascending(Mine, e)
  BY <1>1, PostFacts
<1> HIDE DEF b, e
<1>5. Range(e) \subseteq DOMAIN history
  BY <1>2, <1>4 DEF Range
<1>6. ASSUME ~s.lagged, ~s.closed, NEW p \in 1..sent, log[p] \in Mine
      PROVE  \/ fl # 0 /\ p < (IF BufferStart < s.from THEN BufferStart ELSE s.from) /\ log[p] > fl
             \/ log[p] <= Fate(Mine, s.queue, Fate(Mine, e, fl))
  <2>1. b = Buffer /\ log \in Seq(Nat) /\ Ascending(Mine, log) /\ s.queue \in Seq(Nat)
    BY <1>6 DEF b, BufferOf, ServerOK, LogInv, Stream
  <2>2. PICK bs \in Nat \ {0}, l \in Nat : bs = BufferStart /\ l = Len(log)
    BY BufferFacts
  <2>3. /\ Len(b) = l - bs + 1 /\ DOMAIN log = 1..l /\ sent \in 0..l /\ DOMAIN b = 1..Len(b)
        /\ \A j \in bs..l : j - bs + 1 \in 1..Len(b) /\ b[j - bs + 1] = log[j]
    BY <1>1, <2>1, <2>2, BufferFacts, LenProperties DEF ServerOK
  <2>4. Ascending(Mine, b)
    <3>1. bs - 1 \in Nat
      BY <2>2
    <3>2. ASSUME NEW j \in DOMAIN b PROVE (bs - 1) + j \in DOMAIN log /\ b[j] = log[(bs - 1) + j]
      <4>1. (bs - 1) + j \in bs..l /\ ((bs - 1) + j) - bs + 1 = j
        BY <2>2, <2>3
      <4>2. (bs - 1) + j \in DOMAIN log
        BY <2>2, <2>3, <4>1
      <4> QED
        BY <2>3, <4>1, <4>2
    <3> QED
      BY <1>1, <2>1, <3>1, <3>2, SliceAscending
  <2>5. Ascending(Mine, e)
    BY <1>4, <2>4
  <2> DEFINE x == Fate(Mine, e, fl)
  <2>6. x \in Nat
    BY <1>1, <1>4, FateNat
  <2>7. fl <= x
    <3>1. CASE \A k \in DOMAIN e : e[k] \notin Mine
      BY <1>1, <1>4, <2>5, <3>1, FateAscending
    <3>2. ASSUME NEW k \in DOMAIN e, e[k] \in Mine PROVE fl <= x
      <4>1. e[k] <= x /\ e[k] > fl
        BY <1>4, <2>5, <3>2, FateAscending
      <4>2. e[k] \in Nat
        BY MineFacts, <3>2
      <4> QED
        BY <1>1, <2>6, <4>1, <4>2
    <3> QED
      BY <3>1, <3>2
  <2>8. p \in DOMAIN log /\ log[p] \in Nat
    BY <2>1, <2>2, <2>3, ElementOfSeq
  <2>9. ASSUME p >= bs, log[p] > fl PROVE log[p] <= x
    <3>1. p \in bs..l
      BY <2>2, <2>3, <2>9
    <3>2. p - bs + 1 \in DOMAIN b /\ b[p - bs + 1] = log[p]
      BY <2>3, <3>1
    <3>3. PICK k \in DOMAIN e : e[k] = log[p]
      BY <1>4, <2>9, <3>2
    <3> QED
      BY <1>4, <1>6, <2>5, <3>3, FateAscending
  <2>10. /\ Len(s.queue) <= sent /\ s.from = sent - Len(s.queue) + 1
         /\ \A j \in DOMAIN s.queue : s.queue[j] = log[sent - Len(s.queue) + j]
    BY <1>3, <1>6 DEF LineOf, Line, Ring
  <2> HIDE DEF x
  <2>11. PICK m \in Nat : m = Len(s.queue)
    BY <2>1, LenProperties
  <2>12. ASSUME p <= sent - m => log[p] <= x PROVE log[p] <= Fate(Mine, s.queue, x)
    <3>1. p <= sent - Len(s.queue) => log[p] <= x
      BY <2>11, <2>12
    <3> QED
      BY <1>6, <2>1, <2>2, <2>3, <2>6, <2>10, <3>1, FateRing
  <2>13. CASE log[p] <= fl
    <3>1. log[p] <= x
      BY <1>1, <2>6, <2>7, <2>8, <2>13
    <3> QED
      BY <2>12, <3>1 DEF x
  <2>14. CASE log[p] > fl /\ (p >= bs \/ p > sent - m)
    <3>1. p <= sent - m => log[p] <= x
      BY <2>2, <2>3, <2>9, <2>11, <2>14
    <3> QED
      BY <2>12, <3>1 DEF x
  <2>15. CASE log[p] > fl /\ ~(p >= bs \/ p > sent - m)
    <3>1. sent \in Nat /\ s.from = sent - m + 1
      BY <2>3, <2>10, <2>11
    <3>2. p < bs /\ p < s.from
      <4>1. p \in Nat /\ p <= sent - m
        BY <2>15, <3>1
      <4>2. p < sent - m + 1
        BY ONLY <3>1, <4>1, m \in Nat
      <4> QED
        BY <2>2, <2>15, <3>1, <4>1, <4>2
    <3>3. fl # 0
      BY <1>3, MineFacts
    <3> QED
      BY <2>2, <2>15, <3>2, <3>3
  <2> QED
    BY <1>1, <2>8, <2>13, <2>14, <2>15
<1>7. Line(GoLive(s, e, BufferStart), inbox[c], resume[c], store[c][CacheKey])
  BY <1>3, <1>4, <1>5, <1>6, LineGoLive DEF LineOf
<1> QED
  BY <1>7 DEF e, b

\* The line of a client in the next state, part by part.
LEMMA LineNext ==
    ASSUME NEW c, Ring(stream'[c], log', sent'), Valid(stream'[c], inbox'[c], DOMAIN history', Mine'),
           Keeps(resume'[c], store'[c][CacheKey], Mine', Stored(CacheKey)'),
           Pipe(stream'[c], inbox'[c], resume'[c], Mine', log', sent')
    PROVE  LineOf(c)'
BY DEF LineOf, Line

\* A stream that owes nothing does not depend on the log.
LEMMA LineIdle ==
    ASSUME NEW s, ~Up(s) \/ s.closed, NEW ib, NEW rs, NEW st, Line(s, ib, rs, st), NEW lg, NEW n
    PROVE  Ring(s, lg, n) /\ Pipe(s, ib, rs, Mine, lg, n)
BY DEF Line, Ring, Pipe, Up

\* An event enters the replay buffer: nothing that was broadcast changes.
LEMMA LinePush ==
    ASSUME NEW s \in Stream, NEW ib, NEW rs, NEW st, Line(s, ib, rs, st), sent \in Nat, NEW lg,
           \A i \in 1..sent : lg[i] = log[i]
    PROVE  Ring(s, lg, sent) /\ Pipe(s, ib, rs, Mine, lg, sent)
<1>1. Ring(s, lg, sent)
  <2> SUFFICES ASSUME Up(s), ~s.lagged, ~s.closed,
                      NEW j \in DOMAIN s.queue
               PROVE  lg[sent - Len(s.queue) + j] = log[sent - Len(s.queue) + j]
    BY DEF Line, Ring
  <2>1. Len(s.queue) \in Nat /\ DOMAIN s.queue = 1..Len(s.queue) /\ Len(s.queue) <= sent
    BY LenProperties DEF Line, Ring, Stream
  <2>2. PICK m \in Nat : m = Len(s.queue)
    BY <2>1
  <2>3. sent - m + j \in 1..sent
    BY <2>1, <2>2
  <2> QED
    BY <2>2, <2>3
<1>2. Pipe(s, ib, rs, Mine, lg, sent)
  BY DEF Line, Pipe
<1> QED
  BY <1>1, <1>2

\* A watch that ends closes the stream and leaves it the buffer.
LEMMA LineClose ==
    ASSUME ServerOK, LogInv, NEW c \in Clients, stream[c] \in Stream, LineOf(c), NEW lg, NEW n
    PROVE  LET z == [stream[c] EXCEPT !.closed = TRUE, !.kept = Buffer]
           IN  /\ Ring(z, lg, n) /\ Valid(z, inbox[c], DOMAIN history, Mine)
               /\ Pipe(z, inbox[c], resume[c], Mine, lg, n)
<1> DEFINE s == stream[c]
           z == [s EXCEPT !.closed = TRUE, !.kept = Buffer]
<1>1. /\ z.phase = s.phase /\ z.queue = s.queue /\ z.outbox = s.outbox /\ z.kept = Buffer
      /\ z.from = s.from /\ z.lagged = s.lagged /\ z.closed /\ z.floor = s.floor
  BY DEF Stream
<1>2. Range(Buffer) \subseteq DOMAIN history
  BY BufferWritten DEF LineOf, Line, Valid
<1> HIDE DEF z
<1>3. Ring(z, lg, n)
  BY <1>1 DEF Ring
<1>4. Valid(z, inbox[c], DOMAIN history, Mine)
  BY <1>1, <1>2 DEF LineOf, Line, Valid
<1>5. Pipe(z, inbox[c], resume[c], Mine, lg, n)
  BY <1>1 DEF LineOf, Line, Pipe
<1> QED
  BY <1>3, <1>4, <1>5 DEF z

\* A broadcast reaches the ring, behind everything that was broadcast before.
LEMMA LineReceive ==
    ASSUME ServerOK, LogInv, NEW s \in Stream, Len(s.queue) <= RingSize, Up(s), ~s.closed,
           NEW ib \in Seq(Nat), NEW rs \in Nat, NEW st, Line(s, ib, rs, st), sent < Len(log)
    PROVE  LET z == Receive(s, log[sent + 1])
           IN  /\ Ring(z, log, sent + 1) /\ Valid(z, ib, DOMAIN history, Mine)
               /\ Pipe(z, ib, rs, Mine, log, sent + 1)
<1> DEFINE r == log[sent + 1]
           z == Receive(s, r)
           q == s.queue
<1>1. /\ log \in Seq(Nat) /\ Len(log) \in Nat /\ DOMAIN log = 1..Len(log) /\ sent \in Nat
      /\ sent + 1 \in DOMAIN log /\ q \in Seq(Nat) /\ Len(q) \in Nat /\ DOMAIN q = 1..Len(q)
  BY LenProperties DEF ServerOK, Stream
<1>2. r \in Nat /\ r \in Range(log) /\ r \in DOMAIN history
  <2>1. seen <= Len(history) /\ seen \in Nat /\ Range(log) \subseteq 1..seen
    BY DEF LogInv, ServerOK
  <2>2. r \in Range(log)
    BY <1>1 DEF Range
  <2> QED
    BY <2>1, <2>2, MineFacts
<1> HIDE DEF r
<1>3. /\ z.phase = s.phase /\ z.closed = s.closed /\ z.from = s.from /\ z.floor = s.floor
      /\ z.outbox = s.outbox
      /\ ~z.lagged => ~s.lagged /\ z.queue = Append(q, r)
  BY <1>2, ReceiveType
<1>4. z.kept = s.kept
  BY DEF Receive, Stream
<1>5. Range(z.queue) \subseteq Range(q) \cup {r}
  <2>1. CASE Len(q) < RingSize
    <3>1. z.queue = Append(q, r)
      BY <2>1 DEF Receive, Stream
    <3> QED
      BY <1>1, <1>2, <3>1, RangeOfAppend
  <2>2. CASE ~(Len(q) < RingSize)
    <3>1. z.queue = Append(Tail(q), r)
      BY <2>2 DEF Receive, Stream
    <3>2. q # <<>>
      BY <1>1, <2>2, EmptyFacts, DeliveryAssumption
    <3>3. Tail(q) \in Seq(Nat) /\ Range(Tail(q)) \subseteq Range(q)
      BY <1>1, <3>2, RangeTail, HeadTailProperties
    <3> QED
      BY <1>2, <3>1, <3>3, RangeOfAppend
  <2> QED
    BY <2>1, <2>2
<1> HIDE DEF z
<1>6. Valid(z, ib, DOMAIN history, Mine)
  BY <1>2, <1>3, <1>4, <1>5 DEF Line, Valid
<1>7. ASSUME ~z.lagged
      PROVE  /\ z.queue \in Seq(Nat) /\ Len(z.queue) = Len(q) + 1
             /\ z.queue[Len(q) + 1] = r /\ \A j \in 1..Len(q) : z.queue[j] = q[j]
             /\ DOMAIN z.queue = 1..(Len(q) + 1)
  <2>1. z.queue = Append(q, r)
    BY <1>3, <1>7
  <2>2. /\ Append(q, r) \in Seq(Nat) /\ Len(Append(q, r)) = Len(q) + 1
        /\ Append(q, r)[Len(q) + 1] = r /\ \A j \in 1..Len(q) : Append(q, r)[j] = q[j]
    BY <1>1, <1>2, AppendProperties
  <2>3. DOMAIN Append(q, r) = 1..(Len(q) + 1)
    BY <2>2, LenProperties
  <2> QED
    BY <2>1, <2>2, <2>3
<1>8. Ring(z, log, sent + 1)
  <2> SUFFICES ASSUME ~z.lagged
               PROVE  /\ Len(z.queue) <= sent + 1
                      /\ z.phase # "live" => z.from = (sent + 1) - Len(z.queue) + 1
                      /\ \A j \in DOMAIN z.queue : z.queue[j] = log[(sent + 1) - Len(z.queue) + j]
    BY DEF Ring
  <2>1. /\ Len(q) <= sent /\ (s.phase # "live" => s.from = sent - Len(q) + 1)
        /\ \A j \in DOMAIN q : q[j] = log[sent - Len(q) + j]
    BY <1>3 DEF Line, Ring
  <2>2. PICK m \in Nat : m = Len(q)
    BY <1>1
  <2>3. Len(z.queue) = m + 1 /\ DOMAIN z.queue = 1..(m + 1)
    BY <1>7, <2>2
  <2>4. m + 1 <= sent + 1 /\ (sent + 1) - (m + 1) + 1 = sent - m + 1
    BY <1>1, <2>1, <2>2
  <2>5. ASSUME NEW j \in 1..(m + 1) PROVE z.queue[j] = log[(sent + 1) - (m + 1) + j]
    <3>1. CASE j = m + 1
      <4>1. (sent + 1) - (m + 1) + j = sent + 1
        BY <1>1, <3>1
      <4> QED
        BY <1>7, <2>2, <3>1, <4>1 DEF r
    <3>2. CASE j # m + 1
      <4>1. j \in 1..m /\ (sent + 1) - (m + 1) + j = sent - m + j
        BY <1>1, <3>2
      <4>2. z.queue[j] = q[j] /\ q[j] = log[sent - m + j]
        BY <1>1, <1>7, <2>1, <2>2, <4>1
      <4> QED
        BY <4>1, <4>2
    <3> QED
      BY <3>1, <3>2
  <2> QED
    BY <1>3, <2>1, <2>2, <2>3, <2>4, <2>5
<1> DEFINE told == Fate(Mine, s.outbox, Fate(Mine, ib, rs))
<1>9. told \in Nat
  BY FateNat DEF Stream
<1>10. ASSUME s.phase = "live", ~z.lagged, NEW p \in 1..(sent + 1), log[p] \in Mine,
              ~(s.floor # 0 /\ p < s.from /\ log[p] > s.floor)
       PROVE  log[p] <= Fate(Mine, z.queue, told)
  <2>1. Fate(Mine, z.queue, told) = IF r \in Mine THEN r ELSE Fate(Mine, q, told)
    <3>1. z.queue = Append(q, r)
      BY <1>3, <1>10
    <3>2. Fate(Mine, Append(q, r), told) = IF r \in Mine THEN r ELSE Fate(Mine, q, told)
      BY <1>1, <1>2, FateAppend
    <3> QED
      BY <3>1, <3>2
  <2>2. p \in DOMAIN log /\ log[p] \in Nat
    <3>1. p \in 1..Len(log)
      BY <1>1
    <3> QED
      BY <1>1, <3>1, ElementOfSeq
  <2>3. CASE r \in Mine
    <3>1. CASE p = sent + 1
      BY <2>1, <2>2, <2>3, <3>1 DEF r
    <3>2. CASE p < sent + 1
      BY <1>1, <1>10, <2>1, <2>2, <2>3, <3>2 DEF LogInv, Ascending, r
    <3> QED
      BY <1>1, <3>1, <3>2
  <2>4. CASE r \notin Mine
    <3>1. p \in 1..sent
      <4>1. p # sent + 1
        BY <1>10, <2>4 DEF r
      <4> QED
        BY <1>1, <4>1
    <3>2. log[p] <= Fate(Mine, q, told)
      BY <1>3, <1>10, <3>1 DEF Line, Pipe
    <3> QED
      BY <2>1, <2>4, <3>2
  <2> QED
    BY <2>3, <2>4
<1>11. Pipe(z, ib, rs, Mine, log, sent + 1)
  BY <1>3, <1>10 DEF Line, Pipe
<1> QED
  BY <1>6, <1>8, <1>11 DEF z, r

\* A commit changes nothing for a client.
LEMMA LineCommit ==
    ASSUME ServerOK, LogInv, NEW k \in Keys, NEW deleted \in BOOLEAN, Commit(k, deleted),
           NEW c \in Clients, stream[c] \in Stream, inbox[c] \in Seq(Nat), LineOf(c)
    PROVE  LineOf(c)'
<1> DEFINE s == stream[c]
           ib == inbox[c]
           rs == resume[c]
           st == store[c][CacheKey]
           n == Len(history)
<1>1. UNCHANGED <<log, sent, stream, inbox, resume, store>>
  BY DEF Commit, watchVars, clientVars
<1>2. /\ n \in Nat /\ DOMAIN history = 1..n /\ Mine \subseteq 1..n /\ 0 \notin Mine
      /\ Stored(CacheKey) \subseteq Mine
  BY MineFacts
<1>3. /\ DOMAIN history' = 1..(n + 1) /\ Mine \subseteq Mine'
      /\ \A r \in 1..n : /\ r \in Mine' <=> r \in Mine
                         /\ r \in Stored(CacheKey)' <=> r \in Stored(CacheKey)
      /\ Mine' \subseteq 1..(n + 1) /\ Stored(CacheKey)' \subseteq Mine'
  BY MineCommit
<1>4. /\ Ring(s, log, sent) /\ Valid(s, ib, DOMAIN history, Mine)
      /\ Keeps(rs, st, Mine, Stored(CacheKey)) /\ Pipe(s, ib, rs, Mine, log, sent)
  BY DEF LineOf, Line
<1>5. s.queue \in Seq(Nat) /\ s.outbox \in Seq(Nat)
  BY DEF Stream
<1>6. /\ \A j \in DOMAIN s.queue : s.queue[j] \in 1..n
      /\ \A j \in DOMAIN s.outbox : s.outbox[j] \in 1..n
      /\ \A j \in DOMAIN ib : ib[j] \in 1..n
  BY <1>2, <1>4 DEF Valid, Range
<1>7. /\ \A b : Fate(Mine', s.queue, b) = Fate(Mine, s.queue, b)
      /\ \A b : Fate(Mine', s.outbox, b) = Fate(Mine, s.outbox, b)
      /\ \A b : Fate(Mine', ib, b) = Fate(Mine, ib, b)
  BY <1>3, <1>5, <1>6, FateSame
<1>8. \A p \in 1..sent : log[p] \in Mine' => log[p] \in Mine
  <2>1. ASSUME NEW p \in 1..sent PROVE log[p] \in 1..n
    <3>1. p \in DOMAIN log
      BY LenProperties DEF ServerOK
    <3>2. seen <= n /\ seen \in Nat /\ log[p] \in 1..seen
      BY <3>1 DEF LogInv, ServerOK, Range
    <3> QED
      BY <1>2, <3>2
  <2> QED
    BY <1>3, <2>1
<1>9. Valid(s, ib, DOMAIN history', Mine')
  <2>1. DOMAIN history \subseteq DOMAIN history'
    BY <1>2, <1>3
  <2> QED
    BY <1>3, <1>4, <2>1 DEF Valid
<1>10. Keeps(rs, st, Mine', Stored(CacheKey)')
  <2>1. rs \in Stored(CacheKey)' => rs \in Stored(CacheKey)
    <3>1. CASE rs = 0
      <4>1. 0 \notin 1..(n + 1)
        BY <1>2
      <4> QED
        BY <1>3, <3>1, <4>1
    <3>2. CASE rs # 0
      BY <1>2, <1>3, <1>4, <3>2 DEF Keeps
    <3> QED
      BY <3>1, <3>2
  <2> QED
    BY <1>3, <1>4, <2>1 DEF Keeps
<1>11. Pipe(s, ib, rs, Mine', log, sent)
  <2> DEFINE told == Fate(Mine, s.outbox, Fate(Mine, ib, rs))
  <2>1. Fate(Mine', s.outbox, Fate(Mine', ib, rs)) = told
    BY <1>7
  <2>2. Fate(Mine', s.queue, told) = Fate(Mine, s.queue, told)
    BY <1>7
  <2>3. /\ s.phase \in {"down", "lookup", "snapshot"} => ib = <<>> /\ s.outbox = <<>>
        /\ s.phase = "post" => s.floor \in Mine /\ told = s.floor
        /\ s.phase = "live" /\ ~s.lagged /\ ~s.closed =>
              \A p \in 1..sent :
                  log[p] \in Mine =>
                      \/ s.floor # 0 /\ p < s.from /\ log[p] > s.floor
                      \/ log[p] <= Fate(Mine, s.queue, told)
    BY <1>4 DEF Pipe
  <2> HIDE DEF told
  <2>4. s.phase = "post" => s.floor \in Mine' /\ told = s.floor
    BY <1>3, <2>3
  <2>5. s.phase = "live" /\ ~s.lagged /\ ~s.closed =>
              \A p \in 1..sent :
                  log[p] \in Mine' =>
                      \/ s.floor # 0 /\ p < s.from /\ log[p] > s.floor
                      \/ log[p] <= Fate(Mine', s.queue, told)
    BY <1>8, <2>2, <2>3
  <2> QED
    BY <2>1, <2>3, <2>4, <2>5 DEF Pipe
<1>12. /\ stream'[c] = s /\ inbox'[c] = ib /\ resume'[c] = rs /\ store'[c][CacheKey] = st
       /\ log' = log /\ sent' = sent
  BY <1>1
<1>13. /\ Ring(stream'[c], log', sent') /\ Valid(stream'[c], inbox'[c], DOMAIN history', Mine')
       /\ Keeps(resume'[c], store'[c][CacheKey], Mine', Stored(CacheKey)')
       /\ Pipe(stream'[c], inbox'[c], resume'[c], Mine', log', sent')
  BY <1>4, <1>9, <1>10, <1>11, <1>12
<1> QED
  BY <1>13, LineNext

-----------------------------------------------------------------------------
(* The steps, for a client of the cached name.                             *)

\* The types the steps need.
LineTypes(c) ==
    /\ stream \in [Clients -> Stream] /\ inbox \in [Clients -> Seq(Nat)]
    /\ resume \in [Clients -> Nat] /\ store \in [Clients -> [Keys -> Nat]]
    /\ stream[c] \in Stream /\ Len(stream[c].queue) <= RingSize
    /\ inbox[c] \in Seq(Nat) /\ resume[c] \in Nat /\ store[c] \in [Keys -> Nat]

\* They are part of the type invariant.
LEMMA LineTypesOf == ASSUME TypeOK, NEW c \in Clients PROVE LineTypes(c)
BY DEF TypeOK, StreamsOK, ClientsOK, LineTypes

\* A step that leaves the server's part alone.
LEMMA LineHere ==
    ASSUME NEW c, UNCHANGED <<history, log, sent>>,
           Line(stream'[c], inbox'[c], resume'[c], store'[c][CacheKey])
    PROVE  LineOf(c)'
<1>1. /\ Mine' = Mine /\ Stored(CacheKey)' = Stored(CacheKey) /\ DOMAIN history' = DOMAIN history
      /\ log' = log /\ sent' = sent
  BY MineSame
<1>2. /\ Ring(stream'[c], log', sent') /\ Valid(stream'[c], inbox'[c], DOMAIN history', Mine')
      /\ Keeps(resume'[c], store'[c][CacheKey], Mine', Stored(CacheKey)')
      /\ Pipe(stream'[c], inbox'[c], resume'[c], Mine', log', sent')
  BY <1>1 DEF Line
<1> QED
  BY <1>2, LineNext

\* A step that only touches the log and the streams.
LEMMA LineThere ==
    ASSUME NEW c, UNCHANGED <<history, inbox, resume, store>>, LineOf(c),
           Ring(stream'[c], log', sent'),
           Valid(stream'[c], inbox[c], DOMAIN history, Mine),
           Pipe(stream'[c], inbox[c], resume[c], Mine, log', sent')
    PROVE  LineOf(c)'
<1>1. /\ Mine' = Mine /\ Stored(CacheKey)' = Stored(CacheKey) /\ DOMAIN history' = DOMAIN history
      /\ inbox' = inbox /\ resume' = resume /\ store' = store
  BY MineSame
<1>2. Keeps(resume[c], store[c][CacheKey], Mine, Stored(CacheKey))
  BY DEF LineOf, Line
<1>3. /\ Valid(stream'[c], inbox'[c], DOMAIN history', Mine')
      /\ Keeps(resume'[c], store'[c][CacheKey], Mine', Stored(CacheKey)')
      /\ Pipe(stream'[c], inbox'[c], resume'[c], Mine', log', sent')
  BY <1>1, <1>2
<1> QED
  BY <1>3, LineNext

\* Sending one event of the outbox or of the ring.
LEMMA OfferLine ==
    ASSUME NEW c \in Clients, LineTypes(c), Follows(c), LineOf(c), NEW s \in Stream,
           NEW r \in DOMAIN history, Offer(c, s, r), UNCHANGED <<history, log, sent, resume, store>>,
           Line(Dealt(s, r), IF r \in Mine THEN Append(inbox[c], r) ELSE inbox[c],
                resume[c], store[c][CacheKey])
    PROVE  LineOf(c)'
<1>1. Wanted(c, r) <=> r \in Mine
  BY DEF Wanted, Follows, Mine, WritesOf
<1>2. resume' = resume /\ store' = store
  OBVIOUS
<1>3. CASE ~Wanted(c, r) /\ stream' = [stream EXCEPT ![c] = Dealt(s, r)] /\ UNCHANGED inbox
  <2>1. stream'[c] = Dealt(s, r) /\ inbox'[c] = inbox[c]
    BY <1>3 DEF LineTypes
  <2>2. Line(stream'[c], inbox'[c], resume'[c], store'[c][CacheKey])
    BY <1>1, <1>2, <1>3, <2>1
  <2> QED
    BY <2>2, LineHere
<1>4. CASE /\ Wanted(c, r) /\ stream' = [stream EXCEPT ![c] = Dealt(s, r)]
           /\ inbox' = [inbox EXCEPT ![c] = Append(inbox[c], r)]
  <2>1. stream'[c] = Dealt(s, r) /\ inbox'[c] = Append(inbox[c], r)
    BY <1>4 DEF LineTypes
  <2>2. Line(stream'[c], inbox'[c], resume'[c], store'[c][CacheKey])
    BY <1>1, <1>2, <1>4, <2>1
  <2> QED
    BY <2>2, LineHere
<1>5. CASE UNCHANGED inbox /\ \E told \in BOOLEAN : stream' = [stream EXCEPT ![c] = End(s, told)]
  <2>1. PICK told \in BOOLEAN : stream' = [stream EXCEPT ![c] = End(s, told)]
    BY <1>5
  <2>2. stream'[c] = End(s, told) /\ inbox'[c] = inbox[c]
    BY <1>5, <2>1 DEF LineTypes
  <2>3. Line(End(s, told), inbox[c], resume[c], store[c][CacheKey])
    BY LineEnd DEF LineOf, Line, Valid
  <2>4. Line(stream'[c], inbox'[c], resume'[c], store'[c][CacheKey])
    BY <1>2, <2>2, <2>3
  <2> QED
    BY <2>4, LineHere
<1> QED
  BY <1>3, <1>4, <1>5 DEF Offer

\* A step of the client or of its stream.
LEMMA OwnLine ==
    ASSUME ServerOK, LogInv, CacheInv, NEW c \in Clients, LineTypes(c), Follows(c), LineOf(c),
           StreamStep(c) \/ ClientStep(c) \/ ConnectionLost(c)
    PROVE  LineOf(c)'
<1> USE DEF watchVars, clientVars
<1> DEFINE s == stream[c]
           ib == inbox[c]
           rs == resume[c]
           st == store[c][CacheKey]
<1>1. /\ s \in Stream /\ ib \in Seq(Nat) /\ rs \in Nat /\ Line(s, ib, rs, st)
      /\ Keeps(rs, st, Mine, Stored(CacheKey))
  BY DEF LineTypes, LineOf, Line
<1>2. sent \in Nat
  BY LenProperties DEF ServerOK
<1>3. ASSUME NEW z, Line(z, ib, rs, st), stream' = [stream EXCEPT ![c] = z],
             UNCHANGED <<history, log, sent, inbox, resume, store>>
      PROVE  LineOf(c)'
  <2>1. stream'[c] = z /\ inbox' = inbox /\ resume' = resume /\ store' = store
    BY <1>3 DEF LineTypes
  <2>2. Line(stream'[c], inbox'[c], resume'[c], store'[c][CacheKey])
    BY <1>3, <2>1
  <2> QED
    BY <1>3, <2>2, LineHere
<1>4. ASSUME s.phase = "down" PROVE ib = <<>>
  BY <1>1, <1>4 DEF Line, Pipe
<1>5. CASE handle_subscribe(c)
  <2>1. /\ UNCHANGED <<history, log, sent, inbox, resume, store>> /\ s.phase = "down"
        /\ stream' = [stream EXCEPT ![c] = Attach]
    BY <1>5 DEF handle_subscribe, StartWatch
  <2>2. Line(Attach, ib, rs, st)
    BY <1>1, <1>2, <1>4, <2>1, LineNone
  <2> QED
    BY <1>3, <2>1, <2>2
<1>6. CASE SubscribeRefused(c)
  <2>1. UNCHANGED <<history, log, sent, inbox, resume, store, stream>>
    BY <1>6 DEF SubscribeRefused
  <2>2. Line(stream'[c], inbox'[c], resume'[c], store'[c][CacheKey])
    BY <1>1, <2>1
  <2> QED
    BY <2>1, <2>2, LineHere
<1>7. CASE LookupHit(c)
  <2>1. PICK i \in DOMAIN BufferOf(c) :
           /\ BufferOf(c)[i] = rs
           /\ stream' = [stream EXCEPT ![c] = GoLive(s, MissedAfter(BufferOf(c), i), BufferStart + i)]
    BY <1>7 DEF LookupHit
  <2>2. /\ s.phase = "lookup" /\ rs # 0
        /\ UNCHANGED <<history, log, sent, inbox, resume, store>>
    BY <1>7 DEF LookupHit, ResumeTask
  <2>3. Line(GoLive(s, MissedAfter(BufferOf(c), i), BufferStart + i), ib, rs, st)
    BY <1>1, <2>1, <2>2, LineHit
  <2> QED
    BY <1>3, <2>1, <2>2, <2>3
<1>8. CASE LookupMiss(c)
  <2>1. /\ s.phase = "lookup" /\ stream' = [stream EXCEPT ![c] = [s EXCEPT !.phase = "snapshot"]]
        /\ UNCHANGED <<history, log, sent, inbox, resume, store>>
    BY <1>8 DEF LookupMiss, ResumeTask
  <2>2. Line([s EXCEPT !.phase = "snapshot"], ib, rs, st)
    BY <1>1, <2>1, LineMiss
  <2> QED
    BY <1>3, <2>1, <2>2
<1>9. CASE TakeSnapshot(c)
  <2> DEFINE z == [s EXCEPT !.phase = "post", !.outbox = <<cache>>, !.floor = cache]
  <2>1. /\ s.phase = "snapshot" /\ stream' = [stream EXCEPT ![c] = z]
        /\ UNCHANGED <<history, log, sent, inbox, resume, store>>
    BY <1>9 DEF TakeSnapshot, ResumeTask
  <2>2. cache \in Mine
    BY <2>1 DEF CacheInv, Attached
  <2>3. Line(z, ib, rs, st)
    BY <1>1, <2>1, <2>2, LineSnapshot
  <2> HIDE DEF z
  <2> QED
    BY <1>3, <2>1, <2>3
<1>10. CASE ReadPostSnapshot(c)
  <2>1. /\ s.phase = "post" /\ s.outbox = <<>>
        /\ stream' = [stream EXCEPT ![c] = GoLive(s, PostSnapshot(BufferOf(c), s.floor), BufferStart)]
        /\ UNCHANGED <<history, log, sent, inbox, resume, store>>
    BY <1>10 DEF ReadPostSnapshot, ResumeTask
  <2>2. Line(GoLive(s, PostSnapshot(BufferOf(c), s.floor), BufferStart), ib, rs, st)
    BY <1>1, <2>1, LinePost
  <2> QED
    BY <1>3, <2>1, <2>2
<1>11. CASE try_send_or_disconnect(c)
  <2> DEFINE t == [s EXCEPT !.outbox = Tail(s.outbox)]
             r == Head(s.outbox)
  <2>1. s.outbox # <<>> /\ Offer(c, t, r) /\ UNCHANGED <<history, log, sent, resume, store>>
    BY <1>11 DEF try_send_or_disconnect
  <2>2. s.outbox \in Seq(Nat) /\ r \in DOMAIN history /\ Tail(s.outbox) \in Seq(Nat)
    <3>1. s.outbox \in Seq(Nat)
      BY <1>1 DEF Stream
    <3>2. r \in Range(s.outbox) /\ Tail(s.outbox) \in Seq(Nat)
      BY <2>1, <3>1, RangeTail, HeadTailProperties
    <3> QED
      BY <1>1, <3>1, <3>2 DEF Line, Valid
  <2>3. t \in Stream
    BY <1>1, <2>2 DEF Stream
  <2>4. Line(Dealt(t, r), IF r \in Mine THEN Append(ib, r) ELSE ib, rs, st)
    BY <1>1, <2>1, LineSend
  <2> HIDE DEF t, r
  <2> QED
    BY <2>1, <2>2, <2>3, <2>4, OfferLine
<1>12. CASE bridge_broadcast(c)
  <2> DEFINE t == [s EXCEPT !.queue = Tail(s.queue)]
             r == Head(s.queue)
  <2>1. /\ UNCHANGED <<history, log, sent, resume, store>> /\ s.phase = "live" /\ s.outbox = <<>>
    BY <1>12 DEF bridge_broadcast, BridgeReady
  <2>2. CASE s.queue # <<>> /\ Offer(c, t, r)
    <3>1. s.queue \in Seq(Nat)
      BY <1>1 DEF Stream
    <3>2. r \in Range(s.queue) /\ Tail(s.queue) \in Seq(Nat)
      BY <2>2, <3>1, RangeTail, HeadTailProperties
    <3>3. r \in DOMAIN history
      BY <1>1, <3>1, <3>2 DEF Line, Valid
    <3>4. t \in Stream
      BY <1>1, <3>2 DEF Stream
    <3>5. Line(Dealt(t, r), IF r \in Mine THEN Append(ib, r) ELSE ib, rs, st)
      BY <1>1, <2>1, <2>2, LineBridge
    <3> HIDE DEF t, r
    <3> QED
      BY <2>1, <2>2, <3>3, <3>4, <3>5, OfferLine
  <2>3. CASE UNCHANGED inbox /\ \E told \in BOOLEAN : stream' = [stream EXCEPT ![c] = End(s, told)]
    <3>1. PICK told \in BOOLEAN : stream' = [stream EXCEPT ![c] = End(s, told)]
      BY <2>3
    <3>2. Line(End(s, told), ib, rs, st)
      BY <1>1, LineEnd DEF Line, Valid
    <3> QED
      BY <1>3, <2>1, <2>3, <3>1, <3>2
  <2> QED
    BY <1>12, <2>2, <2>3 DEF bridge_broadcast
<1>13. CASE apply(c)
  <2> DEFINE r == Head(ib)
  <2>1. /\ ib # <<>> /\ UNCHANGED <<history, log, sent, stream>>
        /\ resume' = [resume EXCEPT ![c] = r] /\ inbox' = [inbox EXCEPT ![c] = Tail(ib)]
        /\ ~history[r].deleted =>
               store' = [store EXCEPT ![c] = [store[c] EXCEPT ![history[r].key] = r]]
    BY <1>13 DEF apply
  <2>2. r \in Mine
    BY <1>1, <2>1, RangeTail DEF Line, Valid
  <2>3. r \in Stored(CacheKey) => store'[c][CacheKey] = r
    <3>1. history[r].key = CacheKey /\ CacheKey \in Keys
      BY <2>2, DeliveryAssumption DEF Mine, WritesOf
    <3>2. r \in Stored(CacheKey) => ~history[r].deleted
      BY DEF Stored
    <3> HIDE DEF r
    <3> QED
      BY <2>1, <3>1, <3>2 DEF LineTypes
  <2>4. Line(s, Tail(ib), r, store'[c][CacheKey])
    BY <1>1, <2>1, <2>3, LineApply
  <2>5. stream'[c] = s /\ inbox'[c] = Tail(ib) /\ resume'[c] = r
    BY <2>1 DEF LineTypes
  <2>6. Line(stream'[c], inbox'[c], resume'[c], store'[c][CacheKey])
    BY <2>4, <2>5
  <2> QED
    BY <2>1, <2>6, LineHere
<1>14. CASE StreamEnd(c)
  <2>1. /\ ib = <<>> /\ stream' = [stream EXCEPT ![c] = NoStream]
        /\ UNCHANGED <<history, log, sent, inbox, resume, store>>
    BY <1>14 DEF StreamEnd
  <2>2. Line(NoStream, ib, rs, st)
    BY <1>1, <1>2, <2>1, LineNone
  <2> QED
    BY <1>3, <2>1, <2>2
<1>15. CASE ConnectionLost(c)
  <2>1. /\ stream' = [stream EXCEPT ![c] = NoStream] /\ inbox' = [inbox EXCEPT ![c] = <<>>]
        /\ UNCHANGED <<history, log, sent, resume, store>>
    BY <1>15 DEF ConnectionLost
  <2>2. stream'[c] = NoStream /\ inbox'[c] = <<>> /\ resume' = resume /\ store' = store
    BY <2>1 DEF LineTypes
  <2>3. Line(NoStream, <<>>, rs, st)
    BY <1>1, <1>2, LineNone
  <2>4. Line(stream'[c], inbox'[c], resume'[c], store'[c][CacheKey])
    BY <2>2, <2>3
  <2> QED
    BY <2>1, <2>4, LineHere
<1> QED
  BY <1>5, <1>6, <1>7, <1>8, <1>9, <1>10, <1>11, <1>12, <1>13, <1>14, <1>15
  DEF StreamStep, ClientStep

\* A step of another client or of its stream.
LEMMA OtherLine ==
    ASSUME NEW c \in Clients, LineTypes(c), LineOf(c), NEW d \in Clients, d # c,
           StreamStep(d) \/ ClientStep(d) \/ ConnectionLost(d)
    PROVE  LineOf(c)'
<1> USE DEF watchVars, clientVars
<1>1. UNCHANGED <<history, log, sent>>
  BY DEF StreamStep, ClientStep, ConnectionLost, SubscribeRefused, LookupHit, LookupMiss,
         TakeSnapshot, ReadPostSnapshot, try_send_or_disconnect, bridge_broadcast, apply, StreamEnd,
         handle_subscribe, StartWatch
<1>2. stream'[c] = stream[c] /\ inbox'[c] = inbox[c]
  <2>1. stream' = stream \/ \E z : stream' = [stream EXCEPT ![d] = z]
    BY DEF StreamStep, ClientStep, ConnectionLost, SubscribeRefused, LookupHit, LookupMiss,
           TakeSnapshot, ReadPostSnapshot, try_send_or_disconnect, bridge_broadcast, apply,
           StreamEnd, handle_subscribe, Offer
  <2>2. inbox' = inbox \/ \E z : inbox' = [inbox EXCEPT ![d] = z]
    BY DEF StreamStep, ClientStep, ConnectionLost, SubscribeRefused, LookupHit, LookupMiss,
           TakeSnapshot, ReadPostSnapshot, try_send_or_disconnect, bridge_broadcast, apply,
           StreamEnd, handle_subscribe, Offer
  <2> QED
    BY <2>1, <2>2 DEF LineTypes
<1>3. resume'[c] = resume[c] /\ store'[c] = store[c]
  <2>1. CASE apply(d)
    BY <2>1 DEF apply, LineTypes
  <2>2. CASE ~apply(d)
    <3>1. UNCHANGED <<resume, store>>
      BY <2>2
      DEF StreamStep, ClientStep, ConnectionLost, SubscribeRefused, LookupHit, LookupMiss,
          TakeSnapshot, ReadPostSnapshot, try_send_or_disconnect, bridge_broadcast, StreamEnd,
          handle_subscribe
    <3> QED
      BY <3>1
  <2> QED
    BY <2>1, <2>2
<1>4. Line(stream'[c], inbox'[c], resume'[c], store'[c][CacheKey])
  BY <1>2, <1>3 DEF LineOf
<1> QED
  BY <1>1, <1>4, LineHere

\* A step of the watch.
LEMMA WatchLine ==
    ASSUME ServerOK, LogInv, NEW c \in Clients, LineTypes(c), LineOf(c),
           \/ process_namespace_event \/ send_to_all \/ WatchEnds \/ WatchCollected \/ ServerRestart
    PROVE  LineOf(c)'
<1> USE DEF watchVars, clientVars
<1> DEFINE s == stream[c]
<1>1. /\ s \in Stream /\ Line(s, inbox[c], resume[c], store[c][CacheKey])
      /\ Valid(s, inbox[c], DOMAIN history, Mine)
  BY DEF LineTypes, LineOf, Line
<1>2. Len(log) \in Nat /\ sent \in Nat /\ sent <= Len(log) /\ log \in Seq(Nat)
  BY LenProperties DEF ServerOK
<1>3. CASE process_namespace_event
  <2>1. UNCHANGED <<history, inbox, resume, store, stream, sent>> /\ \E r : log' = Append(log, r)
    BY <1>3 DEF process_namespace_event
  <2>2. \A i \in 1..sent : log'[i] = log[i]
    BY <1>2, <2>1
  <2>3. Ring(s, log', sent) /\ Pipe(s, inbox[c], resume[c], Mine, log', sent)
    BY <1>1, <1>2, <2>2, LinePush
  <2>4. stream'[c] = s /\ sent' = sent
    BY <2>1
  <2>5. /\ Ring(stream'[c], log', sent') /\ Valid(stream'[c], inbox[c], DOMAIN history, Mine)
        /\ Pipe(stream'[c], inbox[c], resume[c], Mine, log', sent')
    BY <1>1, <2>3, <2>4
  <2> QED
    BY <2>1, <2>5, LineThere
<1>4. CASE send_to_all
  <2>1. /\ UNCHANGED <<history, inbox, resume, store, log>> /\ sent' = sent + 1 /\ sent < Len(log)
        /\ stream'[c] = IF Attached(c) /\ ~s.closed THEN Receive(s, log[sent + 1]) ELSE s
    BY <1>4 DEF send_to_all
  <2>2. CASE Attached(c) /\ ~s.closed
    <3> DEFINE z == Receive(s, log[sent + 1])
    <3>1. /\ Ring(z, log, sent + 1) /\ Valid(z, inbox[c], DOMAIN history, Mine)
          /\ Pipe(z, inbox[c], resume[c], Mine, log, sent + 1)
      BY <1>1, <2>1, <2>2, LineReceive DEF LineTypes, Attached, Up
    <3>2. stream'[c] = z /\ log' = log /\ sent' = sent + 1
      BY <2>1, <2>2
    <3> HIDE DEF z
    <3>3. /\ Ring(stream'[c], log', sent') /\ Valid(stream'[c], inbox[c], DOMAIN history, Mine)
          /\ Pipe(stream'[c], inbox[c], resume[c], Mine, log', sent')
      BY <3>1, <3>2
    <3> QED
      BY <2>1, <3>3, LineThere
  <2>3. CASE ~(Attached(c) /\ ~s.closed)
    <3>1. stream'[c] = s /\ (~Up(s) \/ s.closed)
      BY <2>1, <2>3 DEF Attached, Up
    <3>2. Ring(s, log', sent') /\ Pipe(s, inbox[c], resume[c], Mine, log', sent')
      BY <1>1, <3>1, LineIdle
    <3>3. /\ Ring(stream'[c], log', sent') /\ Valid(stream'[c], inbox[c], DOMAIN history, Mine)
          /\ Pipe(stream'[c], inbox[c], resume[c], Mine, log', sent')
      BY <1>1, <3>1, <3>2
    <3> QED
      BY <2>1, <3>3, LineThere
  <2> QED
    BY <2>2, <2>3
<1>5. CASE WatchEnds
  <2>1. /\ UNCHANGED <<history, inbox, resume, store>>
        /\ stream'[c] = IF Attached(c) /\ ~s.closed
                        THEN [s EXCEPT !.closed = TRUE, !.kept = Buffer] ELSE s
    BY <1>5 DEF WatchEnds
  <2>2. CASE Attached(c) /\ ~s.closed
    <3> DEFINE z == [s EXCEPT !.closed = TRUE, !.kept = Buffer]
    <3>1. /\ Ring(z, log', sent') /\ Valid(z, inbox[c], DOMAIN history, Mine)
          /\ Pipe(z, inbox[c], resume[c], Mine, log', sent')
      BY <1>1, LineClose
    <3>2. stream'[c] = z
      BY <2>1, <2>2
    <3> HIDE DEF z
    <3>3. /\ Ring(stream'[c], log', sent') /\ Valid(stream'[c], inbox[c], DOMAIN history, Mine)
          /\ Pipe(stream'[c], inbox[c], resume[c], Mine, log', sent')
      BY <3>1, <3>2
    <3> QED
      BY <2>1, <3>3, LineThere
  <2>3. CASE ~(Attached(c) /\ ~s.closed)
    <3>1. stream'[c] = s /\ (~Up(s) \/ s.closed)
      BY <2>1, <2>3 DEF Attached, Up
    <3>2. Ring(s, log', sent') /\ Pipe(s, inbox[c], resume[c], Mine, log', sent')
      BY <1>1, <3>1, LineIdle
    <3>3. /\ Ring(stream'[c], log', sent') /\ Valid(stream'[c], inbox[c], DOMAIN history, Mine)
          /\ Pipe(stream'[c], inbox[c], resume[c], Mine, log', sent')
      BY <1>1, <3>1, <3>2
    <3> QED
      BY <2>1, <3>3, LineThere
  <2> QED
    BY <2>2, <2>3
<1>6. CASE WatchCollected
  <2>1. UNCHANGED <<history, inbox, resume, store, stream>> /\ (~Up(s) \/ s.closed)
    BY <1>6 DEF WatchCollected, Attached, Up
  <2>2. Ring(s, log', sent') /\ Pipe(s, inbox[c], resume[c], Mine, log', sent')
    BY <1>1, <2>1, LineIdle
  <2>3. /\ Ring(stream'[c], log', sent') /\ Valid(stream'[c], inbox[c], DOMAIN history, Mine)
        /\ Pipe(stream'[c], inbox[c], resume[c], Mine, log', sent')
    BY <1>1, <2>1, <2>2
  <2> QED
    BY <2>1, <2>3, LineThere
<1>7. CASE ServerRestart
  <2>1. /\ UNCHANGED <<history, resume, store>> /\ stream'[c] = NoStream /\ inbox'[c] = <<>>
        /\ log' = <<>> /\ sent' = 0
    BY <1>7 DEF ServerRestart, StopWatch
  <2>2. Line(NoStream, <<>>, resume[c], store[c][CacheKey])
    BY <1>1, <1>2, LineNone DEF Line
  <2>3. ~Up(NoStream)
    BY DEF Up, NoStream
  <2>4. Ring(NoStream, log', sent') /\ Pipe(NoStream, <<>>, resume[c], Mine, log', sent')
    BY <2>2, <2>3, LineIdle
  <2>5. Mine' = Mine /\ Stored(CacheKey)' = Stored(CacheKey) /\ DOMAIN history' = DOMAIN history
    BY <2>1, MineSame
  <2>6. /\ Ring(stream'[c], log', sent') /\ Valid(stream'[c], inbox'[c], DOMAIN history', Mine')
        /\ Keeps(resume'[c], store'[c][CacheKey], Mine', Stored(CacheKey)')
        /\ Pipe(stream'[c], inbox'[c], resume'[c], Mine', log', sent')
    BY <2>1, <2>2, <2>4, <2>5 DEF Line
  <2> QED
    BY <2>6, LineNext
<1> QED
  BY <1>3, <1>4, <1>5, <1>6, <1>7

\* Every step keeps the line of every client of the cached name.
LEMMA NextLine ==
    ASSUME TypeOK, LogInv, CacheInv, [Next]_vars, NEW c \in Clients, Follows(c), LineOf(c)
    PROVE  LineOf(c)'
<1> USE DEF watchVars, clientVars
<1>1. ServerOK /\ LineTypes(c)
  BY LineTypesOf DEF TypeOK
<1>2. CASE UNCHANGED <<history, log, sent, stream, inbox, resume, store>>
  <2>1. Line(stream'[c], inbox'[c], resume'[c], store'[c][CacheKey])
    BY <1>2 DEF LineOf
  <2> QED
    BY <1>2, <2>1, LineHere
<1>3. ASSUME NEW k \in Keys, NEW deleted \in BOOLEAN, Commit(k, deleted) PROVE LineOf(c)'
  BY <1>1, <1>3, LineCommit DEF LineTypes
<1>4. CASE CacheEvent \/ CacheRelist \/ ListObjects \/ OtherSubscriber
  BY <1>2, <1>4 DEF CacheEvent, CacheRelist, ListObjects, OtherSubscriber, StartWatch
<1>5. CASE process_namespace_event \/ send_to_all \/ WatchEnds \/ WatchCollected \/ ServerRestart
  BY <1>1, <1>5, WatchLine
<1>6. ASSUME NEW d \in Clients, StreamStep(d) \/ ClientStep(d) \/ ConnectionLost(d) PROVE LineOf(c)'
  <2>1. CASE d = c
    BY <1>1, <1>6, <2>1, OwnLine
  <2>2. CASE d # c
    BY <1>1, <1>6, <2>2, OtherLine
  <2> QED
    BY <2>1, <2>2
<1>7. CASE UNCHANGED vars
  BY <1>2, <1>7 DEF vars
<1> QED
  BY <1>3, <1>4, <1>5, <1>6, <1>7 DEF Next, ServerStep

\* Nobody is connected and nothing was written.
LEMMA InitCached == Init => CachedInv
<1> SUFFICES ASSUME Init PROVE CachedInv
  OBVIOUS
<1>1. Mine = {} /\ Stored(CacheKey) = {}
  BY EmptyFacts DEF Init, Mine, WritesOf, Stored
<1>2. LogInv
  BY <1>1, EmptyFacts DEF Init, LogInv, Ascending
<1>3. CacheInv
  BY DEF Init, CacheInv, Attached, NoStream
<1>4. ASSUME NEW c \in Clients PROVE LineOf(c)
  <2>1. Keeps(0, 0, Mine, Stored(CacheKey)) /\ sent \in Nat
    BY <1>1 DEF Keeps, Init
  <2>2. Line(NoStream, <<>>, 0, 0)
    BY <2>1, LineNone
  <2>3. /\ stream[c] = NoStream /\ inbox[c] = <<>> /\ resume[c] = 0 /\ store[c][CacheKey] = 0
    BY DeliveryAssumption DEF Init
  <2> QED
    BY <2>2, <2>3 DEF LineOf
<1> QED
  BY <1>2, <1>3, <1>4, LinesAre DEF CachedInv

\* Every step keeps the invariant of the cached name.
LEMMA NextCached == IndInv /\ IndInv' /\ CachedInv /\ [Next]_vars => CachedInv'
<1> SUFFICES ASSUME IndInv, IndInv', CachedInv, [Next]_vars PROVE CachedInv'
  OBVIOUS
<1>1. TypeOK /\ ServerOK /\ ServerOK' /\ StreamsOK /\ LogInv /\ CacheInv
  BY DEF IndInv, TypeOK, CachedInv
<1>2. LogInv' /\ CacheInv'
  BY <1>1, NextLog, NextCache
<1>3. ASSUME NEW c \in Clients, Follows(c) PROVE (RingInv(c) /\ ValidInv(c) /\ PipeInv(c))'
  <2>1. LineOf(c)
    BY <1>3, LinesAre DEF CachedInv
  <2>2. LineOf(c)'
    BY <1>1, <1>3, <2>1, NextLine
  <2>3. (RingInv(c) /\ ValidInv(c) /\ PipeInv(c) <=> LineOf(c))'
    BY LinesAre, PTL
  <2> QED
    BY <2>2, <2>3
<1>4. \A c \in Clients : Follows(c)' = Follows(c)
  BY DEF Follows
<1> QED
  BY <1>2, <1>3, <1>4 DEF CachedInv

\* With nothing under way, the client is led to the latest version.
LEMMA CachedMeans == TypeOK /\ CachedInv => StaleWasOutrun
<1> SUFFICES ASSUME TypeOK, CachedInv, NEW c \in Clients, Follows(c), Quiescent(c),
                    Exists(CacheKey), ~Outrun(c, CacheKey)
             PROVE  store[c][CacheKey] = Latest(CacheKey)
  BY DEF StaleWasOutrun
<1> DEFINE l == Latest(CacheKey)
<1>1. ServerOK /\ LogInv /\ LineOf(c) /\ resume[c] \in Nat
  BY LinesAre DEF TypeOK, ClientsOK, CachedInv
<1>2. /\ l \in Mine /\ l \in 1..Len(history) /\ Len(history) \in Nat /\ l \in Stored(CacheKey)
      /\ \A r \in Mine : r <= l
  BY <1>1, LatestFacts DEF Exists, Mine, Stored
<1> HIDE DEF l
<1>3. /\ watch = "on" /\ pending = <<>> /\ seen = Len(history) /\ sent = Len(log)
      /\ stream[c].phase = "live" /\ ~stream[c].closed /\ ~stream[c].lagged
      /\ stream[c].outbox = <<>> /\ stream[c].queue = <<>> /\ inbox[c] = <<>>
  BY DEF Quiescent
<1>4. l \in Range(log)
  <2>1. l <= seen /\ Range(pending) = {}
    BY <1>2, <1>3, EmptyFacts
  <2> QED
    BY <1>1, <1>2, <1>3, <2>1 DEF LogInv
<1>5. PICK p \in 1..sent : log[p] = l
  <2>1. DOMAIN log = 1..sent
    BY <1>1, <1>3, LenProperties DEF ServerOK
  <2> QED
    BY <1>4, <2>1 DEF Range
<1>6. ~(stream[c].floor # 0 /\ p < stream[c].from /\ log[p] > stream[c].floor)
  BY <1>5 DEF Outrun, l
<1>7. l <= resume[c]
  <2>1. l <= Fate(Mine, <<>>, Fate(Mine, <<>>, Fate(Mine, <<>>, resume[c])))
    BY <1>1, <1>2, <1>3, <1>5, <1>6 DEF LineOf, Line, Pipe
  <2> QED
    BY <2>1, FateEmpty
<1>8. resume[c] = l
  <2>1. resume[c] \in Mine
    BY <1>1, <1>2, <1>7 DEF LineOf, Line, Keeps
  <2> QED
    BY <1>1, <1>2, <1>7, <2>1
<1> QED
  BY <1>1, <1>2, <1>8 DEF LineOf, Line, Keeps, l

\* resume_from_buffer and bridge_broadcast: whatever is written, lost, lagged,
\* reordered by a list or restarted, and whatever the sizes of buffer, ring and
\* channel, a client of the cached name with a healthy stream and nothing under
\* way shows the latest version, unless that version was broadcast before its
\* receiver was attached, had left the replay buffer, and was not in the cache yet.
THEOREM CachedNameIsCurrent == Spec => []StaleWasOutrun
<1>1. Spec => []CachedInv
  BY Inductive, InitCached, NextCached, PTL DEF Spec
<1>2. IndInv /\ CachedInv => StaleWasOutrun
  BY CachedMeans DEF IndInv
<1> QED
  BY <1>1, <1>2, Inductive, PTL
=============================================================================
