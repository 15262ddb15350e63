-------------------------- MODULE ApplyPathProofs --------------------------
(***************************************************************************)
(* For any number of handlers, objects, requests and retries, a konfig     *)
(* write that is not raced stores a version above the one it read, a       *)
(* Revert stores the fields of the revision it was asked for, and a batch  *)
(* is written in order, reported completely, and cut short only by a race. *)
(* Without a race the dry run foresees Apply but for what it does not ask, *)
(* and the paths that write and read a document agree on the outcome.      *)
(***************************************************************************)
EXTENDS ApplyPath, Integers, SequenceTheorems, FiniteSetTheorems, TLAPS

\* A read of the current version yields a u32.
LEMMA ParseType ==
    ASSUME NEW obj \in Object \cup {Absent}
    PROVE  parse_schema_version(obj) \in 0..MaxU32
<1>1. VerOf(obj) \in Nat
  BY DEF VerOf, Object
<1> QED
  BY <1>1, ApplyAssumption DEF parse_schema_version

\* A version that fits in a u32 reads as itself.
LEMMA ParseExact ==
    ASSUME NEW obj \in Object \cup {Absent}, VerOf(obj) <= MaxU32
    PROVE  parse_schema_version(obj) = VerOf(obj)
<1>1. VerOf(obj) \in Nat
  BY DEF VerOf, Object
<1> QED
  BY <1>1, ApplyAssumption DEF parse_schema_version

\* The version of a Revert is a u32.
LEMMA RevertVersionType ==
    ASSUME NEW a \in 0..MaxU32, NEW b \in 0..MaxU32
    PROVE  RevertVersion(a, b) \in 0..MaxU32
BY ApplyAssumption DEF RevertVersion

\* A handler between two API calls has a current item.
LEMMA HeadType ==
    ASSUME TypeOK, NEW h \in Handlers, items[h] # << >>
    PROVE  Head(items[h]) \in Item /\ Tail(items[h]) \in Seq(Item)
BY HeadTailProperties DEF TypeOK

\* What an object was is an object or nothing.
LEMMA WasType ==
    ASSUME TypeOK, NEW t, NEW r \in 0..Len(history)
    PROVE  Was(t, r) \in Object \cup {Absent}
<1>1. CASE InForce(t, r) = {}
  BY <1>1 DEF Was
<1>2. CASE InForce(t, r) # {}
  <2>1. PICK i : i = TheElement(InForce(t, r))
    OBVIOUS
  <2>2. i \in InForce(t, r)
    BY <1>2, <2>1 DEF TheElement
  <2>3. i \in 1..Len(history)
    BY <2>2, LenProperties DEF InForce, TypeOK
  <2>4. history[i] \in [target : Targets, obj : Object \cup {Absent}]
    BY <2>3, ElementOfSeq DEF TypeOK
  <2> QED
    BY <1>2, <2>1, <2>4 DEF Was
<1> QED
  BY <1>1, <1>2

\* Later writes do not change what an object was.
LEMMA WasStable ==
    ASSUME TypeOK, NEW t, NEW r \in 0..Len(history),
           NEW e \in [target : Targets, obj : Object \cup {Absent}],
           history' = Append(history, e)
    PROVE  Was(t, r)' = Was(t, r)
<1>1. Len(history) \in Nat
  BY LenProperties DEF TypeOK
<1>2. \A i \in 1..r : history'[i] = history[i]
  BY <1>1, AppendProperties DEF TypeOK
<1>3. InForce(t, r)' = InForce(t, r)
  BY <1>1, <1>2 DEF InForce
<1>4. InForce(t, r) \subseteq 1..r
  BY DEF InForce
<1>5. CASE InForce(t, r) = {}
  BY <1>3, <1>5 DEF Was
<1>6. CASE InForce(t, r) # {}
  <2>1. PICK i : i = TheElement(InForce(t, r))
    OBVIOUS
  <2>2. i \in 1..r
    BY <1>4, <1>6, <2>1 DEF TheElement
  <2>3. history'[i] = history[i]
    BY <1>2, <2>2
  <2> QED
    BY <1>3, <1>6, <2>1, <2>3 DEF Was
<1> QED
  BY <1>5, <1>6

\* The sorted batch holds items of the batch, as many as it had.
LEMMA SortType ==
    ASSUME NEW req \in Seq(Item), NEW s \in sort_batch_items(req)
    PROVE  s \in Seq(Item) /\ (req # << >> => s # << >>)
<1>1. Len(req) \in Nat /\ DOMAIN req = 1..Len(req) /\ Range(req) \subseteq Item
  BY LenProperties, RangeOfSeq
<1>2. s \in [1..Len(req) -> Item]
  BY <1>1 DEF sort_batch_items
<1>3. s \in Seq(Item) /\ Len(s) = Len(req)
  BY <1>1, <1>2
<1> QED
  BY <1>3, EmptySeq

\* A server starts without handlers, against an empty cluster.
LEMMA InitIndInv == Init => IndInv
<1> SUFFICES ASSUME Init PROVE IndInv
  OBVIOUS
<1>1. TypeOK
  BY ApplyAssumption DEF Init, TypeOK, Statuses
<1>2. ItemAtHand /\ RevisionsAreOld /\ DecisionStands /\ CarriesHistory
  BY DEF Init, ItemAtHand, RevisionsAreOld, DecisionStands, CarriesHistory,
         Stands, Carries
<1> QED
  BY <1>1, <1>2 DEF IndInv
-----------------------------------------------------------------------------
(* Steps that write nothing: what each handler knows stays true if its own *)
(* locals stay.                                                            *)

\* Handler h keeps the locals its knowledge is about.
Keeps(h) ==
    /\ pc'[h] = pc[h] /\ kind'[h] = kind[h] /\ items'[h] = items[h]
    /\ goal'[h] = goal[h] /\ basis'[h] = basis[h]

\* A step of another handler that writes nothing disturbs nobody.
LEMMA QuietStep ==
    ASSUME IndInv, NEW h \in Handlers, Keeps(h), UNCHANGED <<store, history>>
    PROVE  Stands(h)' /\ Carries(h)'
<1>1. Stands(h) /\ Carries(h)
  BY DEF IndInv, DecisionStands, CarriesHistory
<1>2. Stands(h)'
  BY <1>1 DEF Stands, Keeps
<1>3. Carries(h)'
  BY <1>1 DEF Carries, Keeps, Was, InForce
<1> QED
  BY <1>2, <1>3

\* A write by somebody else gives its object a revision this handler has not
\* read, or deletes it; and it leaves the past alone.
LEMMA WriteStep ==
    ASSUME IndInv, NEW h \in Handlers, Keeps(h),
           NEW t \in Targets, NEW obj \in Object \cup {Absent},
           obj # Absent => obj.rv = Len(history) + 1,
           store' = [store EXCEPT ![t] = obj],
           history' = Append(history, [target |-> t, obj |-> obj])
    PROVE  Stands(h)' /\ Carries(h)'
<1>1. Stands(h) /\ Carries(h) /\ TypeOK
  BY DEF IndInv, DecisionStands, CarriesHistory
<1>2. Len(history) \in Nat /\ basis[h] \in 0..Len(history) /\ goal[h] \in 0..Len(history)
  BY LenProperties DEF IndInv, TypeOK, RevisionsAreOld
<1>3. Stands(h)'
  <2> SUFFICES ASSUME pc[h] = "patch" PROVE Stands(h)'
    BY DEF Stands, Keeps
  <2>1. Head(items[h]) \in Item
    BY HeadType DEF IndInv, ItemAtHand
  <2>2. Head(items[h]).target \in Targets
    BY <2>1 DEF Item
  <2>3. CASE Head(items[h]).target = t
    <3>1. basis[h] # 0 => RvOf(obj) # basis[h]
      BY <1>2 DEF RvOf
    <3>2. store'[Head(items[h]).target] = obj
      BY <2>2, <2>3 DEF IndInv, TypeOK
    <3> QED
      BY <1>1, <3>1, <3>2 DEF Stands, Keeps
  <2>4. CASE Head(items[h]).target # t
    <3>1. store'[Head(items[h]).target] = store[Head(items[h]).target]
      BY <2>2, <2>4 DEF IndInv, TypeOK
    <3> QED
      BY <1>1, <3>1 DEF Stands, Keeps
  <2> QED
    BY <2>3, <2>4
<1>4. Carries(h)'
  <2>1. [target |-> t, obj |-> obj] \in [target : Targets, obj : Object \cup {Absent}]
    OBVIOUS
  <2>2. PICK r, x : /\ r \in 0..Len(history) /\ r = goal[h]
                   /\ x = Head(items[h]).target
    BY <1>2
  <2>3. Was(x, r)' = Was(x, r)
    BY <1>1, <2>1, <2>2, WasStable
  <2>4. r = goal'[h] /\ x = Head(items'[h]).target
    BY <2>2 DEF Keeps
  <2>5. Was(Head(items[h]).target, goal[h])' = Was(x, r)'
    <3>1. InForce(Head(items[h]).target, goal[h])' = InForce(x, r)'
      BY <2>4 DEF InForce
    <3> QED
      BY <3>1 DEF Was
  <2>6. Was(Head(items[h]).target, goal[h]) = Was(x, r)
    BY <2>2
  <2> QED
    BY <1>1, <2>3, <2>5, <2>6 DEF Carries, Keeps
<1> QED
  BY <1>3, <1>4
\* A step that answers h, or starts it on valid items, and writes nothing.
LEMMA AnswerStep ==
    ASSUME IndInv, NEW h \in Handlers, NEW st \in Statuses, Answer(h, st), UNCHANGED <<store, history>>
    PROVE  IndInv'
<1> USE DEF IndInv
<1>1. TypeOK'
  <2>1. attempt' \in [Handlers -> 0..RetryBudget] /\ basis' \in [Handlers -> Nat]
    BY ApplyAssumption DEF TypeOK, Answer, EndOfApplySpec
  <2>2. pc' \in [Handlers -> {"idle", "gate", "bump", "fetch", "patch", "answered"}]
    BY DEF TypeOK, Answer
  <2> QED
    BY <2>1, <2>2 DEF TypeOK, Answer
<1>2. ItemAtHand'
  BY DEF TypeOK, ItemAtHand, Answer
<1>3. RevisionsAreOld'
  BY LenProperties DEF TypeOK, RevisionsAreOld, Answer, EndOfApplySpec
<1>4. ASSUME NEW g \in Handlers PROVE Stands(g)' /\ Carries(g)'
  <2>1. CASE g = h
    BY <2>1 DEF TypeOK, Answer, Stands, Carries
  <2>2. CASE g # h
    <3>1. Keeps(g)
      BY <2>2 DEF TypeOK, Answer, EndOfApplySpec, Keeps
    <3> QED
      BY <3>1, QuietStep
  <2> QED
    BY <2>1, <2>2
<1> QED
  BY <1>1, <1>2, <1>3, <1>4 DEF DecisionStands, CarriesHistory

\* An idle handler refuses a request.
LEMMA RefuseStep ==
    ASSUME IndInv, NEW h \in Handlers, NEW k \in {"apply", "batch", "revert"}, NEW st \in Statuses,
           Refuse(h, k, st), UNCHANGED <<store, history>>
    PROVE  IndInv'
<1> USE DEF IndInv
<1>1. TypeOK'
  BY DEF TypeOK, Refuse
<1>2. ItemAtHand'
  BY DEF TypeOK, ItemAtHand, Refuse
<1>3. RevisionsAreOld'
  BY DEF RevisionsAreOld, Refuse
<1>4. ASSUME NEW g \in Handlers PROVE Stands(g)' /\ Carries(g)'
  <2>1. CASE g = h
    BY <2>1 DEF TypeOK, Refuse, Stands, Carries
  <2>2. CASE g # h
    <3>1. Keeps(g)
      BY <2>2 DEF TypeOK, Refuse, Keeps
    <3> QED
      BY <3>1, QuietStep
  <2> QED
    BY <2>1, <2>2
<1> QED
  BY <1>1, <1>2, <1>3, <1>4 DEF DecisionStands, CarriesHistory

\* Apply and BatchApply start on the items of their request.
LEMMA ProceedStep ==
    ASSUME IndInv, NEW h \in Handlers, NEW k \in {"apply", "batch"}, NEW req \in Seq(Item),
           req # << >>, NEW next \in {"gate", "fetch"}, next = "gate" => k = "batch",
           Proceed(h, k, req, next), UNCHANGED <<store, history>>
    PROVE  IndInv'
<1> USE DEF IndInv
<1>1. TypeOK'
  BY DEF TypeOK, Proceed
<1>2. ItemAtHand'
  BY DEF TypeOK, ItemAtHand, Proceed
<1>3. RevisionsAreOld'
  BY DEF RevisionsAreOld, Proceed
<1>4. ASSUME NEW g \in Handlers PROVE Stands(g)' /\ Carries(g)'
  <2>1. CASE g = h
    BY <2>1 DEF TypeOK, Proceed, Stands, Carries
  <2>2. CASE g # h
    <3>1. Keeps(g)
      BY <2>2 DEF TypeOK, Proceed, Keeps
    <3> QED
      BY <3>1, QuietStep
  <2> QED
    BY <2>1, <2>2
<1> QED
  BY <1>1, <1>2, <1>3, <1>4 DEF DecisionStands, CarriesHistory

\* handle_apply refuses its request or starts on its item.
LEMMA ApplyStep ==
    ASSUME IndInv, NEW h \in Handlers, NEW req \in Requests, Apply(h, req)
    PROVE  IndInv'
<1>1. req \in Seq(Item) /\ req # << >>
  <2>1. Len(<< >>) = 0
    BY EmptySeq
  <2>2. Len(req) = 1
    BY DEF Apply
  <2>3. req # << >>
    <3>1. Len(req) # Len(<< >>)
      BY <2>1, <2>2
    <3> QED
      BY ONLY <3>1, Zenon
  <2> QED
    BY <2>3, RequestsAssumption
<1>2. UNCHANGED <<store, history>>
  BY DEF Apply
<1>3. \/ Refuse(h, "apply", "invalid_argument")
      \/ Refuse(h, "apply", "failed_precondition")
      \/ Proceed(h, "apply", req, "fetch")
  BY DEF Apply
<1> QED
  BY <1>1, <1>2, <1>3, RefuseStep, ProceedStep DEF Statuses

\* handle_batch_apply refuses its request or starts its gate.
LEMMA BatchApplyStep ==
    ASSUME IndInv, NEW h \in Handlers, NEW req \in Requests, BatchApply(h, req)
    PROVE  IndInv'
<1>1. req \in Seq(Item)
  BY RequestsAssumption
<1>2. UNCHANGED <<store, history>>
  BY DEF BatchApply
<1>3. \/ Refuse(h, "batch", "invalid_argument")
      \/ Refuse(h, "batch", "failed_precondition")
      \/ parse_batch_items(req) /\ Proceed(h, "batch", req, "gate")
  BY DEF BatchApply
<1>4. parse_batch_items(req) => req # << >>
  BY DEF parse_batch_items
<1> QED
  BY <1>1, <1>2, <1>3, <1>4, RefuseStep, ProceedStep DEF Statuses

\* handle_revert answers without having found a revision to restore.
LEMMA RevertRefusedStep ==
    ASSUME IndInv, NEW h \in Handlers, RevertRefused(h)
    PROVE  IndInv'
BY RefuseStep DEF RevertRefused, Statuses

\* The LIST at the requested revision found the object, and it parses.
LEMMA RevertStep ==
    ASSUME IndInv, NEW h \in Handlers, NEW t \in Targets, NEW r \in 1..Len(history),
           Revert(h, t, r)
    PROVE  IndInv'
<1> USE DEF IndInv
<1> DEFINE obj == Was(t, r)
           it  == [target |-> t, ver |-> obj.ver, content |-> obj.content]
<1>0. Len(history) \in Nat /\ r \in 0..Len(history) /\ r \in Nat
  BY LenProperties DEF TypeOK
<1>1. UNCHANGED <<store, history>>
  BY DEF Revert
<1>2. \/ Refuse(h, "revert", "not_found") \/ Refuse(h, "revert", "data_loss")
      \/ /\ obj # Absent /\ ~(VerOf(obj) > MaxU32)
         /\ kind' = [kind EXCEPT ![h] = "revert"]
         /\ items' = [items EXCEPT ![h] = <<it>>]
         /\ goal' = [goal EXCEPT ![h] = r]
         /\ pc' = [pc EXCEPT ![h] = "bump"]
         /\ UNCHANGED <<gateReads, basis, attempt, results, outcome>>
  BY DEF Revert
<1>3. CASE Refuse(h, "revert", "not_found") \/ Refuse(h, "revert", "data_loss")
  BY <1>1, <1>3, RefuseStep DEF Statuses
<1>4. CASE /\ obj # Absent /\ ~(VerOf(obj) > MaxU32)
           /\ kind' = [kind EXCEPT ![h] = "revert"]
           /\ items' = [items EXCEPT ![h] = <<it>>]
           /\ goal' = [goal EXCEPT ![h] = r]
           /\ pc' = [pc EXCEPT ![h] = "bump"]
           /\ UNCHANGED <<gateReads, basis, attempt, results, outcome>>
  <2>1. obj \in Object
    BY <1>0, <1>4, WasType
  <2>2. it \in Item
    <3>1. obj.content \in Contents
      BY <2>1 DEF Object, Contents
    <3>2. obj.ver \in 0..MaxU32
      BY <2>1, <1>4, ApplyAssumption DEF Object, VerOf
    <3> QED
      BY <3>1, <3>2 DEF Item
  <2>3. TypeOK'
    <3> HIDE DEF it
    <3>1. <<it>> \in Seq(Item)
      BY <2>2
    <3>2. items' \in [Handlers -> Seq(Item)]
      BY <1>4, <3>1 DEF TypeOK
    <3>3. goal' \in [Handlers -> Nat]
      BY <1>0, <1>4 DEF TypeOK
    <3>4. /\ pc' \in [Handlers -> {"idle", "gate", "bump", "fetch", "patch", "answered"}]
          /\ kind' \in [Handlers -> {"none", "apply", "batch", "revert"}]
      BY <1>4 DEF TypeOK
    <3> QED
      BY <1>1, <1>4, <3>2, <3>3, <3>4 DEF TypeOK
  <2>4. ItemAtHand'
    BY <1>4 DEF TypeOK, ItemAtHand
  <2>5. RevisionsAreOld'
    BY <1>0, <1>1, <1>4 DEF TypeOK, RevisionsAreOld
  <2>6. ASSUME NEW g \in Handlers PROVE Stands(g)' /\ Carries(g)'
    <3>1. CASE g = h
      <4>1. Stands(g)'
        BY <1>4, <3>1 DEF TypeOK, Stands
      <4>2. Head(items'[g]).target = t /\ Head(items'[g]).content = obj.content /\ goal'[g] = r
        BY <1>4, <3>1 DEF TypeOK
      <4>3. Was(t, r)' = Was(t, r)
        BY <1>1 DEF Was, InForce
      <4>4. Was(Head(items[g]).target, goal[g])' = Was(t, r)'
        BY <4>2 DEF Was, InForce
      <4> QED
        BY <4>1, <4>2, <4>3, <4>4 DEF Carries
    <3>2. CASE g # h
      <4>1. Keeps(g)
        BY <1>4, <3>2 DEF TypeOK, Keeps
      <4> QED
        BY <1>1, <4>1, QuietStep
    <3> QED
      BY <3>1, <3>2
  <2> QED
    BY <2>3, <2>4, <2>5, <2>6 DEF DecisionStands, CarriesHistory
<1> QED
  BY <1>2, <1>3, <1>4

\* The gate reads one more version.
LEMMA GateReadStep ==
    ASSUME IndInv, NEW h \in Handlers, GateRead(h)
    PROVE  IndInv'
<1> USE DEF IndInv
<1> DEFINE n == Len(gateReads[h]) + 1
           t == items[h][n].target
           g1 == [target |-> t, ver |-> parse_schema_version(store[t]), at |-> Len(history)]
<1>1. items[h] \in Seq(Item) /\ gateReads[h] \in Seq([target : Targets, ver : 0..MaxU32, at : Nat])
  BY DEF TypeOK
<1>2. n \in 1..Len(items[h])
  BY <1>1, LenProperties DEF GateRead
<1>3. items[h][n] \in Item
  BY <1>1, <1>2, ElementOfSeq
<1>4. t \in Targets
  BY <1>3 DEF Item
<1>5. store[t] \in Object \cup {Absent}
  BY <1>4 DEF TypeOK
<1>6. parse_schema_version(store[t]) \in 0..MaxU32
  BY <1>5, ParseType
<1>7. Len(history) \in Nat
  BY LenProperties DEF TypeOK
<1>8. Append(gateReads[h], g1) \in Seq([target : Targets, ver : 0..MaxU32, at : Nat])
  BY <1>1, <1>4, <1>6, <1>7, AppendProperties
<1>9. gateReads' = [gateReads EXCEPT ![h] = Append(gateReads[h], g1)]
  BY DEF GateRead
<1>10. TypeOK'
  BY <1>8, <1>9 DEF TypeOK, GateRead
<1>11. ItemAtHand' /\ RevisionsAreOld'
  BY DEF ItemAtHand, RevisionsAreOld, GateRead
<1>12. ASSUME NEW g \in Handlers PROVE Stands(g)' /\ Carries(g)'
  BY QuietStep DEF GateRead, Keeps
<1> QED
  BY <1>10, <1>11, <1>12 DEF DecisionStands, CarriesHistory

\* The gate accepts and sorts, or the batch is refused.
LEMMA GateDecideStep ==
    ASSUME IndInv, NEW h \in Handlers, GateDecide(h)
    PROVE  IndInv'
<1> USE DEF IndInv
<1>1. CASE gate_batch_versions(items[h], gateReads[h])
  <2>1. PICK s \in sort_batch_items(items[h]) : items' = [items EXCEPT ![h] = s]
    BY <1>1 DEF GateDecide
  <2>2. s \in Seq(Item) /\ s # << >>
    BY SortType DEF TypeOK, ItemAtHand, GateDecide
  <2>3. /\ pc' = [pc EXCEPT ![h] = "fetch"]
        /\ UNCHANGED <<store, history, kind, gateReads, goal, basis, attempt, results, outcome>>
    BY <1>1 DEF GateDecide
  <2>4. TypeOK' /\ ItemAtHand'
    <3>1. TypeOK'
      BY <2>1, <2>2, <2>3 DEF TypeOK
    <3>2. kind[h] = "batch"
      BY DEF ItemAtHand, GateDecide
    <3>3. ItemAtHand'
      BY <2>1, <2>2, <2>3, <3>2 DEF TypeOK, ItemAtHand
    <3> QED
      BY <3>1, <3>3
  <2>5. RevisionsAreOld'
    BY <2>3 DEF RevisionsAreOld
  <2>6. ASSUME NEW g \in Handlers PROVE Stands(g)' /\ Carries(g)'
    <3>1. CASE g = h
      <4>1. kind[h] = "batch"
        BY DEF ItemAtHand, GateDecide
      <4> QED
        BY <2>3, <3>1, <4>1 DEF TypeOK, Stands, Carries
    <3>2. CASE g # h
      <4>1. Keeps(g)
        BY <2>1, <2>3, <3>2 DEF TypeOK, Keeps
      <4> QED
        BY <2>3, <4>1, QuietStep
    <3> QED
      BY <3>1, <3>2
  <2> QED
    BY <2>4, <2>5, <2>6 DEF DecisionStands, CarriesHistory
<1>2. CASE ~gate_batch_versions(items[h], gateReads[h])
  <2>1. Answer(h, "failed_precondition") /\ UNCHANGED <<store, history>>
    BY <1>2 DEF GateDecide
  <2> QED
    BY <2>1, AnswerStep DEF Statuses
<1> QED
  BY <1>1, <1>2

\* The historical version is raised above the current one.
LEMMA RevertBumpStep ==
    ASSUME IndInv, NEW h \in Handlers, RevertBump(h)
    PROVE  IndInv'
<1> USE DEF IndInv
<1> DEFINE it == Head(items[h])
           v  == RevertVersion(parse_schema_version(store[it.target]), it.ver)
           new == [it EXCEPT !.ver = v]
<1>1. it \in Item
  BY HeadType DEF ItemAtHand, RevertBump
<1>2. store[it.target] \in Object \cup {Absent}
  BY <1>1 DEF TypeOK, Item
<1>3. v \in 0..MaxU32
  BY <1>1, <1>2, ParseType, RevertVersionType DEF Item
<1>4. new \in Item /\ new.content = it.content /\ new.target = it.target
  BY <1>1, <1>3 DEF Item
<1>5. /\ items' = [items EXCEPT ![h] = <<new>>]
      /\ pc' = [pc EXCEPT ![h] = "fetch"]
      /\ UNCHANGED <<store, history, kind, gateReads, goal, basis, attempt, results, outcome>>
  BY DEF RevertBump
<1>6. TypeOK' /\ ItemAtHand'
  <2> HIDE DEF new
  <2>1. <<new>> \in Seq(Item) /\ <<new>> # << >>
    BY <1>4
  <2>2. items' \in [Handlers -> Seq(Item)]
    BY <1>5, <2>1 DEF TypeOK
  <2>3. pc' \in [Handlers -> {"idle", "gate", "bump", "fetch", "patch", "answered"}]
    BY <1>5 DEF TypeOK
  <2>4. TypeOK'
    BY <1>5, <2>2, <2>3 DEF TypeOK
  <2>5. ItemAtHand'
    BY <1>5, <2>1 DEF TypeOK, ItemAtHand
  <2> QED
    BY <2>4, <2>5
<1>7. RevisionsAreOld'
  BY <1>5 DEF RevisionsAreOld
<1>8. ASSUME NEW g \in Handlers PROVE Stands(g)' /\ Carries(g)'
  <2>1. CASE g = h
    <3> HIDE DEF new, it
    <3>1. Stands(g)'
      BY <1>5, <2>1 DEF TypeOK, Stands
    <3>2. items'[h] = <<new>> /\ goal'[h] = goal[h] /\ kind'[h] = kind[h]
      BY <1>5 DEF TypeOK
    <3>3. Head(items'[h]).target = it.target /\ Head(items'[h]).content = it.content
      BY <1>4, <3>2
    <3>4. kind[h] = "revert" => it.content = Was(it.target, goal[h]).content
      BY DEF CarriesHistory, Carries, RevertBump, it
    <3>5. Was(Head(items[h]).target, goal[h])' = Was(it.target, goal[h])
      <4>1. InForce(Head(items[h]).target, goal[h])' = InForce(it.target, goal[h])
        BY <1>5, <3>2, <3>3 DEF InForce
      <4> QED
        BY <1>5, <4>1 DEF Was
    <3>6. Carries(h)'
      BY <3>2, <3>3, <3>4, <3>5 DEF Carries
    <3> QED
      BY <2>1, <3>1, <3>6
  <2>2. CASE g # h
    <3>1. Keeps(g)
      BY <1>5, <2>2 DEF TypeOK, Keeps
    <3> QED
      BY <1>5, <3>1, QuietStep
  <2> QED
    BY <2>1, <2>2
<1> QED
  BY <1>6, <1>7, <1>8 DEF DecisionStands, CarriesHistory

\* apply_spec reads the version and takes its decision on it.
LEMMA FetchStep ==
    ASSUME IndInv, NEW h \in Handlers, Fetch(h)
    PROVE  IndInv'
<1> USE DEF IndInv
<1> DEFINE it == Head(items[h])
           now == parse_schema_version(store[it.target])
<1>1. it \in Item
  BY HeadType DEF ItemAtHand, Fetch
<1>2. it.target \in Targets /\ store[it.target] \in Object \cup {Absent}
  BY <1>1 DEF TypeOK, Item
<1>3. UNCHANGED <<store, history>>
  BY DEF Fetch
<1>4. CASE schema_version_decision(it.ver, now)
  <2>1. /\ basis' = [basis EXCEPT ![h] = RvOf(store[it.target])]
        /\ pc' = [pc EXCEPT ![h] = "patch"]
        /\ UNCHANGED <<kind, items, gateReads, goal, attempt, results, outcome>>
    BY <1>4 DEF Fetch
  <2>2. RvOf(store[it.target]) \in Nat /\ RvOf(store[it.target]) <= Len(history)
    BY <1>2, LenProperties DEF RvOf, Object, RevisionsAreOld, TypeOK
  <2>3. TypeOK'
    BY <1>3, <2>1, <2>2 DEF TypeOK
  <2>4. ItemAtHand'
    BY <2>1 DEF TypeOK, ItemAtHand, Fetch
  <2>5. RevisionsAreOld'
    BY <1>3, <2>1, <2>2 DEF TypeOK, RevisionsAreOld
  <2>6. ASSUME NEW g \in Handlers PROVE Stands(g)' /\ Carries(g)'
    <3>1. CASE g = h
      <4>1. basis'[h] = RvOf(store[it.target])
        BY <2>1 DEF TypeOK
      <4>2. RvOf(store[it.target]) = 0 => now = 0
        <5>1. store[it.target] # Absent => RvOf(store[it.target]) # 0
          BY <1>2, LenProperties DEF RvOf, RevisionsAreOld, TypeOK
        <5> QED
          BY <1>2, <5>1, ApplyAssumption, ParseExact DEF VerOf
      <4>3. Stands(h)'
        BY <1>3, <1>4, <2>1, <4>1, <4>2 DEF Stands
      <4>4. Carries(h)'
        <5>1. InForce(it.target, goal[h])' = InForce(it.target, goal[h])
          BY <1>3, <2>1 DEF InForce
        <5>2. Was(it.target, goal[h])' = Was(it.target, goal[h])
          BY <1>3, <5>1 DEF Was
        <5>3. Carries(h) /\ pc[h] = "fetch"
          BY DEF CarriesHistory, Fetch
        <5> QED
          BY <2>1, <5>2, <5>3 DEF Carries
      <4> QED
        BY <3>1, <4>3, <4>4
    <3>2. CASE g # h
      <4>1. Keeps(g)
        BY <2>1, <3>2 DEF TypeOK, Keeps
      <4> QED
        BY <1>3, <4>1, QuietStep
    <3> QED
      BY <3>1, <3>2
  <2> QED
    BY <2>3, <2>4, <2>5, <2>6 DEF DecisionStands, CarriesHistory
<1>5. CASE ~schema_version_decision(it.ver, now)
  <2>1. Answer(h, "failed_precondition")
    BY <1>5 DEF Fetch
  <2> QED
    BY <1>3, <2>1, AnswerStep DEF Statuses
<1> QED
  BY <1>4, <1>5

\* A 409 is retried or ends the RPC.
LEMMA PatchConflictStep ==
    ASSUME IndInv, NEW h \in Handlers, PatchConflict(h)
    PROVE  IndInv'
<1> USE DEF IndInv
<1>1. CASE attempt[h] < RetryBudget
  <2>1. /\ attempt' = [attempt EXCEPT ![h] = @ + 1]
        /\ UNCHANGED <<store, history, pc, kind, items, gateReads, goal, basis, results, outcome>>
    BY <1>1 DEF PatchConflict
  <2>2. attempt[h] + 1 \in 0..RetryBudget
    BY <1>1, ApplyAssumption DEF TypeOK
  <2>3. attempt' \in [Handlers -> 0..RetryBudget]
    BY <2>1, <2>2 DEF TypeOK
  <2>4. TypeOK'
    BY <2>1, <2>3 DEF TypeOK
  <2>5. ItemAtHand' /\ RevisionsAreOld'
    BY <2>1 DEF ItemAtHand, RevisionsAreOld
  <2>6. ASSUME NEW g \in Handlers PROVE Stands(g)' /\ Carries(g)'
    BY <2>1, QuietStep DEF Keeps
  <2> QED
    BY <2>4, <2>5, <2>6 DEF DecisionStands, CarriesHistory
<1>2. CASE ~(attempt[h] < RetryBudget)
  <2>1. Answer(h, "aborted") /\ UNCHANGED <<store, history>>
    BY <1>2 DEF PatchConflict
  <2> QED
    BY <2>1, AnswerStep DEF Statuses
<1> QED
  BY <1>1, <1>2

\* An API call fails, and the handler answers with an error.
LEMMA ApiErrorStep ==
    ASSUME IndInv, NEW h \in Handlers, ApiError(h)
    PROVE  IndInv'
BY AnswerStep DEF ApiError, Statuses

\* Dropped handlers know nothing; the others are not disturbed.
LEMMA ForgetStep ==
    ASSUME IndInv, NEW S \in SUBSET Handlers, Forget(S)
    PROVE  IndInv'
<1> USE DEF IndInv
<1>1. TypeOK'
  <2>1. /\ pc' \in [Handlers -> {"idle", "gate", "bump", "fetch", "patch", "answered"}]
        /\ kind' \in [Handlers -> {"none", "apply", "batch", "revert"}]
    BY DEF TypeOK, Forget, Reset
  <2>2. /\ goal' \in [Handlers -> Nat] /\ basis' \in [Handlers -> Nat]
        /\ attempt' \in [Handlers -> 0..RetryBudget]
    BY ApplyAssumption DEF TypeOK, Forget, Reset
  <2>3. items' \in [Handlers -> Seq(Item)]
    BY DEF TypeOK, Forget, Reset
  <2>4. /\ gateReads' \in [Handlers -> Seq([target : Targets, ver : 0..MaxU32, at : Nat])]
        /\ results' \in [Handlers -> Seq([target : Targets, rv : Nat])]
    <3>1. gateReads' = [x \in Handlers |-> IF x \in S THEN << >> ELSE gateReads[x]]
      BY DEF Forget, Reset
    <3>2. results' = [x \in Handlers |-> IF x \in S THEN << >> ELSE results[x]]
      BY DEF Forget, Reset
    <3>3. ASSUME NEW T, NEW f \in [Handlers -> Seq(T)]
          PROVE  [x \in Handlers |-> IF x \in S THEN << >> ELSE f[x]] \in [Handlers -> Seq(T)]
      OBVIOUS
    <3> QED
      BY <3>1, <3>2, <3>3 DEF TypeOK
  <2>5. outcome' \in [Handlers -> Statuses]
    BY DEF TypeOK, Forget, Reset, Statuses
  <2> QED
    BY <2>1, <2>2, <2>3, <2>4, <2>5 DEF TypeOK, Forget
<1>2. ItemAtHand'
  BY DEF ItemAtHand, Forget, Reset
<1>3. RevisionsAreOld'
  BY LenProperties DEF TypeOK, RevisionsAreOld, Forget, Reset
<1>4. ASSUME NEW g \in Handlers PROVE Stands(g)' /\ Carries(g)'
  <2>1. CASE g \in S
    BY <2>1 DEF Forget, Reset, Stands, Carries
  <2>2. CASE g \notin S
    <3>1. Keeps(g) /\ UNCHANGED <<store, history>>
      BY <2>2 DEF TypeOK, Forget, Reset, Keeps
    <3> QED
      BY <3>1, QuietStep
  <2> QED
    BY <2>1, <2>2
<1> QED
  BY <1>1, <1>2, <1>3, <1>4 DEF DecisionStands, CarriesHistory

\* A write leaves the store, the history and the revisions well formed.
LEMMA StoreStep ==
    ASSUME IndInv, NEW t \in Targets, NEW obj \in Object \cup {Absent},
           obj # Absent => obj.rv = Len(history) + 1,
           store' = [store EXCEPT ![t] = obj],
           history' = Append(history, [target |-> t, obj |-> obj])
    PROVE  /\ store' \in [Targets -> Object \cup {Absent}]
           /\ history' \in Seq([target : Targets, obj : Object \cup {Absent}])
           /\ Len(history') = Len(history) + 1 /\ Len(history) \in Nat
           /\ \A x \in Targets : store'[x] # Absent => store'[x].rv \in 1..Len(history')
<1> USE DEF IndInv
<1>1. store' \in [Targets -> Object \cup {Absent}]
  BY DEF TypeOK
<1>2. [target |-> t, obj |-> obj] \in [target : Targets, obj : Object \cup {Absent}]
  OBVIOUS
<1>3. /\ history' \in Seq([target : Targets, obj : Object \cup {Absent}])
      /\ Len(history') = Len(history) + 1 /\ Len(history) \in Nat
  BY <1>2, AppendProperties, LenProperties DEF TypeOK
<1>4. ASSUME NEW x \in Targets, store'[x] # Absent
      PROVE  store'[x].rv \in 1..Len(history')
  <2>1. CASE x = t
    BY <1>3, <1>4, <2>1 DEF TypeOK
  <2>2. CASE x # t
    BY <1>3, <1>4, <2>2 DEF TypeOK, RevisionsAreOld
  <2> QED
    BY <2>1, <2>2
<1> QED
  BY <1>1, <1>3, <1>4

\* A part of a JSON object is one, and so is one object over another.
LEMMA TreeFacts ==
    /\ EmptyTree \in Trees
    /\ \A c \in Trees : \A S \in SUBSET DOMAIN c : Restrict(c, S) \in Trees
    /\ \A c, d \in Trees : Over(c, d) \in Trees
<1>1. EmptyTree \in [{} -> Values] /\ {} \in SUBSET Fields
  BY DEF EmptyTree
<1>2. ASSUME NEW c \in Trees, NEW S \in SUBSET DOMAIN c PROVE Restrict(c, S) \in Trees
  <2>1. PICK X \in SUBSET Fields : c \in [X -> Values]
    BY DEF Trees
  <2>2. Restrict(c, S) \in [S -> Values] /\ S \in SUBSET Fields
    BY <2>1 DEF Restrict
  <2> QED
    BY <2>2 DEF Trees
<1>3. ASSUME NEW c \in Trees, NEW d \in Trees PROVE Over(c, d) \in Trees
  <2>1. PICK X \in SUBSET Fields : c \in [X -> Values]
    BY DEF Trees
  <2>2. PICK Y \in SUBSET Fields : d \in [Y -> Values]
    BY DEF Trees
  <2>3. Over(c, d) \in [X \cup Y -> Values] /\ X \cup Y \in SUBSET Fields
    BY <2>1, <2>2 DEF Over
  <2> QED
    BY <2>3 DEF Trees
<1>4. EmptyTree \in Trees
  BY <1>1 DEF Trees
<1> QED
  BY <1>2, <1>3, <1>4

\* What a stored object holds, and what of it is not konfig's.
LEMMA PartsAreTrees ==
    ASSUME NEW obj \in Object \cup {Absent}
    PROVE  ContentOf(obj) \in Trees /\ TheirsOf(obj) \in Trees
BY TreeFacts DEF ContentOf, TheirsOf, Object

\* The object a patch writes.
Written(h) == Applied(Head(items[h]), store[Head(items[h]).target])

\* Its version is the item's, its revision the next.
LEMMA WrittenIs ==
    ASSUME NEW h \in Handlers
    PROVE  /\ Written(h).ver = Head(items[h]).ver /\ Written(h).rv = Len(history) + 1
           /\ Written(h).content =
                 Over(Head(items[h]).content, TheirsOf(store[Head(items[h]).target]))
BY DEF Written, Applied

\* A committed patch appends its object to the history under the next revision.
LEMMA CommitFacts ==
    ASSUME IndInv, NEW h \in Handlers, pc[h] = "patch", Commit(h)
    PROVE  /\ Head(items[h]) \in Item /\ Head(items[h]).target \in Targets
           /\ Written(h) \in Object
           /\ store' = [store EXCEPT ![Head(items[h]).target] = Written(h)]
           /\ history' = Append(history, [target |-> Head(items[h]).target, obj |-> Written(h)])
<1>1. Head(items[h]) \in Item
  BY HeadType DEF IndInv, ItemAtHand
<1>2. Len(history) + 1 \in Nat
  BY LenProperties DEF IndInv, TypeOK
<1>3. Written(h) \in Object
  <2> DEFINE c == Head(items[h]).content
             d == TheirsOf(store[Head(items[h]).target])
             D == {k \in DOMAIN d : k \notin DOMAIN c \/ c[k] = d[k]}
  <2>1. c \in Trees
    BY DEF Commit
  <2>2. store[Head(items[h]).target] \in Object \cup {Absent}
    BY <1>1 DEF IndInv, TypeOK, Item
  <2>3. d \in Trees
    BY <2>2, PartsAreTrees
  <2>4. D \in SUBSET DOMAIN d
    OBVIOUS
  <2>5. Head(items[h]).ver \in Nat
    BY <1>1, ApplyAssumption DEF Item
  <2>6. Written(h) = [ver |-> Head(items[h]).ver, content |-> Over(c, d),
                      theirs |-> Restrict(d, D), rv |-> Len(history) + 1]
    BY DEF Written, Applied
  <2> HIDE DEF c, d, D
  <2>7. Over(c, d) \in Trees /\ Restrict(d, D) \in Trees
    BY <2>1, <2>3, <2>4, TreeFacts
  <2> QED
    BY <1>2, <2>5, <2>6, <2>7 DEF Object
<1> QED
  BY <1>1, <1>3 DEF Commit, Written, Item

\* What an operator may store.
LEMMA KubectlObjectFacts ==
    ASSUME IndInv, NEW t \in Targets, NEW obj \in KubectlObjects(t)
    PROVE  obj \in Object \cup {Absent} /\ (obj # Absent => obj.rv = Len(history) + 1)
<1>1. CASE obj = Absent
  BY <1>1
<1>2. ASSUME NEW v \in RawVersions, NEW c \in Edits, obj = Edited(v, c, store[t])
      PROVE  obj \in Object /\ obj.rv = Len(history) + 1
  <2>1. v \in Nat /\ Len(history) + 1 \in Nat /\ c \in Trees
    BY LenProperties, ApplyAssumption, RequestsAssumption DEF IndInv, TypeOK
  <2>2. PICK D \in SUBSET DOMAIN c :
          obj = [ver |-> v, content |-> c, theirs |-> Restrict(c, D), rv |-> Len(history) + 1]
    <3> DEFINE D1 == {k \in DOMAIN c : \/ k \notin DOMAIN ContentOf(store[t])
                                       \/ k \in DOMAIN TheirsOf(store[t])
                                       \/ c[k] # ContentOf(store[t])[k]}
    <3>1. D1 \in SUBSET DOMAIN c
      OBVIOUS
    <3>2. obj = [ver |-> v, content |-> c, theirs |-> Restrict(c, D1), rv |-> Len(history) + 1]
      BY <1>2 DEF Edited
    <3> HIDE DEF D1
    <3> QED
      BY <3>1, <3>2
  <2>3. Restrict(c, D) \in Trees
    BY <2>1, TreeFacts
  <2> QED
    BY <2>1, <2>2, <2>3 DEF Object
<1> QED
  BY <1>1, <1>2 DEF KubectlObjects

\* An operator's write.
LEMMA KubectlStep ==
    ASSUME IndInv, NEW t \in Targets, NEW obj \in KubectlObjects(t), Kubectl(t, obj)
    PROVE  IndInv'
<1> USE DEF IndInv
<1>1. Len(history) \in Nat
  BY LenProperties DEF TypeOK
<1>2. obj \in Object \cup {Absent} /\ (obj # Absent => obj.rv = Len(history) + 1)
  BY KubectlObjectFacts
<1>3. /\ store' = [store EXCEPT ![t] = obj]
      /\ history' = Append(history, [target |-> t, obj |-> obj])
      /\ UNCHANGED <<pc, locals>>
  BY DEF Kubectl
<1>4. /\ store' \in [Targets -> Object \cup {Absent}]
      /\ history' \in Seq([target : Targets, obj : Object \cup {Absent}])
      /\ Len(history') = Len(history) + 1
      /\ \A x \in Targets : store'[x] # Absent => store'[x].rv \in 1..Len(history')
  BY <1>2, <1>3, StoreStep
<1>5. TypeOK'
  BY <1>3, <1>4 DEF TypeOK, locals
<1>6. ItemAtHand'
  BY <1>3 DEF ItemAtHand, locals
<1>7. RevisionsAreOld'
  BY <1>1, <1>3, <1>4 DEF TypeOK, RevisionsAreOld, locals
<1>8. ASSUME NEW g \in Handlers PROVE Stands(g)' /\ Carries(g)'
  <2>1. Keeps(g)
    BY <1>3 DEF Keeps, locals
  <2> QED
    BY <1>2, <1>3, <2>1, WriteStep
<1> QED
  BY <1>5, <1>6, <1>7, <1>8 DEF DecisionStands, CarriesHistory

\* The write went through and its answer got lost.
LEMMA PatchLostStep ==
    ASSUME IndInv, NEW h \in Handlers, PatchLost(h)
    PROVE  IndInv'
<1> USE DEF IndInv
<1> DEFINE t == Head(items[h]).target
<1>1. pc[h] = "patch" /\ Commit(h) /\ Answer(h, "unavailable")
  BY DEF PatchLost
<1>2. /\ t \in Targets /\ Written(h) \in Object
      /\ store' = [store EXCEPT ![t] = Written(h)]
      /\ history' = Append(history, [target |-> t, obj |-> Written(h)])
  BY <1>1, CommitFacts
<1>3. Written(h).rv = Len(history) + 1
  BY WrittenIs
<1>4. /\ store' \in [Targets -> Object \cup {Absent}]
      /\ history' \in Seq([target : Targets, obj : Object \cup {Absent}])
      /\ Len(history') = Len(history) + 1 /\ Len(history) \in Nat
      /\ \A x \in Targets : store'[x] # Absent => store'[x].rv \in 1..Len(history')
  <2> HIDE DEF t
  <2> QED
    BY <1>2, <1>3, StoreStep
<1>5. TypeOK'
  <2>1. attempt' \in [Handlers -> 0..RetryBudget] /\ basis' \in [Handlers -> Nat]
    BY <1>1, ApplyAssumption DEF TypeOK, Answer, EndOfApplySpec
  <2>2. pc' \in [Handlers -> {"idle", "gate", "bump", "fetch", "patch", "answered"}]
    BY <1>1 DEF TypeOK, Answer
  <2> QED
    BY <1>1, <1>4, <2>1, <2>2 DEF TypeOK, Answer, Statuses
<1>6. ItemAtHand'
  BY <1>1 DEF TypeOK, ItemAtHand, Answer
<1>7. RevisionsAreOld'
  BY <1>1, <1>4 DEF TypeOK, RevisionsAreOld, Answer, EndOfApplySpec
<1>8. ASSUME NEW g \in Handlers PROVE Stands(g)' /\ Carries(g)'
  <2>1. CASE g = h
    BY <1>1, <2>1 DEF TypeOK, Answer, Stands, Carries
  <2>2. CASE g # h
    <3>1. Keeps(g)
      BY <1>1, <2>2 DEF TypeOK, Answer, EndOfApplySpec, Keeps
    <3> HIDE DEF t
    <3> QED
      BY <1>2, <1>3, <3>1, WriteStep
  <2> QED
    BY <2>1, <2>2
<1> QED
  BY <1>5, <1>6, <1>7, <1>8 DEF DecisionStands, CarriesHistory

\* apply_spec returned Ok for the item at hand.
LEMMA ItemDoneFacts ==
    ASSUME IndInv, NEW h \in Handlers, pc[h] = "patch", NEW rv \in Nat, ItemDone(h, rv)
    PROVE  /\ pc' \in [Handlers -> {"idle", "gate", "bump", "fetch", "patch", "answered"}]
           /\ items' \in [Handlers -> Seq(Item)]
           /\ results' \in [Handlers -> Seq([target : Targets, rv : Nat])]
           /\ attempt' \in [Handlers -> 0..RetryBudget] /\ basis' \in [Handlers -> Nat]
           /\ outcome' \in [Handlers -> Statuses]
           /\ basis'[h] = 0 /\ pc'[h] \in {"answered", "fetch"}
           /\ pc'[h] = "fetch" => items'[h] # << >> /\ Len(items[h]) # 1
           /\ UNCHANGED <<kind, gateReads, goal>>
           /\ \A g \in Handlers : g # h => Keeps(g)
<1> USE DEF IndInv
<1>1. Head(items[h]) \in Item /\ Tail(items[h]) \in Seq(Item)
  BY HeadType DEF ItemAtHand
<1>2. items' = [items EXCEPT ![h] = Tail(items[h])]
  BY DEF ItemDone
<1>3. items' \in [Handlers -> Seq(Item)]
  BY <1>1, <1>2 DEF TypeOK
<1>4. results' \in [Handlers -> Seq([target : Targets, rv : Nat])]
  <2> DEFINE w == [target |-> Head(items[h]).target, rv |-> rv]
  <2>1. w \in [target : Targets, rv : Nat]
    BY <1>1 DEF Item
  <2>2. results' = [results EXCEPT ![h] = Append(results[h], w)]
    BY DEF ItemDone
  <2> HIDE DEF w
  <2>3. results[h] \in Seq([target : Targets, rv : Nat])
    BY DEF TypeOK
  <2>4. Append(results[h], w) \in Seq([target : Targets, rv : Nat])
    BY <2>1, <2>3, AppendProperties
  <2> QED
    BY <2>2, <2>4 DEF TypeOK
<1>5. /\ attempt' \in [Handlers -> 0..RetryBudget] /\ basis' \in [Handlers -> Nat]
      /\ basis'[h] = 0
  BY ApplyAssumption DEF TypeOK, ItemDone, EndOfApplySpec
<1>6. /\ pc' \in [Handlers -> {"idle", "gate", "bump", "fetch", "patch", "answered"}]
      /\ pc'[h] \in {"answered", "fetch"}
      /\ pc'[h] = "fetch" => Len(items[h]) # 1
  BY DEF TypeOK, ItemDone
<1>7. Len(items[h]) # 1 => items'[h] # << >>
  <2>1. items[h] \in Seq(Item) /\ items[h] # << >>
    BY DEF TypeOK, ItemAtHand
  <2>2. Len(Tail(items[h])) = Len(items[h]) - 1 /\ Len(items[h]) \in Nat
    BY <2>1, HeadTailProperties, LenProperties
  <2>3. Len(<< >>) = 0
    BY EmptySeq
  <2>4. items'[h] = Tail(items[h])
    BY <1>2 DEF TypeOK
  <2>5. ASSUME Len(items[h]) # 1 PROVE Len(Tail(items[h])) # 0
    BY <2>2, <2>5
  <2> QED
    BY <2>3, <2>4, <2>5, Zenon
<1>8. \A g \in Handlers : g # h => Keeps(g)
  BY DEF TypeOK, ItemDone, EndOfApplySpec, Keeps
<1>9. UNCHANGED <<kind, gateReads, goal>> /\ outcome' \in [Handlers -> Statuses]
  BY DEF ItemDone, TypeOK, Statuses
<1> QED
  BY <1>3, <1>4, <1>5, <1>6, <1>7, <1>8, <1>9

\* The patch is committed and its answer arrives.
LEMMA PatchOkStep ==
    ASSUME IndInv, NEW h \in Handlers, PatchOk(h)
    PROVE  IndInv'
<1> USE DEF IndInv
<1> DEFINE t == Head(items[h]).target
<1>1. pc[h] = "patch" /\ Commit(h) /\ ItemDone(h, Len(history) + 1)
  BY DEF PatchOk
<1>2. /\ t \in Targets /\ Written(h) \in Object
      /\ store' = [store EXCEPT ![t] = Written(h)]
      /\ history' = Append(history, [target |-> t, obj |-> Written(h)])
  BY <1>1, CommitFacts
<1>3. Written(h).rv = Len(history) + 1
  BY WrittenIs
<1>4. /\ store' \in [Targets -> Object \cup {Absent}]
      /\ history' \in Seq([target : Targets, obj : Object \cup {Absent}])
      /\ Len(history') = Len(history) + 1 /\ Len(history) \in Nat
      /\ \A x \in Targets : store'[x] # Absent => store'[x].rv \in 1..Len(history')
  <2> HIDE DEF t
  <2> QED
    BY <1>2, <1>3, StoreStep
<1>5. /\ pc' \in [Handlers -> {"idle", "gate", "bump", "fetch", "patch", "answered"}]
      /\ items' \in [Handlers -> Seq(Item)]
      /\ results' \in [Handlers -> Seq([target : Targets, rv : Nat])]
      /\ attempt' \in [Handlers -> 0..RetryBudget] /\ basis' \in [Handlers -> Nat]
      /\ outcome' \in [Handlers -> Statuses]
      /\ basis'[h] = 0 /\ pc'[h] \in {"answered", "fetch"}
      /\ pc'[h] = "fetch" => items'[h] # << >> /\ Len(items[h]) # 1
      /\ UNCHANGED <<kind, gateReads, goal>>
      /\ \A g \in Handlers : g # h => Keeps(g)
  <2>1. Len(history) + 1 \in Nat
    BY <1>4
  <2> QED
    BY <1>1, <2>1, ItemDoneFacts
<1>6. TypeOK'
  BY <1>4, <1>5 DEF TypeOK
<1>7. ItemAtHand'
  BY <1>1, <1>5 DEF ItemAtHand, Keeps
<1>8. RevisionsAreOld'
  <2>1. ASSUME NEW g \in Handlers PROVE basis'[g] <= Len(history') /\ goal'[g] <= Len(history')
    <3>1. basis[g] <= Len(history) /\ goal[g] <= Len(history) /\ basis[g] \in Nat /\ goal[g] \in Nat
      BY DEF TypeOK, RevisionsAreOld
    <3>2. basis'[g] \in {0, basis[g]} /\ goal'[g] = goal[g]
      BY <1>5 DEF Keeps
    <3> QED
      BY <1>4, <3>1, <3>2
  <2> QED
    BY <1>4, <2>1 DEF RevisionsAreOld
<1>9. ASSUME NEW g \in Handlers PROVE Stands(g)' /\ Carries(g)'
  <2>1. CASE g = h
    <3>1. Stands(h)'
      BY <1>5 DEF Stands
    <3>2. Carries(h)'
      BY <1>1, <1>5 DEF ItemAtHand, Carries
    <3> QED
      BY <2>1, <3>1, <3>2
  <2>2. CASE g # h
    <3> HIDE DEF t
    <3> QED
      BY <1>2, <1>3, <1>5, <2>2, WriteStep
  <2> QED
    BY <2>1, <2>2
<1> QED
  BY <1>6, <1>7, <1>8, <1>9 DEF DecisionStands, CarriesHistory

\* The patch changes nothing, and the API server commits nothing.
LEMMA PatchNoopStep ==
    ASSUME IndInv, NEW h \in Handlers, PatchNoop(h)
    PROVE  IndInv'
<1> USE DEF IndInv
<1> DEFINE t == Head(items[h]).target
<1>1. /\ pc[h] = "patch" /\ store[t] # Absent
      /\ ItemDone(h, store[t].rv) /\ UNCHANGED <<store, history>>
  BY DEF PatchNoop
<1>2. store[t].rv \in Nat
  <2>1. t \in Targets
    BY <1>1, HeadType DEF ItemAtHand, Item
  <2> QED
    BY <1>1, <2>1 DEF TypeOK, Object
<1>3. /\ pc' \in [Handlers -> {"idle", "gate", "bump", "fetch", "patch", "answered"}]
      /\ items' \in [Handlers -> Seq(Item)]
      /\ results' \in [Handlers -> Seq([target : Targets, rv : Nat])]
      /\ attempt' \in [Handlers -> 0..RetryBudget] /\ basis' \in [Handlers -> Nat]
      /\ outcome' \in [Handlers -> Statuses]
      /\ basis'[h] = 0 /\ pc'[h] \in {"answered", "fetch"}
      /\ pc'[h] = "fetch" => items'[h] # << >> /\ Len(items[h]) # 1
      /\ UNCHANGED <<kind, gateReads, goal>>
      /\ \A g \in Handlers : g # h => Keeps(g)
  BY <1>1, <1>2, ItemDoneFacts
<1>4. TypeOK'
  BY <1>1, <1>3 DEF TypeOK
<1>5. ItemAtHand'
  BY <1>1, <1>3 DEF ItemAtHand, Keeps
<1>6. RevisionsAreOld'
  <2>1. ASSUME NEW g \in Handlers PROVE basis'[g] <= Len(history) /\ goal'[g] <= Len(history)
    <3>1. basis[g] <= Len(history) /\ goal[g] <= Len(history) /\ 0 <= Len(history)
      BY LenProperties DEF TypeOK, RevisionsAreOld
    <3>2. basis'[g] \in {0, basis[g]} /\ goal'[g] = goal[g]
      BY <1>3 DEF Keeps
    <3> QED
      BY <3>1, <3>2
  <2> QED
    BY <1>1, <2>1 DEF RevisionsAreOld
<1>7. ASSUME NEW g \in Handlers PROVE Stands(g)' /\ Carries(g)'
  <2>1. CASE g = h
    <3>1. Stands(h)'
      BY <1>3 DEF Stands
    <3>2. Carries(h)'
      BY <1>1, <1>3 DEF ItemAtHand, Carries
    <3> QED
      BY <2>1, <3>1, <3>2
  <2>2. CASE g # h
    BY <1>1, <1>3, <2>2, QuietStep
  <2> QED
    BY <2>1, <2>2
<1> QED
  BY <1>4, <1>5, <1>6, <1>7 DEF DecisionStands, CarriesHistory

\* A step that changes no variable keeps the invariant.
LEMMA StutterStep ==
    ASSUME IndInv, UNCHANGED vars
    PROVE  IndInv'
<1> USE DEF IndInv, vars
<1>1. TypeOK' /\ ItemAtHand' /\ RevisionsAreOld'
  BY DEF TypeOK, ItemAtHand, RevisionsAreOld
<1>2. ASSUME NEW g \in Handlers PROVE Stands(g)' /\ Carries(g)'
  BY QuietStep DEF Keeps
<1> QED
  BY <1>1, <1>2 DEF DecisionStands, CarriesHistory

\* Every step of the write path keeps the inductive invariant.
LEMMA NextIndInv == IndInv /\ [Next]_vars => IndInv'
<1> SUFFICES ASSUME IndInv, [Next]_vars PROVE IndInv'
  OBVIOUS
<1>1. ASSUME NEW h \in Handlers, Request(h) PROVE IndInv'
  BY <1>1, ApplyStep, BatchApplyStep, RevertStep, RevertRefusedStep DEF Request
<1>2. ASSUME NEW h \in Handlers, HandlerStep(h) PROVE IndInv'
  <2>1. ASSUME Reply(h) PROVE IndInv'
    BY <2>1, ForgetStep DEF Reply
  <2> QED
    BY <1>2, <2>1, GateReadStep, GateDecideStep, RevertBumpStep, FetchStep, PatchOkStep,
       PatchNoopStep, PatchLostStep, PatchConflictStep, ApiErrorStep DEF HandlerStep
<1>3. ASSUME NEW t \in Targets, NEW obj \in KubectlObjects(t), Kubectl(t, obj) PROVE IndInv'
  BY <1>3, KubectlStep
<1>4. ASSUME Crash PROVE IndInv'
  <2>1. PICK S \in SUBSET {h \in Handlers : pc[h] # "idle"} : Forget(S)
    BY <1>4 DEF Crash
  <2>2. S \in SUBSET Handlers
    OBVIOUS
  <2> QED
    BY <2>1, <2>2, ForgetStep
<1>5. ASSUME UNCHANGED vars PROVE IndInv'
  BY <1>5, StutterStep
<1> QED
  BY <1>1, <1>2, <1>3, <1>4, <1>5 DEF Next

\* The inductive invariant holds in every reachable state.
THEOREM Inductive == Spec => []IndInv
BY InitIndInv, NextIndInv, PTL DEF Spec

\* Every variable of the write path stays in its range.
THEOREM TypeCorrect == Spec => []TypeOK
BY Inductive, PTL DEF IndInv

\* A step in which a handler writes is a commit of its item at hand.
LEMMA WritesCommit ==
    ASSUME IndInv, [Next]_vars, NEW h \in Handlers, Writes(h)
    PROVE  /\ pc[h] = "patch" /\ Commit(h)
           /\ TheWrite = [target |-> Head(items[h]).target, obj |-> Written(h)]
<1> USE DEF IndInv
<1>1. history' # history /\ pc'[h] # pc[h]
  BY DEF Writes
<1>2. ASSUME NEW g \in Handlers, Request(g) PROVE FALSE
  BY <1>1, <1>2 DEF Request, Apply, BatchApply, Revert, RevertRefused
<1>3. ASSUME NEW g \in Handlers, HandlerStep(g) PROVE g = h /\ pc[h] = "patch" /\ Commit(h)
  <2>1. PatchOk(g) \/ PatchLost(g)
    BY <1>1, <1>3 DEF HandlerStep, GateRead, GateDecide, RevertBump, Fetch, PatchNoop,
                      PatchConflict, ApiError, Reply, Forget
  <2>2. pc[g] = "patch" /\ Commit(g)
    BY <2>1 DEF PatchOk, PatchLost
  <2>3. \A f \in Handlers : f # g => pc'[f] = pc[f]
    BY <2>1 DEF TypeOK, PatchOk, PatchLost, ItemDone, Answer
  <2> QED
    BY <1>1, <2>2, <2>3
<1>4. ASSUME NEW t \in Targets, NEW obj \in KubectlObjects(t), Kubectl(t, obj) PROVE FALSE
  BY <1>1, <1>4 DEF Kubectl
<1>5. ASSUME Crash PROVE FALSE
  BY <1>1, <1>5 DEF Crash, Forget
<1>6. pc[h] = "patch" /\ Commit(h)
  BY <1>1, <1>2, <1>3, <1>4, <1>5 DEF Next, vars
<1>7. /\ Written(h) \in Object /\ Head(items[h]).target \in Targets
      /\ history' = Append(history, [target |-> Head(items[h]).target, obj |-> Written(h)])
  BY <1>6, CommitFacts
<1>8. TheWrite = [target |-> Head(items[h]).target, obj |-> Written(h)]
  <2> DEFINE e == [target |-> Head(items[h]).target, obj |-> Written(h)]
  <2>1. e \in [target : Targets, obj : Object \cup {Absent}]
    BY <1>7
  <2> HIDE DEF e
  <2>2. history \in Seq([target : Targets, obj : Object \cup {Absent}])
    BY DEF TypeOK
  <2>3. history'[Len(history')] = e
    BY <1>7, <2>1, <2>2, AppendProperties DEF e
  <2> QED
    BY <2>3 DEF TheWrite, e
<1> QED
  BY <1>6, <1>8

\* A handler that nobody raced between its read and its patch stores a version
\* above the one it read, through any number of 409 retries: it raises the stored
\* schema_version unless that did not fit in 32 bits.
THEOREM UnracedWritesAreMonotone == Spec => UnracedWritesIncrease
<1> DEFINE Raises ==
        \A h \in Handlers : Writes(h) =>
          LET old == store[TheWrite.target]
          IN  basis[h] = RvOf(old) =>
                  /\ TheWrite.obj.ver > parse_schema_version(old)
                  /\ TheWrite.obj.ver <= VerOf(old) => VerOf(old) > MaxU32
<1>1. IndInv /\ [Next]_vars => [Raises]_vars
  <2> SUFFICES ASSUME IndInv, [Next]_vars, NEW h \in Handlers, Writes(h),
                      basis[h] = RvOf(store[TheWrite.target])
               PROVE  LET old == store[TheWrite.target]
                      IN  /\ TheWrite.obj.ver > parse_schema_version(old)
                          /\ TheWrite.obj.ver <= VerOf(old) => VerOf(old) > MaxU32
    OBVIOUS
  <2> DEFINE it == Head(items[h])
             now == parse_schema_version(store[it.target])
  <2>1. pc[h] = "patch" /\ Commit(h) /\ TheWrite = [target |-> it.target, obj |-> Written(h)]
    BY WritesCommit
  <2>2. TheWrite.target = it.target /\ TheWrite.obj.ver = it.ver
    BY <2>1, WrittenIs
  <2>3. it.target \in Targets
    BY <2>1, CommitFacts
  <2>4. store[it.target] \in Object \cup {Absent}
    BY <2>3 DEF IndInv, TypeOK
  <2>5. VerOf(store[it.target]) <= MaxU32 => now = VerOf(store[it.target])
    BY <2>4, ParseExact
  <2>6. basis[h] = 0 => store[it.target] = Absent
    BY <2>2, <2>3, LenProperties DEF IndInv, TypeOK, RevisionsAreOld, RvOf
  <2>7. Stands(h)
    BY DEF IndInv, DecisionStands
  <2>8. schema_version_decision(it.ver, now)
    <3>1. CASE basis[h] = 0
      <4>1. VerOf(store[it.target]) = 0
        BY <2>6, <3>1 DEF VerOf
      <4>2. now = 0
        BY <2>5, <4>1, ApplyAssumption
      <4> QED
        BY <2>1, <2>7, <3>1, <4>2 DEF Stands
    <3>2. CASE basis[h] # 0
      BY <2>1, <2>2, <2>7, <3>2 DEF Stands
    <3> QED
      BY <3>1, <3>2
  <2>9. it.ver \in Nat /\ VerOf(store[it.target]) \in Nat /\ now \in Nat
    BY <2>1, <2>4, CommitFacts, ParseType, ApplyAssumption DEF Item, Object, VerOf
  <2>10. it.ver > now
    BY <2>8, <2>9 DEF schema_version_decision
  <2>11. it.ver <= VerOf(store[it.target]) => VerOf(store[it.target]) > MaxU32
    BY <2>5, <2>9, <2>10, ApplyAssumption
  <2> QED
    BY <2>2, <2>10, <2>11
<1>2. Spec => [][Raises]_vars
  BY <1>1, Inductive, PTL DEF Spec
<1> QED
  BY <1>2 DEF UnracedWritesIncrease

\* A Revert stores the fields of the revision it was asked for, and beside them
\* nothing but what other field managers hold.
THEOREM RevertIsExact == Spec => RevertRestores
<1> DEFINE Restores ==
        \A h \in Handlers : Writes(h) /\ kind[h] = "revert" =>
          LET new == TheWrite.obj.content
              then == Was(TheWrite.target, goal[h]).content
              theirs == TheirsOf(store[TheWrite.target])
          IN  /\ \A k \in DOMAIN then : k \in DOMAIN new /\ new[k] = then[k]
              /\ \A k \in DOMAIN new \ DOMAIN then :
                    k \in DOMAIN theirs /\ new[k] = theirs[k]
<1>1. IndInv /\ [Next]_vars => [Restores]_vars
  <2> SUFFICES ASSUME IndInv, [Next]_vars, NEW h \in Handlers, Writes(h), kind[h] = "revert"
               PROVE  LET new == TheWrite.obj.content
                          then == Was(TheWrite.target, goal[h]).content
                          theirs == TheirsOf(store[TheWrite.target])
                      IN  /\ \A k \in DOMAIN then : k \in DOMAIN new /\ new[k] = then[k]
                          /\ \A k \in DOMAIN new \ DOMAIN then :
                                k \in DOMAIN theirs /\ new[k] = theirs[k]
    OBVIOUS
  <2> DEFINE c == Head(items[h]).content
             d == TheirsOf(store[Head(items[h]).target])
  <2>1. /\ pc[h] = "patch"
        /\ TheWrite = [target |-> Head(items[h]).target, obj |-> Written(h)]
    BY WritesCommit
  <2>2. TheWrite.target = Head(items[h]).target /\ TheWrite.obj.content = Over(c, d)
    BY <2>1, WrittenIs
  <2>3. Was(TheWrite.target, goal[h]).content = c
    <3>1. Carries(h)
      BY DEF IndInv, CarriesHistory
    <3> QED
      BY <2>1, <2>2, <3>1 DEF Carries
  <2>4. DOMAIN Over(c, d) = DOMAIN c \cup DOMAIN d
    BY DEF Over
  <2>5. \A k \in DOMAIN Over(c, d) : Over(c, d)[k] = IF k \in DOMAIN c THEN c[k] ELSE d[k]
    BY DEF Over
  <2> HIDE DEF c
  <2> QED
    BY <2>2, <2>3, <2>4, <2>5
<1>2. Spec => [][Restores]_vars
  BY <1>1, Inductive, PTL DEF Spec
<1> QED
  BY <1>2 DEF RevertRestores
-----------------------------------------------------------------------------
(* Batches.                                                                *)

\* The sort of a batch loses no item: one item per place, none twice.
LEMMA SortCovers ==
    ASSUME NEW req \in Seq(Item), NEW s \in sort_batch_items(req)
    PROVE  /\ s \in Seq(Item) /\ Range(s) = Range(req)
           /\ \A i, j \in DOMAIN s : i < j => s[i].target < s[j].target
<1> DEFINE n == Len(req)
           R == Range(req)
<1>1. n \in Nat /\ DOMAIN req = 1..n /\ R \subseteq Item
  BY LenProperties, RangeOfSeq
<1>2. s \in Seq(Item)
  BY SortType
<1>3. s \in [1..n -> R] /\ \A i, j \in 1..n : i < j => s[i].target < s[j].target
  BY <1>1 DEF sort_batch_items
<1>4. IsFiniteSet(1..n) /\ Cardinality(1..n) = n
  BY <1>1, FS_Interval
<1>5. IsFiniteSet(R) /\ Cardinality(R) <= n /\ Cardinality(R) \in Nat
  <2>1. req \in Surjection(1..n, R)
    BY <1>1 DEF Surjection, Range
  <2> QED
    BY <1>4, <2>1, FS_Surjection, FS_CardinalityType
<1>6. \A i, j \in 1..n : s[i] = s[j] => i = j
  <2> SUFFICES ASSUME NEW i \in 1..n, NEW j \in 1..n, s[i] = s[j], i # j PROVE FALSE
    OBVIOUS
  <2>1. s[i] \in Item /\ s[j] \in Item
    BY <1>1, <1>3
  <2>2. s[i].target \in Nat /\ s[j].target \in Nat
    BY <2>1, ApplyAssumption DEF Item
  <2>3. i < j \/ j < i
    BY <1>1
  <2> QED
    BY <1>3, <2>2, <2>3
<1>7. ASSUME NEW x \in R, x \notin Range(s) PROVE FALSE
  <2> DEFINE T == R \ {x}
  <2>1. IsFiniteSet(T) /\ Cardinality(T) = Cardinality(R) - 1
    BY <1>5, <1>7, FS_RemoveElement
  <2>2. s \in [1..n -> T]
    <3>1. \A i \in 1..n : s[i] # x
      BY <1>3, <1>7 DEF Range
    <3> QED
      BY <1>3, <3>1
  <2>3. Cardinality(T) < Cardinality(1..n)
    BY <1>1, <1>4, <1>5, <2>1
  <2>4. \E i, j \in 1..n : i # j /\ s[i] = s[j]
    BY <1>4, <2>1, <2>2, <2>3, FS_PigeonHole
  <2> QED
    BY <1>6, <2>4
<1>8. Range(s) \subseteq R
  BY <1>3 DEF Range
<1>9. Range(s) = R
  BY <1>7, <1>8
<1> QED
  BY <1>2, <1>3, <1>9

\* What a sequence holds, when it grows and when its head is taken.
LEMMA HoldsAppended ==
    ASSUME NEW S, NEW q \in Seq(S), NEW x \in S
    PROVE  /\ Append(q, x) \in Seq(S) /\ \A y : y \in Range(Append(q, x)) <=> y \in Range(q) \/ y = x
           /\ TargetsOf(Append(q, x)) = TargetsOf(q) \cup {x.target}
<1> DEFINE a == Append(q, x)
           n == Len(q)
<1>1. /\ n \in Nat /\ DOMAIN q = 1..n
      /\ a \in Seq(S) /\ Len(a) = n + 1 /\ \A i \in 1..n : a[i] = q[i]
      /\ a[n + 1] = x
  BY AppendProperties, LenProperties
<1>2. DOMAIN a = 1..(n + 1)
  BY <1>1, LenProperties
<1> HIDE DEF a
<1>3. \A y : y \in Range(a) <=> y \in Range(q) \/ y = x
  <2>1. ASSUME NEW y \in Range(a) PROVE y \in Range(q) \/ y = x
    <3>1. PICK i \in 1..(n + 1) : y = a[i]
      BY <1>2, <2>1 DEF Range
    <3>2. CASE i = n + 1
      BY <1>1, <3>1, <3>2
    <3>3. CASE i # n + 1
      <4>1. i \in 1..n
        BY <1>1, <3>3
      <4> QED
        BY <1>1, <3>1, <4>1 DEF Range
    <3> QED
      BY <3>2, <3>3
  <2>2. ASSUME NEW y \in Range(q) PROVE y \in Range(a)
    <3>1. PICK i \in 1..n : y = q[i]
      BY <1>1, <2>2 DEF Range
    <3>2. i \in 1..(n + 1) /\ a[i] = y
      BY <1>1, <3>1
    <3> QED
      BY <1>2, <3>2 DEF Range
  <2>3. x \in Range(a)
    <3>1. n + 1 \in 1..(n + 1)
      BY <1>1
    <3> QED
      BY <1>1, <1>2, <3>1 DEF Range
  <2> QED
    BY <2>1, <2>2, <2>3
<1>4. TargetsOf(a) = TargetsOf(q) \cup {x.target}
  BY <1>3 DEF TargetsOf
<1> QED
  BY <1>1, <1>3, <1>4 DEF a

\* Taking the head of a sequence leaves the rest of it.
LEMMA HoldsHead ==
    ASSUME NEW S, NEW q \in Seq(S), q # << >>
    PROVE  /\ Head(q) \in S /\ Tail(q) \in Seq(S) /\ Head(q) \in Range(q)
           /\ \A y \in Range(Tail(q)) : y \in Range(q)
           /\ TargetsOf(q) = {Head(q).target} \cup TargetsOf(Tail(q))
           /\ Len(q) \in Nat \ {0} /\ DOMAIN q = 1..Len(q) /\ Head(q) = q[1]
           /\ Len(Tail(q)) = Len(q) - 1 /\ DOMAIN Tail(q) = 1..(Len(q) - 1)
           /\ \A i \in 1..(Len(q) - 1) : Tail(q)[i] = q[i + 1]
<1> DEFINE n == Len(q)
           u == Tail(q)
<1>1. /\ Head(q) \in S /\ u \in Seq(S) /\ Len(u) = n - 1
      /\ \A i \in 1..Len(u) : u[i] = q[i + 1]
  BY HeadTailProperties
<1>2. n \in Nat \ {0} /\ DOMAIN q = 1..n /\ DOMAIN u = 1..(n - 1) /\ Head(q) = q[1]
  BY <1>1, LenProperties, EmptySeq
<1> HIDE DEF u
<1>3. Head(q) \in Range(q)
  <2>1. 1 \in 1..n
    BY <1>2
  <2> QED
    BY <1>2, <2>1 DEF Range
<1>4. \A y \in Range(u) : y \in Range(q)
  <2> SUFFICES ASSUME NEW y \in Range(u) PROVE y \in Range(q)
    OBVIOUS
  <2>1. PICK i \in 1..(n - 1) : y = u[i]
    BY <1>2 DEF Range
  <2>2. i + 1 \in 1..n /\ y = q[i + 1]
    BY <1>1, <1>2, <2>1
  <2> QED
    BY <1>2, <2>2 DEF Range
<1>5. \A y \in Range(q) : y = Head(q) \/ y \in Range(u)
  <2> SUFFICES ASSUME NEW y \in Range(q), y # Head(q) PROVE y \in Range(u)
    OBVIOUS
  <2>1. PICK i \in 1..n : y = q[i]
    BY <1>2 DEF Range
  <2>2. i - 1 \in 1..(n - 1) /\ (i - 1) + 1 = i
    BY <1>2, <2>1
  <2>3. y = u[i - 1]
    BY <1>1, <2>1, <2>2
  <2> QED
    BY <1>2, <2>2, <2>3 DEF Range
<1>6. TargetsOf(q) = {Head(q).target} \cup TargetsOf(u)
  BY <1>3, <1>4, <1>5 DEF TargetsOf
<1> QED
  BY <1>1, <1>2, <1>3, <1>4, <1>6 DEF u

\* What any step may do to the cluster: nothing, or one more write.
Moves ==
    \/ UNCHANGED <<store, history>>
    \/ \E t \in Targets : \E obj \in Object \cup {Absent} :
          /\ obj # Absent => obj.rv = Len(history) + 1
          /\ store' = [store EXCEPT ![t] = obj]
          /\ history' = Append(history, [target |-> t, obj |-> obj])

\* Every step of Next does so.
LEMMA NextMoves ==
    ASSUME IndInv, [Next]_vars
    PROVE  Moves
<1>1. ASSUME NEW h \in Handlers, pc[h] = "patch", Commit(h) PROVE Moves
  <2>1. PICK t \in Targets, obj \in Object :
           /\ obj.rv = Len(history) + 1
           /\ store' = [store EXCEPT ![t] = obj]
           /\ history' = Append(history, [target |-> t, obj |-> obj])
    <3>1. Written(h).rv = Len(history) + 1
      BY WrittenIs
    <3> QED
      BY <1>1, <3>1, CommitFacts
  <2> QED
    BY <2>1 DEF Moves
<1>2. ASSUME NEW h \in Handlers, Request(h) PROVE Moves
  BY <1>2 DEF Request, Apply, BatchApply, Revert, RevertRefused, Moves
<1>3. ASSUME NEW h \in Handlers, HandlerStep(h) PROVE Moves
  <2>1. CASE PatchOk(h) \/ PatchLost(h)
    BY <1>1, <2>1 DEF PatchOk, PatchLost
  <2>2. CASE ~(PatchOk(h) \/ PatchLost(h))
    <3>1. UNCHANGED <<store, history>>
      BY <1>3, <2>2 DEF HandlerStep, GateRead, GateDecide, RevertBump, Fetch, PatchNoop,
                        PatchConflict, ApiError, Reply, Forget
    <3> QED
      BY <3>1 DEF Moves
  <2> QED
    BY <2>1, <2>2
<1>4. ASSUME NEW t \in Targets, NEW obj \in KubectlObjects(t), Kubectl(t, obj) PROVE Moves
  BY <1>4, KubectlObjectFacts DEF Kubectl, Moves
<1>5. ASSUME Crash PROVE Moves
  BY <1>5 DEF Crash, Forget, Moves
<1> QED
  BY <1>2, <1>3, <1>4, <1>5 DEF Next, vars, Moves

\* The past stays, and a change of an object is in the history.
LEMMA MovesFacts ==
    ASSUME IndInv, Moves
    PROVE  /\ Len(history) \in Nat /\ Len(history') \in Nat /\ Len(history) <= Len(history')
           /\ \A i \in 1..Len(history) : history'[i] = history[i]
           /\ \A t \in Targets : \/ store'[t] = store[t]
                                 \/ \E i \in (Len(history) + 1)..Len(history') : history'[i].target = t
           /\ StoreIsHistory => StoreIsHistory'
<1>1. /\ Len(history) \in Nat /\ store \in [Targets -> Object \cup {Absent}]
      /\ history \in Seq([target : Targets, obj : Object \cup {Absent}])
      /\ \A t \in Targets : store[t] # Absent => store[t].rv \in 1..Len(history)
  BY LenProperties DEF IndInv, TypeOK, RevisionsAreOld
<1>2. CASE UNCHANGED <<store, history>>
  BY <1>1, <1>2 DEF StoreIsHistory
<1>3. ASSUME NEW t \in Targets, NEW obj \in Object \cup {Absent},
             obj # Absent => obj.rv = Len(history) + 1,
             store' = [store EXCEPT ![t] = obj],
             history' = Append(history, [target |-> t, obj |-> obj])
      PROVE  /\ Len(history') \in Nat /\ Len(history) <= Len(history')
             /\ \A i \in 1..Len(history) : history'[i] = history[i]
             /\ \A x \in Targets : \/ store'[x] = store[x]
                                   \/ \E i \in (Len(history) + 1)..Len(history') :
                                         history'[i].target = x
             /\ StoreIsHistory => StoreIsHistory'
  <2>1. PICK e \in [target : Targets, obj : Object \cup {Absent}] :
           e = [target |-> t, obj |-> obj] /\ e.target = t
    <3> DEFINE e == [target |-> t, obj |-> obj]
    <3>1. e \in [target : Targets, obj : Object \cup {Absent}] /\ e.target = t
      OBVIOUS
    <3> HIDE DEF e
    <3>2. \E x \in [target : Targets, obj : Object \cup {Absent}] : x = e /\ x.target = t
      BY <3>1
    <3> QED
      BY <3>2 DEF e
  <2>2. history' = Append(history, e)
    BY <1>3, <2>1
  <2>3. /\ Len(history') = Len(history) + 1 /\ history'[Len(history) + 1] = e
        /\ \A i \in 1..Len(history) : history'[i] = history[i]
    BY <1>1, <2>1, <2>2, AppendProperties
  <2>4. Len(history) + 1 \in (Len(history) + 1)..Len(history') /\ history'[Len(history) + 1].target = t
    BY <1>1, <2>1, <2>3
  <2>5. \A x \in Targets : store'[x] = IF x = t THEN obj ELSE store[x]
    BY <1>1, <1>3
  <2>6. StoreIsHistory => StoreIsHistory'
    <3> SUFFICES ASSUME StoreIsHistory, NEW x \in Targets, store'[x] # Absent
                 PROVE  history'[store'[x].rv].target = x
      BY DEF StoreIsHistory
    <3>1. CASE x = t
      BY <1>3, <2>4, <2>5, <3>1
    <3>2. CASE x # t
      BY <1>1, <2>3, <2>5, <3>2 DEF StoreIsHistory
    <3> QED
      BY <3>1, <3>2
  <2> QED
    BY <1>1, <2>3, <2>4, <2>5, <2>6
<1> QED
  BY <1>1, <1>2, <1>3 DEF Moves

Read == [target : Targets, ver : 0..MaxU32, at : Nat]
Report == [target : Targets, rv : Nat]

\* What was known stays known, what took place stays so.
LEMMA KnownStays ==
    ASSUME IndInv, Moves
    PROVE  /\ \A g \in Read : (Overtaken(g) => Overtaken(g)') /\ (Known(g) => Known(g)')
           /\ \A w \in Report : Took(w) => Took(w)'
<1> DEFINE n == Len(history)
           m == Len(history')
<1>1. /\ n \in Nat /\ m \in Nat /\ n <= m /\ \A i \in 1..n : history'[i] = history[i]
      /\ \A t \in Targets : \/ store'[t] = store[t]
                            \/ \E i \in (n + 1)..m : history'[i].target = t
  BY MovesFacts
<1>2. ASSUME NEW g \in Read, Overtaken(g) PROVE Overtaken(g)'
  <2>1. PICK i \in (g.at + 1)..n : history[i].target = g.target
    BY <1>2 DEF Overtaken
  <2>2. g.at \in Nat
    BY DEF Read
  <2>3. i \in (g.at + 1)..m /\ history'[i].target = g.target
    BY <1>1, <2>1, <2>2
  <2> QED
    BY <2>3 DEF Overtaken
<1>3. ASSUME NEW g \in Read, Known(g) PROVE Known(g)'
  <2>1. g.at \in Nat /\ g.target \in Targets /\ g.at <= n
    BY <1>3 DEF Read, Known
  <2>2. g.at <= m
    BY <1>1, <2>1
  <2>3. CASE Overtaken(g)
    BY <1>2, <2>2, <2>3 DEF Known
  <2>4. CASE g.ver = parse_schema_version(store[g.target])
    <3>1. CASE store'[g.target] = store[g.target]
      BY <2>2, <2>4, <3>1 DEF Known, parse_schema_version
    <3>2. ASSUME NEW i \in (n + 1)..m, history'[i].target = g.target PROVE Known(g)'
      <4>1. i \in (g.at + 1)..m
        BY <1>1, <2>1
      <4> QED
        BY <2>2, <3>2, <4>1 DEF Known, Overtaken
    <3> QED
      BY <1>1, <2>1, <3>1, <3>2
  <2> QED
    BY <1>3, <2>3, <2>4 DEF Known
<1>4. ASSUME NEW w \in Report, Took(w) PROVE Took(w)'
  BY <1>1, <1>4 DEF Took, Report
<1> QED
  BY <1>2, <1>3, <1>4

\* PartialBatchWasRaced of one handler, and BatchInv of one handler.
Excused(h) ==
    kind[h] = "batch" /\ outcome[h] = "failed_precondition" /\ results[h] # << >> =>
        \E g \in Range(gateReads[h]) : g.target = Head(items[h]).target /\ Overtaken(g)

BatchOf(h) == Gating(h) /\ Writing(h) /\ Tidy(h) /\ Recorded(h) /\ Excused(h)

\* BatchInv is the store's part and one part per handler.
LEMMA BatchInvIs == BatchInv <=> StoreIsHistory /\ \A h \in Handlers : BatchOf(h)
BY DEF BatchInv, BatchOf, PartialBatchWasRaced, Excused, Overtaken

\* Handler h keeps its records, and the handlers other than h do.
Same(h) ==
    /\ pc'[h] = pc[h] /\ kind'[h] = kind[h] /\ items'[h] = items[h]
    /\ gateReads'[h] = gateReads[h] /\ results'[h] = results[h] /\ outcome'[h] = outcome[h]

Others(h) == \A g \in Handlers : g # h => Same(g)

\* The records of a handler are typed, and so is what is in them.
LEMMA RecordTypes ==
    ASSUME IndInv, NEW h \in Handlers
    PROVE  /\ gateReads[h] \in Seq(Read) /\ results[h] \in Seq(Report) /\ items[h] \in Seq(Item)
           /\ Range(gateReads[h]) \subseteq Read /\ Range(results[h]) \subseteq Report
           /\ Range(items[h]) \subseteq Item
<1>1. gateReads[h] \in Seq(Read) /\ results[h] \in Seq(Report) /\ items[h] \in Seq(Item)
  BY DEF IndInv, TypeOK, Read, Report
<1> QED
  BY <1>1, RangeOfSeq

\* Steps of others do not disturb what a batch knows.
LEMMA Bystander ==
    ASSUME IndInv, NEW h \in Handlers, BatchOf(h), Moves, Same(h)
    PROVE  BatchOf(h)'
<1>1. Range(gateReads[h]) \subseteq Read /\ Range(results[h]) \subseteq Report
  BY RecordTypes
<1>2. /\ \A g \in Read : (Overtaken(g) => Overtaken(g)') /\ (Known(g) => Known(g)')
      /\ \A w \in Report : Took(w) => Took(w)'
  BY KnownStays
<1>3. Gating(h)' /\ Tidy(h)'
  BY DEF BatchOf, Same, Gating, Tidy
<1>4. Writing(h)'
  BY DEF BatchOf, Same, Writing
<1>5. Recorded(h)'
  BY <1>1, <1>2 DEF BatchOf, Same, Recorded
<1>6. Excused(h)'
  BY <1>1, <1>2 DEF BatchOf, Same, Excused
<1> QED
  BY <1>3, <1>4, <1>5, <1>6 DEF BatchOf

\* A step of one handler keeps BatchInv if it keeps that handler's part.
LEMMA OneHandler ==
    ASSUME IndInv, BatchInv, Moves, NEW h \in Handlers, Others(h), BatchOf(h)'
    PROVE  BatchInv'
<1>1. StoreIsHistory'
  BY MovesFacts DEF BatchInv
<1>2. \A g \in Handlers : BatchOf(g)'
  BY Bystander, BatchInvIs DEF Others
<1> QED
  BY <1>1, <1>2 DEF BatchInv, BatchOf, PartialBatchWasRaced, Excused, Overtaken

\* A handler that has only just started, or is gone, has no records.
LEMMA BlankFine ==
    ASSUME NEW h \in Handlers, gateReads'[h] = << >>, results'[h] = << >>,
           pc'[h] # "answered" => outcome'[h] = "none",
           outcome'[h] # "ok", pc'[h] = "gate" => items'[h] \in Seq(Item),
           pc'[h] = "fetch" => kind'[h] # "batch" /\ Len(items'[h]) = 1, pc'[h] # "patch",
           pc'[h] = "bump" => kind'[h] = "revert"
    PROVE  BatchOf(h)'
<1>1. Range(<< >>) = {} /\ DOMAIN << >> = {} /\ Len(<< >>) = 0
  BY DEF Range
<1>2. Gating(h)'
  BY <1>1, LenProperties DEF Gating
<1>3. Writing(h)' /\ Tidy(h)'
  BY DEF Writing, Tidy
<1>4. Recorded(h)' /\ Excused(h)'
  BY <1>1 DEF Recorded, Excused
<1> QED
  BY <1>2, <1>3, <1>4 DEF BatchOf

\* Handlers that are gone, by a reply or a crash, leave nothing behind.
LEMMA ForgetBatch ==
    ASSUME IndInv, BatchInv, NEW S \in SUBSET Handlers, Forget(S)
    PROVE  BatchInv'
<1>1. Moves
  BY DEF Forget, Moves
<1>2. ASSUME NEW h \in Handlers PROVE BatchOf(h)'
  <2>1. CASE h \in S
    <3>1. /\ pc'[h] = "idle" /\ gateReads'[h] = << >> /\ results'[h] = << >>
          /\ outcome'[h] = "none"
      BY <2>1 DEF Forget, Reset
    <3> QED
      BY <3>1, BlankFine
  <2>2. CASE h \notin S
    <3>1. Same(h)
      BY <2>2 DEF Forget, Reset, Same
    <3> QED
      BY <1>1, <3>1, Bystander, BatchInvIs
  <2> QED
    BY <2>1, <2>2
<1>3. StoreIsHistory'
  BY <1>1, MovesFacts DEF BatchInv
<1> QED
  BY <1>2, <1>3 DEF BatchInv, BatchOf, PartialBatchWasRaced, Excused, Overtaken

\* A request finds its handler without records.
LEMMA RequestBatch ==
    ASSUME IndInv, BatchInv, NEW h \in Handlers, Request(h)
    PROVE  BatchInv'
<1>1. /\ pc[h] = "idle" /\ UNCHANGED <<store, history, gateReads, results>>
  BY DEF Request, Apply, BatchApply, Revert, RevertRefused, Refuse, Proceed
<1>2. gateReads'[h] = << >> /\ results'[h] = << >> /\ outcome[h] = "none"
  BY <1>1, BatchInvIs DEF BatchOf, Tidy
<1>3. /\ pc \in [Handlers -> {"idle", "gate", "bump", "fetch", "patch", "answered"}]
      /\ kind \in [Handlers -> {"none", "apply", "batch", "revert"}]
      /\ items \in [Handlers -> Seq(Item)] /\ outcome \in [Handlers -> Statuses]
  BY DEF IndInv, TypeOK
<1>4. ASSUME NEW k, NEW st \in Statuses \ {"none", "ok"}, Refuse(h, k, st)
      PROVE  Others(h) /\ BatchOf(h)'
  <2>1. pc'[h] = "answered" /\ outcome'[h] = st
    BY <1>3, <1>4 DEF Refuse
  <2>2. BatchOf(h)'
    BY <1>2, <1>4, <2>1, BlankFine
  <2>3. Others(h)
    BY <1>3, <1>4 DEF Refuse, Others, Same
  <2> QED
    BY <2>2, <2>3
<1>5. ASSUME NEW k, NEW req \in Seq(Item), NEW next, Proceed(h, k, req, next),
             \/ k = "apply" /\ next = "fetch" /\ Len(req) = 1
             \/ k = "batch" /\ next = "gate"
      PROVE  Others(h) /\ BatchOf(h)'
  <2>1. pc'[h] = next /\ outcome'[h] = "none" /\ kind'[h] = k /\ items'[h] = req
    BY <1>2, <1>3, <1>5 DEF Proceed
  <2>2. BatchOf(h)'
    BY <1>2, <1>5, <2>1, BlankFine
  <2>3. Others(h)
    BY <1>1, <1>3, <1>5 DEF Proceed, Others, Same
  <2> QED
    BY <2>2, <2>3
<1>6. Others(h) /\ BatchOf(h)'
  <2>1. ASSUME NEW req \in Requests, Apply(h, req) PROVE Others(h) /\ BatchOf(h)'
    <3>1. req \in Seq(Item)
      BY RequestsAssumption
    <3>2. \/ Refuse(h, "apply", "invalid_argument")
          \/ Refuse(h, "apply", "failed_precondition")
          \/ Proceed(h, "apply", req, "fetch") /\ Len(req) = 1
      BY <2>1 DEF Apply
    <3> QED
      BY <1>4, <1>5, <3>1, <3>2 DEF Statuses
  <2>2. ASSUME NEW req \in Requests, BatchApply(h, req) PROVE Others(h) /\ BatchOf(h)'
    <3>1. req \in Seq(Item)
      BY RequestsAssumption
    <3>2. \/ Refuse(h, "batch", "invalid_argument")
          \/ Refuse(h, "batch", "failed_precondition")
          \/ Proceed(h, "batch", req, "gate")
      BY <2>2 DEF BatchApply
    <3> QED
      BY <1>4, <1>5, <3>1, <3>2 DEF Statuses
  <2>3. ASSUME NEW t \in Targets, NEW r \in 1..Len(history), Revert(h, t, r)
        PROVE  Others(h) /\ BatchOf(h)'
    <3>1. PICK q : \/ Refuse(h, "revert", "not_found") \/ Refuse(h, "revert", "data_loss")
                   \/ /\ kind' = [kind EXCEPT ![h] = "revert"]
                      /\ items' = [items EXCEPT ![h] = q]
                      /\ pc' = [pc EXCEPT ![h] = "bump"]
                      /\ UNCHANGED <<gateReads, results, outcome>>
      BY <2>3 DEF Revert
    <3>2. CASE /\ kind' = [kind EXCEPT ![h] = "revert"] /\ items' = [items EXCEPT ![h] = q]
               /\ pc' = [pc EXCEPT ![h] = "bump"] /\ UNCHANGED <<gateReads, results, outcome>>
      <4>1. pc'[h] = "bump" /\ outcome'[h] = "none" /\ kind'[h] = "revert"
        BY <1>2, <1>3, <3>2
      <4>2. BatchOf(h)'
        BY <1>2, <4>1, BlankFine
      <4>3. Others(h)
        BY <1>3, <3>2 DEF Others, Same
      <4> QED
        BY <4>2, <4>3
    <3> QED
      BY <1>4, <3>1, <3>2 DEF Statuses
  <2>4. CASE RevertRefused(h)
    BY <1>4, <2>4 DEF RevertRefused, Statuses
  <2> QED
    BY <2>1, <2>2, <2>3, <2>4 DEF Request
<1> QED
  BY <1>1, <1>6, OneHandler DEF Moves

\* An answer keeps the records.  One that reports a stale version after some
\* writes has an excuse.
LEMMA AnswerBatch ==
    ASSUME IndInv, BatchInv, Moves, NEW h \in Handlers, NEW st \in Statuses \ {"none", "ok"},
           Answer(h, st),
           \/ st # "failed_precondition" \/ results[h] = << >>
           \/ \E g \in Range(gateReads[h]) : g.target = Head(items[h]).target /\ Overtaken(g)
    PROVE  BatchInv'
<1>1. /\ pc'[h] = "answered" /\ outcome'[h] = st /\ kind'[h] = kind[h] /\ items'[h] = items[h]
      /\ gateReads'[h] = gateReads[h] /\ results'[h] = results[h]
  BY DEF IndInv, TypeOK, Answer
<1>2. Others(h)
  BY DEF IndInv, TypeOK, Answer, Others, Same
<1>3. BatchOf(h)
  BY BatchInvIs
<1>4. Range(gateReads[h]) \subseteq Read /\ Range(results[h]) \subseteq Report
  BY RecordTypes
<1>5. /\ \A g \in Read : (Overtaken(g) => Overtaken(g)') /\ (Known(g) => Known(g)')
      /\ \A w \in Report : Took(w) => Took(w)'
  BY KnownStays
<1>6. Gating(h)' /\ Writing(h)' /\ Tidy(h)'
  BY <1>1 DEF Gating, Writing, Tidy
<1>7. Recorded(h)'
  BY <1>1, <1>3, <1>4, <1>5 DEF BatchOf, Recorded
<1>8. Excused(h)'
  BY <1>1, <1>4, <1>5 DEF Excused
<1> QED
  BY <1>2, <1>6, <1>7, <1>8, OneHandler DEF BatchOf

\* The gate reads one more version.
LEMMA GateReadBatch ==
    ASSUME IndInv, BatchInv, NEW h \in Handlers, GateRead(h)
    PROVE  BatchInv'
<1> DEFINE q == gateReads[h]
           n == Len(q)
           t == items[h][n + 1].target
           e == [target |-> t, ver |-> parse_schema_version(store[t]), at |-> Len(history)]
<1>1. /\ pc[h] = "gate" /\ n < Len(items[h])
      /\ gateReads' = [gateReads EXCEPT ![h] = Append(q, e)]
      /\ UNCHANGED <<store, history, pc, kind, items, results, outcome>>
  BY DEF GateRead
<1>2. q \in Seq(Read) /\ items[h] \in Seq(Item) /\ Range(q) \subseteq Read
  BY RecordTypes
<1>3. /\ n \in Nat /\ Len(items[h]) \in Nat /\ Len(history) \in Nat /\ DOMAIN q = 1..n
  BY <1>2, LenProperties DEF IndInv, TypeOK
<1>4. t \in Targets
  <2>1. n + 1 \in 1..Len(items[h])
    BY <1>1, <1>3
  <2>2. items[h][n + 1] \in Item
    BY <1>2, <2>1, ElementOfSeq
  <2> QED
    BY <2>2 DEF Item
<1>5. e \in Read /\ e.target = t /\ e.at = Len(history) /\ e.ver = parse_schema_version(store[t])
  BY <1>3, <1>4, ParseType DEF IndInv, TypeOK, Read
<1> HIDE DEF e
<1>6. gateReads'[h] = Append(q, e) /\ Others(h)
  BY <1>1 DEF IndInv, TypeOK, Others, Same
<1>7. /\ Append(q, e) \in Seq(Read)
      /\ \A y : y \in Range(Append(q, e)) <=> y \in Range(q) \/ y = e
  BY <1>2, <1>5, HoldsAppended
<1>8. /\ Len(Append(q, e)) = n + 1 /\ DOMAIN Append(q, e) = 1..(n + 1)
      /\ \A i \in 1..n : Append(q, e)[i] = q[i]
      /\ Append(q, e)[n + 1] = e
  BY <1>2, <1>5, <1>7, AppendProperties, LenProperties
<1>9. BatchOf(h)
  BY BatchInvIs
<1>10. Gating(h)'
  <2>1. n + 1 <= Len(items[h])
    BY <1>1, <1>3
  <2>2. \A i \in 1..(n + 1) : Append(q, e)[i].target = items[h][i].target
    <3> TAKE i \in 1..(n + 1)
    <3>1. CASE i = n + 1
      BY <1>5, <1>8, <3>1
    <3>2. CASE i # n + 1
      <4>1. i \in 1..n
        BY <1>3, <3>2
      <4> QED
        BY <1>1, <1>3, <1>8, <1>9, <4>1 DEF BatchOf, Gating
    <3> QED
      BY <3>1, <3>2
  <2> QED
    BY <1>1, <1>6, <1>8, <2>1, <2>2 DEF Gating
<1>11. Writing(h)' /\ Tidy(h)' /\ Excused(h)'
  BY <1>1, <1>9 DEF BatchOf, Writing, Tidy, Excused
<1>12. Recorded(h)'
  <2>1. Moves
    BY <1>1 DEF Moves
  <2>2. \A g \in Read : Known(g) => Known(g)'
    BY <2>1, KnownStays
  <2>3. \A w : Took(w) => Took(w)'
    BY <1>1 DEF Took
  <2>4. ASSUME NEW g, g = e PROVE Known(g)'
    BY <1>1, <1>3, <1>5, <2>4 DEF Known, parse_schema_version
  <2> QED
    BY <1>1, <1>2, <1>6, <1>7, <1>9, <2>2, <2>3, <2>4 DEF BatchOf, Recorded
<1>13. Moves
  BY <1>1 DEF Moves
<1> QED
  BY <1>6, <1>10, <1>11, <1>12, <1>13, OneHandler DEF BatchOf

\* The gate accepts and sorts the items, or refuses the batch.
LEMMA GateDecideBatch ==
    ASSUME IndInv, BatchInv, NEW h \in Handlers, GateDecide(h)
    PROVE  BatchInv'
<1> DEFINE q == gateReads[h]
           p == items[h]
<1>1. pc[h] = "gate" /\ Len(q) = Len(p) /\ kind[h] = "batch" /\ UNCHANGED <<store, history>>
  BY DEF GateDecide, IndInv, ItemAtHand
<1>2. BatchOf(h) /\ Moves
  BY <1>1, BatchInvIs DEF Moves
<1>3. results[h] = << >> /\ outcome[h] = "none"
  BY <1>1, <1>2 DEF BatchOf, Tidy
<1>4. CASE gate_batch_versions(p, q)
  <2>1. PICK s \in sort_batch_items(p) :
           /\ items' = [items EXCEPT ![h] = s] /\ pc' = [pc EXCEPT ![h] = "fetch"]
           /\ UNCHANGED <<kind, gateReads, results, outcome>>
    BY <1>4 DEF GateDecide
  <2>2. p \in Seq(Item) /\ q \in Seq(Read)
    BY RecordTypes
  <2>3. /\ Range(s) = Range(p)
        /\ \A i, j \in DOMAIN s : i < j => s[i].target < s[j].target
    BY <2>1, <2>2, SortCovers
  <2>4. items'[h] = s /\ pc'[h] = "fetch" /\ Others(h)
    BY <2>1 DEF IndInv, TypeOK, Others, Same
  <2>5. DOMAIN p = DOMAIN q
    BY <1>1, <2>2, LenProperties
  <2>6. \A i \in DOMAIN p : q[i].target = p[i].target
    BY <1>1, <1>2, <2>5 DEF BatchOf, Gating
  <2>7. TargetsOf(s) = TargetsOf(q)
    <3>1. TargetsOf(p) = TargetsOf(q)
      BY <2>5, <2>6 DEF TargetsOf, Range
    <3>2. TargetsOf(s) = TargetsOf(p)
      BY <2>3 DEF TargetsOf
    <3> QED
      BY <3>1, <3>2
  <2>8. \A it \in Range(s) : \E g \in Range(q) :
           g.target = it.target /\ schema_version_decision(it.ver, g.ver)
    <3> SUFFICES ASSUME NEW it \in Range(p)
                 PROVE  \E g \in Range(q) :
                           g.target = it.target /\ schema_version_decision(it.ver, g.ver)
      BY <2>3
    <3>1. PICK i \in DOMAIN p : it = p[i]
      BY DEF Range
    <3>2. q[i] \in Range(q)
      BY <2>5 DEF Range
    <3>3. schema_version_decision(it.ver, q[i].ver)
      BY <1>4, <3>1 DEF gate_batch_versions
    <3> QED
      BY <2>6, <3>1, <3>2, <3>3
  <2>9. Range(<< >>) = {} /\ TargetsOf(<< >>) = {}
    BY DEF Range, TargetsOf
  <2>10. TargetsOf(<< >>) \cup TargetsOf(s) = TargetsOf(q)
    BY <2>7, <2>9
  <2>11. Writing(h)'
    <3>1. results'[h] = << >> /\ gateReads'[h] = q
      BY <1>3, <2>1
    <3> QED
      BY <2>3, <2>4, <2>8, <2>9, <2>10, <3>1 DEF Writing
  <2>12. Gating(h)' /\ Tidy(h)' /\ Excused(h)'
    BY <1>1, <1>3, <2>1, <2>4 DEF Gating, Tidy, Excused
  <2>13. Recorded(h)'
    BY <1>1, <1>2, <2>1 DEF BatchOf, Recorded, Known, Took, Overtaken
  <2> QED
    BY <1>2, <2>4, <2>11, <2>12, <2>13, OneHandler DEF BatchOf
<1>5. CASE ~gate_batch_versions(p, q)
  <2>1. Answer(h, "failed_precondition")
    BY <1>5 DEF GateDecide
  <2>2. "failed_precondition" \in Statuses \ {"none", "ok"}
    BY DEF Statuses
  <2> QED
    BY <1>2, <1>3, <2>1, <2>2, AnswerBatch
<1> QED
  BY <1>4, <1>5

\* A Revert raises its version; it is no batch.
LEMMA RevertBumpBatch ==
    ASSUME IndInv, BatchInv, NEW h \in Handlers, RevertBump(h)
    PROVE  BatchInv'
<1>1. BatchOf(h) /\ pc[h] = "bump" /\ UNCHANGED <<store, history, kind, gateReads, results, outcome>>
  BY BatchInvIs DEF RevertBump
<1>2. PICK x : items' = [items EXCEPT ![h] = <<x>>] /\ pc' = [pc EXCEPT ![h] = "fetch"]
  BY DEF RevertBump
<1>3. /\ pc'[h] = "fetch" /\ items'[h] = <<x>> /\ Others(h)
  BY <1>1, <1>2 DEF IndInv, TypeOK, Others, Same
<1>4. kind'[h] = "revert" /\ results'[h] = << >> /\ outcome'[h] = "none" /\ Len(items'[h]) = 1
  BY <1>1, <1>3 DEF BatchOf, Tidy
<1>5. Gating(h)' /\ Writing(h)' /\ Tidy(h)' /\ Excused(h)'
  BY <1>3, <1>4 DEF Gating, Writing, Tidy, Excused
<1>6. Recorded(h)'
  BY <1>1 DEF BatchOf, Recorded, Known, Took, Overtaken
<1>7. Moves
  BY <1>1 DEF Moves
<1> QED
  BY <1>3, <1>5, <1>6, <1>7, OneHandler DEF BatchOf

\* apply_spec reads again: a version that is stale now was not at the gate.
LEMMA FetchBatch ==
    ASSUME IndInv, BatchInv, NEW h \in Handlers, Fetch(h)
    PROVE  BatchInv'
<1> DEFINE it == Head(items[h])
           now == parse_schema_version(store[it.target])
<1>1. BatchOf(h) /\ pc[h] = "fetch" /\ UNCHANGED <<store, history>> /\ Moves
  BY BatchInvIs DEF Fetch, Moves
<1>2. CASE schema_version_decision(it.ver, now)
  <2>1. pc' = [pc EXCEPT ![h] = "patch"] /\ UNCHANGED <<kind, items, gateReads, results, outcome>>
    BY <1>2 DEF Fetch
  <2>2. pc'[h] = "patch" /\ Others(h)
    BY <2>1 DEF IndInv, TypeOK, Others, Same
  <2>3. Gating(h)' /\ Tidy(h)' /\ Excused(h)'
    BY <1>1, <2>1, <2>2 DEF BatchOf, Gating, Tidy, Excused
  <2>4. Writing(h)'
    BY <1>1, <2>1, <2>2 DEF BatchOf, Writing
  <2>5. Recorded(h)'
    BY <1>1, <2>1 DEF BatchOf, Recorded, Known, Took, Overtaken
  <2> QED
    BY <1>1, <2>2, <2>3, <2>4, <2>5, OneHandler DEF BatchOf
<1>3. CASE ~schema_version_decision(it.ver, now)
  <2>1. Answer(h, "failed_precondition")
    BY <1>3 DEF Fetch
  <2>2. "failed_precondition" \in Statuses \ {"none", "ok"}
    BY DEF Statuses
  <2>3. \/ results[h] = << >>
        \/ \E g \in Range(gateReads[h]) : g.target = it.target /\ Overtaken(g)
    <3>1. CASE kind[h] # "batch"
      BY <1>1, <3>1 DEF BatchOf, Tidy
    <3>2. CASE kind[h] = "batch"
      <4>1. it \in Range(items[h])
        <5>1. items[h] # << >> /\ items[h] \in Seq(Item)
          BY <1>1, RecordTypes DEF IndInv, ItemAtHand
        <5> QED
          BY <5>1, HoldsHead
      <4>2. PICK g \in Range(gateReads[h]) :
               g.target = it.target /\ schema_version_decision(it.ver, g.ver)
        BY <1>1, <3>2, <4>1 DEF BatchOf, Writing
      <4>3. g.ver # now
        BY <1>3, <4>2
      <4>4. Known(g)
        BY <1>1 DEF BatchOf, Recorded
      <4> QED
        BY <4>2, <4>3, <4>4 DEF Known
    <3> QED
      BY <3>1, <3>2
  <2> QED
    BY <1>1, <2>1, <2>2, <2>3, AnswerBatch
<1> QED
  BY <1>2, <1>3

\* apply_spec returned Ok: the item moves from what is left to what is reported.
LEMMA ItemDoneBatch ==
    ASSUME IndInv, BatchInv, Moves, NEW h \in Handlers, pc[h] = "patch", NEW rv \in Nat,
           ItemDone(h, rv), rv \in 1..Len(history'), history'[rv].target = Head(items[h]).target
    PROVE  BatchInv'
<1> DEFINE p == items[h]
           q == results[h]
           u == Tail(p)
<1>1. BatchOf(h) /\ p # << >>
  BY BatchInvIs DEF IndInv, ItemAtHand
<1>2. p \in Seq(Item) /\ q \in Seq(Report) /\ Range(q) \subseteq Report /\ Range(p) \subseteq Item
      /\ Range(gateReads[h]) \subseteq Read
  BY RecordTypes
<1>3. /\ Head(p) \in Item /\ u \in Seq(Item) /\ Head(p) \in Range(p)
      /\ \A y \in Range(u) : y \in Range(p)
      /\ TargetsOf(p) = {Head(p).target} \cup TargetsOf(u)
      /\ Len(p) \in Nat \ {0} /\ DOMAIN p = 1..Len(p) /\ Head(p) = p[1]
      /\ Len(u) = Len(p) - 1 /\ DOMAIN u = 1..(Len(p) - 1)
      /\ \A i \in 1..(Len(p) - 1) : u[i] = p[i + 1]
  BY <1>1, <1>2, HoldsHead
<1>4. PICK w \in Report : w = [target |-> Head(p).target, rv |-> rv] /\ w.rv = rv /\ w.target = Head(p).target
  <2> DEFINE w == [target |-> Head(p).target, rv |-> rv]
  <2>1. w \in Report /\ w.rv = rv /\ w.target = Head(p).target
    BY <1>3 DEF Report, Item
  <2> HIDE DEF w
  <2>2. \E x \in Report : x = w /\ x.rv = rv /\ x.target = Head(p).target
    BY <2>1
  <2> QED
    BY <2>2 DEF w
<1>5. /\ results' = [results EXCEPT ![h] = Append(q, w)] /\ items' = [items EXCEPT ![h] = u]
      /\ UNCHANGED <<kind, gateReads>>
      /\ IF Len(p) = 1
         THEN pc' = [pc EXCEPT ![h] = "answered"] /\ outcome' = [outcome EXCEPT ![h] = "ok"]
         ELSE pc' = [pc EXCEPT ![h] = "fetch"] /\ UNCHANGED outcome
  BY <1>4 DEF ItemDone
<1>6. /\ results'[h] = Append(q, w) /\ items'[h] = u /\ kind'[h] = kind[h]
      /\ gateReads'[h] = gateReads[h] /\ Others(h)
      /\ Len(p) = 1 => pc'[h] = "answered" /\ outcome'[h] = "ok"
      /\ Len(p) # 1 => pc'[h] = "fetch" /\ outcome'[h] = outcome[h]
  <2>1. /\ results'[h] = Append(q, w) /\ items'[h] = u /\ kind'[h] = kind[h]
        /\ gateReads'[h] = gateReads[h]
        /\ Len(p) = 1 => pc'[h] = "answered" /\ outcome'[h] = "ok"
        /\ Len(p) # 1 => pc'[h] = "fetch" /\ outcome'[h] = outcome[h]
    BY <1>5 DEF IndInv, TypeOK
  <2>2. Others(h)
    BY <1>5 DEF IndInv, TypeOK, Others, Same
  <2> QED
    BY <2>1, <2>2
<1>7. /\ \A y : y \in Range(Append(q, w)) <=> y \in Range(q) \/ y = w
      /\ TargetsOf(Append(q, w)) = TargetsOf(q) \cup {w.target}
  BY <1>2, HoldsAppended
<1>8. outcome[h] = "none" /\ (kind[h] # "batch" => Len(p) = 1)
  BY <1>1 DEF BatchOf, Tidy
<1>9. TargetsOf(Append(q, w)) \cup TargetsOf(u) = TargetsOf(q) \cup TargetsOf(p)
  BY <1>3, <1>4, <1>7
<1>10. Writing(h)'
  <2> SUFFICES ASSUME kind[h] = "batch", Len(p) # 1 PROVE Writing(h)'
    BY <1>6 DEF Writing
  <2>1. /\ \A i, j \in 1..Len(p) : i < j => p[i].target < p[j].target
        /\ \A x \in Range(q), it \in Range(p) : x.target < it.target
        /\ TargetsOf(q) \cup TargetsOf(p) = TargetsOf(gateReads[h])
        /\ \A it \in Range(p) : \E g \in Range(gateReads[h]) :
              g.target = it.target /\ schema_version_decision(it.ver, g.ver)
    BY <1>1, <1>3 DEF BatchOf, Writing
  <2>2. \A i, j \in DOMAIN u : i < j => u[i].target < u[j].target
    <3> TAKE i, j \in DOMAIN u
    <3>1. i + 1 \in 1..Len(p) /\ j + 1 \in 1..Len(p) /\ (i < j => i + 1 < j + 1)
      BY <1>3
    <3> QED
      BY <1>3, <2>1, <3>1
  <2>3. \A x \in Range(Append(q, w)), it \in Range(u) : x.target < it.target
    <3> TAKE x \in Range(Append(q, w)), it \in Range(u)
    <3>1. PICK i \in 1..(Len(p) - 1) : it = u[i]
      BY <1>3 DEF Range
    <3>2. i + 1 \in 1..Len(p) /\ 1 \in 1..Len(p) /\ 1 < i + 1 /\ it = p[i + 1]
      BY <1>3, <3>1
    <3>3. Head(p).target < it.target
      BY <1>3, <2>1, <3>2
    <3> QED
      BY <1>3, <1>4, <1>7, <2>1, <3>3
  <2>4. TargetsOf(Append(q, w)) \cup TargetsOf(u) = TargetsOf(gateReads[h])
    BY <1>9, <2>1
  <2> QED
    BY <1>3, <1>6, <2>1, <2>2, <2>3, <2>4 DEF Writing
<1>11. Tidy(h)'
  <2>1. ASSUME Len(p) = 1, kind[h] = "batch"
        PROVE  TargetsOf(Append(q, w)) = TargetsOf(gateReads[h])
    <3>1. TargetsOf(u) = {}
      <4>1. DOMAIN u = {}
        BY <1>3, <2>1
      <4> QED
        BY <4>1 DEF TargetsOf, Range
    <3>2. TargetsOf(q) \cup TargetsOf(p) = TargetsOf(gateReads[h])
      BY <1>1, <2>1 DEF BatchOf, Writing
    <3> QED
      BY <1>9, <3>1, <3>2
  <2> QED
    BY <1>6, <1>8, <2>1 DEF Tidy
<1>12. Gating(h)' /\ Excused(h)'
  BY <1>6, <1>8 DEF Gating, Excused
<1>13. Recorded(h)'
  <2>1. /\ \A g \in Read : Known(g) => Known(g)'
        /\ \A x \in Report : Took(x) => Took(x)'
    BY KnownStays
  <2>2. Took(w)'
    BY <1>4 DEF Took
  <2> QED
    BY <1>1, <1>2, <1>6, <1>7, <2>1, <2>2 DEF BatchOf, Recorded
<1> QED
  BY <1>6, <1>10, <1>11, <1>12, <1>13, OneHandler DEF BatchOf

\* A patch that was committed is reported with its own revision.
LEMMA PatchOkBatch ==
    ASSUME IndInv, BatchInv, NEW h \in Handlers, PatchOk(h), Moves
    PROVE  BatchInv'
<1> DEFINE t == Head(items[h]).target
<1>1. pc[h] = "patch" /\ Commit(h) /\ ItemDone(h, Len(history) + 1)
  BY DEF PatchOk
<1>2. PICK e \in [target : Targets, obj : Object \cup {Absent}] :
         history' = Append(history, e) /\ e.target = t
  <2> DEFINE e == [target |-> t, obj |-> Written(h)]
  <2>1. e \in [target : Targets, obj : Object \cup {Absent}] /\ e.target = t /\ history' = Append(history, e)
    BY <1>1, CommitFacts
  <2> QED
    BY <2>1
<1>3. /\ Len(history) \in Nat /\ Len(history') = Len(history) + 1
      /\ history'[Len(history) + 1] = e
  BY <1>2, AppendProperties, LenProperties DEF IndInv, TypeOK
<1>4. Len(history) + 1 \in Nat /\ Len(history) + 1 \in 1..Len(history')
  BY <1>3
<1> QED
  BY <1>1, <1>2, <1>3, <1>4, ItemDoneBatch

\* A patch that changes nothing is reported with the stored revision.
LEMMA PatchNoopBatch ==
    ASSUME IndInv, BatchInv, NEW h \in Handlers, PatchNoop(h), Moves
    PROVE  BatchInv'
<1> DEFINE t == Head(items[h]).target
<1>1. /\ pc[h] = "patch" /\ store[t] # Absent /\ ItemDone(h, store[t].rv)
      /\ UNCHANGED <<store, history>>
  BY DEF PatchNoop
<1>2. t \in Targets
  BY <1>1, HeadType DEF IndInv, ItemAtHand, Item
<1>3. store[t].rv \in 1..Len(history') /\ history'[store[t].rv].target = t
  BY <1>1, <1>2 DEF IndInv, RevisionsAreOld, BatchInv, StoreIsHistory
<1>4. store[t].rv \in Nat
  BY <1>1, <1>2 DEF IndInv, TypeOK, Object
<1> QED
  BY <1>1, <1>3, <1>4, ItemDoneBatch

\* No handler runs yet.
LEMMA InitBatch == Init => BatchInv
<1> SUFFICES ASSUME Init PROVE BatchInv
  OBVIOUS
<1>1. Range(<< >>) = {}
  BY DEF Range
<1>2. StoreIsHistory
  BY DEF Init, StoreIsHistory
<1>3. \A h \in Handlers : BatchOf(h)
  BY <1>1 DEF Init, BatchOf, Gating, Writing, Tidy, Recorded, Excused
<1> QED
  BY <1>2, <1>3, BatchInvIs

\* Every step keeps BatchInv.
LEMMA NextBatch == IndInv /\ BatchInv /\ [Next]_vars => BatchInv'
<1> SUFFICES ASSUME IndInv, BatchInv, [Next]_vars PROVE BatchInv'
  OBVIOUS
<1>1. Moves
  BY NextMoves
<1>2. \A st \in {"aborted", "unavailable"} : st \in Statuses \ {"none", "ok"} /\ st # "failed_precondition"
  BY DEF Statuses
<1>3. ASSUME \A h \in Handlers : Same(h) PROVE BatchInv'
  <2>1. StoreIsHistory'
    BY <1>1, MovesFacts DEF BatchInv
  <2>2. \A h \in Handlers : BatchOf(h)'
    BY <1>1, <1>3, Bystander, BatchInvIs
  <2> QED
    BY <2>1, <2>2 DEF BatchInv, BatchOf, PartialBatchWasRaced, Excused, Overtaken
<1>4. ASSUME NEW h \in Handlers, Request(h) PROVE BatchInv'
  BY <1>4, RequestBatch
<1>5. ASSUME NEW h \in Handlers, HandlerStep(h) PROVE BatchInv'
  <2>1. CASE PatchLost(h)
    BY <1>1, <1>2, <2>1, AnswerBatch DEF PatchLost
  <2>2. CASE ApiError(h)
    BY <1>1, <1>2, <2>2, AnswerBatch DEF ApiError
  <2>3. CASE PatchConflict(h)
    <3>1. CASE attempt[h] < RetryBudget
      <4>1. \A g \in Handlers : Same(g)
        BY <2>3, <3>1 DEF PatchConflict, Same
      <4> QED
        BY <1>3, <4>1
    <3>2. CASE ~(attempt[h] < RetryBudget)
      <4>1. Answer(h, "aborted")
        BY <2>3, <3>2 DEF PatchConflict
      <4> QED
        BY <1>1, <1>2, <4>1, AnswerBatch
    <3> QED
      BY <3>1, <3>2
  <2>4. CASE Reply(h)
    BY <2>4, ForgetBatch DEF Reply
  <2> QED
    BY <1>1, <1>5, <2>1, <2>2, <2>3, <2>4, GateReadBatch, GateDecideBatch, RevertBumpBatch,
       FetchBatch, PatchOkBatch, PatchNoopBatch DEF HandlerStep
<1>6. ASSUME NEW t \in Targets, NEW obj \in KubectlObjects(t), Kubectl(t, obj) PROVE BatchInv'
  <2>1. \A h \in Handlers : Same(h)
    BY <1>6 DEF Kubectl, locals, Same
  <2> QED
    BY <1>3, <2>1
<1>7. ASSUME Crash PROVE BatchInv'
  <2>1. PICK S \in SUBSET {h \in Handlers : pc[h] # "idle"} : Forget(S)
    BY <1>7 DEF Crash
  <2>2. S \in SUBSET Handlers
    OBVIOUS
  <2> QED
    BY <2>1, <2>2, ForgetBatch
<1>8. ASSUME UNCHANGED vars PROVE BatchInv'
  <2>1. \A h \in Handlers : Same(h)
    BY <1>8 DEF vars, Same
  <2> QED
    BY <1>3, <2>1
<1> QED
  BY <1>4, <1>5, <1>6, <1>7, <1>8 DEF Next

\* BatchInv holds in every reachable state.
LEMMA BatchInductive == Spec => []BatchInv
BY Inductive, InitBatch, NextBatch, PTL DEF Spec

\* An "ok" answer to a batch reports every target the gate read, and each report
\* names a write of that target that took place (apply.rs handle_batch_apply).
THEOREM OkBatchIsComplete == Spec => []BatchOkIsComplete
<1>1. IndInv /\ BatchInv => BatchOkIsComplete
  BY DEF BatchInv, Tidy, Recorded, Took, BatchOkIsComplete
<1> QED
  BY <1>1, Inductive, BatchInductive, PTL

\* A batch that stops at a stale version after some of its writes was overtaken
\* by another writer since its gate (apply.rs gate_batch_versions, apply_spec).
THEOREM PartialBatchNeedsARace == Spec => []PartialBatchWasRaced
<1>1. BatchInv => PartialBatchWasRaced
  BY DEF BatchInv
<1> QED
  BY <1>1, BatchInductive, PTL

\* The writes of a batch land in (namespace, name) order (apply.rs
\* sort_batch_items), whatever others write in between.
THEOREM BatchLandsInOrder == Spec => BatchOrdered
<1> DEFINE Ordered == \A h \in Handlers : Writes(h) =>
                         \A w \in Range(results[h]) : w.target < TheWrite.target
<1>1. IndInv /\ BatchInv /\ [Next]_vars => [Ordered]_vars
  <2> SUFFICES ASSUME IndInv, BatchInv, [Next]_vars, NEW h \in Handlers, Writes(h),
                      NEW w \in Range(results[h])
               PROVE  w.target < TheWrite.target
    OBVIOUS
  <2>1. /\ pc[h] = "patch"
        /\ TheWrite = [target |-> Head(items[h]).target, obj |-> Written(h)]
    BY WritesCommit
  <2>2. TheWrite.target = Head(items[h]).target
    BY <2>1
  <2>3. items[h] \in Seq(Item) /\ items[h] # << >>
    BY <2>1, RecordTypes DEF IndInv, ItemAtHand
  <2>4. Head(items[h]) \in Range(items[h])
    BY <2>3, HoldsHead
  <2>5. Writing(h) /\ Tidy(h)
    BY DEF BatchInv
  <2>6. kind[h] = "batch"
    BY <2>1, <2>5 DEF Tidy, Range
  <2> QED
    BY <2>1, <2>2, <2>4, <2>5, <2>6 DEF Writing
<1>2. Spec => [][Ordered]_vars
  BY <1>1, Inductive, BatchInductive, PTL DEF Spec
<1> QED
  BY <1>2 DEF BatchOrdered

-----------------------------------------------------------------------------
(* One document, nobody else writing: the dry run and the command line     *)
(* against Apply, and the conversions that have to agree.                  *)

\* The conversions, with the integers of this module.
Cli == INSTANCE CommandLine WITH Word <- MaxU32 + 1

\* The write path and the conversions read and judge a stored version alike.
LEMMA GatesAgree ==
    ASSUME NEW obj \in Object, NEW incoming \in Nat
    PROVE  LET o == Cli!Stored(obj.ver, obj.content, obj.theirs)
               now == Cli!fetch_current_schema_version("found", o)
           IN  /\ parse_schema_version(obj) = now
               /\ schema_version_decision(incoming, parse_schema_version(obj))
                     <=> Cli!schema_version_decision(incoming, now)
<1> DEFINE o == Cli!Stored(obj.ver, obj.content, obj.theirs)
<1>1. obj.ver \in Nat /\ VerOf(obj) = obj.ver
  BY AbsentAssumption DEF Object, VerOf
<1>2. Cli!fetch_current_schema_version("found", o) = obj.ver % (MaxU32 + 1)
  BY <1>1 DEF Cli!Stored, Cli!fetch_current_schema_version, Cli!NotFound,
              Cli!parse_schema_version_from_object
<1>3. obj.ver % (MaxU32 + 1) \in Nat
  BY <1>1, ApplyAssumption
<1> QED
  BY <1>1, <1>2, <1>3 DEF parse_schema_version, schema_version_decision, Cli!schema_version_decision

\* What Apply and its dry run may meet: any object the CRD admits, whose content
\* is missing or an object with fields of F, any of them held by other managers;
\* any document with a content from C, and any schema.
Meetings(C, F, S) ==
    [found : {"found", Cli!NotFound, Cli!Unreadable},
     obj : [spec : BOOLEAN, version : Int,
            content : {Cli!Absent} \cup {Cli!Object(fs) : fs \in SUBSET F}, theirs : SUBSET F],
     doc : [version : Int, content : C], schema : S \cup {"none"}]

\* Whether the gate lets a document pass.
Passes(x) == x.doc.version > Cli!fetch_current_schema_version(x.found, x.obj)

\* DryRunApply, case by case.
LEMMA DryRunIs ==
    ASSUME NEW C, NEW F, NEW S, NEW x \in Meetings(C, F, S)
    PROVE  LET d == Cli!handle_dry_run_apply(x)
           IN  /\ ~Cli!ParsesAsSpec(x.doc) => d.code = "InvalidArgument"
               /\ Cli!ParsesAsSpec(x.doc) /\ x.found = Cli!Unreadable => d.code = "Unavailable"
               /\ Cli!ParsesAsSpec(x.doc) /\ x.found # Cli!Unreadable /\ ~Passes(x) =>
                     d.code = "FailedPrecondition"
               /\ Cli!ParsesAsSpec(x.doc) /\ x.found # Cli!Unreadable /\ Passes(x) =>
                     /\ d.code = "Ok" /\ d.proposed = Cli!SpecOf(x.doc).content
                     /\ x.found = "found" /\ x.obj.spec => d.current = x.obj.content
BY DEF Cli!handle_dry_run_apply, Cli!dry_run_response, Cli!Failed, Cli!Outcome, Passes, Cli!SpecOf,
       Cli!schema_version_decision, Cli!extract_current_content_json, Cli!NotFound, Cli!Unreadable, Meetings

\* Apply up to its patch, case by case.
LEMMA ApplyIs ==
    ASSUME NEW C, NEW F, NEW S, NEW x \in Meetings(C, F, S)
    PROVE  LET a == Cli!apply_inner(x)
               fits == Cli!validate(x.schema, Cli!SpecOf(x.doc).content)
           IN  /\ ~Cli!ParsesAsSpec(x.doc) => a = [code |-> "InvalidArgument", stored |-> x.obj]
               /\ Cli!ParsesAsSpec(x.doc) /\ ~fits => a = [code |-> "FailedPrecondition", stored |-> x.obj]
               /\ Cli!ParsesAsSpec(x.doc) /\ fits /\ x.found = Cli!Unreadable =>
                     a = [code |-> "Unavailable", stored |-> x.obj]
               /\ Cli!ParsesAsSpec(x.doc) /\ fits /\ x.found # Cli!Unreadable /\ ~Passes(x) =>
                     a = [code |-> "FailedPrecondition", stored |-> x.obj]
               /\ Cli!ParsesAsSpec(x.doc) /\ fits /\ x.found # Cli!Unreadable /\ Passes(x) =>
                     a = Cli!PatchConfig(x, x.doc.version, Cli!SpecOf(x.doc).content)
<1>1. Cli!SpecOf(x.doc).version = x.doc.version
  BY DEF Cli!SpecOf
<1> QED
  BY <1>1 DEF Cli!apply_inner, Cli!apply_spec, Passes, Cli!schema_version_decision

\* What the patch of content c makes of x, case by case: the fields sent, and
\* beside them those of others.
PatchMakes(x, v, c, p) ==
    /\ c.type # "object" => p = [code |-> "Unavailable", stored |-> x.obj]
    /\ c.type = "object" =>
          /\ p.code = "Ok" /\ p.stored.spec = TRUE /\ p.stored.version = v
          /\ p.stored.content # Cli!Absent
          /\ c.fields \subseteq p.stored.content.fields
          /\ p.stored.content.fields \ c.fields =
                 {f \in Cli!TheirsOf(x) : f.key \notin Cli!KeysOf(c.fields)}

\* It makes just that.
LEMMA PatchIs ==
    ASSUME NEW x, NEW v, NEW c
    PROVE  PatchMakes(x, v, c, Cli!PatchConfig(x, v, c))
<1> DEFINE other == {f \in Cli!TheirsOf(x) : f.key \notin Cli!KeysOf(c.fields)}
           all == c.fields \cup other
           left == other \cup (c.fields \cap Cli!TheirsOf(x))
<1>1. c.type = "object" =>
         Cli!PatchConfig(x, v, c) = [code |-> "Ok", stored |-> Cli!Stored(v, Cli!Object(all), left)]
  BY DEF Cli!PatchConfig
<1>2. c.type # "object" => Cli!PatchConfig(x, v, c) = [code |-> "Unavailable", stored |-> x.obj]
  BY DEF Cli!PatchConfig
<1>3. ASSUME NEW f \in other PROVE f \notin c.fields
  BY DEF Cli!KeysOf
<1>4. c.fields \subseteq all /\ all \ c.fields = other
  BY <1>3
<1> HIDE DEF all, left
<1>5. Cli!Object(all) # Cli!Absent /\ Cli!Object(all).fields = all
  BY DEF Cli!Object, Cli!Absent
<1>6. LET o == Cli!Stored(v, Cli!Object(all), left)
      IN  o.spec = TRUE /\ o.version = v /\ o.content = Cli!Object(all)
  BY DEF Cli!Stored
<1> QED
  BY <1>1, <1>2, <1>4, <1>5, <1>6 DEF PatchMakes

\* What the Config watcher reads back of an object.
LEMMA ReadBack ==
    ASSUME NEW o, NEW p, p = Cli!parse_config_object(o)
    PROVE  /\ o.spec /\ o.version \in 0..MaxU32 =>
                 /\ p # Cli!NoSnapshot /\ p[1].version = o.version
                 /\ Cli!snapshot_to_proto(p).json =
                        IF o.content = Cli!Absent THEN Cli!EmptyObject ELSE o.content
           /\ p # Cli!NoSnapshot => o.spec /\ o.version \in 0..MaxU32
<1>1. 0 .. (MaxU32 + 1) - 1 = 0..MaxU32
  BY ApplyAssumption
<1> QED
  BY <1>1 DEF Cli!parse_config_object, Cli!from_spec, Cli!Snapshot, Cli!NoSnapshot, Cli!snapshot_to_proto,
              Cli!content_json

\* handle_dry_run_apply, apply_inner and konfig-cli: for every u32 range, stored
\* object (missing, unreadable, or with any version, fields and field managers),
\* document and registered schema, the dry run says of Apply and of the command
\* line just what DryRunForesees and CommandLineForesees state, the schema, the
\* refusal of what is no object and the fields of other managers included.
THEOREM DryRunIsExact ==
    ASSUME NEW C, NEW F, NEW S, NEW x \in Meetings(C, F, S)
    PROVE  Cli!DryRunForesees(x, Cli!Previewed(x)) /\ Cli!CommandLineForesees(x, Cli!Previewed(x))
<1> DEFINE r == Cli!Previewed(x)
           y == [x EXCEPT !.schema = "none"]
           legible == Cli!ParsesAsSpec(x.doc)
           c == Cli!SpecOf(x.doc).content
           fits == Cli!validate(x.schema, c)
           now == IF x.found = "found" THEN Cli!parse_config_object(x.obj) ELSE Cli!NoSnapshot
           after == Cli!parse_config_object(r.apply.stored)
           p == Cli!PatchConfig(x, x.doc.version, c)
           more == {f \in Cli!TheirsOf(x) : f.key \notin Cli!KeysOf(c.fields)}
           readable == legible /\ x.found # Cli!Unreadable
<1>1. /\ x.doc.version \in Int /\ x.obj.version \in Int /\ x.obj.spec \in BOOLEAN
      /\ x.found \in {"found", Cli!NotFound, Cli!Unreadable}
  BY DEF Meetings
<1>2. /\ y \in Meetings(C, F, S) /\ y.doc = x.doc /\ y.obj = x.obj /\ y.found = x.found /\ y.schema = "none"
  BY DEF Meetings
<1> HIDE DEF y
<1>3. /\ r.dry = Cli!handle_dry_run_apply(x) /\ r.apply = Cli!apply_inner(x) /\ r.cli = Cli!apply_inner(y)
      /\ r.shown = Cli!cmd_get(IF r.cli.code = "Ok" THEN "found" ELSE x.found, r.cli.stored)
  BY DEF Cli!Previewed, Cli!cmd_dry_run, Cli!cmd_apply, y
<1>4. /\ Cli!validate(y.schema, Cli!SpecOf(y.doc).content) /\ (Passes(y) <=> Passes(x))
      /\ Cli!PatchConfig(y, y.doc.version, Cli!SpecOf(y.doc).content) = p
  BY <1>2 DEF Cli!validate, Passes, Cli!PatchConfig, Cli!TheirsOf
<1>5. legible => x.doc.version \in 0..MaxU32
  BY ApplyAssumption, <1>1 DEF Cli!ParsesAsSpec
<1>6. /\ c.type # "object" => p = [code |-> "Unavailable", stored |-> x.obj]
      /\ c.type = "object" =>
            /\ p.code = "Ok" /\ p.stored.spec = TRUE /\ p.stored.version = x.doc.version
            /\ p.stored.content # Cli!Absent
            /\ c.fields \subseteq p.stored.content.fields /\ p.stored.content.fields \ c.fields = more
  <2>1. PatchMakes(x, x.doc.version, c, p)
    BY PatchIs, Zenon
  <2> HIDE DEF c, p
  <2> QED
    BY <2>1 DEF PatchMakes
<1>7. Passes(x) /\ x.found = "found" /\ x.obj.spec /\ x.obj.version \in 0..MaxU32 =>
          x.doc.version > x.obj.version
  BY ApplyAssumption DEF Passes, Cli!fetch_current_schema_version,
                         Cli!parse_schema_version_from_object, Cli!NotFound
<1> HIDE DEF r, c, p, legible, fits, more
<1>8. /\ r.dry.code = "Ok" <=> readable /\ Passes(x)
      /\ r.dry.code = "Ok" =>
            r.dry.proposed = c /\ (x.found = "found" /\ x.obj.spec => r.dry.current = x.obj.content)
      /\ r.apply.code = CASE legible /\ ~fits -> "FailedPrecondition"
                          [] ~(legible /\ ~fits) /\ r.dry.code = "Ok" /\ c.type # "object" -> "Unavailable"
                          [] OTHER -> r.dry.code
      /\ r.apply.code = "Ok" => r.apply = p /\ r.cli = p
      /\ r.apply.code # "Ok" => r.apply.stored = x.obj
      /\ r.cli.code = IF r.dry.code = "Ok" /\ c.type # "object" THEN "Unavailable" ELSE r.dry.code
      /\ r.cli.code = "Ok" => r.cli = p /\ (fits <=> r.apply.code = "Ok")
      /\ r.cli.code # "Ok" => r.cli.stored = x.obj
  <2> DEFINE d == Cli!handle_dry_run_apply(x)
  <2>1. /\ ~legible => d.code = "InvalidArgument"
        /\ legible /\ x.found = Cli!Unreadable => d.code = "Unavailable"
        /\ readable /\ ~Passes(x) => d.code = "FailedPrecondition"
        /\ readable /\ Passes(x) =>
              /\ d.code = "Ok" /\ d.proposed = c
              /\ x.found = "found" /\ x.obj.spec => d.current = x.obj.content
    BY DryRunIs DEF legible, c
  <2>2. /\ ~legible => r.apply = [code |-> "InvalidArgument", stored |-> x.obj]
        /\ legible /\ ~fits => r.apply = [code |-> "FailedPrecondition", stored |-> x.obj]
        /\ legible /\ fits /\ x.found = Cli!Unreadable => r.apply = [code |-> "Unavailable", stored |-> x.obj]
        /\ readable /\ fits /\ ~Passes(x) => r.apply = [code |-> "FailedPrecondition", stored |-> x.obj]
        /\ readable /\ fits /\ Passes(x) => r.apply = p
    BY <1>3, ApplyIs DEF legible, fits, c, p
  <2>3. /\ ~legible => r.cli = [code |-> "InvalidArgument", stored |-> x.obj]
        /\ legible /\ x.found = Cli!Unreadable => r.cli = [code |-> "Unavailable", stored |-> x.obj]
        /\ readable /\ ~Passes(x) => r.cli = [code |-> "FailedPrecondition", stored |-> x.obj]
        /\ readable /\ Passes(x) => r.cli = p
    BY <1>2, <1>3, <1>4, ApplyIs DEF legible, c
  <2> HIDE DEF d
  <2>4. r.dry = d
    BY <1>3 DEF d
  <2>5. CASE ~legible
    BY <2>1, <2>2, <2>3, <2>4, <2>5
  <2>6. CASE legible /\ x.found = Cli!Unreadable
    BY <2>1, <2>2, <2>3, <2>4, <2>6
  <2>7. CASE readable /\ ~Passes(x)
    BY <2>1, <2>2, <2>3, <2>4, <2>7
  <2>8. CASE readable /\ Passes(x)
    BY <1>6, <2>1, <2>2, <2>3, <2>4, <2>8
  <2> QED
    BY <2>5, <2>6, <2>7, <2>8
<1>9. Cli!DryRunForesees(x, r)
  <2>1. r.apply.code = "Ok" =>
            /\ r.dry.code = "Ok" /\ r.dry.proposed = c /\ legible /\ Passes(x) /\ c.type = "object"
            /\ r.apply.stored = p.stored
    BY <1>8
  <2>2. r.apply.code = "Ok" =>
            /\ after # Cli!NoSnapshot /\ after[1].version = x.doc.version
            /\ Cli!snapshot_to_proto(after).json = p.stored.content
    BY <1>5, <1>6, <2>1, ReadBack DEF after
  <2>3. now # Cli!NoSnapshot =>
            /\ x.found = "found" /\ x.obj.spec /\ x.obj.version \in 0..MaxU32
            /\ now[1].version = x.obj.version
            /\ Cli!snapshot_to_proto(now).json =
                   IF x.obj.content = Cli!Absent THEN Cli!EmptyObject ELSE x.obj.content
    BY ReadBack DEF now
  <2> HIDE DEF now, after
  <2>4. /\ r.apply.code = CASE legible /\ ~fits -> "FailedPrecondition"
                            [] ~(legible /\ ~fits) /\ r.dry.code = "Ok" /\ r.dry.proposed.type # "object"
                                  -> "Unavailable"
                            [] OTHER -> r.dry.code
        /\ r.apply.code # "Ok" => r.apply.stored = x.obj
    BY <1>8
  <2>5. r.apply.code = "Ok" =>
            /\ after # Cli!NoSnapshot /\ r.dry.proposed.fields \subseteq Cli!snapshot_to_proto(after).json.fields
            /\ Cli!snapshot_to_proto(after).json.fields \ r.dry.proposed.fields =
                  {f \in Cli!TheirsOf(x) : f.key \notin Cli!KeysOf(r.dry.proposed.fields)}
            /\ now # Cli!NoSnapshot => after[1].version > now[1].version
    BY <1>6, <1>7, <2>1, <2>2, <2>3 DEF more
  <2>6. r.dry.code = "Ok" /\ now # Cli!NoSnapshot =>
            Cli!snapshot_to_proto(now).json =
                IF r.dry.current = Cli!Absent THEN Cli!EmptyObject ELSE r.dry.current
    BY <1>8, <2>3
  <2> QED
    BY <2>4, <2>5, <2>6 DEF Cli!DryRunForesees, legible, fits, c, now, after
<1>10. Cli!CommandLineForesees(x, r)
  <2>1. r.cli.code = "Ok" =>
            /\ r.dry.code = "Ok" /\ r.dry.proposed = c /\ c.type = "object" /\ r.cli.stored = p.stored
    BY <1>8
  <2>2. r.cli.code = "Ok" => r.shown.code = "Ok" /\ r.shown.spec = p.stored
    BY <1>3, <1>6, <2>1 DEF Cli!cmd_get
  <2>3. r.cli.code # "Ok" /\ x.found = "found" /\ x.obj.spec => r.shown.spec = x.obj
    BY <1>3, <1>8 DEF Cli!cmd_get
  <2>4. /\ r.cli.code = IF r.dry.code = "Ok" /\ r.dry.proposed.type # "object" THEN "Unavailable"
                        ELSE r.dry.code
        /\ r.apply.code = "Ok" => r.cli = r.apply
    BY <1>8
  <2>5. r.cli.code = "Ok" =>
            /\ r.shown.code = "Ok" /\ r.shown.spec.version = x.doc.version
            /\ r.dry.proposed.fields \subseteq r.shown.spec.content.fields
            /\ r.shown.spec.content.fields \ r.dry.proposed.fields =
                  {f \in Cli!TheirsOf(x) : f.key \notin Cli!KeysOf(r.dry.proposed.fields)}
            /\ Cli!validate(x.schema, r.dry.proposed) <=> r.apply.code = "Ok"
    BY <1>6, <1>8, <2>1, <2>2 DEF more, fits
  <2> QED
    BY <2>3, <2>4, <2>5 DEF Cli!CommandLineForesees
<1> QED
  BY <1>9, <1>10 DEF r

\* g folds the events of q, one set of them after the other.
Iterates(q, g) ==
    g = [s \in SUBSET DOMAIN q |->
            IF s = {} THEN Cli!NoSnapshot
            ELSE Cli!handle_configmap_event(g[s \ {Cli!Max(s)}], q[Cli!Max(s)])]

\* pump_configmap_events is such a fold.
LEMMA PumpIs ==
    ASSUME NEW q
    PROVE  Cli!pump_configmap_events(q) = (CHOOSE g : Iterates(q, g))[DOMAIN q]
BY DEF Cli!pump_configmap_events, Cli!FoldLeft, Cli!MapThenFoldSet, Iterates

\* The greatest of at most two.
LEMMA MaxOfTwo == Cli!Max({1}) = 1 /\ Cli!Max({2}) = 2 /\ Cli!Max({1, 2}) = 2
BY DEF Cli!Max

\* Two events are handled in their order.
LEMMA PumpOfTwo ==
    ASSUME NEW a, NEW b
    PROVE  Cli!pump_configmap_events(<<a, b>>) =
               Cli!handle_configmap_event(Cli!handle_configmap_event(Cli!NoSnapshot, a), b)
<1> DEFINE q == <<a, b>>
           H(c, e) == Cli!handle_configmap_event(c, e)
           one == H(Cli!NoSnapshot, a)
           w == [s \in SUBSET {1, 2} |->
                    IF s = {} THEN Cli!NoSnapshot ELSE IF s = {1} THEN one
                    ELSE IF s = {2} THEN H(Cli!NoSnapshot, b) ELSE H(one, b)]
           it == CHOOSE g : Iterates(q, g)
<1>1. DOMAIN q = {1, 2} /\ q[1] = a /\ q[2] = b
  OBVIOUS
<1> HIDE DEF q
<1>2. \A s \in SUBSET {1, 2} : s = {} \/ s = {1} \/ s = {2} \/ s = {1, 2}
  OBVIOUS
<1>3. {1} \ {1} = {} /\ {2} \ {2} = {} /\ {1, 2} \ {2} = {1} /\ {1} # {} /\ {2} # {} /\ {1, 2} # {}
      /\ {1} # {2} /\ {1} # {1, 2} /\ {2} # {1, 2}
  OBVIOUS
<1> HIDE DEF H
<1>4. /\ w[{}] = Cli!NoSnapshot /\ w[{1}] = one /\ w[{2}] = H(Cli!NoSnapshot, b) /\ w[{1, 2}] = H(one, b)
  BY <1>3
<1>5. Iterates(q, w)
  <2> DEFINE v == [s \in SUBSET {1, 2} |->
                      IF s = {} THEN Cli!NoSnapshot ELSE H(w[s \ {Cli!Max(s)}], q[Cli!Max(s)])]
  <2>1. /\ v[{}] = Cli!NoSnapshot /\ v[{1}] = H(w[{}], a) /\ v[{2}] = H(w[{}], b)
        /\ v[{1, 2}] = H(w[{1}], b)
    BY <1>1, <1>3, MaxOfTwo
  <2>2. \A s \in SUBSET {1, 2} : v[s] = w[s]
    BY <1>2, <1>4, <2>1
  <2>3. v = w
    BY <2>2
  <2> QED
    BY <1>1, <2>3 DEF Iterates, H
<1>6. Iterates(q, it)
  BY <1>5
<1> HIDE DEF it
<1>7. /\ it[{}] = Cli!NoSnapshot /\ it[{1}] = H(it[{}], a) /\ it[{1, 2}] = H(it[{1}], b)
  <2>1. \A s \in SUBSET {1, 2} :
            it[s] = IF s = {} THEN Cli!NoSnapshot ELSE H(it[s \ {Cli!Max(s)}], q[Cli!Max(s)])
    BY <1>1, <1>6 DEF Iterates, H
  <2>2. {} \in SUBSET {1, 2} /\ {1} \in SUBSET {1, 2} /\ {1, 2} \in SUBSET {1, 2}
    OBVIOUS
  <2>3. it[{}] = Cli!NoSnapshot
    BY <2>1, <2>2
  <2>4. it[{1}] = H(it[{1} \ {Cli!Max({1})}], q[Cli!Max({1})])
    BY <1>3, <2>1, <2>2, Zenon
  <2>5. it[{1, 2}] = H(it[{1, 2} \ {Cli!Max({1, 2})}], q[Cli!Max({1, 2})])
    BY <1>3, <2>1, <2>2, Zenon
  <2>6. it[{1}] = H(it[{}], a) /\ it[{1, 2}] = H(it[{1}], b)
    BY <1>1, <1>3, <2>4, <2>5, MaxOfTwo, Zenon
  <2> QED
    BY <2>3, <2>6
<1> QED
  BY <1>1, <1>7, PumpIs DEF H, it, q

\* What an import stores.
LEMMA ImportIs ==
    ASSUME NEW d, NEW o, o = Cli!import_configmap(d)
    PROVE  LET numbered == "schema_version" \in DOMAIN d /\ d["schema_version"] \in {"2", "02"}
           IN  /\ o.spec = TRUE /\ o.content # Cli!Absent /\ o.version \in {1, 2}
               /\ d # Cli!Absent =>
                     /\ o.version = IF numbered THEN 2 ELSE 1
                     /\ o.content = Cli!content_from_data(d)
<1> DEFINE e == IF d = Cli!Absent THEN <<>> ELSE d
           v == Cli!parse_schema_version_from_data(e)
           c == Cli!content_from_data(e)
<1>1. o = [spec |-> TRUE, version |-> v, content |-> c, theirs |-> {}]
  BY DEF Cli!import_configmap, Cli!build_import_patch_body, Cli!Stored
<1>2. v = IF "schema_version" \in DOMAIN e /\ e["schema_version"] \in {"2", "02"} THEN 2 ELSE 1
  BY DEF Cli!parse_schema_version_from_data, Cli!VersionOf, Cli!ParsedU32, Cli!DEFAULT_SCHEMA_VERSION
<1>3. c # Cli!Absent
  BY DEF Cli!content_from_data, Cli!Object, Cli!Absent
<1> HIDE DEF v, c
<1>4. o.spec = TRUE /\ o.version = v /\ o.content = c
  BY <1>1
<1>5. d # Cli!Absent => e = d /\ c = Cli!content_from_data(d)
  BY DEF c
<1> HIDE DEF e
<1> QED
  BY <1>2, <1>3, <1>4, <1>5

\* What the ConfigMap watcher makes of the data.
LEMMA WatchIs ==
    ASSUME NEW d
    PROVE  LET p == Cli!parse_configmap(d)
               numbered == "schema_version" \in DOMAIN d /\ d["schema_version"] \in {"2", "02"}
           IN  /\ p = Cli!NoSnapshot <=> d = Cli!Absent
               /\ d # Cli!Absent =>
                     /\ p[1].version = IF numbered THEN 2 ELSE 0
                     /\ "content" \notin DOMAIN d => Cli!snapshot_to_proto(p).json = Cli!content_from_data(d)
BY DEF Cli!parse_configmap, Cli!Snapshot, Cli!NoSnapshot, Cli!VersionOf, Cli!ParsedU32,
       Cli!snapshot_to_proto, Cli!content_json, Cli!content_from_data

\* What an import stores and what a watch caches agree, whatever was there before.
LEMMA ImportAgrees ==
    ASSUME NEW old, NEW data, NEW k0 \in {"Apply", "InitApply"}, NEW k \in {"Apply", "Delete"}, MaxU32 >= 2
    PROVE  LET h == <<[kind |-> k0, data |-> old], [kind |-> k, data |-> data]>>
           IN  Cli!ImportMatchesWatch(h, Cli!Imported(h))
<1> DEFINE e == [kind |-> k0, data |-> old]
           f == [kind |-> k, data |-> data]
           h == <<e, f>>
           r == Cli!Imported(h)
           o == Cli!import_configmap(data)
           imported == Cli!parse_config_object(o)
           numbered == "schema_version" \in DOMAIN data /\ data["schema_version"] \in {"2", "02"}
<1> SUFFICES Cli!ImportMatchesWatch(h, r)
  OBVIOUS
<1>1. h[1] = e /\ h[2] = f
  OBVIOUS
<1>2. e.kind = k0 /\ e.data = old /\ f.kind = k /\ f.data = data
  OBVIOUS
<1>3. r.watched = Cli!handle_configmap_event(Cli!handle_configmap_event(Cli!NoSnapshot, e), f)
  BY PumpOfTwo DEF Cli!Imported
<1> HIDE DEF e, f
<1>4. r.stored = o
  BY <1>1, <1>2 DEF Cli!Imported
<1> HIDE DEF r, h
<1>5. Cli!handle_configmap_event(Cli!NoSnapshot, e) = Cli!parse_configmap(old)
  BY <1>2 DEF Cli!handle_configmap_event
<1>6. Cli!parse_configmap(data) = Cli!NoSnapshot <=> data = Cli!Absent
  BY WatchIs
<1>7. k = "Delete" \/ data = Cli!Absent => r.watched = Cli!parse_configmap(old)
  BY <1>2, <1>3, <1>5, <1>6 DEF Cli!handle_configmap_event
<1>8. k = "Apply" /\ data # Cli!Absent => r.watched = Cli!parse_configmap(data) /\ r.watched # Cli!NoSnapshot
  BY <1>2, <1>3, <1>6 DEF Cli!handle_configmap_event
<1>9. /\ o.spec = TRUE /\ o.content # Cli!Absent /\ o.version \in {1, 2}
      /\ data # Cli!Absent =>
            o.version = (IF numbered THEN 2 ELSE 1) /\ o.content = Cli!content_from_data(data)
  BY ImportIs
<1>10. o.version \in 0..MaxU32
  BY <1>9, ApplyAssumption
<1> HIDE DEF o
<1>11. /\ imported # Cli!NoSnapshot /\ imported[1].version = o.version
       /\ Cli!snapshot_to_proto(imported).json = o.content
  BY <1>9, <1>10, ReadBack
<1>12. data # Cli!Absent =>
            /\ Cli!parse_configmap(data)[1].version = IF numbered THEN 2 ELSE 0
            /\ "content" \notin DOMAIN data =>
                  Cli!snapshot_to_proto(Cli!parse_configmap(data)).json = Cli!content_from_data(data)
  BY WatchIs
<1> HIDE DEF imported, numbered
<1>13. k = "Apply" /\ data # Cli!Absent =>
            /\ r.watched # Cli!NoSnapshot
            /\ "content" \notin DOMAIN data =>
                  Cli!snapshot_to_proto(r.watched).json = Cli!snapshot_to_proto(imported).json
            /\ imported[1].version = IF numbered THEN r.watched[1].version ELSE 1
            /\ numbered \/ r.watched[1].version = 0
  BY <1>8, <1>9, <1>11, <1>12
<1> QED
  BY <1>1, <1>2, <1>4, <1>7, <1>11, <1>13 DEF Cli!ImportMatchesWatch, imported, numbered

\* The values of a Secret over the texts T.
SecretValues(T) == [text : T, layers : Nat]

\* Undoing an encoding gives the value back.
LEMMA Peel ==
    ASSUME NEW T, NEW b \in SecretValues(T)
    PROVE  Cli!Base64(b) \in SecretValues(T) /\ [Cli!Base64(b) EXCEPT !.layers = @ - 1] = b
<1>1. PICK t \in T, n \in Nat : b = [text |-> t, layers |-> n]
  BY DEF SecretValues
<1>2. Cli!Base64(b) = [text |-> t, layers |-> n + 1]
  BY <1>1 DEF Cli!Base64
<1>3. [Cli!Base64(b) EXCEPT !.layers = @ - 1] = [text |-> t, layers |-> (n + 1) - 1]
  BY <1>2
<1> QED
  BY <1>1, <1>2, <1>3 DEF SecretValues

\* A write of any Secret, with any keys, values, owner and number of conflicts, or
\* where there is none: a Secret that does not exist has no version and no data.
SecretWrites(T, D, E) ==
    {x \in [found : {"found", Cli!NotFound, Cli!Unreadable},
            secret : [exists : BOOLEAN, annotation : T \cup {Cli!NoAnnotation},
                      data : [D -> SecretValues(T)], owned : SUBSET D],
            doc : [E -> T], answers : [conflicts : Nat, fails : BOOLEAN]] :
        /\ x.found = "found" => x.secret.exists
        /\ x.found = Cli!NotFound => ~x.secret.exists
        /\ ~x.secret.exists => D = {} /\ x.secret.annotation = Cli!NoAnnotation}

\* What is read of a Secret after a write of it, or after the write failed.
LEMMA SecretsReadBack ==
    ASSUME NEW T, NEW D, NEW E, NEW x \in SecretWrites(T, D, E)
    PROVE  Cli!SecretReadsBack(x, Cli!SecretWritten(x))
<1> DEFINE found == x.found
           secret == x.secret
           doc == x.doc
           answers == x.answers
           annotation == secret.annotation
           data == secret.data
           owned == secret.owned
           conflicts == answers.conflicts
           fails == answers.fails
           r == Cli!SecretWritten(x)
           v == Cli!IncomingVersion(doc)
           cur == IF found = Cli!NotFound THEN 0 ELSE Cli!parse_secret_schema_version(secret)
           new == Cli!Patched(secret, v, Cli!encoded_data(doc))
           asked == doc # Cli!NotAMap /\ found # Cli!Unreadable /\ v > cur
<1> SUFFICES Cli!SecretReadsBack(x, r)
  OBVIOUS
<1>1. /\ found \in {"found", Cli!NotFound, Cli!Unreadable} /\ data \in [D -> SecretValues(T)] /\ owned \in SUBSET D
      /\ doc \in [E -> T] /\ conflicts \in Nat /\ fails \in BOOLEAN
      /\ secret.exists \in BOOLEAN /\ (found = Cli!NotFound => annotation = Cli!NoAnnotation)
  BY DEF SecretWrites
<1>2. \A t : Cli!ParsedVersion(t) \in 0..2
  BY DEF Cli!ParsedVersion
<1>3. v \in 0..2 /\ cur \in 0..2 /\ cur = Cli!parse_secret_schema_version(secret)
  BY <1>1, <1>2 DEF Cli!IncomingVersion, Cli!parse_secret_schema_version, Cli!NotFound, Cli!Unreadable,
                    Cli!ParsedVersion, Cli!NoAnnotation
<1>4. /\ r.server = Cli!apply_secret_inner(x) /\ r.cli = Cli!cmd_apply_secret(x)
      /\ r.served = Cli!handle_get_secret(
                       IF r.server.stored.exists THEN <<Cli!parse_secret(r.server.stored)>>
                       ELSE Cli!NoSnapshot)
      /\ r.revealed = Cli!cmd_get_secret(r.server.stored, TRUE)
      /\ r.redacted = Cli!cmd_get_secret(r.server.stored, FALSE)
  BY DEF Cli!SecretWritten
<1> HIDE DEF r
<1>5. /\ r.server.code = "Ok" <=> asked /\ conflicts <= 2 /\ ~fails
      /\ r.server.stored = IF r.server.code = "Ok" THEN new ELSE secret
  BY <1>1, <1>3, <1>4 DEF Cli!apply_secret_inner, Cli!WriteSecret, Cli!run_secret_patch_retry_loop
<1>6. /\ r.cli.code = "Ok" <=> asked /\ conflicts = 0 /\ ~fails
      /\ r.cli.stored = IF r.cli.code = "Ok" THEN new ELSE secret
  BY <1>1, <1>3, <1>4 DEF Cli!cmd_apply_secret, Cli!WriteSecret, Cli!PatchOnce
<1> DEFINE written == E \ {"schema_version"}
           others == D \ (owned \cup written)
           s == r.server.stored
<1>7. /\ new.exists = TRUE /\ new.annotation = Cli!VersionText(v) /\ DOMAIN new.data = written \cup others
      /\ \A k \in written : new.data[k] = Cli!Base64(Cli!Plain(doc[k]))
      /\ \A k \in others : new.data[k] = data[k]
  BY <1>1 DEF Cli!Patched, Cli!encoded_data
<1>8. \A t \in T : Cli!Base64(Cli!Plain(t)) = [text |-> t, layers |-> 1]
  BY DEF Cli!Base64, Cli!Plain
<1>9. \A b \in SecretValues(T) : Cli!Base64(b) \in SecretValues(T) /\ [Cli!Base64(b) EXCEPT !.layers = @ - 1] = b
  BY Peel
<1> HIDE DEF new, asked
<1>10. \A k \in DOMAIN s.data : s.data[k] \in SecretValues(T)
  <2>1. ASSUME NEW k \in written PROVE new.data[k] \in SecretValues(T)
    <3>1. new.data[k] = [text |-> doc[k], layers |-> 1] /\ doc[k] \in T
      BY <1>1, <1>7, <1>8
    <3> QED
      BY <3>1 DEF SecretValues
  <2>2. ASSUME NEW k \in others PROVE new.data[k] \in SecretValues(T)
    BY <1>1, <1>7
  <2>3. \A k \in DOMAIN new.data : new.data[k] \in SecretValues(T)
    BY <1>7, <2>1, <2>2
  <2> QED
    BY <1>1, <1>5, <2>3
<1> HIDE DEF s
<1>0. /\ s.exists <=> r.server.code = "Ok" \/ secret.exists
      /\ ~s.exists => /\ r.served.code = "NotFound" /\ r.revealed.code = "error"
                      /\ r.redacted.code = "error"
  BY <1>1, <1>4, <1>5, <1>7 DEF s, Cli!handle_get_secret, Cli!cmd_get_secret
<1>11. s.exists =>
       /\ r.served.code = "Ok" /\ r.served.secret.version = Cli!parse_secret_schema_version(s)
       /\ r.served.secret.json = [k \in DOMAIN s.data |-> Cli!Base64(s.data[k])]
  BY <1>4 DEF Cli!handle_get_secret, Cli!NoSnapshot, Cli!secret_snapshot_to_proto, Cli!parse_secret,
              Cli!data_json, s
<1>12. s.exists =>
       /\ r.revealed.code = "Ok" /\ r.redacted.code = "Ok" /\ r.revealed.version = Cli!parse_secret_schema_version(s)
       /\ r.revealed.lines = [k \in DOMAIN s.data |-> Cli!Shown(s.data[k])]
       /\ r.redacted.lines = [k \in DOMAIN s.data |-> Cli!Redacted]
  BY <1>4 DEF Cli!cmd_get_secret, s
<1> DEFINE json == r.served.secret.json
<1>13. s.exists => \A k \in DOMAIN json : r.revealed.lines[k] = Cli!Shown([json[k] EXCEPT !.layers = @ - 1])
  <2>1. ASSUME NEW k \in DOMAIN s.data
        PROVE  Cli!Shown(s.data[k]) = Cli!Shown([Cli!Base64(s.data[k]) EXCEPT !.layers = @ - 1])
    BY <1>9, <1>10
  <2>2. s.exists => DOMAIN json = DOMAIN s.data
    BY <1>11
  <2> QED
    BY <1>11, <1>12, <2>1, <2>2
<1>14. r.server.code = "Ok" =>
          /\ DOMAIN json = written \cup others
          /\ \A k \in written : json[k] = Cli!Base64(Cli!Base64(Cli!Plain(doc[k])))
          /\ \A k \in others : json[k] = Cli!Base64(data[k])
  <2> SUFFICES ASSUME r.server.code = "Ok"
               PROVE  /\ DOMAIN json = written \cup others
                      /\ \A k \in written : json[k] = Cli!Base64(Cli!Base64(Cli!Plain(doc[k])))
                      /\ \A k \in others : json[k] = Cli!Base64(data[k])
    OBVIOUS
  <2>1. s = new
    BY <1>5 DEF s
  <2>0. s.exists
    BY <1>0
  <2>2. DOMAIN json = DOMAIN new.data /\ \A k \in DOMAIN new.data : json[k] = Cli!Base64(new.data[k])
    BY <1>11, <2>0, <2>1
  <2> HIDE DEF json
  <2> QED
    BY <1>7, <2>2
<1>15. r.server.code = "Ok" => r.served.secret.version > Cli!parse_secret(x.secret).version
  <2> SUFFICES ASSUME r.server.code = "Ok"
               PROVE  r.served.secret.version > Cli!parse_secret(x.secret).version
    OBVIOUS
  <2>1. v > cur /\ s = new
    BY <1>5 DEF s, asked
  <2>2. v = 1 \/ v = 2
    BY <1>3, <2>1
  <2>3. Cli!ParsedVersion(Cli!VersionText(v)) = v
    BY <2>2 DEF Cli!ParsedVersion, Cli!VersionText
  <2>4. r.served.secret.version = v
    BY <1>0, <1>7, <1>11, <2>1, <2>3 DEF Cli!parse_secret_schema_version
  <2>5. Cli!parse_secret(x.secret).version = cur
    BY <1>1, <1>3 DEF Cli!parse_secret
  <2> QED
    BY <2>1, <2>4, <2>5
<1>16. s.exists => DOMAIN r.redacted.lines = DOMAIN json /\ \A k \in DOMAIN json : r.redacted.lines[k] = Cli!Redacted
  BY <1>11, <1>12
<1>17. /\ r.cli.code = "Ok" <=> r.server.code = "Ok" /\ conflicts = 0
       /\ r.cli.stored = IF r.cli.code = "Ok" THEN r.server.stored ELSE secret
       /\ r.server.code # "Ok" => r.server.stored = secret
  BY <1>5, <1>6
<1>18. DOMAIN x.secret.data = D /\ DOMAIN x.doc = E /\ x.secret.owned = owned /\ x.secret.data = data
  BY <1>1
<1> HIDE DEF v, cur
<1> QED
  BY <1>0, <1>1, <1>11, <1>12, <1>13, <1>14, <1>15, <1>16, <1>17, <1>18 DEF Cli!SecretReadsBack

\* The paths agree: for any data of a ConfigMap, before and after, import.rs and
\* configmap_watcher.rs agree as ImportMatchesWatch states.  For any Secret, existing
\* or not, and any write of it, GetSecret serves the values written by secret_apply.rs
\* or the command line encoded twice and those of others encoded once, get-secret
\* --reveal one encoding less, and both report a Secret missing when there was none
\* and the write failed.  That 2 is a u32 is the one assumption.
THEOREM ConversionsReadBack ==
    ASSUME NEW old, NEW data, NEW k0 \in {"Apply", "InitApply"}, NEW k \in {"Apply", "Delete"}, MaxU32 >= 2,
           NEW T, NEW D, NEW E, NEW x \in SecretWrites(T, D, E)
    PROVE  Cli!WritesReadBack(<<[kind |-> k0, data |-> old], [kind |-> k, data |-> data]>>, x)
BY ImportAgrees, SecretsReadBack DEF Cli!WritesReadBack
=============================================================================
