--------------------------- MODULE AggregateProofs ---------------------------
(* Theorems about internal/aggregate, for all values of the constants.       *)
(*                                                                           *)
(* Of FlowTable, the table of a window: type correctness, the bound on the   *)
(* number of flows, that a packet is dropped only when the table is full,    *)
(* that a sole writer of an interface loses no packet of a tracked flow, and *)
(* that the records are exactly what the packets add up to.                  *)
(*                                                                           *)
(* Of Scoring, what Finalize makes of the flows of a table: that the labels  *)
(* follow the scores, that the scores are those of the definition, and that  *)
(* the filter misses nothing.                                                *)
EXTENDS FlowTable, Scoring, FiniteSetTheorems, TLAPS

(* Writers that hold a stored flow they have yet to count. *)
Counting == {w \in Writers : pc[w] = "count"}

(* Writers that passed the limit test and have not yet counted a flow. *)
Admitted == {w \in Writers : pc[w] \in {"store", "count"}}

(* The counter lags behind the table by exactly the writers in between, and
   together with the admitted writers it never reaches the bound. *)
CountInv ==
  /\ IsFiniteSet(DOMAIN flows)
  /\ Cardinality(DOMAIN flows) = flowCount + Cardinality(Counting)
  /\ flowCount + Cardinality(Admitted) < MaxFlows + Cardinality(Writers)

(* Once a packet was dropped the counter stays at the limit or above. *)
FullInv ==
  (\E w \in Writers : pc[w] = "drop") \/ droppedFlows > 0 => flowCount >= MaxFlows

----------------------------------------------------------------------------
(* Adding one writer to, or taking one from, a set of writers changes its
   cardinality by one. *)
LEMMA WriterSets ==
  ASSUME NEW S \in SUBSET Writers, NEW w \in Writers
  PROVE  /\ IsFiniteSet(S)
         /\ Cardinality(S) \in Nat
         /\ Cardinality(S) <= Cardinality(Writers)
         /\ Cardinality(S \union {w}) = IF w \in S THEN Cardinality(S) ELSE Cardinality(S) + 1
         /\ Cardinality(S \ {w}) = IF w \in S THEN Cardinality(S) - 1 ELSE Cardinality(S)
BY WritersFinite, FS_Subset, FS_AddElement, FS_RemoveElement, FS_CardinalityType

(* Stepping w's program counter moves w alone in or out of the two sets. *)
LEMMA StageSets ==
  ASSUME TypeOK, NEW w \in Writers, NEW stage \in Stages, Goto(w, stage)
  PROVE  /\ Counting' = IF stage = "count" THEN Counting \union {w} ELSE Counting \ {w}
         /\ Admitted' = IF stage \in {"store", "count"} THEN Admitted \union {w}
                        ELSE Admitted \ {w}
BY DEF TypeOK, Goto, Counting, Admitted, Stages

----------------------------------------------------------------------------
(* Type correctness of the flow table (aggregate.go:249-278, 350-436): in
   particular the state a writer updates is always in the table. *)
THEOREM TypeCorrect == Spec => []TypeOK
<1>1. Init => TypeOK
  <2> SUFFICES ASSUME Init PROVE TypeOK
    OBVIOUS
  <2>1. DOMAIN flows = {} /\ DOMAIN applied = {}
    BY DEF Init
  <2>2. \A w \in Writers : pc[w] = "idle" /\ cur[w] = None
    BY DEF Init
  <2>3. /\ pc \in [Writers -> Stages] /\ cur \in [Writers -> Packets \union {None}]
        /\ flowCount \in Nat /\ droppedFlows \in Nat /\ adds \in Nat /\ limitLogged \in BOOLEAN
    BY DEF Init, Stages
  <2>4. QED BY <2>1, <2>2, <2>3 DEF TypeOK
<1>2. TypeOK /\ [Next]_vars => TypeOK'
  <2> SUFFICES ASSUME TypeOK, [Next]_vars PROVE TypeOK'
    OBVIOUS
  <2>1. ASSUME NEW w \in Writers, NEW p \in Packets, Lookup(w, p) PROVE TypeOK'
    BY <2>1 DEF TypeOK, Lookup, Goto, Stages, Keys, FlowKey
  <2>2. ASSUME NEW w \in Writers, CheckLimit(w) PROVE TypeOK'
    BY <2>2 DEF TypeOK, CheckLimit, Goto, Stages, Keys, FlowKey
  <2>3. ASSUME NEW w \in Writers, DropPacket(w) PROVE TypeOK'
    BY <2>3 DEF TypeOK, DropPacket, Goto, Stages, Keys, FlowKey
  <2>4. ASSUME NEW w \in Writers, LoadOrStore(w) PROVE TypeOK'
    <3>1. FlowKey(w, cur[w]) \in Keys
      BY <2>4 DEF TypeOK, LoadOrStore, Keys
    <3>2. CASE FlowKey(w, cur[w]) \in DOMAIN flows
      BY <2>4, <3>1, <3>2, SMTT(30) DEF TypeOK, LoadOrStore, Goto, Stages, Keys, FlowKey
    <3>3. CASE FlowKey(w, cur[w]) \notin DOMAIN flows
      <4>1. /\ DOMAIN flows' = DOMAIN flows \union {FlowKey(w, cur[w])}
            /\ DOMAIN applied' = DOMAIN applied \union {FlowKey(w, cur[w])}
        BY <2>4, <3>3 DEF LoadOrStore, Track
      <4>2. /\ pc[w] = "store" /\ Goto(w, "count")
            /\ UNCHANGED <<flowCount, droppedFlows, limitLogged, cur, records, adds>>
        BY <2>4, <3>3 DEF LoadOrStore
      <4>3. QED BY <3>1, <4>1, <4>2 DEF TypeOK, Goto, Stages, Keys, FlowKey
    <3>4. QED BY <3>2, <3>3
  <2>5. ASSUME NEW w \in Writers, CountFlow(w) PROVE TypeOK'
    BY <2>5 DEF TypeOK, CountFlow, Goto, Stages, Keys, FlowKey
  <2>6. ASSUME NEW w \in Writers, Update(w) PROVE TypeOK'
    <3>1. DOMAIN flows' = DOMAIN flows /\ DOMAIN applied' = DOMAIN applied
      BY <2>6 DEF Update
    <3>2. /\ Goto(w, "idle") /\ cur' = [cur EXCEPT ![w] = None]
          /\ UNCHANGED <<flowCount, droppedFlows, limitLogged, records, adds>>
      BY <2>6 DEF Update
    <3>3. QED BY <3>1, <3>2 DEF TypeOK, Goto, Stages, Keys, FlowKey
  <2>7. ASSUME NEW w \in Writers, Close(w) PROVE TypeOK'
    BY <2>7 DEF TypeOK, Close, Goto, Stages, Keys, FlowKey
  <2>8. CASE Finalize
    BY <2>8 DEF TypeOK, Finalize, Stages, Keys, FlowKey
  <2>9. CASE UNCHANGED vars
    BY <2>9 DEF TypeOK, vars, Keys, FlowKey
  <2>10. QED
    BY <2>1, <2>2, <2>3, <2>4, <2>5, <2>6, <2>7, <2>8, <2>9 DEF Next, Step
<1>3. QED
  BY <1>1, <1>2, PTL DEF Spec

----------------------------------------------------------------------------
(* The step that could exceed the bound is LoadOrStore; what keeps it is that
   every admitted writer found the counter below the limit. *)
LEMMA CountInvStep ==
  ASSUME TypeOK, CountInv, [Next]_vars
  PROVE  CountInv'
<1> USE LimitIsPositive, WritersFinite
<1>0. /\ Counting \in SUBSET Writers
      /\ Admitted \in SUBSET Writers
      /\ Cardinality(Writers) \in Nat
  BY FS_CardinalityType DEF Counting, Admitted
<1>1. ASSUME NEW w \in Writers, NEW p \in Packets, Lookup(w, p) PROVE CountInv'
  <2>1. PICK stage \in {"update", "check"} : Goto(w, stage)
    BY <1>1 DEF Lookup
  <2>2. w \notin Counting /\ w \notin Admitted
    BY <1>1 DEF Lookup, Counting, Admitted
  <2>3. Counting' = Counting /\ Admitted' = Admitted
    BY <2>1, <2>2, StageSets DEF Stages
  <2>4. QED BY <1>1, <2>3 DEF CountInv, Lookup
<1>2. ASSUME NEW w \in Writers, CheckLimit(w) PROVE CountInv'
  <2>1. w \notin Counting /\ w \notin Admitted
    BY <1>2 DEF CheckLimit, Counting, Admitted
  <2>2. CASE flowCount >= MaxFlows
    <3>1. Goto(w, "drop")
      BY <1>2, <2>2 DEF CheckLimit
    <3>2. Counting' = Counting /\ Admitted' = Admitted
      BY <3>1, <2>1, StageSets DEF Stages
    <3>3. QED BY <1>2, <3>2 DEF CountInv, CheckLimit
  <2>3. CASE ~(flowCount >= MaxFlows)
    <3>1. Goto(w, "store")
      BY <1>2, <2>3 DEF CheckLimit
    <3>2. Counting' = Counting /\ Admitted' = Admitted \union {w}
      BY <3>1, <2>1, StageSets DEF Stages
    <3>3. Admitted \union {w} \in SUBSET Writers
      BY <1>0
    <3>4. Cardinality(Admitted') <= Cardinality(Writers) /\ Cardinality(Admitted') \in Nat
      BY <3>2, <3>3, WriterSets
    <3>5. flowCount + Cardinality(Admitted') < MaxFlows + Cardinality(Writers)
      BY <2>3, <3>4, <1>0 DEF TypeOK
    <3>6. QED BY <1>2, <3>2, <3>5 DEF CountInv, CheckLimit
  <2>4. QED BY <2>2, <2>3
<1>3. ASSUME NEW w \in Writers, DropPacket(w) PROVE CountInv'
  <2>1. w \notin Counting /\ w \notin Admitted
    BY <1>3 DEF DropPacket, Counting, Admitted
  <2>2. Counting' = Counting /\ Admitted' = Admitted
    BY <1>3, <2>1, StageSets DEF DropPacket, Stages
  <2>3. QED BY <1>3, <2>2 DEF CountInv, DropPacket
<1>4. ASSUME NEW w \in Writers, LoadOrStore(w) PROVE CountInv'
  <2>1. w \notin Counting /\ w \in Admitted
    BY <1>4 DEF LoadOrStore, Counting, Admitted
  <2> DEFINE k == FlowKey(w, cur[w])
  <2>2. CASE k \in DOMAIN flows
    <3>1. Counting' = Counting /\ Admitted' = Admitted \ {w}
      BY <1>4, <2>1, <2>2, StageSets DEF LoadOrStore, Stages
    <3>2. Cardinality(Admitted') = Cardinality(Admitted) - 1 /\ Cardinality(Admitted) \in Nat
      BY <1>0, <2>1, <3>1, WriterSets
    <3>3. QED BY <1>0, <1>4, <2>2, <3>1, <3>2 DEF CountInv, LoadOrStore, TypeOK
  <2>3. CASE k \notin DOMAIN flows
    <3>1. Counting' = Counting \union {w} /\ Admitted' = Admitted
      BY <1>4, <2>1, <2>3, StageSets DEF LoadOrStore, Stages
    <3>2. Cardinality(Counting') = Cardinality(Counting) + 1 /\ Cardinality(Counting) \in Nat
      BY <1>0, <2>1, <3>1, WriterSets
    <3>3. DOMAIN flows' = DOMAIN flows \union {k}
      BY <1>4, <2>3 DEF LoadOrStore, Track
    <3>4. IsFiniteSet(DOMAIN flows') /\ Cardinality(DOMAIN flows') = Cardinality(DOMAIN flows) + 1
      BY <2>3, <3>3, FS_AddElement DEF CountInv
    <3>5. QED BY <1>4, <3>1, <3>2, <3>4 DEF CountInv, LoadOrStore, TypeOK
  <2>4. QED BY <2>2, <2>3
<1>5. ASSUME NEW w \in Writers, CountFlow(w) PROVE CountInv'
  <2>1. w \in Counting /\ w \in Admitted
    BY <1>5 DEF CountFlow, Counting, Admitted
  <2>2. Counting' = Counting \ {w} /\ Admitted' = Admitted \ {w}
    BY <1>5, <2>1, StageSets DEF CountFlow, Stages
  <2>3. /\ Cardinality(Counting') = Cardinality(Counting) - 1 /\ Cardinality(Counting) \in Nat
        /\ Cardinality(Admitted') = Cardinality(Admitted) - 1 /\ Cardinality(Admitted) \in Nat
    BY <1>0, <2>1, <2>2, WriterSets
  <2>4. QED BY <1>0, <1>5, <2>3 DEF CountInv, CountFlow, TypeOK
<1>6. ASSUME NEW w \in Writers, Update(w) PROVE CountInv'
  <2>1. w \notin Counting /\ w \notin Admitted
    BY <1>6 DEF Update, Counting, Admitted
  <2>2. Goto(w, "idle") /\ DOMAIN flows' = DOMAIN flows /\ flowCount' = flowCount
    BY <1>6 DEF Update
  <2>3. Counting' = Counting /\ Admitted' = Admitted
    BY <2>1, <2>2, StageSets DEF Stages
  <2>4. QED BY <2>2, <2>3 DEF CountInv
<1>7. ASSUME NEW w \in Writers, Close(w) PROVE CountInv'
  <2>1. w \notin Counting /\ w \notin Admitted
    BY <1>7 DEF Close, Counting, Admitted
  <2>2. Counting' = Counting /\ Admitted' = Admitted
    BY <1>7, <2>1, StageSets DEF Close, Stages
  <2>3. QED BY <1>7, <2>2 DEF CountInv, Close
<1>8. CASE Finalize
  BY <1>8 DEF Finalize, CountInv, Counting, Admitted
<1>9. CASE UNCHANGED vars
  BY <1>9 DEF vars, CountInv, Counting, Admitted
<1>10. QED
  BY <1>1, <1>2, <1>3, <1>4, <1>5, <1>6, <1>7, <1>8, <1>9 DEF Next, Step

(* The number of tracked flows stays below the limit plus the number of
   writer goroutines: the comment at aggregate.go:239, for every limit. *)
THEOREM FlowBoundHolds == Spec => []FlowBound
<1>1. Init => CountInv
  <2> SUFFICES ASSUME Init PROVE CountInv
    OBVIOUS
  <2>1. DOMAIN flows = {} /\ Counting = {} /\ Admitted = {} /\ flowCount = 0
    BY DEF Init, Counting, Admitted
  <2>2. QED
    BY <2>1, FS_EmptySet, FS_CardinalityType, WritersFinite, LimitIsPositive DEF CountInv
<1>2. TypeOK /\ CountInv => FlowBound
  <2> SUFFICES ASSUME TypeOK, CountInv PROVE FlowBound
    OBVIOUS
  <2>1. /\ Counting \in SUBSET Admitted
        /\ Admitted \in SUBSET Writers
    BY DEF Counting, Admitted
  <2>2. IsFiniteSet(Admitted) /\ Cardinality(Admitted) \in Nat
    BY <2>1, WritersFinite, FS_Subset, FS_CardinalityType
  <2>3. Cardinality(Counting) <= Cardinality(Admitted) /\ Cardinality(Counting) \in Nat
    BY <2>1, <2>2, FS_Subset, FS_CardinalityType
  <2>4. Cardinality(Writers) \in Nat
    BY WritersFinite, FS_CardinalityType
  <2>5. QED
    BY <2>2, <2>3, <2>4, LimitIsPositive DEF CountInv, FlowBound, TypeOK
<1>3. TypeOK /\ CountInv /\ [Next]_vars => CountInv'
  BY CountInvStep
<1>4. QED
  BY <1>1, <1>2, <1>3, TypeCorrect, PTL DEF Spec

(* A drop means the table is full: flowCount never runs ahead of the number
   of tracked flows (CountInv), and it never decreases (FullInv). *)
THEOREM NoEarlyDropHolds == Spec => []NoEarlyDrop
<1>1. Init => CountInv /\ FullInv
  <2> SUFFICES ASSUME Init PROVE CountInv /\ FullInv
    OBVIOUS
  <2>1. DOMAIN flows = {} /\ Counting = {} /\ Admitted = {} /\ flowCount = 0
    BY DEF Init, Counting, Admitted
  <2>2. CountInv
    BY <2>1, FS_EmptySet, FS_CardinalityType, WritersFinite, LimitIsPositive DEF CountInv
  <2>3. FullInv
    BY DEF Init, FullInv
  <2>4. QED BY <2>2, <2>3
<1>2. TypeOK /\ FullInv /\ [Next]_vars => FullInv'
  <2> SUFFICES ASSUME TypeOK, FullInv, [Next]_vars PROVE FullInv'
    OBVIOUS
  <2> USE LimitIsPositive
  <2>1. ASSUME NEW w \in Writers, Step(w) PROVE FullInv'
    BY <2>1 DEF Step, Lookup, CheckLimit, DropPacket, LoadOrStore, CountFlow, Update, Close,
                Goto, FullInv, TypeOK, Stages
  <2>2. CASE Finalize
    BY <2>2 DEF Finalize, FullInv
  <2>3. CASE UNCHANGED vars
    BY <2>3 DEF vars, FullInv
  <2>4. QED BY <2>1, <2>2, <2>3 DEF Next
<1>3. TypeOK /\ CountInv /\ FullInv => NoEarlyDrop
  <2> SUFFICES ASSUME TypeOK, CountInv, FullInv PROVE NoEarlyDrop
    OBVIOUS
  <2>1. Counting \in SUBSET Writers
    BY DEF Counting
  <2>2. Cardinality(Counting) \in Nat
    BY <2>1, WritersFinite, FS_Subset, FS_CardinalityType
  <2>3. QED BY <2>2, LimitIsPositive DEF CountInv, FullInv, NoEarlyDrop, TypeOK
<1>4. TypeOK /\ CountInv /\ [Next]_vars => CountInv'
  BY CountInvStep
<1>5. QED
  BY <1>1, <1>2, <1>3, <1>4, TypeCorrect, PTL DEF Spec

(* Packets of already-tracked flows are counted (aggregate.go:237) for every
   writer that shares its interface with no other: only w itself can store a
   key of its interface, so the key stays absent from the lookup to the store. *)
THEOREM TrackedAreCountedHolds == Spec => []TrackedAreCounted
<1>1. Init => TrackedAreCounted
  BY DEF Init, TrackedAreCounted
<1>2. TypeOK /\ TrackedAreCounted /\ [Next]_vars => TrackedAreCounted'
  <2> SUFFICES ASSUME TypeOK, TrackedAreCounted, [Next]_vars,
                      NEW w \in Writers, SoleWriter(w), pc'[w] \in {"check", "drop", "store"}
               PROVE  FlowKey(w, cur'[w]) \notin DOMAIN flows'
    BY DEF TrackedAreCounted, FlowKey
  <2>1. ASSUME NEW v \in Writers, Step(v), v # w PROVE FlowKey(w, cur'[w]) \notin DOMAIN flows'
    <3>1. pc'[w] = pc[w] /\ cur'[w] = cur[w]
      BY <2>1 DEF Step, Lookup, CheckLimit, DropPacket, LoadOrStore, CountFlow, Update, Close,
                  Goto, TypeOK
    <3>2. FlowKey(w, cur[w]) \notin DOMAIN flows
      BY <3>1 DEF TrackedAreCounted
    <3>3. FlowKey(w, cur[w]) # FlowKey(v, cur[v])
      BY <2>1 DEF FlowKey, SoleWriter
    <3>4. DOMAIN flows' \subseteq DOMAIN flows \union {FlowKey(v, cur[v])}
      BY <2>1 DEF Step, Lookup, CheckLimit, DropPacket, LoadOrStore, CountFlow, Update, Close,
                  Track
    <3>5. QED BY <3>1, <3>2, <3>3, <3>4
  <2>2. ASSUME Step(w) PROVE FlowKey(w, cur'[w]) \notin DOMAIN flows'
    <3>1. ASSUME NEW p \in Packets, Lookup(w, p) PROVE FlowKey(w, cur'[w]) \notin DOMAIN flows'
      BY <3>1 DEF Lookup, Goto, TypeOK
    <3>2. CASE CheckLimit(w)
      BY <3>2 DEF CheckLimit, TrackedAreCounted
    <3>3. CASE DropPacket(w) \/ LoadOrStore(w) \/ CountFlow(w) \/ Update(w) \/ Close(w)
      BY <3>3 DEF DropPacket, LoadOrStore, CountFlow, Update, Close, Goto, TypeOK
    <3>4. QED BY <2>2, <3>1, <3>2, <3>3 DEF Step
  <2>3. CASE Finalize
    BY <2>3 DEF Finalize, TrackedAreCounted
  <2>4. CASE UNCHANGED vars
    BY <2>4 DEF vars, TrackedAreCounted
  <2>5. QED BY <2>1, <2>2, <2>3, <2>4 DEF Next
<1>3. QED
  BY <1>1, <1>2, TypeCorrect, PTL DEF Spec

----------------------------------------------------------------------------
(* What Finalize recorded stays the whole window (runWindow, daemon.go:330, and
   aggregate.go:442): the property holds because whoever could write to the
   table has ended by then, which the strengthening says. *)
THEOREM FinalizedIsFinalHolds == Spec => []FinalizedIsFinal
<1> DEFINE FinalInv == records # None => records = RecordsOf(flows) /\ WritersDone
<1>1. Init => FinalInv
  BY DEF Init
<1>2. FinalInv /\ [Next]_vars => FinalInv'
  <2> SUFFICES ASSUME FinalInv, [Next]_vars PROVE FinalInv'
    OBVIOUS
  <2>1. ASSUME NEW w \in Writers, Step(w) PROVE FinalInv'
    <3>1. pc[w] # "done" /\ records' = records
      BY <2>1 DEF Step, Lookup, CheckLimit, DropPacket, LoadOrStore, CountFlow, Update, Close
    <3>2. ~WritersDone
      BY <3>1 DEF WritersDone
    <3>3. QED BY <3>1, <3>2
  <2>2. CASE Finalize
    BY <2>2 DEF Finalize, WritersDone
  <2>3. CASE UNCHANGED vars
    BY <2>3 DEF vars, WritersDone
  <2>4. QED BY <2>1, <2>2, <2>3 DEF Next
<1>3. FinalInv => FinalizedIsFinal
  BY DEF FinalizedIsFinal
<1>4. QED
  BY <1>1, <1>2, <1>3, PTL DEF Spec

----------------------------------------------------------------------------
(* What the record of a flow says of the packets s that reached it.  A best of
   a set is the least or greatest member, or the given value for no member. *)
IsLeast(x, S, z) == IF S = {} THEN x = z ELSE x \in S /\ \A y \in S : x <= y
IsGreatest(x, S, z) == IF S = {} THEN x = z ELSE x \in S /\ \A y \in S : x >= y

Times(s) == {s[i].ts : i \in CountedOf(s)}
TTLs(s) == {s[i].ttl : i \in DOMAIN s} \ {None}
Names(s) == {s[i].name : i \in DOMAIN s} \ {None}
WithJA3(s) == {i \in DOMAIN s : s[i].ja3 # None}

IsRecord(f) ==
  DOMAIN f = {"pkts", "bytes", "first", "last", "stamps", "names", "ja3", "ttl"}

CountersOf(f, s) ==
  /\ IsFiniteSet(CountedOf(s))
  /\ f.pkts = Cardinality(CountedOf(s))
  /\ f.stamps \in Seq(Nat)
  /\ Len(f.stamps) = Minimum(MaxStamps, f.pkts)
TimesOf(f, s) ==
  /\ f.first \in Nat /\ IsLeast(f.first, Times(s), 0)
  /\ f.last \in Nat /\ IsGreatest(f.last, Times(s), 0)
EnrichmentOf(f, s) ==
  /\ f.names = Names(s)
  /\ IsLeast(f.ttl, TTLs(s), None)
  /\ IF WithJA3(s) = {} THEN f.ja3 = None
     ELSE \E j \in WithJA3(s) : f.ja3 = s[j].ja3 /\ \A i \in WithJA3(s) : j <= i

LengthsOf(f, s) == IsFiniteSet(BytesOf(s)) /\ f.bytes = Cardinality(BytesOf(s))
StampsOf(f, s) ==
  \A i \in CountedOf(s) : RankOf(s, i) <= MaxStamps => f.stamps[RankOf(s, i)] = s[i].ts

Reflects(f, s) ==
  /\ IsRecord(f) /\ CountersOf(f, s) /\ LengthsOf(f, s) /\ StampsOf(f, s)
  /\ TimesOf(f, s) /\ EnrichmentOf(f, s)

LEMMA CountersOfAppend ==
  ASSUME NEW s \in Seq(Packets), NEW p \in Packets, NEW f, IsRecord(f), CountersOf(f, s)
  PROVE  CountersOf(Account(f, p), Append(s, p))
<1> DEFINE t == Append(s, p)
           n == Len(s)
           g == Account(f, p)
<1>1. /\ n \in Nat /\ DOMAIN s = 1 .. n /\ DOMAIN t = 1 .. n + 1 /\ t[n + 1] = p
      /\ \A i \in 1 .. n : t[i] = s[i]
  OBVIOUS
<1>2. g.pkts = (IF p.enrich THEN f.pkts ELSE f.pkts + 1)
      /\ g.stamps = (IF ~p.enrich /\ Len(f.stamps) < MaxStamps THEN Append(f.stamps, p.ts) ELSE f.stamps)
  BY DEF IsRecord, Account, Enriched, Counted
<1> HIDE DEF t, n, g
<1>3. CountedOf(t) = IF p.enrich THEN CountedOf(s) ELSE CountedOf(s) \union {n + 1}
  BY <1>1 DEF CountedOf
<1>4. n + 1 \notin CountedOf(s)
  BY <1>1 DEF CountedOf
<1>5. /\ IsFiniteSet(CountedOf(t))
      /\ Cardinality(CountedOf(t)) =
           IF p.enrich THEN Cardinality(CountedOf(s)) ELSE Cardinality(CountedOf(s)) + 1
  <2>1. IsFiniteSet(CountedOf(s))
    BY DEF CountersOf
  <2>2. /\ IsFiniteSet(CountedOf(s) \union {n + 1})
        /\ Cardinality(CountedOf(s) \union {n + 1}) = Cardinality(CountedOf(s)) + 1
    BY <1>4, <2>1, FS_AddElement
  <2>3. QED BY <1>3, <2>1, <2>2
<1>6. g.pkts = Cardinality(CountedOf(t))
  BY <1>2, <1>5 DEF CountersOf
<1>7. g.stamps \in Seq(Nat) /\ Len(g.stamps) = Minimum(MaxStamps, g.pkts)
  <2>1. f.pkts \in Nat /\ p.ts \in Nat
    BY FS_CardinalityType, PacketFields DEF CountersOf
  <2> DEFINE a == f.stamps
             b == f.pkts
             c == g.pkts
  <2>2. a \in Seq(Nat) /\ Len(a) = Minimum(MaxStamps, b) /\ b \in Nat
    BY <2>1 DEF CountersOf
  <2>3. CASE p.enrich
    BY <1>2, <2>2, <2>3
  <2>4. CASE ~p.enrich
    <3>1. c = b + 1
      BY <1>2, <2>4
    <3>2. CASE Len(a) < MaxStamps
      <4>1. g.stamps = Append(a, p.ts)
        BY <1>2, <2>4, <3>2
      <4>2. g.stamps \in Seq(Nat) /\ Len(g.stamps) = Len(a) + 1
        BY <2>1, <2>2, <4>1
      <4> HIDE DEF a, b, c
      <4>3. Len(a) = b /\ Len(a) + 1 = Minimum(MaxStamps, c)
        BY <2>2, <3>1, <3>2, StampsIsPositive DEF Minimum
      <4>4. QED BY <4>2, <4>3 DEF c
    <3>3. CASE ~(Len(a) < MaxStamps)
      <4>1. g.stamps = a
        BY <1>2, <3>3
      <4> HIDE DEF a, b, c
      <4>2. Len(a) = Minimum(MaxStamps, c)
        BY <2>2, <3>1, <3>3, StampsIsPositive DEF Minimum
      <4>3. QED BY <2>2, <4>1, <4>2 DEF c
    <3>4. QED BY <3>2, <3>3
  <2>5. QED BY <2>3, <2>4
<1>8. QED BY <1>5, <1>6, <1>7 DEF CountersOf, t, g

LEMMA ColumnSize ==
  ASSUME NEW m, NEW q \in Nat
  PROVE  IsFiniteSet({m} \X (1 .. q)) /\ Cardinality({m} \X (1 .. q)) = q
<1> DEFINE R == 1 .. q
           M == {m}
<1>1. IsFiniteSet(R) /\ Cardinality(R) = q
  <2>1. 1 \in Int /\ q \in Int
    OBVIOUS
  <2>2. IsFiniteSet(R) /\ Cardinality(R) = IF 1 > q THEN 0 ELSE q - 1 + 1
    BY <2>1, FS_Interval
  <2>3. (IF 1 > q THEN 0 ELSE q - 1 + 1) = q
    OBVIOUS
  <2>4. QED BY <2>2, <2>3
<1>2. IsFiniteSet(M) /\ Cardinality(M) = 1
  BY FS_Singleton
<1> HIDE DEF R, M
<1>3. IsFiniteSet(M \X R) /\ Cardinality(M \X R) = Cardinality(M) * Cardinality(R)
  BY <1>1, <1>2, FS_Product
<1>4. Cardinality(M \X R) = 1 * q
  BY <1>1, <1>2, <1>3
<1>5. 1 * q = q
  OBVIOUS
<1>6. QED BY <1>3, <1>4, <1>5 DEF R, M

(* A counted packet adds as many bytes as it is long. *)
LEMMA LengthsOfAppend ==
  ASSUME NEW s \in Seq(Packets), NEW p \in Packets, NEW f, IsRecord(f), LengthsOf(f, s)
  PROVE  LengthsOf(Account(f, p), Append(s, p))
<1> DEFINE t == Append(s, p)
           n == Len(s)
           g == Account(f, p)
           new == {n + 1} \X (1 .. p.len)
<1>1. /\ n \in Nat /\ DOMAIN s = 1 .. n /\ DOMAIN t = 1 .. n + 1 /\ t[n + 1] = p
      /\ \A i \in 1 .. n : t[i] = s[i]
  OBVIOUS
<1>2. g.bytes = (IF p.enrich THEN f.bytes ELSE f.bytes + p.len)
  BY DEF IsRecord, Account, Enriched, Counted
<1>3. p.len \in Nat
  BY PacketFields
<1> HIDE DEF t, n, g
<1>4. /\ \A i \in CountedOf(s) : i # n + 1 /\ t[i] = s[i]
      /\ CountedOf(t) = IF p.enrich THEN CountedOf(s) ELSE CountedOf(s) \union {n + 1}
  BY <1>1 DEF CountedOf
<1>5. BytesOf(t) = IF p.enrich THEN BytesOf(s) ELSE BytesOf(s) \union new
  <2> DEFINE of(u, i) == {i} \X (1 .. u[i].len)
             all(u, C) == UNION {of(u, i) : i \in C}
  <2>1. (\A i \in CountedOf(s) : of(t, i) = of(s, i)) /\ of(t, n + 1) = new
    BY <1>1, <1>4
  <2> HIDE DEF of, new
  <2>2. all(t, CountedOf(s)) = all(s, CountedOf(s))
    BY <2>1
  <2>3. all(t, CountedOf(s) \union {n + 1}) = all(t, CountedOf(s)) \union new
    BY <2>1
  <2>4. BytesOf(s) = all(s, CountedOf(s)) /\ BytesOf(t) = all(t, CountedOf(t))
    BY DEF BytesOf, of
  <2> HIDE DEF all
  <2>5. QED BY <1>4, <2>2, <2>3, <2>4
<1>6. BytesOf(s) \intersect new = {}
  BY <1>4 DEF BytesOf
<1>7. IsFiniteSet(new) /\ Cardinality(new) = p.len
  BY <1>3, ColumnSize
<1> HIDE DEF new
<1>8. IsFiniteSet(BytesOf(s)) /\ f.bytes = Cardinality(BytesOf(s))
  BY DEF LengthsOf
<1>9. /\ IsFiniteSet(BytesOf(s) \union new)
      /\ Cardinality(BytesOf(s) \union new) = Cardinality(BytesOf(s)) + p.len
  <2> DEFINE x == Cardinality(BytesOf(s))
             y == Cardinality(new)
  <2>1. x \in Nat /\ y \in Nat /\ y = p.len
    BY <1>3, <1>7, <1>8, FS_CardinalityType
  <2>2. /\ IsFiniteSet(BytesOf(s) \union new)
        /\ Cardinality(BytesOf(s) \union new) = x + y - Cardinality(BytesOf(s) \intersect new)
    BY <1>7, <1>8, FS_Union
  <2>3. Cardinality(BytesOf(s) \intersect new) = 0
    BY <1>6, FS_EmptySet
  <2> HIDE DEF x, y
  <2>4. x + y - 0 = x + p.len
    BY <2>1
  <2>5. QED BY <2>2, <2>3, <2>4 DEF x
<1>10. QED BY <1>2, <1>5, <1>8, <1>9 DEF LengthsOf, t, g

(* The timestamps kept are those of the first packets counted, in order. *)
LEMMA StampsOfAppend ==
  ASSUME NEW s \in Seq(Packets), NEW p \in Packets, NEW f, IsRecord(f), CountersOf(f, s), StampsOf(f, s)
  PROVE  StampsOf(Account(f, p), Append(s, p))
<1> DEFINE t == Append(s, p)
           n == Len(s)
           g == Account(f, p)
           c == Cardinality(CountedOf(s))
<1>1. /\ n \in Nat /\ DOMAIN s = 1 .. n /\ DOMAIN t = 1 .. n + 1 /\ t[n + 1] = p
      /\ \A i \in 1 .. n : t[i] = s[i]
  OBVIOUS
<1>2. g.stamps = (IF ~p.enrich /\ Len(f.stamps) < MaxStamps THEN Append(f.stamps, p.ts) ELSE f.stamps)
  BY DEF IsRecord, Account, Enriched, Counted
<1>3. /\ IsFiniteSet(CountedOf(s)) /\ c \in Nat /\ f.stamps \in Seq(Nat)
      /\ Len(f.stamps) = Minimum(MaxStamps, c) /\ p.ts \in Nat
  BY FS_CardinalityType, PacketFields DEF CountersOf
<1> HIDE DEF t, n, g
<1>4. /\ CountedOf(s) \in SUBSET (1 .. n) /\ n + 1 \notin CountedOf(s)
      /\ \A i \in CountedOf(s) : t[i] = s[i]
      /\ CountedOf(t) = IF p.enrich THEN CountedOf(s) ELSE CountedOf(s) \union {n + 1}
  BY <1>1 DEF CountedOf
<1>5. ASSUME NEW i \in CountedOf(s) PROVE RankOf(t, i) = RankOf(s, i) /\ RankOf(s, i) \in 1 .. c
  <2> DEFINE E == {h \in CountedOf(s) : h <= i}
  <2>1. {h \in CountedOf(t) : h <= i} = E
    BY <1>1, <1>4
  <2>2. IsFiniteSet(E) /\ Cardinality(E) <= c /\ Cardinality(E) \in Nat
    BY <1>3, FS_Subset, FS_CardinalityType
  <2>3. i \in E
    BY <1>1, <1>4
  <2>4. Cardinality(E) # 0
    BY <2>2, <2>3, FS_EmptySet
  <2> HIDE DEF E, c
  <2>5. Cardinality(E) \in 1 .. c
    BY <1>3, <2>2, <2>4
  <2>6. QED BY <2>1, <2>5 DEF RankOf, E
<1>6. ASSUME NEW i \in CountedOf(s), RankOf(s, i) <= MaxStamps
      PROVE  g.stamps[RankOf(s, i)] = s[i].ts
  <2> DEFINE r == RankOf(s, i)
             a == f.stamps
  <2>1. r \in 1 .. c /\ r <= MaxStamps /\ a[r] = s[i].ts
    BY <1>5, <1>6 DEF StampsOf
  <2>2. a \in Seq(Nat) /\ Len(a) = Minimum(MaxStamps, c) /\ c \in Nat
    BY <1>3
  <2>3. g.stamps = a \/ g.stamps = Append(a, p.ts)
    BY <1>2
  <2> HIDE DEF r, a, c
  <2>4. r \in 1 .. Len(a)
    BY <2>1, <2>2, StampsIsPositive DEF Minimum
  <2>5. Append(a, p.ts)[r] = a[r]
    BY <1>3, <2>2, <2>4
  <2>6. QED BY <2>1, <2>3, <2>5 DEF r
<1>7. ASSUME ~p.enrich, RankOf(t, n + 1) <= MaxStamps
      PROVE  g.stamps[RankOf(t, n + 1)] = p.ts
  <2> DEFINE a == f.stamps
  <2>1. {h \in CountedOf(t) : h <= n + 1} = CountedOf(s) \union {n + 1}
    BY <1>1, <1>4, <1>7
  <2>2. RankOf(t, n + 1) = c + 1
    BY <1>3, <1>4, <2>1, FS_AddElement DEF RankOf
  <2>3. a \in Seq(Nat) /\ Len(a) = Minimum(MaxStamps, c) /\ c \in Nat /\ p.ts \in Nat
    BY <1>3
  <2> HIDE DEF c
  <2>4. Len(a) < MaxStamps /\ Len(a) = c
    BY <1>7, <2>2, <2>3, StampsIsPositive DEF Minimum
  <2>5. g.stamps = Append(a, p.ts)
    BY <1>2, <1>7, <2>4
  <2> HIDE DEF a
  <2>6. Append(a, p.ts)[Len(a) + 1] = p.ts
    BY <2>3
  <2>7. QED BY <2>2, <2>4, <2>5, <2>6
<1>8. StampsOf(g, t)
  BY <1>1, <1>4, <1>5, <1>6, <1>7 DEF StampsOf
<1>9. QED BY <1>8 DEF t, g

LEMMA TimesOfAppend ==
  ASSUME NEW s \in Seq(Packets), NEW p \in Packets, NEW f, IsRecord(f), TimesOf(f, s)
  PROVE  TimesOf(Account(f, p), Append(s, p))
<1> DEFINE t == Append(s, p)
           n == Len(s)
           g == Account(f, p)
<1>1. /\ n \in Nat /\ DOMAIN s = 1 .. n /\ DOMAIN t = 1 .. n + 1 /\ t[n + 1] = p
      /\ \A i \in 1 .. n : t[i] = s[i] /\ s[i] \in Packets
  OBVIOUS
<1>2. /\ g.first = (IF ~p.enrich /\ (f.first = 0 \/ p.ts < f.first) THEN p.ts ELSE f.first)
      /\ g.last = (IF ~p.enrich /\ p.ts > f.last THEN p.ts ELSE f.last)
  BY DEF IsRecord, Account, Enriched, Counted
<1> HIDE DEF t, n, g
<1>3. Times(t) = IF p.enrich THEN Times(s) ELSE Times(s) \union {p.ts}
  <2>1. CountedOf(t) = IF p.enrich THEN CountedOf(s) ELSE CountedOf(s) \union {n + 1}
    BY <1>1 DEF CountedOf
  <2>2. \A i \in CountedOf(s) : t[i] = s[i]
    BY <1>1 DEF CountedOf
  <2>3. CASE p.enrich
    BY <2>1, <2>2, <2>3 DEF Times
  <2>4. CASE ~p.enrich
    BY <1>1, <2>1, <2>2, <2>4 DEF Times
  <2>5. QED BY <2>3, <2>4
<1>4. p.ts \in Nat \ {0} /\ Times(s) \subseteq Nat \ {0}
  BY <1>1, PacketFields DEF Times, CountedOf
<1> DEFINE a == f.first
           b == f.last
           c == g.first
           d == g.last
           S == Times(s)
           T == Times(t)
           x == p.ts
<1>5. /\ a \in Nat /\ IsLeast(a, S, 0) /\ b \in Nat /\ IsGreatest(b, S, 0)
      /\ x \in Nat \ {0} /\ S \subseteq Nat \ {0}
  BY <1>4 DEF TimesOf
<1>6. CASE p.enrich
  BY <1>2, <1>3, <1>6 DEF TimesOf, t, g
<1>7. CASE ~p.enrich
  <2>1. /\ c = (IF a = 0 \/ x < a THEN x ELSE a) /\ d = (IF x > b THEN x ELSE b)
        /\ T = S \union {x}
    BY <1>2, <1>3, <1>7
  <2> HIDE DEF a, b, c, d, S, T, x
  <2>2. c \in Nat /\ d \in Nat
    BY <1>5, <2>1
  <2>3. IsLeast(c, T, 0)
    BY <1>5, <2>1 DEF IsLeast
  <2>4. IsGreatest(d, T, 0)
    BY <1>5, <2>1 DEF IsGreatest
  <2>5. QED BY <2>2, <2>3, <2>4 DEF TimesOf, c, d, T, t, g
<1>8. QED BY <1>6, <1>7

LEMMA EnrichmentOfAppend ==
  ASSUME NEW s \in Seq(Packets), NEW p \in Packets, NEW f, IsRecord(f), EnrichmentOf(f, s)
  PROVE  EnrichmentOf(Account(f, p), Append(s, p))
<1> DEFINE t == Append(s, p)
           n == Len(s)
           g == Account(f, p)
<1>1. /\ n \in Nat /\ DOMAIN s = 1 .. n /\ DOMAIN t = 1 .. n + 1 /\ t[n + 1] = p
      /\ \A i \in 1 .. n : t[i] = s[i] /\ s[i] \in Packets
  OBVIOUS
<1>2. /\ g.names = (IF p.name = None THEN f.names ELSE f.names \union {p.name})
      /\ g.ja3 = (IF f.ja3 = None THEN p.ja3 ELSE f.ja3)
      /\ g.ttl = (CASE p.ttl = None -> f.ttl
                    [] f.ttl = None -> p.ttl
                    [] OTHER -> Minimum(f.ttl, p.ttl))
  BY DEF IsRecord, Account, Enriched, Counted
<1>3. 1 .. n + 1 = (1 .. n) \union {n + 1} /\ \A i \in 1 .. n : i < n + 1
  BY <1>1
<1> HIDE DEF t, n, g
<1>4. g.names = Names(t)
  <2>1. {t[i].name : i \in DOMAIN t} = {s[i].name : i \in DOMAIN s} \union {p.name}
    BY <1>1, <1>3
  <2>2. QED BY <1>2, <2>1 DEF EnrichmentOf, Names
<1>5. IsLeast(g.ttl, TTLs(t), None)
  <2>1. {t[i].ttl : i \in DOMAIN t} = {s[i].ttl : i \in DOMAIN s} \union {p.ttl}
    BY <1>1, <1>3
  <2> DEFINE S == TTLs(s)
             T == TTLs(t)
             a == f.ttl
             c == g.ttl
             x == p.ttl
  <2>a. T = (S \union {x}) \ {None} /\ None \notin S
    BY <2>1 DEF TTLs
  <2>b. x \in Nat \union {None} /\ None \notin Nat
    BY PacketFields, NoneIsNoNumber
  <2>c. S \subseteq Nat
    <3>1. \A i \in DOMAIN s : s[i].ttl \in Nat \union {None}
      BY PacketFields
    <3>2. QED BY <3>1 DEF TTLs
  <2>d. IsLeast(a, S, None)
    BY DEF EnrichmentOf
  <2>e. c = (CASE x = None -> a [] a = None -> x [] OTHER -> IF a < x THEN a ELSE x)
    BY <1>2 DEF Minimum
  <2>2. /\ T = (S \union {x}) \ {None} /\ None \notin S /\ x \in Nat \union {None} /\ S \subseteq Nat
        /\ IsLeast(a, S, None) /\ None \notin Nat
        /\ c = (CASE x = None -> a [] a = None -> x [] OTHER -> IF a < x THEN a ELSE x)
    BY <2>a, <2>b, <2>c, <2>d, <2>e
  <2> HIDE DEF S, T, a, c, x
  <2>3. CASE x = None
    <3>1. T = S /\ c = a
      BY <2>2, <2>3
    <3>2. QED BY <2>2, <3>1, Zenon DEF T, c
  <2>4. CASE x # None
    <3>1. T = S \union {x} /\ x \in Nat
      BY <2>2, <2>4
    <3>2. CASE S = {}
      <4>1. a = None
        BY <2>2, <3>2 DEF IsLeast
      <4>2. c = x /\ T = {x}
        BY <2>2, <2>4, <3>1, <3>2, <4>1
      <4>3. c \in T /\ \A y \in T : c <= y
        BY <3>1, <4>2
      <4>4. QED BY <4>2, <4>3 DEF IsLeast, T, c
    <3>3. CASE S # {}
      <4>1. a \in Nat /\ a \in S /\ \A y \in S : a <= y
        BY <2>2, <3>3 DEF IsLeast
      <4>2. c = IF a < x THEN a ELSE x
        BY <2>2, <2>4, <4>1
      <4>3. c \in T /\ \A y \in T : c <= y
        BY <2>2, <3>1, <4>1, <4>2
      <4>4. QED BY <4>3 DEF IsLeast, T, c
    <3>4. QED BY <3>2, <3>3
  <2>5. QED BY <2>3, <2>4 DEF T, c
<1>6. IF WithJA3(t) = {} THEN g.ja3 = None
      ELSE \E j \in WithJA3(t) : g.ja3 = t[j].ja3 /\ \A i \in WithJA3(t) : j <= i
  <2>1. WithJA3(t) = WithJA3(s) \union (IF p.ja3 = None THEN {} ELSE {n + 1})
    BY <1>1, <1>3 DEF WithJA3
  <2>2. CASE WithJA3(s) = {}
    <3>1. g.ja3 = p.ja3
      BY <1>2, <2>2 DEF EnrichmentOf
    <3>2. CASE p.ja3 = None
      BY <2>1, <2>2, <3>1, <3>2
    <3>3. CASE p.ja3 # None
      <4>1. WithJA3(t) = {n + 1} /\ n + 1 <= n + 1
        BY <1>1, <2>1, <2>2, <3>3
      <4>2. QED BY <1>1, <3>1, <4>1
    <3>4. QED BY <3>2, <3>3
  <2>3. CASE WithJA3(s) # {}
    <3>1. PICK j \in WithJA3(s) : f.ja3 = s[j].ja3 /\ \A i \in WithJA3(s) : j <= i
      BY <2>3 DEF EnrichmentOf
    <3>2. s[j].ja3 # None /\ j \in 1 .. n /\ t[j] = s[j]
      BY <1>1 DEF WithJA3
    <3>3. g.ja3 = t[j].ja3
      BY <1>2, <3>1, <3>2
    <3>4. j \in WithJA3(t) /\ j <= n + 1
      BY <1>1, <2>1, <3>2
    <3>5. QED BY <2>1, <3>1, <3>3, <3>4
  <2>4. QED BY <2>2, <2>3
<1>7. QED BY <1>4, <1>5, <1>6 DEF EnrichmentOf, t, g

(* The record so described is the reference record of the packets. *)
LEMMA LeastIs ==
  ASSUME NEW S \in SUBSET Nat, NEW z, NEW x, IsLeast(x, S, z)
  PROVE  Extreme(S, z, AtMost) = x
<1>1. CASE S = {}
  BY <1>1 DEF IsLeast, Extreme
<1>2. CASE S # {}
  <2>1. x \in S /\ \A y \in S : x <= y
    BY <1>2 DEF IsLeast
  <2>2. \A u \in S : (\A y \in S : u <= y) => u = x
    BY <2>1
  <2>3. (CHOOSE u \in S : \A y \in S : u <= y) = x
    BY <2>1, <2>2
  <2>4. QED BY <1>2, <2>3 DEF Extreme, AtMost
<1>3. QED BY <1>1, <1>2

LEMMA GreatestIs ==
  ASSUME NEW S \in SUBSET Nat, NEW z, NEW x, IsGreatest(x, S, z)
  PROVE  Extreme(S, z, AtLeast) = x
<1>1. CASE S = {}
  BY <1>1 DEF IsGreatest, Extreme
<1>2. CASE S # {}
  <2>1. x \in S /\ \A y \in S : x >= y
    BY <1>2 DEF IsGreatest
  <2>2. \A u \in S : (\A y \in S : u >= y) => u = x
    BY <2>1
  <2>3. (CHOOSE u \in S : \A y \in S : u >= y) = x
    BY <2>1, <2>2
  <2>4. QED BY <1>2, <2>3 DEF Extreme, AtLeast
<1>3. QED BY <1>1, <1>2

LEMMA ReflectsIsFaithful ==
  ASSUME NEW s \in Seq(Packets), NEW f, Reflects(f, s)
  PROVE  Faithful(f, s)
<1>1. /\ DOMAIN s = 1 .. Len(s) /\ Len(s) \in Nat
      /\ \A i \in DOMAIN s : s[i] \in Packets
  OBVIOUS
<1>2. Times(s) \in SUBSET Nat /\ TTLs(s) \in SUBSET Nat /\ WithJA3(s) \in SUBSET Nat
  BY <1>1, PacketFields DEF Times, TTLs, WithJA3, CountedOf
<1>3. /\ f.first = Extreme(Times(s), 0, AtMost)
      /\ f.last = Extreme(Times(s), 0, AtLeast)
      /\ f.ttl = Extreme(TTLs(s), None, AtMost)
  BY <1>2, LeastIs, GreatestIs DEF Reflects, TimesOf, EnrichmentOf
<1>4. IF WithJA3(s) = {} THEN f.ja3 = None ELSE f.ja3 = s[Extreme(WithJA3(s), 0, AtMost)].ja3
  <2>1. ASSUME WithJA3(s) # {} PROVE f.ja3 = s[Extreme(WithJA3(s), 0, AtMost)].ja3
    <3>1. PICK j \in WithJA3(s) : f.ja3 = s[j].ja3 /\ \A i \in WithJA3(s) : j <= i
      BY <2>1 DEF Reflects, EnrichmentOf
    <3>2. Extreme(WithJA3(s), 0, AtMost) = j
      BY <1>2, <2>1, <3>1, LeastIs DEF IsLeast
    <3>3. QED BY <3>1, <3>2
  <2>2. QED BY <2>1 DEF Reflects, EnrichmentOf
<1>5. /\ f.pkts = Cardinality(CountedOf(s))
      /\ Len(f.stamps) = Minimum(MaxStamps, Cardinality(CountedOf(s)))
      /\ f.bytes = Cardinality(BytesOf(s))
      /\ \A i \in CountedOf(s) : RankOf(s, i) <= MaxStamps => f.stamps[RankOf(s, i)] = s[i].ts
      /\ f.names = Names(s)
  BY DEF Reflects, CountersOf, LengthsOf, StampsOf, EnrichmentOf
<1>6. QED BY <1>3, <1>4, <1>5 DEF Faithful, Times, TTLs, Names, WithJA3

LEMMA NewFlowReflects == Reflects(NewFlow, <<>>)
<1>1. /\ CountedOf(<<>>) = {} /\ Times(<<>>) = {} /\ TTLs(<<>>) = {} /\ Names(<<>>) = {}
      /\ WithJA3(<<>>) = {}
  BY DEF CountedOf, Times, TTLs, Names, WithJA3
<1>2. IsRecord(NewFlow)
  BY DEF IsRecord, NewFlow
<1>3. /\ NewFlow.pkts = 0 /\ NewFlow.first = 0 /\ NewFlow.last = 0 /\ NewFlow.stamps = <<>>
      /\ NewFlow.names = {} /\ NewFlow.ja3 = None /\ NewFlow.ttl = None
  BY DEF NewFlow
<1>4. CountersOf(NewFlow, <<>>)
  <2>1. Minimum(MaxStamps, 0) = 0
    BY StampsIsPositive DEF Minimum
  <2>2. <<>> \in Seq(Nat) /\ Len(<<>>) = 0
    OBVIOUS
  <2>3. QED BY <1>1, <1>3, <2>1, <2>2, FS_EmptySet DEF CountersOf
<1>5. LengthsOf(NewFlow, <<>>)
  <2>1. BytesOf(<<>>) = {} /\ NewFlow.bytes = 0
    BY <1>1 DEF BytesOf, NewFlow
  <2>2. QED BY <2>1, FS_EmptySet DEF LengthsOf
<1>6. StampsOf(NewFlow, <<>>)
  BY <1>1 DEF StampsOf
<1>7. QED BY <1>1, <1>2, <1>3, <1>4, <1>5, <1>6 DEF Reflects, TimesOf, EnrichmentOf, IsLeast, IsGreatest

LEMMA AccountReflects ==
  ASSUME NEW s \in Seq(Packets), NEW p \in Packets, NEW f, Reflects(f, s)
  PROVE  Reflects(Account(f, p), Append(s, p))
<1>1. IsRecord(Account(f, p))
  <2>1. IsRecord(Counted(f, p))
    <3>1. CASE p.enrich
      BY <3>1 DEF Reflects, Counted
    <3>2. CASE ~p.enrich
      BY <3>2 DEF Reflects, IsRecord, Counted
    <3>3. QED BY <3>1, <3>2
  <2>2. \A g : IsRecord(g) => IsRecord(Enriched(g, p))
    BY DEF IsRecord, Enriched
  <2>3. QED BY <2>1, <2>2 DEF Account
<1>2. QED BY <1>1, CountersOfAppend, LengthsOfAppend, StampsOfAppend, TimesOfAppend, EnrichmentOfAppend DEF Reflects

----------------------------------------------------------------------------
(* Every packet that was added and is not in the hands of a writer was dropped
   and counted, or has landed in one flow. *)
Busy == {w \in Writers : pc[w] \notin {"idle", "done"}}
Landed == UNION {{k} \X DOMAIN applied[k] : k \in DOMAIN applied}

FlowsReflect ==
  \A k \in DOMAIN flows : applied[k] \in Seq(Packets) /\ Reflects(flows[k], applied[k])
PacketsLanded ==
  IsFiniteSet(Landed) /\ adds = droppedFlows + Cardinality(Busy) + Cardinality(Landed)

(* A writer enters or leaves Add. *)
LEMMA BusyMoves ==
  ASSUME TypeOK, NEW w \in Writers, NEW stage \in Stages, Goto(w, stage)
  PROVE  /\ Cardinality(Busy) \in Nat /\ Cardinality(Busy') \in Nat
         /\ pc[w] \in {"idle", "done"} <=> w \notin Busy
         /\ stage \notin {"idle", "done"} /\ pc[w] \in {"idle", "done"} =>
              Cardinality(Busy') = Cardinality(Busy) + 1
         /\ stage \in {"idle", "done"} /\ pc[w] \notin {"idle", "done"} =>
              Cardinality(Busy') = Cardinality(Busy) - 1
         /\ (stage \in {"idle", "done"} <=> pc[w] \in {"idle", "done"}) => Busy' = Busy
<1>1. Busy \in SUBSET Writers
  BY DEF Busy
<1>2. Busy' = IF stage \in {"idle", "done"} THEN Busy \ {w} ELSE Busy \union {w}
  BY DEF TypeOK, Goto, Busy, Stages
<1>3. pc[w] \in {"idle", "done"} <=> w \notin Busy
  BY DEF Busy
<1>4. /\ Cardinality(Busy) \in Nat
      /\ Cardinality(Busy \union {w}) = IF w \in Busy THEN Cardinality(Busy) ELSE Cardinality(Busy) + 1
      /\ Cardinality(Busy \ {w}) = IF w \in Busy THEN Cardinality(Busy) - 1 ELSE Cardinality(Busy)
  BY <1>1, WriterSets
<1>5. Busy' \in SUBSET Writers
  BY <1>1, <1>2
<1>6. Cardinality(Busy') \in Nat
  BY <1>5, WritersFinite, FS_Subset, FS_CardinalityType
<1>7. QED BY <1>2, <1>3, <1>4, <1>6

(* Where the writers stand is all that counts, as long as the table and the
   packets that landed are the same. *)
LEMMA LandedStep ==
  ASSUME TypeOK, FlowsReflect, PacketsLanded, [Next]_vars
  PROVE  FlowsReflect' /\ PacketsLanded'
<1> DEFINE b == Cardinality(Busy)
           l == Cardinality(Landed)
<1>1. /\ l \in Nat /\ adds \in Nat /\ droppedFlows \in Nat
      /\ adds = droppedFlows + b + l /\ IsFiniteSet(Landed)
  BY FS_CardinalityType DEF PacketsLanded, TypeOK
<1>2. ASSUME UNCHANGED <<flows, applied>>, Cardinality(Busy') \in Nat, b \in Nat,
             adds' - droppedFlows' - Cardinality(Busy') = adds - droppedFlows - b,
             adds' \in Nat, droppedFlows' \in Nat
      PROVE  FlowsReflect' /\ PacketsLanded'
  <2>1. Landed' = Landed
    BY <1>2 DEF Landed
  <2> DEFINE c == Cardinality(Busy')
             x == adds'
             y == droppedFlows'
  <2>2. c \in Nat /\ x \in Nat /\ y \in Nat /\ x - y - c = adds - droppedFlows - b /\ b \in Nat
    BY <1>2
  <2> HIDE DEF b, c, l, x, y
  <2>3. x = y + c + l
    BY <1>1, <2>2
  <2>4. QED BY <1>1, <1>2, <2>1, <2>3 DEF FlowsReflect, PacketsLanded, c, l, x, y
<1>3. ASSUME NEW w \in Writers, NEW p \in Packets, Lookup(w, p) PROVE FlowsReflect' /\ PacketsLanded'
  <2>1. PICK stage \in {"update", "check"} : Goto(w, stage)
    BY <1>3 DEF Lookup
  <2>2. /\ pc[w] = "idle" /\ adds' = adds + 1
        /\ UNCHANGED <<flows, applied, droppedFlows>>
    BY <1>3 DEF Lookup
  <2> DEFINE c == Cardinality(Busy')
  <2>3. c = b + 1 /\ b \in Nat /\ c \in Nat
    BY <2>1, <2>2, BusyMoves DEF Stages
  <2>4. (adds + 1) - droppedFlows - c = adds - droppedFlows - b
    <3> HIDE DEF b, c, l
    <3>1. QED BY <1>1, <2>3
  <2>5. QED BY <1>1, <1>2, <2>2, <2>3, <2>4
<1>4. ASSUME NEW w \in Writers, CheckLimit(w) \/ CountFlow(w) \/ Close(w)
      PROVE  FlowsReflect' /\ PacketsLanded'
  <2>1. PICK stage \in Stages : Goto(w, stage) /\ (stage \in {"idle", "done"} <=> pc[w] \in {"idle", "done"})
    BY <1>4 DEF CheckLimit, CountFlow, Close, Stages
  <2>2. UNCHANGED <<flows, applied, adds, droppedFlows>>
    BY <1>4 DEF CheckLimit, CountFlow, Close
  <2>3. Busy' = Busy /\ b \in Nat
    BY <2>1, BusyMoves
  <2>4. QED BY <1>1, <1>2, <2>2, <2>3
<1>5. ASSUME NEW w \in Writers, DropPacket(w) PROVE FlowsReflect' /\ PacketsLanded'
  <2>1. /\ pc[w] = "drop" /\ Goto(w, "idle") /\ droppedFlows' = droppedFlows + 1
        /\ UNCHANGED <<flows, applied, adds>>
    BY <1>5 DEF DropPacket
  <2> DEFINE c == Cardinality(Busy')
  <2>2. c = b - 1 /\ b \in Nat /\ c \in Nat
    BY <2>1, BusyMoves DEF Stages
  <2>3. adds - (droppedFlows + 1) - c = adds - droppedFlows - b
    <3> HIDE DEF b, c, l
    <3>1. QED BY <1>1, <2>2
  <2>4. QED BY <1>1, <1>2, <2>1, <2>2, <2>3
<1>6. ASSUME NEW w \in Writers, LoadOrStore(w) PROVE FlowsReflect' /\ PacketsLanded'
  <2> DEFINE k == FlowKey(w, cur[w])
  <2>1. /\ pc[w] = "store" /\ UNCHANGED <<adds, droppedFlows>>
        /\ \E stage \in {"update", "count"} : Goto(w, stage)
    BY <1>6 DEF LoadOrStore
  <2>2. Busy' = Busy /\ b \in Nat
    BY <2>1, BusyMoves DEF Stages
  <2>3. CASE k \in DOMAIN flows
    BY <1>1, <1>2, <1>6, <2>1, <2>2, <2>3 DEF LoadOrStore
  <2>4. CASE k \notin DOMAIN flows
    <3>1. /\ DOMAIN applied = DOMAIN flows
          /\ flows' = [x \in DOMAIN flows \union {k} |-> IF x = k THEN NewFlow ELSE flows[x]]
          /\ applied' = [x \in DOMAIN applied \union {k} |-> IF x \in DOMAIN applied THEN applied[x] ELSE <<>>]
      BY <1>6, <2>4 DEF LoadOrStore, Track, TypeOK
    <3>2. /\ flows'[k] = NewFlow /\ applied'[k] = <<>>
          /\ \A x \in DOMAIN flows : flows'[x] = flows[x] /\ applied'[x] = applied[x]
          /\ DOMAIN flows' = DOMAIN flows \union {k} /\ DOMAIN applied' = DOMAIN applied \union {k}
      BY <2>4, <3>1
    <3>3. FlowsReflect'
      <4>1. <<>> \in Seq(Packets)
        OBVIOUS
      <4>2. QED BY <3>2, <4>1, NewFlowReflects DEF FlowsReflect
    <3>4. Landed' = Landed
      <4>1. {k} \X DOMAIN applied'[k] = {}
        BY <3>2
      <4>2. \A x \in DOMAIN applied : {x} \X DOMAIN applied'[x] = {x} \X DOMAIN applied[x]
        BY <3>1, <3>2
      <4> DEFINE here(x) == {x} \X DOMAIN applied[x]
                 there(x) == {x} \X DOMAIN applied'[x]
      <4>3. there(k) = {} /\ \A x \in DOMAIN applied : there(x) = here(x)
        BY <4>1, <4>2
      <4> HIDE DEF here, there, k
      <4>4. UNION {there(x) : x \in DOMAIN applied \union {k}} = UNION {here(x) : x \in DOMAIN applied}
        BY <4>3
      <4>5. QED BY <3>2, <4>4 DEF Landed, here, there
    <3>5. QED BY <1>1, <2>1, <2>2, <3>3, <3>4 DEF PacketsLanded
  <2>5. QED BY <2>3, <2>4
<1>7. ASSUME NEW w \in Writers, Update(w) PROVE FlowsReflect' /\ PacketsLanded'
  <2> DEFINE k == FlowKey(w, cur[w])
             s == applied[k]
             n == Len(s)
  <2>1. /\ pc[w] = "update" /\ Goto(w, "idle") /\ UNCHANGED <<adds, droppedFlows>>
        /\ flows' = [flows EXCEPT ![k] = Account(@, cur[w])]
        /\ applied' = [applied EXCEPT ![k] = Append(@, cur[w])]
        /\ k \in DOMAIN flows /\ DOMAIN applied = DOMAIN flows /\ cur[w] \in Packets
    BY <1>7 DEF Update, TypeOK
  <2>2. s \in Seq(Packets) /\ Reflects(flows[k], s)
    BY <2>1 DEF FlowsReflect
  <2>3. /\ flows'[k] = Account(flows[k], cur[w]) /\ applied'[k] = Append(s, cur[w])
        /\ DOMAIN flows' = DOMAIN flows /\ DOMAIN applied' = DOMAIN applied
        /\ \A x \in DOMAIN flows : x # k => flows'[x] = flows[x] /\ applied'[x] = applied[x]
    BY <2>1
  <2>4. FlowsReflect'
    <3>1. Append(s, cur[w]) \in Seq(Packets) /\ Reflects(Account(flows[k], cur[w]), Append(s, cur[w]))
      BY <2>1, <2>2, AccountReflects
    <3> HIDE DEF k, s
    <3>2. QED BY <2>3, <3>1 DEF FlowsReflect
  <2>5. n \in Nat /\ DOMAIN s = 1 .. n /\ DOMAIN applied'[k] = 1 .. n + 1
    BY <2>1, <2>2, <2>3
  <2>6. 1 .. n + 1 = (1 .. n) \union {n + 1} /\ n + 1 \notin 1 .. n
    BY <2>5
  <2> HIDE DEF k, s, n
  <2>7. Landed' = Landed \union {<<k, n + 1>>}
    BY <2>1, <2>3, <2>5, <2>6 DEF Landed, s
  <2>8. <<k, n + 1>> \notin Landed
    BY <2>5, <2>6 DEF Landed, s
  <2> DEFINE c == Cardinality(Busy')
             m == Cardinality(Landed')
  <2>9. IsFiniteSet(Landed') /\ m = l + 1
    BY <1>1, <2>7, <2>8, FS_AddElement
  <2>10. c = b - 1 /\ b \in Nat /\ c \in Nat
    BY <2>1, BusyMoves DEF Stages
  <2>11. adds = droppedFlows + c + m
    <3> HIDE DEF b, c, l, m
    <3>1. QED BY <1>1, <2>9, <2>10
  <2>12. QED BY <2>1, <2>4, <2>9, <2>11 DEF PacketsLanded
<1>8. CASE Finalize
  <2>1. UNCHANGED <<flows, applied, adds, droppedFlows, pc>>
    BY <1>8 DEF Finalize
  <2>2. QED BY <2>1 DEF FlowsReflect, PacketsLanded, Busy, Landed
<1>9. CASE UNCHANGED vars
  BY <1>9 DEF vars, FlowsReflect, PacketsLanded, Busy, Landed
<1>10. QED
  BY <1>3, <1>4, <1>5, <1>6, <1>7, <1>8, <1>9 DEF Next, Step

(* No packet is lost between two writers, and each flow's record is what the
   packets that reached it add up to, in whatever order they came
   (aggregate.go:249-278, 350-436). *)
THEOREM NothingLostHolds == Spec => []NothingLost
<1>1. Init => FlowsReflect /\ PacketsLanded
  <2> SUFFICES ASSUME Init PROVE FlowsReflect /\ PacketsLanded
    OBVIOUS
  <2>1. /\ DOMAIN flows = {} /\ DOMAIN applied = {} /\ adds = 0 /\ droppedFlows = 0
        /\ \A w \in Writers : pc[w] = "idle"
    BY DEF Init
  <2>2. Busy = {} /\ Landed = {}
    BY <2>1 DEF Busy, Landed
  <2>3. QED BY <2>1, <2>2, FS_EmptySet DEF FlowsReflect, PacketsLanded
<1>2. TypeOK /\ FlowsReflect /\ PacketsLanded => NothingLost
  <2> SUFFICES ASSUME TypeOK, FlowsReflect, PacketsLanded PROVE NothingLost
    OBVIOUS
  <2>1. \A k \in DOMAIN flows : Faithful(flows[k], applied[k])
    BY ReflectsIsFaithful DEF FlowsReflect
  <2>2. Busy \in SUBSET Writers
    BY DEF Busy
  <2> DEFINE b == Cardinality(Busy)
             l == Cardinality(Landed)
  <2>3. /\ b \in Nat /\ l \in Nat /\ adds \in Nat /\ droppedFlows \in Nat
        /\ adds = droppedFlows + b + l
    BY <2>2, WritersFinite, FS_Subset, FS_CardinalityType DEF PacketsLanded, TypeOK
  <2>4. adds - droppedFlows - b = l
    <3> HIDE DEF b, l
    <3>1. QED BY <2>3
  <2>5. QED BY <2>1, <2>4 DEF NothingLost, Busy, Landed
<1>3. TypeOK /\ FlowsReflect /\ PacketsLanded /\ [Next]_vars => FlowsReflect' /\ PacketsLanded'
  BY LandedStep
<1>4. QED
  BY <1>1, <1>2, <1>3, TypeCorrect, PTL DEF Spec

----------------------------------------------------------------------------
(***************************************************************************)
(* Scoring.                                                                *)
(***************************************************************************)

(* The smaller of two numbers. *)
LEMMA MinIs ==
  ASSUME NEW a \in Int, NEW b \in Int
  PROVE  Min({a, b}) = IF a <= b THEN a ELSE b
BY DEF Min

(* The six categories. *)
Categories == {"c2", "tls", "behavioral", "dns", "process", "network"}
Valued(t) == \A k \in 1 .. Len(t) : t[k].bucket \in Categories /\ t[k].pts \in Nat \ {0}

(* Every signal of the four tables has a category and gives points. *)
LEMMA TablesAre ==
  /\ Valued(DestinationSignals) /\ Len(DestinationSignals) = 11
  /\ Valued(ProcessSignals) /\ Len(ProcessSignals) = 14
  /\ Valued(ProtocolSignals) /\ Len(ProtocolSignals) = 20
  /\ Valued(CertSignals) /\ Len(CertSignals) = 5
<1>1. Valued(DestinationSignals) /\ Len(DestinationSignals) = 11
  BY SMTT(60) DEF DestinationSignals, Sig, Categories, Valued
<1>2. Valued(ProcessSignals) /\ Len(ProcessSignals) = 14
  BY SMTT(60) DEF ProcessSignals, Sig, Categories, Valued
<1>3. Valued(ProtocolSignals) /\ Len(ProtocolSignals) = 20
  BY SMTT(60) DEF ProtocolSignals, Sig, Categories, Valued
<1>4. Valued(CertSignals) /\ Len(CertSignals) = 5
  BY DEF CertSignals, Sig, Categories, Valued
<1>5. QED BY <1>1, <1>2, <1>3, <1>4

(* The signals of a table. *)
Elements(t) == {t[k] : k \in 1 .. Len(t)}

(* Each table is a sequence. *)
LEMMA TableSeq == /\ DestinationSignals \in Seq(Elements(DestinationSignals))
  /\ ProcessSignals \in Seq(Elements(ProcessSignals))
  /\ ProtocolSignals \in Seq(Elements(ProtocolSignals))
  /\ CertSignals \in Seq(Elements(CertSignals))
<1> USE DEF Elements
<1>1. DestinationSignals \in Seq(Elements(DestinationSignals))
  BY DEF DestinationSignals
<1>2. ProcessSignals \in Seq(Elements(ProcessSignals))
  BY DEF ProcessSignals
<1>3. ProtocolSignals \in Seq(Elements(ProtocolSignals))
  BY DEF ProtocolSignals
<1>4. CertSignals \in Seq(Elements(CertSignals))
  BY DEF CertSignals
<1>5. QED BY <1>1, <1>2, <1>3, <1>4

(* Two such tables joined are one. *)
LEMMA Joined ==
  ASSUME NEW SS, NEW s \in Seq(SS), NEW t \in Seq(SS), Valued(s), Valued(t)
  PROVE  s \o t \in Seq(SS) /\ Valued(s \o t) /\ Len(s \o t) = Len(s) + Len(t)
BY DEF Valued

(* The table of signals has 50 places, all with a category and points. *)
LEMMA SignalsAre == Len(Signals) = 50 /\ Valued(Signals) /\ DOMAIN Signals = 1 .. 50
<1> DEFINE SS == Elements(DestinationSignals) \union Elements(ProcessSignals)
                   \union Elements(ProtocolSignals) \union Elements(CertSignals)
           first == DestinationSignals \o ProcessSignals
           second == first \o ProtocolSignals
<1>1. /\ DestinationSignals \in Seq(SS) /\ ProcessSignals \in Seq(SS)
      /\ ProtocolSignals \in Seq(SS) /\ CertSignals \in Seq(SS)
  BY TableSeq
<1> HIDE DEF SS
<1>2. first \in Seq(SS) /\ Valued(first) /\ Len(first) = 25
  <2>1. /\ first \in Seq(SS) /\ Valued(first)
        /\ Len(first) = Len(DestinationSignals) + Len(ProcessSignals)
    BY <1>1, TablesAre, Joined, ZenonT(30)
  <2>2. QED BY <2>1, TablesAre
<1>3. second \in Seq(SS) /\ Valued(second) /\ Len(second) = 45
  <2> HIDE DEF first
  <2>1. /\ second \in Seq(SS) /\ Valued(second)
        /\ Len(second) = Len(first) + Len(ProtocolSignals)
    BY <1>1, <1>2, TablesAre, Joined, ZenonT(30)
  <2>2. QED BY <1>2, <2>1, TablesAre
<1>4. Signals = second \o CertSignals
  BY DEF Signals
<1> HIDE DEF second
<1>5. Signals \in Seq(SS) /\ Valued(Signals) /\ Len(Signals) = 50
  <2>1. /\ Signals \in Seq(SS) /\ Valued(Signals)
        /\ Len(Signals) = Len(second) + Len(CertSignals)
    BY <1>1, <1>3, <1>4, TablesAre, Joined, ZenonT(30)
  <2>2. QED BY <1>3, <2>1, TablesAre
<1>6. QED BY <1>5

(* Every category has a limit above zero. *)
LEMMA CapIs == \A b \in Categories : Cap[b] \in Nat \ {0}
BY DEF Cap, Categories

(* scoreBucket.add stops at the limit. *)
LEMMA AddIs == ASSUME NEW b \in Categories, NEW t \in Nat, NEW p \in Nat
  PROVE Add(b, t, p) = IF Cap[b] <= t + p THEN Cap[b] ELSE t + p
BY CapIs, MinIs DEF Add

(* A chain of numbers, each made from the one before it: one exists for every
   function that makes the next. *)
IsChain(g, s, n) == g = [k \in 0 .. n |-> IF k = 0 THEN 0 ELSE s[<<k, g[k - 1]>>]]

(* A set of numbers has a least element. *)
LEMMA HasMin ==
  ASSUME NEW T \in SUBSET Nat, T # {}
  PROVE  \E m \in T : \A n \in T : m <= n
<1> DEFINE R == {ss \in Nat \X Nat : ss[1] < ss[2]}
<1>1. IsWellFoundedOn(R, Nat)
  BY NatLessThanWellFounded DEF OpToRel
<1>2. \A x, y \in Nat : x < y => <<x, y>> \in R
  OBVIOUS
<1> HIDE DEF R
<1>3. PICK x \in T : \A y \in T : ~ (<<y, x>> \in R)
  <2>1. \E x \in T : \A y \in T : ~ (<<y, x>> \in R)
    BY <1>1, WFMin
  <2>2. QED BY <2>1
<1>4. ASSUME NEW y \in T PROVE x <= y
  <2>1. ~ (y < x) /\ x \in Nat /\ y \in Nat
    BY <1>2, <1>3, <1>4
  <2>2. QED BY <2>1
<1>5. QED BY <1>4

(* Such a chain exists: otherwise take the shortest that does not. *)
LEMMA ChainExists ==
  ASSUME NEW n \in Nat, NEW s \in [(1 .. n) \X Nat -> Nat]
  PROVE  \E g \in [0 .. n -> Nat] : IsChain(g, s, n)
<1> DEFINE T == {m \in Nat : m <= n /\ ~ \E g \in [0 .. m -> Nat] : IsChain(g, s, m)}
<1>1. SUFFICES ASSUME T # {} PROVE FALSE
  <2>1. n \notin T => \E g \in [0 .. n -> Nat] : IsChain(g, s, n)
    OBVIOUS
  <2>2. QED BY <1>1, <2>1
<1>2. PICK m \in T : \A k \in T : m <= k
  <2>1. T \in SUBSET Nat
    OBVIOUS
  <2> HIDE DEF T
  <2>2. QED BY <1>1, <2>1, HasMin
<1>3. m \in Nat /\ m <= n /\ ~ \E g \in [0 .. m -> Nat] : IsChain(g, s, m)
  BY <1>2
<1>4. CASE m = 0
  <2> DEFINE g == [k \in 0 .. 0 |-> 0]
  <2>1. g = [k \in 0 .. 0 |-> IF k = 0 THEN 0 ELSE s[<<k, g[k - 1]>>]] /\ g \in [0 .. 0 -> Nat]
    OBVIOUS
  <2>2. QED BY <1>3, <1>4, <2>1 DEF IsChain
<1>5. CASE m # 0
  <2>1. m - 1 \in Nat /\ m - 1 < m /\ m - 1 <= n
    BY <1>3, <1>5
  <2>2. m - 1 \notin T
    <3> HIDE DEF T
    <3>1. m - 1 \in T => m <= m - 1
      BY <1>2
    <3>2. QED BY <1>3, <2>1, <3>1
  <2>3. PICK g \in [0 .. m - 1 -> Nat] : IsChain(g, s, m - 1)
    BY <2>1, <2>2
  <2>4. \A k \in 0 .. m - 1 : g[k] = IF k = 0 THEN 0 ELSE s[<<k, g[k - 1]>>]
    BY <2>3 DEF IsChain
  <2> DEFINE last == s[<<m, g[m - 1]>>]
             h == [k \in 0 .. m |-> IF k < m THEN g[k] ELSE last]
  <2>5. last \in Nat
    <3>1. g[m - 1] \in Nat /\ m \in 1 .. n
      BY <1>3, <1>5, <2>1
    <3>2. QED BY <3>1
  <2>6. h \in [0 .. m -> Nat]
    <3> HIDE DEF last
    <3>1. QED BY <1>3, <1>5, <2>5
  <2>7. \A k \in 0 .. m : h[k] = IF k = 0 THEN 0 ELSE s[<<k, h[k - 1]>>]
    <3> SUFFICES ASSUME NEW k \in 0 .. m PROVE h[k] = IF k = 0 THEN 0 ELSE s[<<k, h[k - 1]>>]
      OBVIOUS
    <3>1. CASE k = 0
      <4>1. k < m /\ k \in 0 .. m - 1 /\ k \in 0 .. m
        BY <1>3, <1>5, <3>1
      <4>2. h[k] = g[k]
        BY <4>1
      <4>3. QED BY <2>4, <3>1, <4>1, <4>2
    <3>2. CASE k # 0 /\ k < m
      <4>1. k \in 0 .. m - 1 /\ k - 1 \in 0 .. m /\ k - 1 < m
        BY <1>3, <3>2
      <4>2. h[k] = g[k] /\ h[k - 1] = g[k - 1]
        BY <3>2, <4>1
      <4>3. QED BY <2>4, <3>2, <4>1, <4>2
    <3>3. CASE k = m
      <4>1. k - 1 \in 0 .. m /\ k - 1 < m /\ k # 0 /\ ~(k < m)
        BY <1>3, <1>5, <3>3
      <4>2. h[k] = last /\ h[k - 1] = g[m - 1]
        BY <3>3, <4>1
      <4>3. QED BY <3>3, <4>1, <4>2
    <3>4. QED BY <1>3, <3>1, <3>2, <3>3
  <2>8. IsChain(h, s, m)
    <3>1. h = [k \in 0 .. m |-> h[k]]
      OBVIOUS
    <3> HIDE DEF h
    <3>2. QED BY <2>7, <3>1 DEF IsChain
  <2>9. QED BY <1>3, <2>6, <2>8
<1>6. QED BY <1>4, <1>5

(* The places of the table whose signal fires for the category. *)
Hit(b, fired, k) == k \in fired /\ Signals[k].bucket = b
IsFilling(g, b, fired, n) ==
  g = [k \in 0 .. n |->
         IF k = 0 THEN 0
         ELSE IF k \in fired /\ Signals[k].bucket = b THEN Add(b, g[k - 1], Signals[k].pts)
         ELSE g[k - 1]]
IsSum(g, b, fired, n) ==
  g = [k \in 0 .. n |->
         IF k = 0 THEN 0
         ELSE g[k - 1] + (IF k \in fired /\ Signals[k].bucket = b THEN Signals[k].pts ELSE 0)]
Filling(b, fired, n) == CHOOSE g : IsFilling(g, b, fired, n)
Sums(b, fired, n) == CHOOSE g : IsSum(g, b, fired, n)

(* The function that Filled defines exists. *)
LEMMA FillingExists ==
  ASSUME NEW b \in Categories, NEW fired \in SUBSET (1 .. 50), NEW n \in 0 .. 50
  PROVE  IsFilling(Filling(b, fired, n), b, fired, n)
<1> DEFINE next(k, v) == IF Hit(b, fired, k) THEN Add(b, v, Signals[k].pts) ELSE v
           s == [p \in (1 .. n) \X Nat |-> next(p[1], p[2])]
<1>1. ASSUME NEW k \in 1 .. n, NEW v \in Nat PROVE next(k, v) \in Nat
  <2>1. Signals[k].pts \in Nat
    BY SignalsAre, SMTT(30) DEF Valued
  <2>2. Cap[b] \in Nat
    BY CapIs
  <2>3. \A p \in Nat : Add(b, v, p) = IF Cap[b] <= v + p THEN Cap[b] ELSE v + p
    BY AddIs
  <2> HIDE DEF next
  <2>5. \A p \in Nat : Add(b, v, p) \in Nat
    BY <2>2, <2>3
  <2>4. QED BY <2>1, <2>5 DEF next
<1> HIDE DEF next
<1>2. s \in [(1 .. n) \X Nat -> Nat] /\ \A k \in 1 .. n, v \in Nat : s[<<k, v>>] = next(k, v)
  BY <1>1
<1> HIDE DEF s
<1>3. PICK g \in [0 .. n -> Nat] : IsChain(g, s, n)
  <2>1. n \in Nat
    OBVIOUS
  <2>2. QED BY <1>2, <2>1, ChainExists
<1>4. g = [k \in 0 .. n |-> IF k = 0 THEN 0 ELSE next(k, g[k - 1])]
  <2>1. \A k \in 0 .. n : k # 0 => k \in 1 .. n /\ g[k - 1] \in Nat
    OBVIOUS
  <2>2. \A k \in 0 .. n : g[k] = IF k = 0 THEN 0 ELSE s[<<k, g[k - 1]>>]
    BY <1>3 DEF IsChain
  <2>3. \A k \in 0 .. n : g[k] = IF k = 0 THEN 0 ELSE next(k, g[k - 1])
    BY <1>2, <2>1, <2>2
  <2>4. g = [k \in 0 .. n |-> g[k]]
    OBVIOUS
  <2>5. QED BY <2>3, <2>4
<1>5. IsFilling(g, b, fired, n)
  BY <1>4, Zenon DEF IsFilling, next, Hit
<1>6. QED BY <1>5 DEF Filling

(* And so does the one that adds up the points without a limit. *)
LEMMA SumsExist ==
  ASSUME NEW b \in Categories, NEW fired \in SUBSET (1 .. 50), NEW n \in 0 .. 50
  PROVE  IsSum(Sums(b, fired, n), b, fired, n)
<1> DEFINE next(k, v) == v + (IF Hit(b, fired, k) THEN Signals[k].pts ELSE 0)
           s == [p \in (1 .. n) \X Nat |-> next(p[1], p[2])]
<1>1. ASSUME NEW k \in 1 .. n, NEW v \in Nat PROVE next(k, v) \in Nat
  <2>1. Signals[k].pts \in Nat
    BY SignalsAre, SMTT(30) DEF Valued
  <2>2. QED BY <2>1
<1> HIDE DEF next
<1>2. s \in [(1 .. n) \X Nat -> Nat] /\ \A k \in 1 .. n, v \in Nat : s[<<k, v>>] = next(k, v)
  BY <1>1
<1> HIDE DEF s
<1>3. PICK g \in [0 .. n -> Nat] : IsChain(g, s, n)
  <2>1. n \in Nat
    OBVIOUS
  <2>2. QED BY <1>2, <2>1, ChainExists
<1>4. g = [k \in 0 .. n |-> IF k = 0 THEN 0 ELSE next(k, g[k - 1])]
  <2>1. \A k \in 0 .. n : k # 0 => k \in 1 .. n /\ g[k - 1] \in Nat
    OBVIOUS
  <2>2. \A k \in 0 .. n : g[k] = IF k = 0 THEN 0 ELSE s[<<k, g[k - 1]>>]
    BY <1>3 DEF IsChain
  <2>3. \A k \in 0 .. n : g[k] = IF k = 0 THEN 0 ELSE next(k, g[k - 1])
    BY <1>2, <2>1, <2>2
  <2>4. g = [k \in 0 .. n |-> g[k]]
    OBVIOUS
  <2>5. QED BY <2>3, <2>4
<1>5. IsSum(g, b, fired, n)
  BY <1>4, Zenon DEF IsSum, next, Hit
<1>6. QED BY <1>5 DEF Sums

(* A category holds what fired, up to its limit; and nothing only if nothing
   of it fired. *)
LEMMA FilledIs ==
  ASSUME NEW b \in Categories, NEW fired \in SUBSET (1 .. 50), NEW n \in 0 .. 50
  PROVE  /\ Sums(b, fired, n)[n] \in Nat
         /\ Filled(b, fired, n) =
              IF Cap[b] <= Sums(b, fired, n)[n] THEN Cap[b] ELSE Sums(b, fired, n)[n]
         /\ Sums(b, fired, n)[n] = 0 <=> \A k \in 1 .. n : ~ Hit(b, fired, k)
<1> DEFINE g == Filling(b, fired, n)
           h == Sums(b, fired, n)
           good(k) == /\ g[k] \in Nat /\ h[k] \in Nat
                      /\ g[k] = IF Cap[b] <= h[k] THEN Cap[b] ELSE h[k]
                      /\ h[k] = 0 <=> \A i \in 1 .. k : ~ Hit(b, fired, i)
<1>1. Filled(b, fired, n) = g[n]
  BY DEF Filled, Filling, IsFilling
<1>2. /\ g[0] = 0
      /\ \A k \in 1 .. n :
           g[k] = IF Hit(b, fired, k) THEN Add(b, g[k - 1], Signals[k].pts) ELSE g[k - 1]
  <2>1. IsFilling(g, b, fired, n)
    BY FillingExists
  <2> HIDE DEF g
  <2>2. QED BY <2>1, SMTT(30) DEF IsFilling, Hit
<1>3. /\ h[0] = 0
      /\ \A k \in 1 .. n : h[k] = h[k - 1] + (IF Hit(b, fired, k) THEN Signals[k].pts ELSE 0)
  <2>1. IsSum(h, b, fired, n)
    BY SumsExist
  <2> HIDE DEF h
  <2>2. QED BY <2>1, SMTT(30) DEF IsSum, Hit
<1> HIDE DEF g, h
<1>4. good(0)
  BY <1>2, <1>3, CapIs
<1>5. ASSUME NEW k \in 1 .. n, good(k - 1) PROVE good(k)
  <2>1. Signals[k].pts \in Nat \ {0} /\ Cap[b] \in Nat \ {0}
    BY SignalsAre, CapIs DEF Valued
  <2>2. g[k - 1] \in Nat /\ h[k - 1] \in Nat
    BY <1>5
  <2>3. g[k - 1] = IF Cap[b] <= h[k - 1] THEN Cap[b] ELSE h[k - 1]
    BY <1>5
  <2>4. h[k - 1] = 0 <=> \A i \in 1 .. k - 1 : ~ Hit(b, fired, i)
    BY <1>5
  <2>5. \A i \in 1 .. k : i = k \/ i \in 1 .. k - 1
    OBVIOUS
  <2>6. CASE Hit(b, fired, k)
    <3>1. h[k] = h[k - 1] + Signals[k].pts
      BY <1>3, <2>6
    <3>2. g[k] = IF Cap[b] <= g[k - 1] + Signals[k].pts THEN Cap[b]
                 ELSE g[k - 1] + Signals[k].pts
      BY <1>2, <2>1, <2>2, <2>6, AddIs
    <3>3. h[k] # 0 /\ ~ \A i \in 1 .. k : ~ Hit(b, fired, i)
      BY <2>1, <2>2, <2>6, <3>1
    <3>4. QED BY <2>1, <2>2, <2>3, <3>1, <3>2, <3>3
  <2>7. CASE ~ Hit(b, fired, k)
    <3>1. h[k] = h[k - 1] /\ g[k] = g[k - 1]
      BY <1>2, <1>3, <2>2, <2>7
    <3>2. (\A i \in 1 .. k : ~ Hit(b, fired, i)) <=> (\A i \in 1 .. k - 1 : ~ Hit(b, fired, i))
      BY <2>5, <2>7
    <3>3. QED BY <2>2, <2>3, <2>4, <3>1, <3>2
  <2>8. QED BY <2>6, <2>7
<1> HIDE DEF good
<1>6. good(n)
  <2> DEFINE T == {k \in Nat : k <= n /\ ~ good(k)}
  <2>1. SUFFICES ASSUME T # {} PROVE FALSE
    <3>1. n \in Nat /\ n <= n
      OBVIOUS
    <3>2. QED BY <2>1, <3>1
  <2>2. PICK m \in T : \A k \in T : m <= k
    BY <2>1, HasMin
  <2>3. m \in Nat /\ m <= n /\ ~ good(m) /\ m # 0
    BY <1>4, <2>2
  <2>4. m - 1 \in Nat /\ m - 1 <= n /\ m - 1 < m /\ m \in 1 .. n
    BY <2>3
  <2>5. good(m - 1)
    BY <2>2, <2>3, <2>4
  <2>6. QED BY <1>5, <2>3, <2>4, <2>5
<1>7. QED BY <1>1, <1>6 DEF good, g, h

(* The signals that fire are places of the table. *)
LEMMA FiredIs == \A f, r, c : Fired(f, r, c) \in SUBSET (1 .. 50)
BY SignalsAre DEF Fired

(* A category ends with the sum of its points, up to its limit. *)
LEMMA BucketIs ==
  ASSUME NEW b \in Categories, NEW fired \in SUBSET (1 .. 50)
  PROVE  /\ Bucket(b, fired) \in Nat
         /\ Bucket(b, fired) = Min({Cap[b], Sums(b, fired, 50)[50]})
         /\ Bucket(b, fired) = 0 <=> \A k \in fired : Signals[k].bucket # b
<1> DEFINE h == Sums(b, fired, 50)[50]
<1>1. Bucket(b, fired) = Filled(b, fired, 50)
  BY SignalsAre DEF Bucket
<1>2. /\ h \in Nat /\ Cap[b] \in Nat \ {0}
      /\ Filled(b, fired, 50) = IF Cap[b] <= h THEN Cap[b] ELSE h
      /\ h = 0 <=> \A k \in 1 .. 50 : ~ Hit(b, fired, k)
  BY FilledIs, CapIs
<1> HIDE DEF h
<1>3. Min({Cap[b], h}) = IF Cap[b] <= h THEN Cap[b] ELSE h
  BY <1>2, MinIs
<1>4. (\A k \in 1 .. 50 : ~ Hit(b, fired, k)) <=> \A k \in fired : Signals[k].bucket # b
  BY DEF Hit
<1>5. QED BY <1>1, <1>2, <1>3, <1>4 DEF h

(* The total is within 100, and zero only if nothing fired. *)
LEMMA TotalIs ==
  ASSUME NEW fired \in SUBSET (1 .. 50)
  PROVE  Total(fired) \in 0 .. 100 /\ (Total(fired) = 0 <=> fired = {})
<1> DEFINE B(b) == Bucket(b, fired)
           sum == B("c2") + B("tls") + B("behavioral") + B("dns") + B("process") + B("network")
<1>1. \A b \in Categories : B(b) \in Nat /\ (B(b) = 0 <=> \A k \in fired : Signals[k].bucket # b)
  BY BucketIs
<1>2. \A k \in fired : Signals[k].bucket \in Categories
  BY SignalsAre DEF Valued
<1> HIDE DEF B
<1>3. /\ B("c2") \in Nat /\ B("tls") \in Nat /\ B("behavioral") \in Nat
      /\ B("dns") \in Nat /\ B("process") \in Nat /\ B("network") \in Nat
  BY <1>1 DEF Categories
<1>4. (\A b \in Categories : B(b) = 0) <=> fired = {}
  BY <1>1, <1>2
<1>5. sum \in Nat /\ (sum = 0 <=> \A b \in Categories : B(b) = 0)
  <2>1. (\A b \in Categories : B(b) = 0) <=>
          /\ B("c2") = 0 /\ B("tls") = 0 /\ B("behavioral") = 0
          /\ B("dns") = 0 /\ B("process") = 0 /\ B("network") = 0
    BY DEF Categories
  <2>2. /\ sum \in Nat
        /\ sum = 0 <=> /\ B("c2") = 0 /\ B("tls") = 0 /\ B("behavioral") = 0
                       /\ B("dns") = 0 /\ B("process") = 0 /\ B("network") = 0
    <3> DEFINE u == B("c2")
               v == B("tls")
               w == B("behavioral")
               x == B("dns")
               y == B("process")
               z == B("network")
    <3>1. u \in Nat /\ v \in Nat /\ w \in Nat /\ x \in Nat /\ y \in Nat /\ z \in Nat
      BY <1>3
    <3>2. sum = u + v + w + x + y + z
      OBVIOUS
    <3> HIDE DEF u, v, w, x, y, z, sum
    <3>3. sum \in Nat /\ (sum = 0 <=> u = 0 /\ v = 0 /\ w = 0 /\ x = 0 /\ y = 0 /\ z = 0)
      BY <3>1, <3>2
    <3>4. QED BY <3>3 DEF u, v, w, x, y, z
  <2>3. QED BY <2>1, <2>2
<1>6. Total(fired) = Min({100, sum})
  BY DEF Total, B
<1> HIDE DEF sum
<1>7. Total(fired) = IF 100 <= sum THEN 100 ELSE sum
  BY <1>5, <1>6, MinIs
<1>8. QED BY <1>4, <1>5, <1>7

(* All the reasons a record may have. *)
Reported == UNION {ToSet(Reasons(fired)) : fired \in SUBSET (1 .. 50)}
ReasonNames == Reported \union {"scan", "possible_scan", "upload"}

(* A function on 1 .. n is a sequence of length n. *)
LEMMA FunctionSeq ==
  ASSUME NEW n \in Nat, NEW X, NEW s \in [1 .. n -> X]
  PROVE  s \in Seq(X) /\ Len(s) = n /\ (s = <<>> <=> n = 0)
OBVIOUS

(* The reasons are a sequence, empty only if nothing fired: the first signal
   that fires finds its category empty. *)
LEMMA ReasonsIs ==
  ASSUME NEW fired \in SUBSET (1 .. 50)
  PROVE  /\ Reasons(fired) \in Seq(ReasonNames)
         /\ Reasons(fired) = <<>> <=> fired = {}
<1> DEFINE kept == {i \in fired :
                      Filled(Signals[i].bucket, fired, i - 1) < Cap[Signals[i].bucket]}
           n == Cardinality(kept)
           at(k) == Signals[CHOOSE i \in kept : Cardinality({j \in kept : j <= i}) = k].fact
           s == [k \in 1 .. n |-> at(k)]
<1>1. Reasons(fired) = s
  BY DEF Reasons
<1>2. IsFiniteSet(kept) /\ n \in Nat /\ (n = 0 <=> kept = {})
  <2>1. kept \subseteq 1 .. 50
    OBVIOUS
  <2> HIDE DEF kept
  <2>2. IsFiniteSet(kept)
    <3>1. IsFiniteSet(1 .. 50)
      <4>1. 1 \in Int /\ 50 \in Int
        OBVIOUS
      <4>2. QED BY <4>1, FS_Interval, Zenon
    <3>2. QED BY <2>1, <3>1, FS_Subset
  <2>3. QED BY <2>2, FS_CardinalityType, FS_EmptySet
<1>3. s \in Seq({at(k) : k \in 1 .. n}) /\ Len(s) = n /\ (s = <<>> <=> n = 0)
  <2> DEFINE X == {at(k) : k \in 1 .. n}
  <2>1. s \in [1 .. n -> X]
    <3> HIDE DEF n, at
    <3>1. QED OBVIOUS
  <2> HIDE DEF n, s, X
  <2>2. s \in Seq(X) /\ Len(s) = n /\ (s = <<>> <=> n = 0)
    BY <1>2, <2>1, FunctionSeq
  <2>3. QED BY <2>2 DEF X
<1>4. fired # {} => kept # {}
  <2> SUFFICES ASSUME fired # {} PROVE kept # {}
    OBVIOUS
  <2>1. fired \in SUBSET Nat
    OBVIOUS
  <2>2. PICK i \in fired : \A j \in fired : i <= j
    BY <2>1, HasMin
  <2> DEFINE b == Signals[i].bucket
  <2>3. b \in Categories /\ i - 1 \in 0 .. 50
    BY SignalsAre DEF Valued
  <2>4. \A k \in 1 .. i - 1 : ~ Hit(b, fired, k)
    BY <2>1, <2>2 DEF Hit
  <2> HIDE DEF b
  <2>5. Filled(b, fired, i - 1) = 0 /\ Cap[b] \in Nat \ {0}
    BY <2>3, <2>4, FilledIs, CapIs
  <2>6. Filled(b, fired, i - 1) < Cap[b]
    BY <2>5
  <2>7. QED BY <2>6 DEF b
<1>5. fired = {} => kept = {}
  OBVIOUS
<1>6. Reasons(fired) \in Seq(ReasonNames)
  <2> HIDE DEF kept, n, s
  <2>1. PICK X : Reasons(fired) \in Seq(X)
    BY <1>1, <1>3
  <2>2. \A k \in 1 .. Len(Reasons(fired)) : Reasons(fired)[k] \in ToSet(Reasons(fired))
    BY <2>1 DEF ToSet
  <2>3. \A k \in 1 .. Len(Reasons(fired)) : Reasons(fired)[k] \in ReasonNames
    BY <2>2 DEF ReasonNames, Reported
  <2>4. QED BY <2>1, <2>3
<1> HIDE DEF kept, n, s
<1>7. QED BY <1>1, <1>2, <1>3, <1>4, <1>5, <1>6

(* A score and its reasons. *)
IsScore(s) ==
  /\ s.score \in 0 .. 1000 /\ s.reasons \in Seq(ReasonNames)
  /\ s.score = 0 <=> s.reasons = <<>>

(* A score is within 1000, and zero exactly when it comes without a reason. *)
LEMMA ScoreIs ==
  ASSUME NEW f \in Candidates, NEW fired \in SUBSET (1 .. 50)
  PROVE  IsScore(Score(f, fired))
<1> DEFINE t == Total(fired)
<1>1. t \in 0 .. 100 /\ (t = 0 <=> fired = {})
  BY TotalIs
<1>2. f.multiplier \in {7, 10, 13, 18}
  BY ScoringParameters
<1>3. /\ Score(f, fired).score = Min({1000, t * f.multiplier})
      /\ Score(f, fired).reasons = Reasons(fired)
  BY DEF Score
<1> HIDE DEF t
<1> DEFINE scaled == t * f.multiplier
           score == Score(f, fired).score
<1>4. scaled \in Nat /\ (scaled = 0 <=> t = 0)
  BY <1>1, <1>2
<1>5. score = Min({1000, scaled})
  BY <1>3
<1> HIDE DEF scaled, score
<1>6. score = IF 1000 <= scaled THEN 1000 ELSE scaled
  BY <1>4, <1>5, MinIs
<1>7. score \in 0 .. 1000 /\ (score = 0 <=> t = 0)
  BY <1>4, <1>6
<1>8. /\ Score(f, fired).score \in 0 .. 1000
      /\ Score(f, fired).reasons \in Seq(ReasonNames)
      /\ Score(f, fired).score = 0 <=> Score(f, fired).reasons = <<>>
  BY <1>1, <1>3, <1>7, ReasonsIs DEF score
<1>9. QED BY <1>8, Zenon DEF IsScore

(* The score by definition is what score() computes. *)
LEMMA DefinedScore ==
  ASSUME NEW f \in Candidates
  PROVE  FlowScore(f) = Score(f, Fired(f, rec[f], config)).score
<1> DEFINE fired == Fired(f, rec[f], config)
<1>1. fired \in SUBSET (1 .. 50)
  BY FiredIs
<1>2. ASSUME NEW b \in Categories
      PROVE  Min({Cap[b], Points(f, b)}) = Bucket(b, fired)
  <2>1. Points(f, b) = Sums(b, fired, Len(Signals))[Len(Signals)]
    BY DEF Points, Sums, IsSum
  <2> HIDE DEF fired
  <2>2. Points(f, b) = Sums(b, fired, 50)[50]
    BY <2>1, SignalsAre
  <2>3. Bucket(b, fired) = Min({Cap[b], Sums(b, fired, 50)[50]})
    BY <1>1, BucketIs, Zenon
  <2>4. QED BY <2>2, <2>3, Zenon
<1>3. FlowScore(f) = Min({1000, Total(fired) * f.multiplier})
  <2>1. /\ Min({Cap["c2"], Points(f, "c2")}) = Bucket("c2", fired)
        /\ Min({Cap["tls"], Points(f, "tls")}) = Bucket("tls", fired)
        /\ Min({Cap["behavioral"], Points(f, "behavioral")}) = Bucket("behavioral", fired)
        /\ Min({Cap["dns"], Points(f, "dns")}) = Bucket("dns", fired)
        /\ Min({Cap["process"], Points(f, "process")}) = Bucket("process", fired)
        /\ Min({Cap["network"], Points(f, "network")}) = Bucket("network", fired)
    <3> HIDE DEF fired
    <3>1. QED BY <1>2 DEF Categories
  <2> HIDE DEF fired
  <2> DEFINE limited(b) == Min({Cap[b], Points(f, b)})
             sum == limited("c2") + limited("tls") + limited("behavioral")
                      + limited("dns") + limited("process") + limited("network")
  <2>2. FlowScore(f) = Min({1000, Min({100, sum}) * f.multiplier})
    BY Zenon DEF FlowScore
  <2>3. Total(fired) = Min({100, sum})
    BY <2>1, Zenon DEF Total
  <2> HIDE DEF sum
  <2>4. QED BY <2>2, <2>3
<1>4. Score(f, fired).score = Min({1000, Total(fired) * f.multiplier})
  <2> HIDE DEF fired
  <2>1. QED BY DEF Score
<1>5. QED BY <1>3, <1>4

(* The types of the window and of its records. *)
Labels == {Unset, "CRITICAL", "HIGH", "MEDIUM", "LOW"}
Flags == BOOLEAN
Hosts == {"", "host"}
Lists == SUBSET {"ja3"}
Scores == 0 .. 1000
Tags == SUBSET ReasonNames
Cleans == SUBSET {"standard_port", "sni", "low_risk_country", "resolves"}
Records ==
  [looked : Flags, reverseDNS : Hosts, known : Lists, score : Scores,
   reasons : Seq(ReasonNames), tagged : Tags, clean : Cleans, risk : Labels]

WindowTypes ==
  /\ config \in Configs /\ reloads \in Nat
  /\ window \in SUBSET Candidates
  /\ dnsCache \in [{f.dst : f \in window} -> Hosts \union {Unset}]
  /\ rec \in [window -> Records]
  /\ looking \subseteq window
  /\ \A f \in looking : ~ rec[f].looked
  /\ pass # "lookups" => \A f \in window : rec[f].looked

(* A step that leaves the score and the labels of a record alone, and one that
   leaves alone what the score is made from. *)
SameScore(q, r) ==
  q.score = r.score /\ q.reasons = r.reasons /\ q.tagged = r.tagged /\ q.risk = r.risk
SameFacts(q, r) ==
  q.known = r.known /\ q.reverseDNS = r.reverseDNS /\ q.looked = r.looked

(* What a lookup writes into a record leaves its score and labels alone. *)
LEMMA LookupChanges ==
  ASSUME NEW r \in Records, NEW y \in Flags, NEW x \in Hosts
  PROVE  LET q == [r EXCEPT !.looked = y, !.reverseDNS = x]
         IN q \in Records /\ q.looked = y /\ SameScore(q, r)
BY DEF Records, SameScore

(* And so does what the fingerprint lists say. *)
LEMMA EnrichChanges ==
  ASSUME NEW r \in Records, NEW x \in Lists
  PROVE  LET q == [r EXCEPT !.known = x]
         IN q \in Records /\ q.looked = r.looked /\ SameScore(q, r)
BY DEF Records, SameScore

(* A record with the fields that scoring writes. *)
Pointed(r, s, l, t, c, k) ==
  [r EXCEPT !.score = s, !.reasons = l, !.tagged = t, !.clean = c, !.risk = k]
HasPoints(q, r, s, l, t, k) ==
  /\ q \in Records /\ SameFacts(q, r)
  /\ q.score = s /\ q.reasons = l /\ q.tagged = t /\ q.risk = k

(* What scoring writes into a record leaves alone what it is made from. *)
LEMMA ScoreChanges ==
  ASSUME NEW r \in Records, NEW s \in Scores, NEW l \in Seq(ReasonNames), NEW t \in Tags,
         NEW c \in Cleans, NEW k \in Labels
  PROVE  HasPoints(Pointed(r, s, l, t, c, k), r, s, l, t, k)
BY DEF Records, SameFacts, Pointed, HasPoints

(* The reasons of the two passes over all flows. *)
LEMMA NamesAre == "scan" \in ReasonNames /\ "possible_scan" \in ReasonNames /\ "upload" \in ReasonNames
BY DEF ReasonNames

(* A risk label is one of four. *)
LEMMA RiskIs == \A s : RiskLabel(s) \in Labels
BY DEF RiskLabel, Labels

(* A list to which something was added is not empty. *)
LEMMA AppendIs ==
  ASSUME NEW X, NEW v \in Seq(X), NEW l \in X
  PROVE  Append(v, l) \in Seq(X) /\ Append(v, l) # <<>>
<1>1. Append(v, l) \in Seq(X) /\ Len(Append(v, l)) = Len(v) + 1 /\ Len(v) \in Nat
  OBVIOUS
<1>2. Len(Append(v, l)) # 0
  BY <1>1
<1>3. QED BY <1>1, <1>2

(* The fields of a record. *)
LEMMA FieldsAre ==
  ASSUME NEW r \in Records
  PROVE  /\ r.score \in Scores /\ r.reasons \in Seq(ReasonNames) /\ r.tagged \in Tags /\ r.risk \in Labels
         /\ r.known \in Lists /\ r.reverseDNS \in Hosts /\ r.clean \in Cleans
BY DEF Records

(* A record with the fields that Raise writes. *)
Raised(r, s, l, t, k) == [r EXCEPT !.score = s, !.reasons = l, !.tagged = t, !.risk = k]

(* What raising a score writes into a record leaves alone what the score was
   made from. *)
LEMMA RecordRaised ==
  ASSUME NEW r \in Records, NEW s \in Scores, NEW l \in Seq(ReasonNames), NEW t \in Tags, NEW k \in Labels
  PROVE  LET q == Raised(r, s, l, t, k)
         IN /\ q \in Records /\ SameFacts(q, r)
            /\ q.score = s /\ q.reasons = l /\ q.tagged = t /\ q.risk = k
BY DEF Records, SameFacts, Raised

(* A record after Raise. *)
HasMore(q, r, p) ==
  /\ q \in Records /\ SameFacts(q, r)
  /\ q.score = Min({1000, r.score + p})
  /\ q.score # 0 /\ q.reasons # <<>>
  /\ q.tagged = ToSet(q.reasons)
  /\ q.risk = RiskLabel(q.score)

(* Raise leaves a record that is labelled by its new score. *)
LEMMA RaiseChanges ==
  ASSUME NEW r \in Records, NEW p \in Nat \ {0}, NEW l \in ReasonNames
  PROVE  HasMore(Raise(r, p, l), r, p)
<1> DEFINE u == r.score
           v == r.reasons
           m == Min({1000, u + p})
           n == Append(v, l)
           t == ToSet(n)
           k == RiskLabel(m)
           q == Raised(r, m, n, t, k)
<1>1. u \in Scores /\ v \in Seq(ReasonNames)
  BY FieldsAre
<1>2. Raise(r, p, l) = q
  BY DEF Raise, Raised, Records
<1>3. m = Min({1000, r.score + p})
  OBVIOUS
<1> HIDE DEF u, v
<1>4. m = IF 1000 <= u + p THEN 1000 ELSE u + p
  BY <1>1, MinIs DEF Scores
<1> HIDE DEF m
<1>5. m \in Scores /\ m # 0
  BY <1>1, <1>4 DEF Scores
<1>6. n \in Seq(ReasonNames) /\ n # <<>>
  BY <1>1, AppendIs
<1> HIDE DEF n
<1>7. t \in Tags
  BY <1>6 DEF ToSet, Tags
<1>8. k \in Labels
  BY RiskIs
<1>9. t = ToSet(n) /\ k = RiskLabel(m)
  OBVIOUS
<1> HIDE DEF t, k
<1>10. /\ q \in Records /\ SameFacts(q, r)
       /\ q.score = m /\ q.reasons = n /\ q.tagged = t /\ q.risk = k
  BY <1>5, <1>6, <1>7, <1>8, RecordRaised
<1> HIDE DEF q
<1>11. QED BY <1>2, <1>3, <1>5, <1>6, <1>9, <1>10 DEF HasMore

(* A lookup changes no score, and ends in the pass in which it began. *)
LEMMA LookupStep ==
  ASSUME WindowTypes, NEW g \in window, StartLookup(g) \/ EndLookup(g)
  PROVE  /\ WindowTypes'
         /\ pass = "lookups" /\ UNCHANGED <<pass, config, window, reloads>>
         /\ \A f \in window : SameScore(rec'[f], rec[f])
<1> DEFINE Found(x) == /\ rec' = [rec EXCEPT ![g].looked = TRUE, ![g].reverseDNS = x]
                       /\ looking' = looking \ {g}
                       /\ dnsCache' = [dnsCache EXCEPT ![g.dst] = x]
                       /\ pass = "lookups" /\ UNCHANGED <<pass, config, window, reloads>>
<1>1. CASE StartLookup(g) /\ UNCHANGED rec
  BY <1>1 DEF StartLookup, WindowTypes, SameScore
<1>2. CASE \E x \in Hosts : Found(x)
  <2>1. PICK x \in Hosts : Found(x)
    BY <1>2
  <2> DEFINE q == [rec[g] EXCEPT !.looked = TRUE, !.reverseDNS = x]
  <2>2. rec' = [rec EXCEPT ![g] = q]
    BY <2>1 DEF WindowTypes
  <2>3. q \in Records /\ q.looked = TRUE /\ SameScore(q, rec[g])
    BY LookupChanges DEF WindowTypes, Flags
  <2> HIDE DEF q
  <2>4. rec' \in [window -> Records] /\ \A f \in window : rec'[f] = IF f = g THEN q ELSE rec[f]
    BY <2>2, <2>3 DEF WindowTypes
  <2>5. dnsCache' \in [{f.dst : f \in window} -> Hosts \union {Unset}]
    BY <2>1 DEF WindowTypes
  <2>6. WindowTypes'
    BY <2>1, <2>3, <2>4, <2>5 DEF WindowTypes
  <2>7. QED BY <2>1, <2>3, <2>4, <2>6 DEF SameScore
<1>3. EndLookup(g) => \E x \in Hosts : Found(x)
  BY DEF EndLookup, Answer, WindowTypes, Hosts
<1>4. StartLookup(g) => UNCHANGED rec \/ \E x \in Hosts : Found(x)
  <2> SUFFICES ASSUME StartLookup(g), ~ UNCHANGED rec PROVE \E x \in Hosts : Found(x)
    OBVIOUS
  <2>1. dnsCache[g.dst] \in Hosts /\ Found(dnsCache[g.dst])
    BY DEF StartLookup, WindowTypes
  <2>2. QED BY <2>1
<1>5. QED BY <1>1, <1>2, <1>3, <1>4

(* Labels and score that agree. *)
Agree(s, l, t, k) ==
  k # Unset =>
    /\ s \in 0 .. 1000
    /\ k = RiskLabel(s)
    /\ t = ToSet(l)
    /\ (s = 0) <=> (l = <<>>)

(* The labels of a record are those of its score. *)
Labelled(r) == Agree(r.score, r.reasons, r.tagged, r.risk)

(* What ScoreFlow and the two passes over all flows make of one record. *)
ScoredFrom(q, r, f) ==
  /\ q \in Records /\ SameFacts(q, r) /\ Labelled(q)
  /\ q.score = Score(f, Fired(f, r, config)).score
RaisedBy(q, r, p) ==
  /\ q \in Records /\ SameFacts(q, r)
  /\ q.score = Min({1000, r.score + p})
  /\ (p = 0 /\ q = r) \/ (p # 0 /\ Labelled(q))

(* The points of passes 4 and 5. *)
ScanPoints(f) ==
  IF Destinations(f) >= config.scanConfirmed THEN 300
  ELSE IF Destinations(f) >= config.scanPossible THEN 150 ELSE 0
UploadPoints(f) == IF Uploads(f) THEN 200 ELSE 0

(* Raise adds points and labels anew. *)
LEMMA RaiseIs ==
  ASSUME NEW r \in Records, NEW p \in Nat \ {0}, NEW l \in ReasonNames
  PROVE  RaisedBy(Raise(r, p, l), r, p)
<1> DEFINE q == Raise(r, p, l)
<1>1. HasMore(q, r, p)
  BY RaiseChanges
<1> HIDE DEF q
<1>2. q.score \in 0 .. 1000
  <2>1. q \in Records
    BY <1>1 DEF HasMore
  <2>2. q.score \in Scores
    BY <2>1, FieldsAre
  <2>3. QED BY <2>2 DEF Scores
<1>3. RaisedBy(q, r, p)
  BY <1>1, <1>2 DEF HasMore, RaisedBy, Labelled, Agree
<1>4. QED BY <1>3 DEF q

(* No points added is no change. *)
LEMMA KeepIs ==
  ASSUME NEW r \in Records
  PROVE  RaisedBy(r, r, 0)
<1> DEFINE u == r.score
<1>1. u \in 0 .. 1000
  BY FieldsAre DEF Scores
<1>2. Min({1000, u + 0}) = u
  <2> HIDE DEF u
  <2>1. Min({1000, u + 0}) = IF 1000 <= u + 0 THEN 1000 ELSE u + 0
    <3>1. 1000 \in Int /\ u + 0 \in Int
      BY <1>1
    <3>2. QED BY <3>1, MinIs
  <2>2. QED BY <1>1, <2>1
<1>3. r.score = Min({1000, r.score + 0})
  BY <1>2
<1>4. SameFacts(r, r)
  BY Zenon DEF SameFacts
<1>5. QED BY <1>3, <1>4, Zenon DEF RaisedBy

(* Pass 2.5 changes no score. *)
LEMMA EnrichStep ==
  ASSUME WindowTypes, Enrich
  PROVE  /\ rec' \in [window -> Records]
         /\ \A f \in window : rec'[f].looked = rec[f].looked /\ SameScore(rec'[f], rec[f])
<1> DEFINE q(f) == [rec[f] EXCEPT !.known = KnownJA3(f, config)]
<1>1. rec' = [f \in window |-> q(f)]
  BY DEF Enrich
<1>2. ASSUME NEW f \in window
      PROVE  q(f) \in Records /\ q(f).looked = rec[f].looked /\ SameScore(q(f), rec[f])
  <2>1. KnownJA3(f, config) \in Lists /\ rec[f] \in Records
    BY DEF KnownJA3, Lists, WindowTypes
  <2>2. QED BY <2>1, EnrichChanges
<1> HIDE DEF q
<1>3. QED BY <1>1, <1>2

(* Pass 3 scores one flow from its facts. *)
LEMMA ScoreStep ==
  ASSUME WindowTypes, NEW g \in window, ScoreFlow(g)
  PROVE  /\ rec' \in [window -> Records]
         /\ ScoredFrom(rec'[g], rec[g], g)
         /\ \A f \in window \ {g} : rec'[f] = rec[f]
<1> DEFINE r == rec[g]
           fired == Fired(g, r, config)
           s == Score(g, fired)
           u == s.score
           v == s.reasons
           t == ToSet(v)
           c == CleanSignals(g, r, u)
           k == RiskLabel(u)
           q == Pointed(r, u, v, t, c, k)
<1>1. rec' = [rec EXCEPT ![g] = q]
  <2>1. rec \in [window -> Records] /\ fired \in {Fired(g, rec[g], config)}
    BY DEF WindowTypes
  <2>2. rec' = [rec EXCEPT ![g].score = u, ![g].reasons = v, ![g].tagged = t, ![g].clean = c, ![g].risk = k]
    <3>1. \A F, s2 : F \in {fired} /\ s2 \in {Score(g, F)} => F = fired /\ s2 = s
      OBVIOUS
    <3> HIDE DEF fired, s
    <3>2. QED BY <3>1 DEF ScoreFlow, fired, s
  <2> HIDE DEF u, v, t, c, k
  <2>3. QED BY <2>1, <2>2 DEF Pointed
<1>2. r \in Records /\ g \in Candidates
  BY DEF WindowTypes
<1>3. u \in 0 .. 1000 /\ v \in Seq(ReasonNames) /\ (u = 0 <=> v = <<>>)
  <2>1. fired \in SUBSET (1 .. 50)
    BY FiredIs
  <2>2. IsScore(s)
    <3> HIDE DEF fired
    <3>1. QED BY <1>2, <2>1, ScoreIs, ZenonT(30)
  <2> HIDE DEF s
  <2>3. QED BY <2>2, ZenonT(30) DEF IsScore
<1>4. ScoredFrom(q, r, g)
  <2>1. c \in Cleans
    <3> HIDE DEF r, u
    <3>1. QED BY DEF CleanSignals, Cleans
  <2>2. u = Score(g, Fired(g, r, config)).score
    OBVIOUS
  <2> HIDE DEF u, v, r, c
  <2>3. t \in Tags
    BY <1>3 DEF ToSet, Tags
  <2>4. k \in Labels
    BY RiskIs
  <2>5. t = ToSet(v) /\ k = RiskLabel(u)
    OBVIOUS
  <2> HIDE DEF t, k
  <2>6. HasPoints(q, r, u, v, t, k)
    <3>1. u \in Scores
      BY <1>3 DEF Scores
    <3>2. QED BY <1>2, <1>3, <2>1, <2>3, <2>4, <3>1, ScoreChanges, SMTT(30)
  <2> HIDE DEF q
  <2>7. Labelled(q)
    BY <1>3, <2>5, <2>6 DEF Labelled, Agree, HasPoints
  <2>8. QED BY <2>2, <2>6, <2>7 DEF ScoredFrom, HasPoints
<1> HIDE DEF q
<1>5. q \in Records
  BY <1>4 DEF ScoredFrom
<1> HIDE DEF r
<1>6. QED BY <1>1, <1>4, <1>5 DEF WindowTypes, r

(* Pass 4 adds to every flow the points of its scan. *)
LEMMA ScanStep ==
  ASSUME WindowTypes, Scan
  PROVE  /\ rec' \in [window -> Records]
         /\ \A f \in window : RaisedBy(rec'[f], rec[f], ScanPoints(f))
<1> DEFINE q(f) ==
       IF Destinations(f) >= config.scanConfirmed THEN Raise(rec[f], 300, "scan")
       ELSE IF Destinations(f) >= config.scanPossible THEN Raise(rec[f], 150, "possible_scan")
       ELSE rec[f]
<1>1. rec' = [f \in window |-> q(f)]
  BY DEF Scan
<1>2. ASSUME NEW f \in window PROVE RaisedBy(q(f), rec[f], ScanPoints(f))
  <2>1. rec[f] \in Records /\ 300 \in Nat \ {0} /\ 150 \in Nat \ {0}
    BY DEF WindowTypes
  <2>2. /\ RaisedBy(Raise(rec[f], 300, "scan"), rec[f], 300)
        /\ RaisedBy(Raise(rec[f], 150, "possible_scan"), rec[f], 150)
        /\ RaisedBy(rec[f], rec[f], 0)
    BY <2>1, NamesAre, RaiseIs, KeepIs, ZenonT(30)
  <2>3. QED BY <2>2, Zenon DEF ScanPoints
<1> HIDE DEF q
<1>3. \A f \in window : q(f) \in Records
  BY <1>2, ZenonT(30) DEF RaisedBy
<1>4. QED BY <1>1, <1>2, <1>3

(* Pass 5 adds to every flow the points of its upload. *)
LEMMA UploadStep ==
  ASSUME WindowTypes, Upload
  PROVE  /\ rec' \in [window -> Records]
         /\ \A f \in window : RaisedBy(rec'[f], rec[f], UploadPoints(f))
<1> DEFINE q(f) == IF Uploads(f) THEN Raise(rec[f], 200, "upload") ELSE rec[f]
<1>1. rec' = [f \in window |-> q(f)]
  BY DEF Upload
<1>2. ASSUME NEW f \in window PROVE RaisedBy(q(f), rec[f], UploadPoints(f))
  <2>1. rec[f] \in Records /\ 200 \in Nat \ {0}
    BY DEF WindowTypes
  <2>2. /\ RaisedBy(Raise(rec[f], 200, "upload"), rec[f], 200)
        /\ RaisedBy(rec[f], rec[f], 0)
    BY <2>1, NamesAre, RaiseIs, KeepIs, ZenonT(30)
  <2>3. QED BY <2>2, Zenon DEF UploadPoints
<1> HIDE DEF q
<1>3. \A f \in window : q(f) \in Records
  BY <1>2, ZenonT(30) DEF RaisedBy
<1>4. QED BY <1>1, <1>2, <1>3

(* The actions that leave the records alone. *)
Quiet ==
  \/ Reload \/ Looked \/ AllScored \/ UploadOff \/ SortRecords
  \/ \E m \in {0, 200, 700}, t \in {0, 1} : Apply(m, t)
  \/ UNCHANGED scoringVars

(* The quiet actions keep the types. *)
LEMMA QuietStep ==
  ASSUME WindowTypes, Quiet
  PROVE  WindowTypes' /\ UNCHANGED <<rec, window>>
<1>1. UNCHANGED <<rec, window, looking, dnsCache>>
  BY DEF Quiet, scoringVars, Reload, Looked, AllScored, UploadOff,
         SortRecords, Apply
<1>2. config' \in Configs /\ reloads' \in Nat
  BY DEF Quiet, WindowTypes, scoringVars, Reload, Looked, AllScored, UploadOff,
         SortRecords, Apply
<1>3. pass' # "lookups" => \A f \in window : rec[f].looked
  BY DEF Quiet, WindowTypes, scoringVars, Reload, Pass, Looked, AllScored, UploadOff,
         SortRecords, Apply
<1>4. QED BY <1>1, <1>2, <1>3 DEF WindowTypes

(* The steps, sorted by what they do to the records. *)
LEMMA NextIs ==
  ASSUME [ScoringNext]_scoringVars
  PROVE  \/ Quiet \/ Enrich \/ Scan \/ Upload
         \/ \E f \in window : StartLookup(f) \/ EndLookup(f)
         \/ \E f \in window : ScoreFlow(f)
BY ZenonT(30) DEF ScoringNext, FinalizePass, Quiet

(* Points come after the lookup, and do not change it. *)
LEMMA RaisedLooks ==
  ASSUME NEW q, NEW r, NEW p, RaisedBy(q, r, p)
  PROVE  q.looked = r.looked
BY Zenon DEF RaisedBy, SameFacts

(* Every step keeps the types, and the flows of the window. *)
LEMMA TypesStep ==
  ASSUME WindowTypes, [ScoringNext]_scoringVars
  PROVE  WindowTypes' /\ window' = window
<1> DEFINE Same == UNCHANGED <<config, window, looking, dnsCache, reloads>>
<1>1. CASE Quiet
  BY <1>1, QuietStep
<1>2. ASSUME NEW g \in window, StartLookup(g) \/ EndLookup(g)
      PROVE  WindowTypes' /\ window' = window
  BY <1>2, LookupStep
<1>3. ASSUME rec' \in [window -> Records], \A f \in window : rec'[f].looked = rec[f].looked,
             Same, pass' # "lookups" => pass # "lookups" \/ \A f \in window : rec[f].looked
      PROVE  WindowTypes' /\ window' = window
  BY <1>3 DEF WindowTypes
<1>4. CASE Enrich
  <2>1. Same /\ pass # "lookups"
    BY <1>4 DEF Enrich, Pass
  <2>2. QED BY <1>3, <1>4, <2>1, EnrichStep
<1>5. CASE Scan
  <2>1. Same /\ pass # "lookups"
    BY <1>5 DEF Scan, Pass
  <2>2. rec' \in [window -> Records] /\ \A f \in window : RaisedBy(rec'[f], rec[f], ScanPoints(f))
    BY <1>5, ScanStep
  <2>3. \A f \in window : rec'[f].looked = rec[f].looked
    BY <2>2, RaisedLooks
  <2>4. QED BY <1>3, <2>1, <2>2, <2>3
<1>6. CASE Upload
  <2>1. Same /\ pass # "lookups"
    BY <1>6 DEF Upload, Pass
  <2>2. rec' \in [window -> Records] /\ \A f \in window : RaisedBy(rec'[f], rec[f], UploadPoints(f))
    BY <1>6, UploadStep
  <2>3. \A f \in window : rec'[f].looked = rec[f].looked
    BY <2>2, RaisedLooks
  <2>4. QED BY <1>3, <2>1, <2>2, <2>3
<1>7. ASSUME NEW g \in window, ScoreFlow(g) PROVE WindowTypes' /\ window' = window
  <2>1. Same /\ pass # "lookups"
    BY <1>7 DEF ScoreFlow
  <2>2. \A f \in window : rec'[f].looked = rec[f].looked
    BY <1>7, ScoreStep DEF ScoredFrom, SameFacts
  <2>3. QED BY <1>3, <1>7, <2>1, <2>2, ScoreStep
<1>8. QED BY <1>1, <1>2, <1>4, <1>5, <1>6, <1>7, NextIs

(* They hold in the beginning. *)
LEMMA TypesInit ==
  ASSUME ScoringInit
  PROVE  WindowTypes
<1>1. NewRecord \in Records /\ NewRecord.risk = Unset /\ ~ NewRecord.looked
  <2> DEFINE no == FALSE
             host == ""
             lists == {}
             none == <<>>
             tags == {}
             zero == 0
  <2>1. /\ no \in Flags /\ host \in Hosts /\ lists \in Lists /\ zero \in Scores
        /\ none \in Seq(ReasonNames) /\ tags \in Tags /\ tags \in Cleans /\ Unset \in Labels
    BY DEF Flags, Hosts, Lists, Scores, Tags, Cleans, Labels
  <2>2. NewRecord = [looked |-> no, reverseDNS |-> host, known |-> lists, score |-> zero, reasons |-> none,
                       tagged |-> tags, clean |-> tags, risk |-> Unset] /\ ~ no
    BY DEF NewRecord
  <2> HIDE DEF no, host, lists, none, tags, zero
  <2>3. QED BY <2>1, <2>2 DEF Records
<1>2. QED BY <1>1 DEF ScoringInit, WindowTypes

(* LabelsFollowScore says it of every record. *)
LEMMA LabelsAre == LabelsFollowScore <=> \A f \in window : Labelled(rec[f])
BY DEF LabelsFollowScore, Labelled, Agree

(* A record that gets points, or none, stays labelled. *)
LEMMA RaisedKeeps ==
  ASSUME NEW q, NEW r, NEW p, RaisedBy(q, r, p), Labelled(r)
  PROVE  Labelled(q)
BY Zenon DEF RaisedBy

(* A record whose score and labels stay stays labelled. *)
LEMMA SameKeeps ==
  ASSUME NEW q, NEW r, SameScore(q, r), Labelled(r)
  PROVE  Labelled(q)
BY Zenon DEF SameScore, Labelled

(* Every step keeps the records labelled. *)
LEMMA LabelsStep ==
  ASSUME WindowTypes, \A f \in window : Labelled(rec[f]), [ScoringNext]_scoringVars
  PROVE  \A f \in window' : Labelled(rec'[f])
<1>1. window' = window
  BY TypesStep
<1> SUFFICES ASSUME NEW f \in window PROVE Labelled(rec'[f])
  BY <1>1
<1>2. SameScore(rec'[f], rec[f]) => Labelled(rec'[f])
  BY SameKeeps, Zenon
<1>3. CASE Quiet
  BY <1>3, QuietStep
<1>4. CASE \E g \in window : StartLookup(g) \/ EndLookup(g)
  BY <1>2, <1>4, LookupStep
<1>5. CASE Enrich
  BY <1>2, <1>5, EnrichStep
<1>6. CASE Scan
  <2>1. RaisedBy(rec'[f], rec[f], ScanPoints(f))
    BY <1>6, ScanStep
  <2>2. QED BY <2>1, RaisedKeeps
<1>7. CASE Upload
  <2>1. RaisedBy(rec'[f], rec[f], UploadPoints(f))
    BY <1>7, UploadStep
  <2>2. QED BY <2>1, RaisedKeeps
<1>8. CASE \E g \in window : ScoreFlow(g)
  BY <1>8, ScoreStep DEF ScoredFrom
<1>9. QED BY <1>3, <1>4, <1>5, <1>6, <1>7, <1>8, NextIs

(* Whatever the passes add and whenever the configuration is reloaded, the
   risk label, the techniques and the reasons of a record are those of its
   final score (aggregate.go:604-684). *)
THEOREM LabelsFollowScoreHolds == ScoringSpec => []LabelsFollowScore
<1>1. ScoringInit => WindowTypes /\ LabelsFollowScore
  <2> SUFFICES ASSUME ScoringInit PROVE WindowTypes /\ LabelsFollowScore
    OBVIOUS
  <2>1. \A f \in window : rec[f] = NewRecord
    BY DEF ScoringInit
  <2>2. NewRecord.risk = Unset
    BY DEF NewRecord
  <2>3. QED BY <2>1, <2>2, TypesInit DEF LabelsFollowScore
<1>2. WindowTypes /\ LabelsFollowScore /\ [ScoringNext]_scoringVars
        => WindowTypes' /\ LabelsFollowScore'
  <2> SUFFICES ASSUME WindowTypes, LabelsFollowScore, [ScoringNext]_scoringVars
               PROVE  WindowTypes' /\ LabelsFollowScore'
    OBVIOUS
  <2>1. WindowTypes' /\ \A f \in window' : Labelled(rec'[f])
    BY LabelsAre, TypesStep, LabelsStep
  <2>2. QED BY <2>1 DEF LabelsFollowScore, Labelled, Agree
<1>3. QED BY <1>1, <1>2, PTL DEF ScoringSpec

(* The score that pass 3 gives, and what every pass may rely on. *)
Base(f) == Score(f, Fired(f, rec[f], config)).score

Unscored == pass \in {"lookups", "intel"} => \A f \in window : rec[f].risk = Unset
Scored ==
  reloads = 0 =>
    /\ pass = "score" => \A f \in window : rec[f].risk # Unset => rec[f].score = Base(f)
    /\ pass = "scan" => \A f \in window : rec[f].score = Base(f)
    /\ pass \in {"upload", "ratio"} =>
         \A f \in window : rec[f].score = Min({1000, Base(f) + ScanPoints(f)})
    /\ pass = "ratio" => "asymmetric" \notin config.disabled
    /\ pass \in {"sort", "apply", "done"} =>
         \A f \in window : rec[f].score = Min({1000, Base(f) + Bonus(f)})

(* The bonus is what passes 4 and 5 add. *)
LEMMA BonusIs == \A f :
  Bonus(f) = ScanPoints(f)
                 + (IF Uploads(f) /\ "asymmetric" \notin config.disabled THEN 200 ELSE 0)
BY Zenon DEF Bonus, ScanPoints

(* The score of pass 3 is within 1000. *)
LEMMA BaseIs ==
  ASSUME WindowTypes, NEW f \in window
  PROVE  Base(f) \in 0 .. 1000
<1> DEFINE fired == Fired(f, rec[f], config)
<1>1. f \in Candidates /\ fired \in SUBSET (1 .. 50)
  BY FiredIs DEF WindowTypes
<1>2. Base(f) = Score(f, fired).score
  BY DEF Base
<1> HIDE DEF fired
<1> DEFINE s == Score(f, fired)
<1>3. IsScore(s)
  BY <1>1, ScoreIs
<1> HIDE DEF s
<1>4. s.score \in 0 .. 1000
  BY <1>3, Zenon DEF IsScore
<1>5. Base(f) = s.score
  BY <1>2 DEF s
<1>6. QED BY <1>4, <1>5

(* The same facts fire the same signals. *)
LEMMA FactsDecide ==
  ASSUME NEW f, NEW q, NEW r, SameFacts(q, r)
  PROVE  Fired(f, q, config) = Fired(f, r, config)
BY DEF SameFacts, Fired, NoReverseDNS

(* A step that keeps the facts and the configuration keeps the score of
   pass 3. *)
LEMMA BaseKept ==
  ASSUME NEW f, SameFacts(rec'[f], rec[f]), config' = config
  PROVE  Base(f)' = Base(f)
<1>1. Fired(f, rec'[f], config) = Fired(f, rec[f], config)
  BY FactsDecide
<1>2. QED BY <1>1 DEF Base

(* And one that keeps the flows and the configuration keeps the bonus. *)
LEMMA PointsKept ==
  ASSUME window' = window, config' = config
  PROVE  \A f : /\ ScanPoints(f)' = ScanPoints(f)
                /\ UploadPoints(f)' = UploadPoints(f)
                /\ Bonus(f)' = Bonus(f)
BY DEF ScanPoints, UploadPoints, Bonus, Destinations, Uploads

(* No flow is labelled before pass 3. *)
LEMMA UnscoredStep ==
  ASSUME WindowTypes, Unscored, [ScoringNext]_scoringVars
  PROVE  Unscored'
<1>1. window' = window
  BY TypesStep
<1>2. CASE Quiet
  <2>1. pass' \in {"lookups", "intel"} => pass \in {"lookups", "intel"}
    BY <1>2 DEF Quiet, scoringVars, Reload, Pass, Looked, AllScored, UploadOff,
                SortRecords, Apply
  <2>2. QED BY <1>1, <1>2, <2>1, QuietStep DEF Unscored
<1>3. CASE \E g \in window : StartLookup(g) \/ EndLookup(g)
  BY <1>1, <1>3, LookupStep DEF Unscored, SameScore
<1>4. CASE Enrich \/ Scan \/ Upload \/ \E g \in window : ScoreFlow(g)
  <2>1. pass' \notin {"lookups", "intel"}
    BY <1>4 DEF Enrich, Scan, Upload, ScoreFlow, Pass
  <2>2. QED BY <2>1 DEF Unscored
<1>5. QED BY <1>2, <1>3, <1>4, NextIs

(* A score that was raised. *)
ScoreAbove(q, r, p) == q.score = Min({1000, r.score + p})

(* What a record that got points has of the old one. *)
LEMMA RaisedGives ==
  ASSUME NEW q, NEW r, NEW p, RaisedBy(q, r, p)
  PROVE  SameFacts(q, r) /\ ScoreAbove(q, r, p)
BY Zenon DEF RaisedBy, ScoreAbove

(* Every pass leaves the scores that its place in Finalize promises. *)
LEMMA ScoredStep ==
  ASSUME WindowTypes, Unscored, Scored, [ScoringNext]_scoringVars
  PROVE  Scored'
<1>1. window' = window /\ WindowTypes'
  BY TypesStep
<1>2. CASE Reload
  BY <1>2 DEF Reload, WindowTypes, Scored
<1>3. ASSUME config' = config, reloads' = reloads, rec' = rec
      PROVE  \A f : Base(f)' = Base(f) /\ ScanPoints(f)' = ScanPoints(f) /\ Bonus(f)' = Bonus(f)
  BY <1>1, <1>3, PointsKept DEF Base
<1>4. CASE UNCHANGED scoringVars
  BY <1>1, <1>3, <1>4 DEF scoringVars, Scored
<1>5. CASE Looked
  <2>1. pass' = "intel"
    BY <1>5 DEF Looked, Pass
  <2>2. QED BY <2>1 DEF Scored
<1>6. CASE AllScored
  <2>1. /\ pass = "score" /\ pass' = "scan" /\ config' = config /\ reloads' = reloads /\ rec' = rec
        /\ \A f \in window : rec[f].risk # Unset
    BY <1>6 DEF AllScored, Pass
  <2>2. QED BY <1>1, <1>3, <2>1 DEF Scored
<1>7. CASE UploadOff
  <2>1. /\ pass = "upload" /\ config' = config /\ reloads' = reloads /\ rec' = rec
        /\ pass' = IF "asymmetric" \in config.disabled THEN "sort" ELSE "ratio"
    BY <1>7 DEF UploadOff, Pass
  <2>2. CASE "asymmetric" \notin config.disabled
    BY <1>1, <1>3, <2>1, <2>2 DEF Scored
  <2>3. CASE "asymmetric" \in config.disabled
    <3>1. \A f \in window : Bonus(f) = ScanPoints(f) + 0 /\ ScanPoints(f) \in Nat
      BY <2>3, BonusIs DEF ScanPoints
    <3>2. \A f \in window : Bonus(f) = ScanPoints(f)
      <4>1. \A x \in Nat : x + 0 = x
        OBVIOUS
      <4>2. QED BY <3>1, <4>1
    <3>3. QED BY <1>1, <1>3, <2>1, <2>3, <3>2 DEF Scored
  <2>4. QED BY <2>2, <2>3
<1>8. CASE SortRecords \/ \E m \in {0, 200, 700}, t \in {0, 1} : Apply(m, t)
  <2>1. /\ pass \in {"sort", "apply"} /\ pass' \in {"apply", "done"}
        /\ config' = config /\ reloads' = reloads /\ rec' = rec
    BY <1>8 DEF SortRecords, Apply, Pass
  <2>2. QED BY <1>1, <1>3, <2>1 DEF Scored
<1>9. CASE \E g \in window : StartLookup(g) \/ EndLookup(g)
  <2>1. pass' = "lookups"
    BY <1>9, LookupStep
  <2>2. QED BY <2>1 DEF Scored
<1>10. CASE Enrich
  <2>1. pass = "intel" /\ pass' = "score"
    BY <1>10 DEF Enrich, Pass
  <2>2. \A f \in window : rec'[f].risk = Unset
    BY <1>10, <2>1, EnrichStep DEF Unscored, SameScore
  <2>3. QED BY <1>1, <2>1, <2>2 DEF Scored
<1>11. ASSUME NEW g \in window, ScoreFlow(g) PROVE Scored'
  <2>1. pass = "score" /\ pass' = "score" /\ config' = config /\ reloads' = reloads
    BY <1>11 DEF ScoreFlow
  <2>2. ScoredFrom(rec'[g], rec[g], g) /\ \A f \in window \ {g} : rec'[f] = rec[f]
    BY <1>11, ScoreStep
  <2>3. \A f \in window : SameFacts(rec'[f], rec[f])
    BY <2>2 DEF ScoredFrom, SameFacts
  <2>4. \A f \in window : Base(f)' = Base(f)
    BY <2>1, <2>3, BaseKept
  <2>5. rec'[g].score = Base(g)
    BY <2>2 DEF ScoredFrom, Base
  <2>6. QED BY <1>1, <2>1, <2>2, <2>4, <2>5 DEF Scored
<1>12. CASE Scan
  <2>1. pass = "scan" /\ pass' = "upload" /\ config' = config /\ reloads' = reloads
    BY <1>12 DEF Scan, Pass
  <2>2. \A f \in window : SameFacts(rec'[f], rec[f]) /\ ScoreAbove(rec'[f], rec[f], ScanPoints(f))
    <3>1. \A f \in window : RaisedBy(rec'[f], rec[f], ScanPoints(f))
      BY <1>12, ScanStep
    <3>2. QED BY <3>1, RaisedGives
  <2>3. \A f \in window : Base(f)' = Base(f) /\ ScanPoints(f)' = ScanPoints(f)
    <3>1. \A f \in window : Base(f)' = Base(f)
      <4>1. \A f \in window : SameFacts(rec'[f], rec[f])
        BY <2>2
      <4>2. QED BY <2>1, <4>1, BaseKept
    <3>2. \A f \in window : ScanPoints(f)' = ScanPoints(f)
      BY <1>1, <2>1, PointsKept, Zenon
    <3>3. QED BY <3>1, <3>2
  <2>4. QED BY <1>1, <2>1, <2>2, <2>3 DEF Scored, ScoreAbove
<1>13. CASE Upload
  <2>1. pass = "ratio" /\ pass' = "sort" /\ config' = config /\ reloads' = reloads
    BY <1>13 DEF Upload, Pass
  <2>2. \A f \in window : SameFacts(rec'[f], rec[f]) /\ ScoreAbove(rec'[f], rec[f], UploadPoints(f))
    <3>1. \A f \in window : RaisedBy(rec'[f], rec[f], UploadPoints(f))
      BY <1>13, UploadStep
    <3>2. QED BY <3>1, RaisedGives
  <2>3. \A f \in window : Base(f)' = Base(f) /\ Bonus(f)' = Bonus(f)
    <3>1. \A f \in window : Base(f)' = Base(f)
      <4>1. \A f \in window : SameFacts(rec'[f], rec[f])
        BY <2>2
      <4>2. QED BY <2>1, <4>1, BaseKept
    <3>2. \A f \in window : Bonus(f)' = Bonus(f)
      BY <1>1, <2>1, PointsKept, Zenon
    <3>3. QED BY <3>1, <3>2
  <2>4. SUFFICES ASSUME reloads = 0, NEW f \in window
                 PROVE  rec'[f].score = Min({1000, Base(f) + Bonus(f)})
    BY <1>1, <2>1, <2>3 DEF Scored
  <2> DEFINE b == Base(f)
             c == ScanPoints(f)
             u == UploadPoints(f)
  <2>5. b \in Nat /\ c \in Nat /\ u \in Nat
    BY BaseIs DEF ScanPoints, UploadPoints
  <2>6. Bonus(f) = c + u
    <3>1. "asymmetric" \notin config.disabled
      BY <2>1, <2>4 DEF Scored
    <3>2. QED BY <3>1, BonusIs DEF UploadPoints
  <2>7. rec'[f].score = Min({1000, Min({1000, b + c}) + u})
    BY <2>1, <2>2, <2>4 DEF Scored, ScoreAbove
  <2> HIDE DEF b, c, u
  <2> DEFINE m == Min({1000, b + c})
  <2>8. m = IF 1000 <= b + c THEN 1000 ELSE b + c
    BY <2>5, MinIs
  <2> HIDE DEF m
  <2>9. Min({1000, m + u}) = IF 1000 <= m + u THEN 1000 ELSE m + u
    BY <2>5, <2>8, MinIs
  <2>10. Min({1000, b + (c + u)}) = IF 1000 <= b + (c + u) THEN 1000 ELSE b + (c + u)
    BY <2>5, MinIs
  <2>11. Min({1000, m + u}) = Min({1000, b + (c + u)})
    BY <2>5, <2>8, <2>9, <2>10
  <2>12. QED BY <2>6, <2>7, <2>11 DEF b, m
<1>14. QED
  BY <1>2, <1>4, <1>5, <1>6, <1>7, <1>8, <1>9, <1>10, <1>11, <1>12, <1>13, NextIs DEF Quiet

(* A report made under one configuration gives every flow the score of the
   definition, whatever the order of lookups and flows: the limited sums of the
   fifty signals, scaled, and the two bonuses (aggregate.go:550-690, 845-1243). *)
THEOREM ScoresAreDefinedHolds == ScoringSpec => []ScoresAreDefined
<1>1. ScoringInit => WindowTypes /\ Unscored /\ Scored
  <2> SUFFICES ASSUME ScoringInit PROVE WindowTypes /\ Unscored /\ Scored
    OBVIOUS
  <2>1. pass = "lookups" /\ \A f \in window : rec[f] = NewRecord
    BY DEF ScoringInit
  <2>2. NewRecord.risk = Unset
    BY DEF NewRecord
  <2>3. QED BY <2>1, <2>2, TypesInit DEF Unscored, Scored
<1>2. WindowTypes /\ Unscored /\ Scored /\ [ScoringNext]_scoringVars
        => WindowTypes' /\ Unscored' /\ Scored'
  BY TypesStep, UnscoredStep, ScoredStep
<1>3. WindowTypes /\ Scored => ScoresAreDefined
  <2> SUFFICES ASSUME WindowTypes, Scored, pass = "done", reloads = 0, NEW f \in window
               PROVE  rec[f].score = Min({1000, FlowScore(f) + Bonus(f)})
    BY DEF ScoresAreDefined
  <2>1. f \in Candidates
    BY DEF WindowTypes
  <2>2. FlowScore(f) = Base(f)
    BY <2>1, DefinedScore DEF Base
  <2>3. QED BY <2>2 DEF Scored
<1>4. QED BY <1>1, <1>2, <1>3, PTL DEF ScoringSpec

(* The scores never rise along a sequence of flows. *)
Descending(s) == \A i, j \in 1 .. Len(s) : i <= j => rec[s[i]].score >= rec[s[j]].score

(* The report holds every flow, and the scores never rise along it. *)
Ordered ==
  pass \in {"apply", "done"} =>
    /\ report \in Seq(window)
    /\ ToSet(report) = window
    /\ Descending(report)

(* A sequence in which no number is above the one before it never rises. *)
LEMMA AdjacentIsEnough ==
  ASSUME NEW n \in Nat, NEW v \in [1 .. n -> Nat],
         \A i \in 1 .. n - 1 : v[i] >= v[i + 1]
  PROVE  \A i, j \in 1 .. n : i <= j => v[i] >= v[j]
<1> SUFFICES ASSUME NEW i \in 1 .. n PROVE \A j \in 1 .. n : i <= j => v[i] >= v[j]
  OBVIOUS
<1> DEFINE T == {j \in Nat : j \in 1 .. n /\ i <= j /\ ~ (v[i] >= v[j])}
<1>1. SUFFICES ASSUME T # {} PROVE FALSE
  <2>1. ASSUME NEW j \in 1 .. n, i <= j, ~ (v[i] >= v[j]) PROVE FALSE
    <3>1. j \in T
      BY <2>1
    <3>2. QED BY <1>1, <3>1
  <2>2. QED BY <2>1
<1>2. PICK j \in T : \A k \in T : j <= k
  <2>1. T \in SUBSET Nat
    OBVIOUS
  <2> HIDE DEF T
  <2>2. QED BY <1>1, <2>1, HasMin
<1>3. j \in 1 .. n /\ i <= j /\ ~ (v[i] >= v[j]) /\ v[i] \in Nat /\ v[j] \in Nat
  BY <1>2
<1>4. i # j
  BY <1>3
<1>5. /\ j - 1 \in 1 .. n - 1 /\ j - 1 \in 1 .. n /\ j - 1 \in Nat
      /\ i <= j - 1 /\ j - 1 < j /\ (j - 1) + 1 = j
  BY <1>3, <1>4
<1>6. v[j - 1] >= v[j] /\ v[j - 1] \in Nat
  BY <1>5
<1>7. ~ (v[i] >= v[j - 1])
  BY <1>3, <1>6
<1>8. j - 1 \in T
  BY <1>5, <1>7
<1> HIDE DEF T
<1>9. QED BY <1>2, <1>5, <1>8

(* Sorting puts every flow into the report, in order. *)
LEMMA SortStep ==
  ASSUME WindowTypes, SortRecords
  PROVE  Ordered'
<1>1. /\ pass' = "apply" /\ UNCHANGED <<rec, window>>
      /\ report' \in SetToSeqs(window)
      /\ \A i \in 1 .. Len(report') - 1 : rec[report'[i]].score >= rec[report'[i + 1]].score
  BY DEF SortRecords, Pass
<1> DEFINE s == report'
           n == Cardinality(window)
<1>2. IsFiniteSet(window) /\ n \in Nat
  <2>1. IsFiniteSet(Candidates)
    BY ScoringParameters
  <2>2. QED BY <2>1, FS_Subset, FS_CardinalityType DEF WindowTypes
<1>3. s \in [1 .. n -> window] /\ \A i, j \in 1 .. n : i # j => s[i] # s[j]
  BY <1>1 DEF SetToSeqs
<1> HIDE DEF n, s
<1>4. s \in Seq(window) /\ Len(s) = n
  BY <1>2, <1>3, FunctionSeq
<1>5. \A f \in window : \E i \in 1 .. n : s[i] = f
  <2>1. s \in Injection(1 .. n, window)
    BY <1>3 DEF Injection, IsInjective
  <2>2. IsFiniteSet(1 .. n) /\ Cardinality(1 .. n) = n
    <3>1. 1 \in Int /\ n \in Int
      BY <1>2
    <3>2. IsFiniteSet(1 .. n) /\ Cardinality(1 .. n) = IF 1 > n THEN 0 ELSE n - 1 + 1
      BY <3>1, FS_Interval, Zenon
    <3>3. QED BY <1>2, <3>2
  <2>3. s \in Surjection(1 .. n, window)
    BY <1>2, <2>1, <2>2, FS_Injection DEF n
  <2>4. QED BY <2>3 DEF Surjection
<1>6. ToSet(s) = window
  BY <1>3, <1>4, <1>5 DEF ToSet
<1>7. Descending(s)
  <2> DEFINE v == [i \in 1 .. n |-> rec[s[i]].score]
  <2>1. \A i \in 1 .. n : rec[s[i]].score \in Nat
    <3> SUFFICES ASSUME NEW i \in 1 .. n PROVE rec[s[i]].score \in Nat
      OBVIOUS
    <3>1. rec[s[i]] \in Records
      BY <1>3 DEF WindowTypes
    <3>2. rec[s[i]].score \in Scores
      BY <3>1, FieldsAre
    <3>3. Scores \subseteq Nat
      BY DEF Scores
    <3>4. QED BY <3>2, <3>3
  <2>2. v \in [1 .. n -> Nat] /\ \A i \in 1 .. n : v[i] = rec[s[i]].score
    BY <2>1
  <2> HIDE DEF v
  <2>3. \A i \in 1 .. n - 1 : v[i] >= v[i + 1]
    <3> SUFFICES ASSUME NEW i \in 1 .. n - 1 PROVE v[i] >= v[i + 1]
      OBVIOUS
    <3>1. i \in 1 .. n /\ i + 1 \in 1 .. n
      BY <1>2
    <3>2. rec[s[i]].score >= rec[s[i + 1]].score
      BY <1>1, <1>4 DEF s
    <3>3. QED BY <2>2, <3>1, <3>2
  <2>4. \A i, j \in 1 .. n : i <= j => v[i] >= v[j]
    BY <1>2, <2>2, <2>3, AdjacentIsEnough
  <2>5. QED BY <1>4, <2>2, <2>4 DEF Descending
<1>8. Ordered' = (report' \in Seq(window) /\ ToSet(report') = window /\ Descending(report'))
  BY <1>1 DEF Ordered, Descending, ToSet
<1>9. QED BY <1>4, <1>6, <1>7, <1>8 DEF s

(* The report stays in order. *)
LEMMA OrderedStep ==
  ASSUME WindowTypes, Ordered, [ScoringNext]_scoringVars
  PROVE  Ordered'
<1>1. CASE SortRecords
  BY <1>1, SortStep
<1>2. CASE pass' = pass /\ UNCHANGED <<rec, window, report>>
  BY <1>2 DEF Ordered, Descending, ToSet
<1>3. CASE \E m \in {0, 200, 700}, t \in {0, 1} : Apply(m, t)
  <2>1. pass = "apply" /\ UNCHANGED <<rec, window, report>>
    BY <1>3 DEF Apply, Pass
  <2>2. QED BY <2>1 DEF Ordered, Descending, ToSet
<1>4. CASE pass' \notin {"apply", "done"}
  BY <1>4 DEF Ordered
<1>5. QED
  <2>1. Reload \/ UNCHANGED scoringVars => pass' = pass /\ UNCHANGED <<rec, window, report>>
    BY DEF Reload, scoringVars
  <2>2. Looked \/ AllScored \/ Enrich \/ Scan \/ Upload
          => pass' \notin {"apply", "done"}
    BY DEF Looked, AllScored, Enrich, Scan, Upload, Pass
  <2>3. UploadOff => pass' \notin {"apply", "done"}
    BY DEF UploadOff, Pass
  <2>4. (\E f \in window : ScoreFlow(f)) => pass' \notin {"apply", "done"}
    BY DEF ScoreFlow
  <2>5. (\E f \in window : StartLookup(f) \/ EndLookup(f)) => pass' \notin {"apply", "done"}
    BY LookupStep
  <2>6. QED BY <1>1, <1>2, <1>3, <1>4, <2>1, <2>2, <2>3, <2>4, <2>5, NextIs DEF Quiet

(* What Apply keeps of a report that is in order. *)
(* Of a sequence the first k are kept, and no other reaches the limit. *)
KeepsFirst(s, m, k) ==
  /\ Kept(s, m) = SubSeq(s, 1, k)
  /\ \A i \in k + 1 .. Len(s) : ~ (rec[s[i]].score >= m)

(* The records that MinScore leaves are the first of the report, and all that
   follow are below it. *)
LEMMA KeptIs ==
  ASSUME NEW s \in Seq(window), WindowTypes, Descending(s), NEW m \in Nat
  PROVE  \E k \in 0 .. Len(s) : KeepsFirst(s, m, k)
<1> DEFINE below == {i \in 1 .. Len(s) : m > 0 /\ rec[s[i]].score < m}
<1>1. Kept(s, m) = IF below = {} THEN s ELSE SubSeq(s, 1, Min(below) - 1)
  BY DEF Kept
<1>2. \A i \in 1 .. Len(s) : rec[s[i]].score \in Nat
  <2> SUFFICES ASSUME NEW i \in 1 .. Len(s) PROVE rec[s[i]].score \in Nat
    OBVIOUS
  <2>1. rec[s[i]] \in Records
    BY DEF WindowTypes
  <2>2. rec[s[i]].score \in Scores
    BY <2>1, FieldsAre
  <2>3. Scores \subseteq Nat
    BY DEF Scores
  <2>4. QED BY <2>2, <2>3
<1>3. CASE below = {}
  <2>1. Len(s) \in 0 .. Len(s) /\ Kept(s, m) = SubSeq(s, 1, Len(s))
    BY <1>1, <1>3
  <2>2. \A i \in Len(s) + 1 .. Len(s) : FALSE
    OBVIOUS
  <2>3. QED BY <2>1, <2>2 DEF KeepsFirst
<1>4. CASE below # {}
  <2>1. below \in SUBSET Nat
    OBVIOUS
  <2>2. \E x \in below : \A y \in below : x <= y
    <3> HIDE DEF below
    <3>1. QED BY <1>4, <2>1, HasMin
  <2> DEFINE x == Min(below)
  <2>3. x \in below /\ \A y \in below : x <= y
    <3> HIDE DEF below
    <3>1. QED BY <2>2 DEF Min
  <2> HIDE DEF x
  <2>4. x \in 1 .. Len(s) /\ m > 0 /\ rec[s[x]].score < m
    BY <2>3
  <2>5. x - 1 \in 0 .. Len(s) /\ Kept(s, m) = SubSeq(s, 1, x - 1)
    <3> HIDE DEF below
    <3>1. Kept(s, m) = SubSeq(s, 1, x - 1)
      BY <1>1, <1>4 DEF x
    <3>2. x - 1 \in 0 .. Len(s)
      BY <2>4
    <3>3. QED BY <3>1, <3>2
  <2>6. \A i \in (x - 1) + 1 .. Len(s) : ~ (rec[s[i]].score >= m)
    <3> SUFFICES ASSUME NEW i \in (x - 1) + 1 .. Len(s) PROVE ~ (rec[s[i]].score >= m)
      OBVIOUS
    <3>1. i \in 1 .. Len(s) /\ x <= i
      BY <2>4
    <3> DEFINE u == rec[s[x]].score
               v == rec[s[i]].score
    <3>2. u \in Nat /\ v \in Nat /\ u >= v /\ u < m
      BY <1>2, <2>4, <3>1 DEF Descending
    <3> HIDE DEF u, v
    <3>3. ~ (v >= m)
      BY <3>2
    <3>4. QED BY <3>3 DEF v
  <2>7. QED BY <2>5, <2>6 DEF KeepsFirst
<1>5. QED BY <1>3, <1>4

(* So Apply misses nothing. *)
LEMMA ApplyStep ==
  ASSUME WindowTypes, Ordered, NEW m \in {0, 200, 700}, NEW t \in {0, 1}, Apply(m, t)
  PROVE  FilterMissesNothing'
<1> DEFINE kept == Kept(report, m)
           out == IF t > 0 /\ Len(kept) > t THEN SubSeq(kept, 1, t) ELSE kept
<1>1. /\ pass = "apply" /\ UNCHANGED <<rec, window, report>>
      /\ filtered' = [min |-> m, top |-> t, out |-> out]
  BY DEF Apply, Pass
<1>2. filtered'.min = m /\ filtered'.top = t /\ filtered'.out = out
  BY <1>1
<1>3. report \in Seq(window) /\ ToSet(report) = window /\ Descending(report)
  BY <1>1 DEF Ordered
<1>4. PICK k \in 0 .. Len(report) :
        /\ kept = SubSeq(report, 1, k)
        /\ \A i \in k + 1 .. Len(report) : ~ (rec[report[i]].score >= m)
  <2>1. m \in Nat
    OBVIOUS
  <2>2. \E i \in 0 .. Len(report) : KeepsFirst(report, m, i)
    BY <1>3, <2>1, KeptIs
  <2>3. QED BY <2>2 DEF KeepsFirst
<1> DEFINE n == IF t > 0 /\ k > t THEN t ELSE k
<1>5. n \in 0 .. Len(report) /\ out = SubSeq(report, 1, n) /\ (n = k \/ n = t)
  <2> HIDE DEF kept
  <2>1. Len(kept) = k /\ \A j \in 1 .. k : kept[j] = report[j]
    BY <1>3, <1>4
  <2>2. CASE t > 0 /\ k > t
    <3>1. n = t /\ out = SubSeq(kept, 1, t) /\ t \in 0 .. k
      BY <2>1, <2>2
    <3>2. SubSeq(kept, 1, t) = SubSeq(report, 1, t)
      BY <1>3, <1>4, <3>1
    <3>3. QED BY <3>1, <3>2
  <2>3. CASE ~ (t > 0 /\ k > t)
    BY <1>4, <2>1, <2>3
  <2>4. QED BY <2>2, <2>3
<1> HIDE DEF n, out, kept
<1>6. Len(out) = n /\ \A i \in 1 .. n : out[i] = report[i]
  BY <1>3, <1>5
<1>7. ASSUME NEW f \in window, rec[f].score >= m, f \notin ToSet(out)
      PROVE  /\ Len(out) = t
             /\ \A i \in 1 .. Len(out) : rec[out[i]].score >= rec[f].score
  <2>1. PICK j \in 1 .. Len(report) : report[j] = f
    BY <1>3 DEF ToSet
  <2>2. j <= k
    BY <1>4, <1>7, <2>1
  <2>3. ~ (j <= n)
    <3> SUFFICES ASSUME j <= n PROVE FALSE
      OBVIOUS
    <3>1. j \in 1 .. n /\ DOMAIN out = 1 .. n /\ out[j] = f
      BY <1>3, <1>5, <1>6, <2>1
    <3>2. QED BY <1>6, <1>7, <3>1 DEF ToSet
  <2>4. n = t
    BY <1>4, <1>5, <2>2, <2>3
  <2>5. \A i \in 1 .. n : rec[report[i]].score >= rec[report[j]].score
    BY <1>3, <1>5, <2>3 DEF Descending
  <2>6. QED BY <1>6, <2>1, <2>4, <2>5
<1>8. FilterMissesNothing' =
        (pass' = "done" =>
           /\ ToSet(report) = window
           /\ \A f \in window : rec[f].score >= m /\ f \notin ToSet(out) =>
                /\ Len(out) = t
                /\ \A i \in 1 .. Len(out) : rec[out[i]].score >= rec[f].score)
  BY <1>1, <1>2 DEF FilterMissesNothing, ToSet
<1>9. \A f \in window : rec[f].score >= m /\ f \notin ToSet(out) =>
        /\ Len(out) = t
        /\ \A i \in 1 .. Len(out) : rec[out[i]].score >= rec[f].score
  BY <1>7
<1>10. QED BY <1>3, <1>8, <1>9

(* Apply, which stops at the first record below MinScore, misses no record at
   or above it (filter.go:13-30). *)
THEOREM FilterMissesNothingHolds == ScoringSpec => []FilterMissesNothing
<1>1. ScoringInit => WindowTypes /\ Ordered /\ FilterMissesNothing
  BY TypesInit DEF ScoringInit, Ordered, FilterMissesNothing
<1>2. WindowTypes /\ Ordered /\ FilterMissesNothing /\ [ScoringNext]_scoringVars
        => WindowTypes' /\ Ordered' /\ FilterMissesNothing'
  <2> SUFFICES ASSUME WindowTypes, Ordered, FilterMissesNothing, [ScoringNext]_scoringVars
               PROVE  FilterMissesNothing'
    BY TypesStep, OrderedStep
  <2>1. CASE \E m \in {0, 200, 700}, t \in {0, 1} : Apply(m, t)
    BY <2>1, ApplyStep
  <2>2. CASE Reload \/ UNCHANGED scoringVars
    <3>1. UNCHANGED <<pass, rec, window, report, filtered>>
      BY <2>2 DEF Reload, scoringVars
    <3>2. QED BY <3>1 DEF FilterMissesNothing, ToSet
  <2>3. Looked \/ AllScored \/ Enrich \/ Scan \/ Upload \/ UploadOff \/ SortRecords
          => pass' # "done"
    BY DEF Looked, AllScored, Enrich, Scan, Upload, UploadOff,
           SortRecords, Pass
  <2>4. (\E f \in window : ScoreFlow(f)) => pass' # "done"
    BY DEF ScoreFlow
  <2>5. (\E f \in window : StartLookup(f) \/ EndLookup(f)) => pass' # "done"
    BY LookupStep
  <2>6. pass' # "done" => FilterMissesNothing'
    BY DEF FilterMissesNothing
  <2>7. QED BY <2>1, <2>2, <2>3, <2>4, <2>5, <2>6, NextIs DEF Quiet
<1>3. QED BY <1>1, <1>2, PTL DEF ScoringSpec
=============================================================================
