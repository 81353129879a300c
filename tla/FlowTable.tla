------------------------------ MODULE FlowTable ------------------------------
(***************************************************************************)
(* The flow table of one capture window: type Aggregator of                *)
(* internal/aggregate/aggregate.go.  One goroutine per capture interface   *)
(* (a writer) calls Add for each packet; all writers share the sync.Map    *)
(* `flows`, the atomic counters and nothing else.  flowFor takes three     *)
(* separate atomic steps between which another writer may run: the lookup, *)
(* the test of the flow limit, and LoadOrStore followed by the increment   *)
(* of flowCount.  The update of one flow is a critical section of its own  *)
(* mutex, hence one step.                                                  *)
(***************************************************************************)
EXTENDS Integers, Sequences, FiniteSets

CONSTANTS
  Writers,     \* the capture goroutines of the window
  IfaceOf,     \* the interface each of them captures on
  Packets,     \* the packet events a capture may deliver
  MaxFlows,    \* maxFlows
  MaxStamps,   \* the cap on the timestamps of a flow (1024 in the code)
  MaxAdds,     \* bound of the model: calls of Add in the window
  None         \* the zero value of an optional field

(***************************************************************************)
(* A packet is the part of PacketEvent the table tells apart: the          *)
(* direction-sensitive address/port tuple, a timestamp and a length, the   *)
(* EnrichmentOnly flag, one field of which the first value wins (ja3, which*)
(* stands for ja3s, hassh, the HTTP request and the certificate too), one  *)
(* of which all values are kept (name: DNS queries, SNI, and the sticky    *)
(* flags; the program orders names as strings, the model as numbers), and  *)
(* the minimum DNS TTL.                                                    *)
(***************************************************************************)
ASSUME WritersFinite == IsFiniteSet(Writers)
ASSUME LimitIsPositive == MaxFlows \in Nat \ {0}
ASSUME StampsIsPositive == MaxStamps \in Nat \ {0}
ASSUME PacketFields ==
  \A p \in Packets : /\ p.ts \in Nat \ {0}
                     /\ p.len \in Nat
                     /\ p.enrich \in BOOLEAN
                     /\ p.ttl \in Nat \union {None}
                     /\ p.name \in Nat \union {None}
ASSUME NoneIsNoNumber == None \notin Nat

VARIABLES
  flows,         \* sync.Map: the tracked keys and their flowState
  flowCount,     \* atomic.Int64
  droppedFlows,  \* atomic.Int64: packets, not flows, that found the table full
  limitLogged,   \* atomic.Bool
  pc,            \* where each writer stands inside Add
  cur,           \* the packet each writer is adding
  records,       \* what Finalize returned, None before
  adds,          \* calls of Add so far (bounds the model)
  applied        \* history: the packets that reached each tracked flow, in order

vars == <<flows, flowCount, droppedFlows, limitLogged, pc, cur, records, adds, applied>>

----------------------------------------------------------------------------
Stages == {"idle", "check", "drop", "store", "count", "update", "done"}

Minimum(a, b) == IF a < b THEN a ELSE b
Extreme(S, z, Better(_, _)) == IF S = {} THEN z ELSE CHOOSE x \in S : \A y \in S : Better(x, y)
AtMost(x, y) == x <= y
AtLeast(x, y) == x >= y

(* The packet's key: its tuple and the interface of the capture. *)
FlowKey_NoInterface(w, p) == <<p.tuple, "any">>
FlowKey(w, p) == <<p.tuple, IfaceOf[w]>>

(* The zero flowState: a zero time is 0, an empty string None. *)
NewFlow == [pkts |-> 0, bytes |-> 0, first |-> 0, last |-> 0, stamps |-> <<>>,
            names |-> {}, ja3 |-> None, ttl |-> None]

(* One packet accounted to a flow; a packet that only enriches leaves the
   counters and times alone. *)
Counted(f, p) ==
  IF p.enrich THEN f
  ELSE [f EXCEPT !.pkts = @ + 1,
                 !.bytes = @ + p.len,
                 !.first = IF @ = 0 \/ p.ts < @ THEN p.ts ELSE @,
                 !.last = IF p.ts > @ THEN p.ts ELSE @,
                 !.stamps = IF Len(@) < MaxStamps THEN Append(@, p.ts) ELSE @]

Enriched(f, p) ==
  [f EXCEPT !.names = IF p.name = None THEN @ ELSE @ \union {p.name},
            !.ja3 = IF @ = None THEN p.ja3 ELSE @,
            !.ttl = CASE p.ttl = None -> @
                      [] @ = None -> p.ttl
                      [] OTHER -> Minimum(@, p.ttl)]

Account(f, p) == Enriched(Counted(f, p), p)

(* The base record Finalize makes of a flow: of several server names the first
   in the order of strings, and a duration only when both times are set. *)
Record(f) ==
  [pkts |-> f.pkts, bytes |-> f.bytes, first |-> f.first, last |-> f.last,
   stamps |-> f.stamps, names |-> f.names, ja3 |-> f.ja3, ttl |-> f.ttl,
   sni |-> Extreme(f.names, None, AtMost),
   duration |-> IF f.first = 0 \/ f.last = 0 THEN 0 ELSE f.last - f.first]
RecordsOf(table) == [k \in DOMAIN table |-> Record(table[k])]

----------------------------------------------------------------------------
Init ==
  /\ flows = [k \in {} |-> NewFlow]
  /\ flowCount = 0
  /\ droppedFlows = 0
  /\ limitLogged = FALSE
  /\ pc = [w \in Writers |-> "idle"]
  /\ cur = [w \in Writers |-> None]
  /\ records = None
  /\ adds = 0
  /\ applied = [k \in {} |-> <<>>]

Goto(w, stage) == pc' = [pc EXCEPT ![w] = stage]

(* Add: build the key and look it up without a lock. *)
Lookup(w, p) ==
  /\ pc[w] = "idle"
  /\ adds < MaxAdds
  /\ adds' = adds + 1
  /\ cur' = [cur EXCEPT ![w] = p]
  /\ Goto(w, IF FlowKey(w, p) \in DOMAIN flows THEN "update" ELSE "check")
  /\ UNCHANGED <<flows, flowCount, droppedFlows, limitLogged, records, applied>>

(* The key was not there: compare the counter with the limit. *)
CheckLimit_Skipped(w) ==
  /\ pc[w] = "check"
  /\ Goto(w, "store")
  /\ UNCHANGED <<flows, flowCount, droppedFlows, limitLogged, cur, records, adds, applied>>
CheckLimit(w) ==
  /\ pc[w] = "check"
  /\ Goto(w, IF flowCount >= MaxFlows THEN "drop" ELSE "store")
  /\ UNCHANGED <<flows, flowCount, droppedFlows, limitLogged, cur, records, adds, applied>>

DropPacket_NoReturn(w) ==
  /\ pc[w] = "drop"
  /\ droppedFlows' = droppedFlows + 1
  /\ limitLogged' = TRUE
  /\ Goto(w, "update")
  /\ UNCHANGED <<flows, flowCount, cur, records, adds, applied>>

(* The table is full: the packet is counted as dropped, the first one logged. *)
DropPacket(w) ==
  /\ pc[w] = "drop"
  /\ droppedFlows' = droppedFlows + 1
  /\ limitLogged' = TRUE
  /\ Goto(w, "idle")
  /\ cur' = [cur EXCEPT ![w] = None]
  /\ UNCHANGED <<flows, flowCount, records, adds, applied>>

(* LoadOrStore: the state another writer stored in between is used. *)
Track(w, k) ==
  /\ flows' = [x \in DOMAIN flows \union {k} |-> IF x = k THEN NewFlow ELSE flows[x]]
  /\ applied' = [x \in DOMAIN applied \union {k} |-> IF x \in DOMAIN applied THEN applied[x] ELSE <<>>]

LoadOrStore_Overwrites(w) ==
  /\ pc[w] = "store"
  /\ Track(w, FlowKey(w, cur[w]))
  /\ Goto(w, IF FlowKey(w, cur[w]) \in DOMAIN flows THEN "update" ELSE "count")
  /\ UNCHANGED <<flowCount, droppedFlows, limitLogged, cur, records, adds>>
LoadOrStore_AlwaysCounts(w) ==
  /\ pc[w] = "store"
  /\ IF FlowKey(w, cur[w]) \in DOMAIN flows THEN UNCHANGED <<flows, applied>>
     ELSE Track(w, FlowKey(w, cur[w]))
  /\ Goto(w, "count")
  /\ UNCHANGED <<flowCount, droppedFlows, limitLogged, cur, records, adds>>
LoadOrStore(w) ==
  /\ pc[w] = "store"
  /\ IF FlowKey(w, cur[w]) \in DOMAIN flows
     THEN Goto(w, "update") /\ UNCHANGED <<flows, applied>>
     ELSE Goto(w, "count") /\ Track(w, FlowKey(w, cur[w]))
  /\ UNCHANGED <<flowCount, droppedFlows, limitLogged, cur, records, adds>>

(* The writer that stored a new state increments the counter afterwards. *)
CountFlow(w) ==
  /\ pc[w] = "count"
  /\ flowCount' = flowCount + 1
  /\ Goto(w, "update")
  /\ UNCHANGED <<flows, droppedFlows, limitLogged, cur, records, adds, applied>>

(* The locked section of Add. *)
Update(w) ==
  LET k == FlowKey(w, cur[w])
  IN /\ pc[w] = "update"
     /\ flows' = [flows EXCEPT ![k] = Account(@, cur[w])]
     /\ applied' = [applied EXCEPT ![k] = Append(@, cur[w])]
     /\ Goto(w, "idle")
     /\ cur' = [cur EXCEPT ![w] = None]
     /\ UNCHANGED <<flowCount, droppedFlows, limitLogged, records, adds>>

(* The capture's channel is closed: the goroutine ends (wg.Done). *)
Close(w) ==
  /\ pc[w] = "idle"
  /\ Goto(w, "done")
  /\ UNCHANGED <<flows, flowCount, droppedFlows, limitLogged, cur, records, adds, applied>>

(* runWindow: wg.Wait, then the first pass of Finalize makes a record of every flow. *)
WritersDone_AnyOne == \E w \in Writers : pc[w] = "done"
WritersDone == \A w \in Writers : pc[w] = "done"
Finalize ==
  /\ WritersDone
  /\ records = None
  /\ records' = RecordsOf(flows)
  /\ UNCHANGED <<flows, flowCount, droppedFlows, limitLogged, pc, cur, adds, applied>>

Step(w) ==
  \/ \E p \in Packets : Lookup(w, p)
  \/ CheckLimit(w)
  \/ DropPacket(w)
  \/ LoadOrStore(w)
  \/ CountFlow(w)
  \/ Update(w)
  \/ Close(w)

Next == (\E w \in Writers : Step(w)) \/ Finalize

Spec == Init /\ [][Next]_vars

----------------------------------------------------------------------------
(* Type invariant: the values of sync.Map, the counters and the program
   counters, that a writer inside Add holds a packet, and that one about to
   update or count a flow holds a state of the table (never a nil pointer). *)
Keys == {FlowKey(w, p) : w \in Writers, p \in Packets}

TypeOK ==
  /\ DOMAIN flows \subseteq Keys
  /\ flowCount \in Nat
  /\ droppedFlows \in Nat
  /\ limitLogged \in BOOLEAN
  /\ pc \in [Writers -> Stages]
  /\ cur \in [Writers -> Packets \union {None}]
  /\ \A w \in Writers : pc[w] \notin {"idle", "done"} => cur[w] \in Packets
  /\ \A w \in Writers : pc[w] \in {"count", "update"} => FlowKey(w, cur[w]) \in DOMAIN flows
  /\ adds \in Nat
  /\ DOMAIN applied = DOMAIN flows

(* The limit holds up to the writers that passed the test at once: "Under
   concurrent writers the bound may be exceeded by at most one flow per
   writer goroutine" (aggregate.go:239), and the test that admits them left
   one place free, so the excess is below the number of writers. *)
FlowBound == Cardinality(DOMAIN flows) < MaxFlows + Cardinality(Writers)

(* A packet is dropped only when the table really holds MaxFlows flows: "scan
   detection still sees the first MaxFlowsPerAggregator flows"
   (aggregate.go:238).  A counter that ran ahead of the table would break it. *)
NoEarlyDrop ==
  (\E w \in Writers : pc[w] = "drop") \/ droppedFlows > 0
    => Cardinality(DOMAIN flows) >= MaxFlows

(* "packets for already-tracked flows are still counted" (aggregate.go:237):
   when no other writer captures on w's interface, w never drops a packet
   whose flow is in the table, whatever the other writers do. *)
SoleWriter(w) == \A v \in Writers \ {w} : IfaceOf[v] # IfaceOf[w]
TrackedAreCounted ==
  \A w \in Writers :
    SoleWriter(w) /\ pc[w] \in {"check", "drop", "store"} =>
      FlowKey(w, cur[w]) \notin DOMAIN flows

(* Reference definition of a flow's state: what the packets that reached it
   say, in whatever order they came.  Bytes are counted one by one, and the
   n-th timestamp is that of the n-th packet counted. *)
CountedOf(s) == {i \in DOMAIN s : ~s[i].enrich}
BytesOf(s) == UNION {{i} \X (1 .. s[i].len) : i \in CountedOf(s)}
RankOf(s, i) == Cardinality({h \in CountedOf(s) : h <= i})
Faithful(f, s) ==
  LET C == CountedOf(s)
      T == {s[i].ttl : i \in DOMAIN s} \ {None}
      J == {i \in DOMAIN s : s[i].ja3 # None}
  IN /\ f.pkts = Cardinality(C)
     /\ f.first = Extreme({s[i].ts : i \in C}, 0, AtMost)
     /\ f.last = Extreme({s[i].ts : i \in C}, 0, AtLeast)
     /\ f.bytes = Cardinality(BytesOf(s))
     /\ Len(f.stamps) = Minimum(MaxStamps, Cardinality(C))
     /\ \A i \in C : RankOf(s, i) <= MaxStamps => f.stamps[RankOf(s, i)] = s[i].ts
     /\ f.ttl = Extreme(T, None, AtMost)
     /\ f.names = {s[i].name : i \in DOMAIN s} \ {None}
     /\ IF J = {} THEN f.ja3 = None ELSE f.ja3 = s[Extreme(J, 0, AtMost)].ja3

(* No packet is lost between two writers: each flow's state is exactly what
   the packets that reached it add up to (packets, bytes, first and last time,
   the first timestamps in order, names, first ja3, lowest TTL with a zero TTL
   included; aggregate.go:364-435), and every call
   of Add that returned either reached a flow or was counted as dropped. *)
NothingLost ==
  /\ \A k \in DOMAIN flows : Faithful(flows[k], applied[k])
  /\ adds - droppedFlows - Cardinality({w \in Writers : pc[w] \notin {"idle", "done"}})
       = Cardinality(UNION {{k} \X DOMAIN applied[k] : k \in DOMAIN applied})

(* What Finalize recorded is the whole window: no writer touches the table
   after it (runWindow waits for every capture goroutine first). *)
FinalizedIsFinal == records # None => records = RecordsOf(flows)
=============================================================================
