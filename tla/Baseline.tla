------------------------------ MODULE Baseline ------------------------------
(***************************************************************************)
(* internal/baseline/baseline.go: what the daemon has learned of every     *)
(* process.  Operators on one value of the store, which Daemon keeps in    *)
(* memory and on disk.  A process has one port here, and its byte          *)
(* statistics are reduced to how many observations they rest on and when   *)
(* the last one was made; n = 0, an empty set and a count of 0 stand for a *)
(* key that is not in its map.  A flow whose process is not known teaches  *)
(* nothing in the code; here every flow has one.                           *)
(***************************************************************************)
EXTENDS Naturals, FiniteSets

CONSTANTS
  Procs, Dests,
  MaxDests,         \* maxDests
  MinDestObs,       \* minDestObs
  MinBeaconingObs,  \* minBeaconingObs
  StalePeriod       \* stalePeriod

ASSUME BaselineParameters ==
  {MaxDests, MinDestObs, MinBeaconingObs} \subseteq Nat \ {0} /\ StalePeriod \in Nat

(* What the store may hold, whatever it was taught. *)
Bases ==
  [n : [Procs -> Nat], last : [Procs -> Nat], seen : [Procs -> SUBSET Dests],
   count : [Procs -> Nat], beacons : [Procs -> Nat]]

EmptyStore ==
  [n |-> [p \in Procs |-> 0], last |-> [p \in Procs |-> 0],
   seen |-> [p \in Procs |-> {}], count |-> [p \in Procs |-> 0],
   beacons |-> [p \in Procs |-> 0]]

Observe(b, p, t) == [b EXCEPT !.n[p] = @ + 1, !.last[p] = t]

ObserveDest_Uncapped(b, p, d) == [b EXCEPT !.count[p] = @ + 1, !.seen[p] = @ \union {d}]
ObserveDest_OneShort(b, p, d) ==
  [b EXCEPT !.count[p] = @ + 1,
            !.seen[p] = IF Cardinality(@) + 1 < MaxDests THEN @ \union {d} ELSE @]

(* Every connection is counted; a new destination is remembered while there
   is room for it. *)
ObserveDest(b, p, d) ==
  [b EXCEPT !.count[p] = @ + 1,
            !.seen[p] = IF Cardinality(@) < MaxDests THEN @ \union {d} ELSE @]

IsNewDestination(b, p, d) == b.count[p] >= MinDestObs /\ d \notin b.seen[p]

ObserveBeaconing(b, p) == [b EXCEPT !.beacons[p] = @ + 1]

IsExpectedBeaconer(b, p) == b.beacons[p] >= MinBeaconingObs

(* Only the byte statistics go stale: destinations and beaconing stay. *)
Stale(b, p, t) == t - b.last[p] > StalePeriod
Prune(b, t) ==
  [b EXCEPT !.n = [p \in Procs |-> IF Stale(b, p, t) THEN 0 ELSE b.n[p]],
            !.last = [p \in Procs |-> IF Stale(b, p, t) THEN 0 ELSE b.last[p]]]

(* The file, when it can be read, for a process that has observed nothing yet. *)
Load_NoBeacons(file, t) == [Prune(file, t) EXCEPT !.beacons = EmptyStore.beacons]
Load(file, t) == Prune(file, t)
=============================================================================
