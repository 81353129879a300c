----------------------------- MODULE DaemonProofs -----------------------------
(* Theorems about Daemon for all processes, destinations, interfaces and     *)
(* limits: type correctness with the sizes of the baseline, what the         *)
(* baseline remembers over windows, failed writes, restarts and pruning, and *)
(* how far the history and the alerts can be apart.                          *)
EXTENDS Daemon, FiniteSetTheorems, TLAPS

(* The assumptions on the constants, one by one. *)
LEMMA Parameters ==
  /\ Flows \subseteq [proc : Procs, dst : Dests, periodic : BOOLEAN]
  /\ None \notin Stores
  /\ MaxFlows \in Nat /\ MaxWindows \in Nat /\ MaxRestarts \in Nat /\ MaxFaults \in Nat /\ MaxClock \in Nat
  /\ MaxDests \in Nat \ {0} /\ MinDestObs \in Nat \ {0} /\ MinBeaconingObs \in Nat \ {0}
  /\ StalePeriod \in Nat
BY DaemonParameters, BaselineParameters

(* The sizes of TypeOK for one store, with the finiteness they rest on. *)
Sized(s) ==
  \A p \in Procs :
    /\ IsFiniteSet(s.base.seen[p])
    /\ Cardinality(s.base.seen[p]) <= MaxDests
    /\ Cardinality(s.base.seen[p]) <= s.base.count[p]
    /\ \A d \in s.base.seen[p] : <<p, d>> \in s.told
    /\ s.base.n[p] <= s.base.count[p]

(* What a store was told of is in its sets, unless they are full. *)
Remembers(s) ==
  \A p \in Procs, d \in Dests :
    <<p, d>> \in s.told => d \in s.base.seen[p] \/ Cardinality(s.base.seen[p]) = MaxDests

(* No report of a beaconing flow was counted twice. *)
Counts(s) == \A p \in Procs : s.base.beacons[p] <= reports[p]

Good(s) == s \in Stores /\ Sized(s) /\ Remembers(s) /\ Counts(s)

Places == {"off", "loop", "stopped", "capturing", "observing", "storing", "firing"}

InWindow == {"capturing", "observing", "storing", "firing"}

Types ==
  /\ pc \in Places
  /\ cancelled \in BOOLEAN /\ over \in BOOLEAN /\ urgent \in BOOLEAN /\ blind \in BOOLEAN
  /\ now \in Nat /\ restarts \in Nat
  /\ flows \subseteq [flow : Flows, new : BOOLEAN, expected : BOOLEAN]
  /\ window \in 0 .. MaxWindows /\ (pc \in InWindow => window # 0)
  /\ stored \subseteq 1 .. window /\ unsaved \subseteq 1 .. window /\ unalerted \subseteq 1 .. window
  /\ reports \in [Procs -> Nat]

StoresInv ==
  /\ Good(store)
  /\ disk # None => Good(disk)

----------------------------------------------------------------------------
(* Pruning forgets byte statistics only, so a pruned store is as good. *)
LEMMA PruneGood ==
  ASSUME NEW s, Good(s), reports \in [Procs -> Nat], NEW t \in Nat
  PROVE  /\ Good([s EXCEPT !.base = Prune(@, t)])
         /\ [s EXCEPT !.base = Prune(@, t)].base.beacons = s.base.beacons
         /\ [s EXCEPT !.base = Prune(@, t)].base.seen = s.base.seen
         /\ [s EXCEPT !.base = Prune(@, t)].told = s.told
         /\ [s EXCEPT !.base = Prune(@, t)].windows = s.windows
<1> DEFINE r == [s EXCEPT !.base = Prune(@, t)]
<1>1. s \in Stores /\ s.base \in Bases
  BY DEF Good, Stores
<1>2. /\ r.told = s.told /\ r.windows = s.windows
      /\ r.base = Prune(s.base, t)
      /\ r = [base |-> Prune(s.base, t), told |-> s.told, windows |-> s.windows]
  BY <1>1 DEF Stores
<1>3. /\ Prune(s.base, t) \in Bases
      /\ Prune(s.base, t).seen = s.base.seen
      /\ Prune(s.base, t).count = s.base.count
      /\ Prune(s.base, t).beacons = s.base.beacons
      /\ \A p \in Procs : Prune(s.base, t).n[p] \in {0, s.base.n[p]}
  BY <1>1 DEF Bases, Prune
<1>4. r \in Stores
  BY <1>1, <1>2, <1>3 DEF Stores
<1>5. Sized(r)
  <2> SUFFICES ASSUME NEW p \in Procs
               PROVE  /\ IsFiniteSet(r.base.seen[p])
                      /\ Cardinality(r.base.seen[p]) <= MaxDests
                      /\ Cardinality(r.base.seen[p]) <= r.base.count[p]
                      /\ \A d \in r.base.seen[p] : <<p, d>> \in r.told
                      /\ r.base.n[p] <= r.base.count[p]
    BY DEF Sized
  <2> HIDE DEF r
  <2>1. s.base.count[p] \in Nat /\ s.base.n[p] <= s.base.count[p]
    BY <1>1 DEF Good, Sized, Bases
  <2>2. r.base.n[p] <= r.base.count[p]
    BY <1>2, <1>3, <2>1
  <2>3. QED BY <1>2, <1>3, <2>2 DEF Good, Sized
<1>6. Remembers(r) /\ Counts(r)
  BY <1>2, <1>3 DEF Good, Remembers, Counts
<1>7. QED BY <1>2, <1>3, <1>4, <1>5, <1>6 DEF Good

(* Teaching a store one flow keeps it good: the sets stay within their limit
   and remember what fits, and a report is counted once. *)
LEMMA ObserveGood ==
  ASSUME Types, StoresInv, NEW r \in flows, ObserveFlow(r)
  PROVE  Good(store)' /\ reports' \in [Procs -> Nat] /\ \A p \in Procs : reports[p] <= reports'[p]
<1> DEFINE p == r.flow.proc
<1> DEFINE d == r.flow.dst
<1> DEFINE b == store.base
<1> DEFINE c == store'.base
<1>1. /\ p \in Procs /\ d \in Dests /\ store \in Stores /\ b \in Bases
      /\ now \in Nat /\ window \in Nat /\ reports \in [Procs -> Nat]
  BY Parameters DEF Types, StoresInv, Good, Stores
<1>2. /\ store' = [base |-> Taught(r), told |-> store.told \union {<<p, d>>},
                   windows |-> store.windows \union {window}]
      /\ reports' = IF Reported(r) THEN [reports EXCEPT ![p] = @ + 1] ELSE reports
  BY DEF ObserveFlow
<1>3. c = Taught(r)
  BY <1>2
<1>4. /\ Taught(r).n = [b.n EXCEPT ![p] = @ + 1]
      /\ Taught(r).last = [b.last EXCEPT ![p] = now]
      /\ Taught(r).count = [b.count EXCEPT ![p] = @ + 1]
      /\ Taught(r).seen = [b.seen EXCEPT ![p] = IF Cardinality(@) < MaxDests THEN @ \union {d} ELSE @]
      /\ Taught(r).beacons = IF Reported(r) THEN [b.beacons EXCEPT ![p] = @ + 1] ELSE b.beacons
      /\ Taught(r) = [n |-> Taught(r).n, last |-> Taught(r).last, seen |-> Taught(r).seen,
                      count |-> Taught(r).count, beacons |-> Taught(r).beacons]
  BY <1>1 DEF Taught, Observe, ObserveDest, ObserveBeaconing, Bases
<1> HIDE DEF p, d
<1>5. /\ c.n \in [Procs -> Nat] /\ c.last \in [Procs -> Nat] /\ c.count \in [Procs -> Nat]
      /\ c.seen \in [Procs -> SUBSET Dests] /\ c.beacons \in [Procs -> Nat]
  BY <1>1, <1>3, <1>4 DEF Bases
<1>6. c \in Bases
  BY <1>3, <1>4, <1>5 DEF Bases
<1>7. store' \in Stores
  BY <1>1, <1>2, <1>3, <1>6 DEF Stores
<1>8. ASSUME NEW q \in Procs
      PROVE  /\ IsFiniteSet(c.seen[q])
             /\ Cardinality(c.seen[q]) <= MaxDests
             /\ Cardinality(c.seen[q]) <= c.count[q]
             /\ \A e \in c.seen[q] : <<q, e>> \in store'.told
             /\ c.n[q] <= c.count[q]
             /\ \A e \in Dests : <<q, e>> \in store'.told =>
                    e \in c.seen[q] \/ Cardinality(c.seen[q]) = MaxDests
  <2>1. /\ IsFiniteSet(b.seen[q]) /\ Cardinality(b.seen[q]) \in Nat
        /\ Cardinality(b.seen[q]) <= MaxDests /\ Cardinality(b.seen[q]) <= b.count[q]
        /\ \A e \in b.seen[q] : <<q, e>> \in store.told
        /\ b.n[q] <= b.count[q]
        /\ b.n[q] \in Nat /\ b.count[q] \in Nat
        /\ \A e \in Dests : <<q, e>> \in store.told =>
               e \in b.seen[q] \/ Cardinality(b.seen[q]) = MaxDests
    BY <1>1, FS_CardinalityType DEF StoresInv, Good, Sized, Remembers, Bases
  <2>2. store'.told = store.told \union {<<p, d>>}
    BY <1>2
  <2>3. CASE q # p
    <3>1. c.seen[q] = b.seen[q] /\ c.count[q] = b.count[q] /\ c.n[q] = b.n[q]
      BY <1>1, <1>3, <1>4, <2>3 DEF Bases
    <3>2. \A e : <<q, e>> \in store'.told <=> <<q, e>> \in store.told
      BY <2>2, <2>3
    <3>3. QED BY <2>1, <2>2, <3>1, <3>2
  <2>4. CASE q = p
    <3>1. /\ c.count[q] = b.count[q] + 1 /\ c.n[q] = b.n[q] + 1
          /\ c.seen[q] = IF Cardinality(b.seen[q]) < MaxDests THEN b.seen[q] \union {d} ELSE b.seen[q]
      BY <1>1, <1>3, <1>4, <2>4 DEF Bases
    <3>2. /\ IsFiniteSet(b.seen[q] \union {d})
          /\ Cardinality(b.seen[q] \union {d}) =
               IF d \in b.seen[q] THEN Cardinality(b.seen[q]) ELSE Cardinality(b.seen[q]) + 1
      BY <2>1, FS_AddElement
    <3>3. CASE Cardinality(b.seen[q]) < MaxDests
      <4>1. c.seen[q] = b.seen[q] \union {d}
        BY <3>1, <3>3
      <4>2. /\ IsFiniteSet(c.seen[q]) /\ Cardinality(c.seen[q]) <= MaxDests
            /\ Cardinality(c.seen[q]) <= c.count[q] /\ c.n[q] <= c.count[q]
        BY <2>1, <3>1, <3>2, <3>3, <4>1, Parameters
      <4>3. \A e \in c.seen[q] : <<q, e>> \in store'.told
        BY <2>1, <2>2, <2>4, <4>1
      <4>4. \A e \in Dests : <<q, e>> \in store'.told => e \in c.seen[q]
        <5>1. \A e \in Dests : <<q, e>> \in store.told => e \in b.seen[q]
          BY <2>1, <3>3, Parameters
        <5>2. \A e \in Dests : <<q, e>> \in store'.told => <<q, e>> \in store.told \/ e = d
          BY <2>2
        <5>3. QED BY <4>1, <5>1, <5>2
      <4>5. QED BY <4>2, <4>3, <4>4
    <3>4. CASE ~(Cardinality(b.seen[q]) < MaxDests)
      <4>1. c.seen[q] = b.seen[q] /\ Cardinality(c.seen[q]) = MaxDests
        BY <2>1, <3>1, <3>4, Parameters
      <4>2. Cardinality(c.seen[q]) <= c.count[q] /\ c.n[q] <= c.count[q]
        BY <2>1, <3>1, <4>1, Parameters
      <4>3. QED BY <2>1, <2>2, <4>1, <4>2, Parameters
    <3>5. QED BY <3>3, <3>4
  <2>5. QED BY <2>3, <2>4
<1>9. Sized(store)' /\ Remembers(store)'
  BY <1>8 DEF Sized, Remembers
<1>10. /\ reports' \in [Procs -> Nat]
       /\ \A q \in Procs : reports[q] <= reports'[q]
       /\ \A q \in Procs : c.beacons[q] <= reports'[q]
  <2>1. \A q \in Procs : b.beacons[q] <= reports[q] /\ b.beacons[q] \in Nat /\ reports[q] \in Nat
    BY <1>1 DEF StoresInv, Good, Counts, Bases
  <2>2. b.beacons \in [Procs -> Nat]
    BY <1>1 DEF Bases
  <2>3. CASE Reported(r)
    <3>1. /\ reports' = [reports EXCEPT ![p] = @ + 1]
          /\ c.beacons = [b.beacons EXCEPT ![p] = @ + 1]
      BY <1>2, <1>3, <1>4, <2>3
    <3> HIDE DEF b, c
    <3>2. QED BY <1>1, <2>1, <2>2, <3>1
  <2>4. CASE ~Reported(r)
    BY <1>1, <1>2, <1>3, <1>4, <2>1, <2>4
  <2>5. QED BY <2>3, <2>4
<1>11. QED BY <1>7, <1>9, <1>10 DEF Good, Counts

----------------------------------------------------------------------------
(* What holds of the window and the stores in every state. *)
IInv == Types /\ StoresInv

(* The store of a new process is empty until it reads the file. *)
LEMMA UntaughtGood ==
  ASSUME Types
  PROVE  Good(Untaught)
<1>1. Untaught \in Stores
  BY DEF Untaught, Stores, Bases, EmptyStore
<1>2. /\ Untaught.told = {}
      /\ \A p \in Procs : /\ Untaught.base.seen[p] = {}
                          /\ Untaught.base.n[p] = 0 /\ Untaught.base.count[p] = 0
                          /\ Untaught.base.beacons[p] = 0
  BY DEF Untaught, EmptyStore
<1>3. Sized(Untaught)
  <2> SUFFICES ASSUME NEW p \in Procs
               PROVE  /\ IsFiniteSet(Untaught.base.seen[p])
                      /\ Cardinality(Untaught.base.seen[p]) <= MaxDests
                      /\ Cardinality(Untaught.base.seen[p]) <= Untaught.base.count[p]
                      /\ \A d \in Untaught.base.seen[p] : <<p, d>> \in Untaught.told
                      /\ Untaught.base.n[p] <= Untaught.base.count[p]
    BY DEF Sized
  <2>1. IsFiniteSet({}) /\ Cardinality({}) = 0 /\ MaxDests \in Nat
    BY FS_EmptySet, Parameters
  <2>2. /\ Untaught.base.seen[p] = {} /\ Untaught.told = {}
        /\ Untaught.base.n[p] = 0 /\ Untaught.base.count[p] = 0
    BY <1>2
  <2>3. IsFiniteSet(Untaught.base.seen[p]) /\ Cardinality(Untaught.base.seen[p]) = 0
    BY <2>1, <2>2, Zenon
  <2>4. QED BY <2>1, <2>2, <2>3
<1>4. Remembers(Untaught) /\ Counts(Untaught)
  BY <1>2 DEF Types, Remembers, Counts
<1>5. QED BY <1>1, <1>3, <1>4 DEF Good

(* Initially nothing was observed. *)
LEMMA InitIInv == Init => IInv
<1> SUFFICES ASSUME Init PROVE IInv
  OBVIOUS
<1>1. 0 \in 0 .. MaxWindows
  BY Parameters
<1>2. [p \in Procs |-> 0] \in [Procs -> Nat]
  OBVIOUS
<1>3. Types
  BY <1>1, <1>2, Zenon DEF Init, Types, Places, InWindow
<1>4. store = Untaught /\ disk = None
  BY DEF Init
<1>5. QED BY <1>3, <1>4, UntaughtGood DEF IInv, StoresInv

(* The actions that leave the stores alone, or go on with one of them. *)
LEMMA StoresKept ==
  ASSUME IInv, UNCHANGED <<disk, reports>>, Good(store)'
  PROVE  StoresInv'
BY DEF IInv, StoresInv, Good, Sized, Remembers, Counts

(* Every step keeps the stores good: only a flow that is observed and a
   baseline that is saved or loaded change one. *)
LEMMA StepStores == IInv /\ [Next]_vars => StoresInv'
<1> SUFFICES ASSUME IInv, [Next]_vars PROVE StoresInv'
  OBVIOUS
<1>1. CASE UNCHANGED learning
  BY <1>1 DEF learning, IInv, StoresInv, Good, Sized, Remembers, Counts
<1>2. ASSUME NEW cfg \in Configs, Run(cfg) PROVE StoresInv'
  <2>1. UNCHANGED <<disk, reports>>
    BY <1>2 DEF Run
  <2>2. CASE store' = Untaught
    <3>1. Good(Untaught)
      BY UntaughtGood DEF IInv
    <3>2. Good(store)'
      BY <2>1, <2>2, <3>1 DEF Good, Sized, Remembers, Counts
    <3>3. QED BY <2>1, <3>2, StoresKept
  <2>3. CASE disk # None /\ store' = [disk EXCEPT !.base = Load(@, now)]
    <3>1. Good(disk) /\ now \in Nat /\ reports \in [Procs -> Nat]
      BY <2>3 DEF IInv, StoresInv, Types
    <3>2. Good([disk EXCEPT !.base = Prune(@, now)])
      BY <3>1, PruneGood
    <3>3. store' = [disk EXCEPT !.base = Prune(@, now)]
      BY <2>3 DEF Load
    <3>4. Good(store)'
      BY <2>1, <3>2, <3>3 DEF Good, Sized, Remembers, Counts
    <3>5. QED BY <2>1, <3>4, StoresKept
  <2>4. QED BY <1>2, <2>2, <2>3 DEF Run
<1>3. ASSUME NEW r \in flows, ObserveFlow(r) PROVE StoresInv'
  <2>1. /\ Good(store)' /\ reports' \in [Procs -> Nat]
        /\ \A p \in Procs : reports[p] <= reports'[p]
    BY <1>3, ObserveGood DEF IInv
  <2>2. disk' = disk
    BY <1>3 DEF ObserveFlow
  <2>3. ASSUME disk # None PROVE Good(disk)'
    <3>1. Good(disk)
      BY <2>3 DEF IInv, StoresInv
    <3>2. \A p \in Procs : disk.base.beacons[p] \in Nat /\ reports[p] \in Nat /\ reports'[p] \in Nat
      BY <2>1, <3>1 DEF Good, Stores, Bases, IInv, Types
    <3>3. Counts(disk)'
      BY <2>1, <2>2, <3>1, <3>2 DEF Good, Counts
    <3>4. QED BY <2>2, <3>1, <3>3 DEF Good, Sized, Remembers
  <2>4. QED BY <2>1, <2>2, <2>3 DEF StoresInv
<1>4. CASE Persist
  <2>1. /\ store' = [store EXCEPT !.base = Prune(@, now)]
        /\ disk' = store' \/ disk' = disk
        /\ reports' = reports
    BY <1>4 DEF Persist, Goes
  <2>2. Good([store EXCEPT !.base = Prune(@, now)])
    BY PruneGood DEF IInv, StoresInv, Types
  <2>3. Good(store)'
    BY <2>1, <2>2 DEF Good, Sized, Remembers, Counts
  <2>4. disk' = store' => Good(disk)'
    BY <2>3 DEF Good, Sized, Remembers, Counts
  <2>5. disk' = disk /\ disk # None => Good(disk)'
    BY <2>1 DEF IInv, StoresInv, Good, Sized, Remembers, Counts
  <2>6. QED BY <2>1, <2>3, <2>4, <2>5 DEF StoresInv
<1>5. CASE Restart
  <2>1. store' = Untaught /\ UNCHANGED <<disk, reports>>
    BY <1>5 DEF Restart
  <2>2. Good(Untaught)
    BY UntaughtGood DEF IInv
  <2>3. Good(store)'
    BY <2>1, <2>2 DEF Good, Sized, Remembers, Counts
  <2>4. QED BY <2>1, <2>3, StoresKept
<1>6. CASE Stop \/ StartWindow \/ WindowOver \/ EmptyWindow \/ Score \/ AppendWindow \/ Fire \/ Tick \/ Cancel
  BY <1>1, <1>6 DEF Stop, StartWindow, WindowOver, EmptyWindow, Score, AppendWindow, Fire, Tick,
     Cancel, Goes, learning
<1>7. ASSUME NEW i \in DOMAIN capture, Open(i) \/ OpenFails(i) \/ CaptureEnds(i) PROVE StoresInv'
  BY <1>1, <1>7 DEF Open, OpenFails, CaptureEnds, CaptureGoes, learning
<1>8. CASE UNCHANGED vars
  BY <1>1, <1>8 DEF vars
<1>9. QED
  BY <1>2, <1>3, <1>4, <1>5, <1>6, <1>7, <1>8 DEF Next, Daemon, RunWindow

(* Every step keeps the rest of the state well formed: windows are numbered in
   order, and what is stored, unsaved or unalerted is one of them. *)
LEMMA StepTypes == IInv /\ [Next]_vars => Types'
<1> SUFFICES ASSUME IInv, [Next]_vars PROVE Types'
  OBVIOUS
<1> USE Parameters DEF IInv
<1>1. /\ Types /\ window \in Nat /\ window <= MaxWindows
      /\ 1 .. window \subseteq 1 .. (window + 1)
  BY DEF Types
<1>2. ASSUME NEW cfg \in Configs, Run(cfg) PROVE Types'
  BY <1>1, <1>2 DEF Run, Types, Places, InWindow, results, bounds
<1>3. CASE Stop \/ WindowOver \/ EmptyWindow \/ Cancel
  BY <1>1, <1>3 DEF Stop, WindowOver, EmptyWindow, Cancel, Joined, Types, Places, InWindow, learning, results,
     bounds, loop
<1>4. CASE Tick
  BY <1>1, <1>4 DEF Tick, Types, Places, InWindow, learning, results, bounds, loop
<1>5. CASE StartWindow
  <2>1. /\ window' = window + 1 /\ window' \in 0 .. MaxWindows
        /\ UNCHANGED <<stored, unsaved, unalerted>>
    BY <1>1, <1>5 DEF StartWindow, learning, results
  <2>2. stored' \subseteq 1 .. window' /\ unsaved' \subseteq 1 .. window' /\ unalerted' \subseteq 1 .. window'
    BY <1>1, <2>1 DEF Types
  <2>3. /\ pc' \in Places /\ over' \in BOOLEAN
        /\ UNCHANGED <<now, cancelled, flows, urgent, reports, restarts, blind>>
    BY <1>5 DEF StartWindow, Places, InWindow, learning, results, bounds
  <2>4. QED BY <1>1, <2>1, <2>2, <2>3 DEF Types
<1>6. ASSUME NEW i \in DOMAIN capture, Open(i) \/ OpenFails(i) \/ CaptureEnds(i) PROVE Types'
  BY <1>1, <1>6 DEF Open, OpenFails, CaptureEnds, CaptureGoes, Types, Places, InWindow, learning, results
<1>7. CASE Score
  <2>1. PICK fs \in SUBSET Flows : flows' = {Scored(f) : f \in fs}
    BY <1>7 DEF Score
  <2>2. \A f \in fs : Scored(f) \in [flow : Flows, new : BOOLEAN, expected : BOOLEAN]
    BY DEF Scored, IsNewDestination, IsExpectedBeaconer
  <2>3. flows' \subseteq [flow : Flows, new : BOOLEAN, expected : BOOLEAN]
    BY <2>1, <2>2
  <2>4. /\ pc \in InWindow /\ pc' \in Places /\ over' \in BOOLEAN /\ urgent' \in BOOLEAN
        /\ UNCHANGED <<now, cancelled, window, reports, unsaved, blind, stored, unalerted, restarts>>
    BY <1>7 DEF Score, AllDone, Joined, Places, InWindow, learning, results, bounds
  <2>5. QED BY <1>1, <2>3, <2>4 DEF Types
<1>8. ASSUME NEW r \in flows, ObserveFlow(r) PROVE Types'
  <2>1. reports' \in [Procs -> Nat]
    BY <1>8, ObserveGood
  <2>2. QED BY <1>1, <1>8, <2>1 DEF ObserveFlow, Types, Places, InWindow, results, bounds
<1>9. CASE Persist
  <2>1. pc = "observing" /\ pc' = "storing" /\ window' = window /\ blind' \in BOOLEAN
        /\ unsaved' \subseteq unsaved \union stored \union {window}
        /\ UNCHANGED <<now, cancelled, over, urgent, flows, reports, restarts, stored, unalerted>>
    BY <1>1, <1>9 DEF Persist, WrittenOver, Goes, results, Types
  <2>2. window \in 1 .. window
    BY <1>1, <2>1 DEF Types, InWindow
  <2>3. unsaved' \subseteq 1 .. window'
    BY <1>1, <2>1, <2>2 DEF Types
  <2>4. QED BY <1>1, <2>1, <2>3 DEF Types, Places, InWindow
<1>10. CASE AppendWindow
  <2>1. /\ pc = "storing" /\ pc' = "firing" /\ window' = window
        /\ stored' \subseteq stored \union {window} /\ unalerted' \subseteq unalerted \union {window}
        /\ UNCHANGED <<now, cancelled, over, urgent, flows, reports, restarts, unsaved, blind>>
    BY <1>10 DEF AppendWindow, Goes, results
  <2>2. window \in 1 .. window
    BY <1>1, <2>1 DEF Types, InWindow
  <2>3. stored' \subseteq 1 .. window' /\ unalerted' \subseteq 1 .. window'
    BY <1>1, <2>1, <2>2 DEF Types
  <2>4. QED BY <1>1, <2>1, <2>3 DEF Types, Places, InWindow
<1>11. CASE Fire
  BY <1>1, <1>11 DEF Fire, Goes, Types, Places, InWindow
<1>12. CASE Restart
  <2>1. restarts' \in Nat /\ flows' = {}
    BY <1>1, <1>12 DEF Restart, Types
  <2>2. QED BY <1>1, <1>12, <2>1 DEF Restart, Types, Places, InWindow, results
<1>13. CASE UNCHANGED vars
  BY <1>1, <1>13 DEF vars, loop, learning, results, bounds, Types
<1>14. QED
  BY <1>2, <1>3, <1>4, <1>5, <1>6, <1>7, <1>8, <1>9, <1>10, <1>11, <1>12, <1>13
     DEF Next, Daemon, RunWindow

(* The inductive invariant holds of every behaviour. *)
LEMMA Invariant == Spec => []IInv
<1>1. IInv /\ [Next]_vars => IInv'
  BY StepTypes, StepStores DEF IInv
<1>2. QED BY InitIInv, <1>1, PTL DEF Spec

(* The type invariant of the daemon, with the sizes the baseline promises for
   what is in memory and what is in the file (baseline.go:67, 177). *)
THEOREM TypeCorrect == Spec => []TypeOK
<1>1. IInv => TypeOK
  <2> SUFFICES ASSUME IInv PROVE TypeOK
    OBVIOUS
  <2>1. /\ pc \in Places /\ {cancelled, over, urgent, blind} \subseteq BOOLEAN
        /\ flows \subseteq [flow : Flows, new : BOOLEAN, expected : BOOLEAN]
        /\ window \in 0 .. MaxWindows /\ stored \union unsaved \union unalerted \subseteq 1 .. window
    BY DEF IInv, Types
  <2>2. /\ store \in Stores /\ disk \in Stores \union {None}
        /\ Sized(store) /\ (disk # None => Sized(disk))
    BY DEF IInv, StoresInv, Good
  <2>3. \A s \in {store} \union ({disk} \ {None}) : Sized(s)
    BY <2>2
  <2>4. QED BY <2>1, <2>2, <2>3 DEF TypeOK, Places, Sized
<1>2. QED BY Invariant, <1>1, PTL

(* A destination the baseline has been told of is reported as new again only
   by a process whose set is full (baseline.go:67), over windows, failed
   writes, restarts and pruning. *)
THEOREM NewOnlyOnceHolds == Spec => NewOnlyOnce
<1>1. ASSUME IInv, Next, Scores, NEW r \in flows',
             r.new, <<r.flow.proc, r.flow.dst>> \in store.told
      PROVE  Cardinality(store.base.seen[r.flow.proc]) = MaxDests
  <2>1. Score
    BY <1>1 DEF Scores, Next, Daemon, RunWindow, Run, Stop, StartWindow, WindowOver, Open, OpenFails,
       CaptureEnds, CaptureGoes, EmptyWindow, ObserveFlow, Persist, AppendWindow, Fire, Goes, Tick,
       Cancel, Restart, loop
  <2>2. PICK fs \in SUBSET Flows : flows' = {Scored(f) : f \in fs}
    BY <2>1 DEF Score
  <2>3. PICK f \in fs : r = Scored(f)
    BY <2>2
  <2>4. /\ r.flow = f /\ f.proc \in Procs /\ f.dst \in Dests
        /\ f.dst \notin store.base.seen[f.proc]
    BY <1>1, <2>3, Parameters DEF Scored, IsNewDestination
  <2>5. Remembers(store)
    BY <1>1 DEF IInv, StoresInv, Good
  <2>6. QED BY <1>1, <2>4, <2>5 DEF Remembers
<1>2. IInv /\ [Next]_vars =>
        [Scores => \A r \in flows' :
           r.new /\ <<r.flow.proc, r.flow.dst>> \in store.told =>
             Cardinality(store.base.seen[r.flow.proc]) = MaxDests]_vars
  BY <1>1
<1>3. QED BY Invariant, <1>2, PTL DEF Spec, NewOnlyOnce

(* The signal of a periodic flow is left out only for a process that was
   reported at least minBeaconingObs times, none of them counted twice
   (baseline.go:204-222, 379). *)
THEOREM SuppressedWasReportedHolds == Spec => SuppressedWasReported
<1>1. ASSUME IInv, Next, Scores, NEW r \in flows', r.expected
      PROVE  reports[r.flow.proc] >= MinBeaconingObs
  <2>1. Score
    BY <1>1 DEF Scores, Next, Daemon, RunWindow, Run, Stop, StartWindow, WindowOver, Open, OpenFails,
       CaptureEnds, CaptureGoes, EmptyWindow, ObserveFlow, Persist, AppendWindow, Fire, Goes, Tick,
       Cancel, Restart, loop
  <2>2. PICK fs \in SUBSET Flows : flows' = {Scored(f) : f \in fs}
    BY <2>1 DEF Score
  <2>3. PICK f \in fs : r = Scored(f)
    BY <2>2
  <2>4. r.flow = f /\ f.proc \in Procs /\ store.base.beacons[f.proc] >= MinBeaconingObs
    BY <1>1, <2>3, Parameters DEF Scored, IsExpectedBeaconer
  <2>5. /\ store.base.beacons[f.proc] <= reports[f.proc]
        /\ store.base.beacons[f.proc] \in Nat /\ reports[f.proc] \in Nat
    BY <1>1, <2>4 DEF IInv, StoresInv, Good, Counts, Stores, Bases, Types
  <2>6. QED BY <2>4, <2>5, Parameters
<1>2. IInv /\ [Next]_vars =>
        [Scores => \A r \in flows' : r.expected => reports[r.flow.proc] >= MinBeaconingObs]_vars
  BY <1>1
<1>3. QED BY Invariant, <1>2, PTL DEF Spec, SuppressedWasReported

----------------------------------------------------------------------------
(* While a loop runs, its store has everything of the file unless it could not
   read it, and a window is taught before it is written and written before it
   is stored. *)
Running == DOMAIN capture # {}

LearnedInv ==
  /\ pc \in InWindow \union {"loop"} => Running
  /\ \A w \in stored \ unsaved : disk # None /\ w \in disk.windows
  /\ Running /\ disk # None /\ ~blind =>
       /\ disk.windows \subseteq store.windows
       /\ \A p \in Procs : disk.base.beacons[p] <= store.base.beacons[p]
  /\ pc = "observing" => flows # {} \/ window \in store.windows
  /\ pc \in {"storing", "firing"} => window \in unsaved \/ (disk # None /\ window \in disk.windows)

(* What the steps below need to know of the stores. *)
LEMMA StoreShape ==
  ASSUME IInv
  PROVE  /\ store \in Stores /\ store.base \in Bases
         /\ \A p \in Procs : store.base.beacons[p] \in Nat
         /\ disk # None => /\ disk \in Stores /\ disk.base \in Bases
                           /\ \A p \in Procs : disk.base.beacons[p] \in Nat
BY DEF IInv, StoresInv, Good, Stores, Bases

(* A window is taught before it is saved, saved (or found unsaved) before it is
   stored, and a new process reads what the file has. *)
LEMMA LearnedStep == IInv /\ StoresInv' /\ LearnedInv /\ [Next]_vars => LearnedInv'
<1> SUFFICES ASSUME IInv, StoresInv', LearnedInv, [Next]_vars PROVE LearnedInv'
  OBVIOUS
<1>1. ASSUME NEW cfg \in Configs, Run(cfg) PROVE LearnedInv'
  <2>1. /\ pc' = (IF ActiveInterfaces(cfg) = {} THEN "stopped" ELSE "loop")
        /\ Running' <=> ActiveInterfaces(cfg) # {}
        /\ \/ blind'
           \/ store' = IF disk = None \/ ActiveInterfaces(cfg) = {} THEN Untaught
                       ELSE [disk EXCEPT !.base = Load(@, now)]
        /\ UNCHANGED <<disk, stored, unsaved>>
    BY <1>1 DEF Run, results, Running
  <2>2. ASSUME disk # None, ActiveInterfaces(cfg) # {}, ~blind'
        PROVE  store'.windows = disk.windows /\ store'.base.beacons = disk.base.beacons
    <3>1. Good(disk) /\ reports \in [Procs -> Nat] /\ now \in Nat
      BY <2>2 DEF IInv, StoresInv, Types
    <3>2. QED BY <2>1, <2>2, <3>1, PruneGood DEF Load
  <2>3. ASSUME disk # None, ActiveInterfaces(cfg) # {}, ~blind'
        PROVE  /\ disk'.windows \subseteq store'.windows
               /\ \A p \in Procs : disk'.base.beacons[p] <= store'.base.beacons[p]
    BY <2>1, <2>2, <2>3, StoreShape
  <2>4. QED BY <2>1, <2>3 DEF LearnedInv, InWindow
<1>2. CASE Stop \/ WindowOver \/ EmptyWindow \/ Cancel \/ Tick
  BY <1>2 DEF Stop, WindowOver, EmptyWindow, AllDone, Cancel, Tick, Joined, LearnedInv, Running, InWindow,
     learning, results, loop
<1>3. CASE StartWindow
  BY <1>3 DEF StartWindow, LearnedInv, Running, InWindow, learning, results
<1>4. ASSUME NEW i \in DOMAIN capture, Open(i) \/ OpenFails(i) \/ CaptureEnds(i) PROVE LearnedInv'
  BY <1>4 DEF Open, OpenFails, CaptureEnds, CaptureGoes, LearnedInv, Running, InWindow, learning, results
<1>5. CASE Score
  <2>1. /\ pc = "capturing" /\ pc' = "observing" /\ DOMAIN capture' = DOMAIN capture
        /\ UNCHANGED <<window, store, disk, stored, unsaved, blind>>
    BY <1>5 DEF Score, AllDone, Joined, results, learning
  <2>2. PICK fs \in SUBSET Flows : fs # {} /\ flows' = {Scored(f) : f \in fs}
    BY <1>5 DEF Score
  <2>3. flows' # {}
    BY <2>2
  <2>4. QED BY <2>1, <2>3 DEF LearnedInv, Running, InWindow
<1>6. ASSUME NEW r \in flows, ObserveFlow(r) PROVE LearnedInv'
  <2>1. /\ pc = "observing" /\ UNCHANGED <<pc, capture, window, disk, stored, unsaved, blind>>
        /\ store'.windows = store.windows \union {window}
        /\ store'.base = Taught(r)
    BY <1>6 DEF ObserveFlow, results
  <2>2. r.flow.proc \in Procs
    BY Parameters DEF IInv, Types
  <2>3. \A p \in Procs : store.base.beacons[p] <= Taught(r).beacons[p]
    <3>1. Taught(r).beacons = IF Reported(r) THEN [store.base.beacons EXCEPT ![r.flow.proc] = @ + 1]
                              ELSE store.base.beacons
      BY StoreShape DEF Taught, Observe, ObserveDest, ObserveBeaconing, Bases
    <3>2. store.base.beacons \in [Procs -> Nat]
      BY StoreShape DEF Bases
    <3>3. QED BY <2>2, <3>1, <3>2
  <2>4. \A p \in Procs : Taught(r).beacons[p] \in Nat
    BY <2>1 DEF StoresInv, Good, Stores, Bases
  <2>5. disk # None /\ Running /\ ~blind => \A p \in Procs : disk.base.beacons[p] <= Taught(r).beacons[p]
    BY <2>3, <2>4, StoreShape DEF LearnedInv
  <2>6. QED BY <2>1, <2>5 DEF LearnedInv, Running
<1>7. CASE Persist
  <2>1. /\ pc = "observing" /\ pc' = "storing" /\ flows = {}
        /\ UNCHANGED <<capture, window, stored>>
        /\ store' = [store EXCEPT !.base = Prune(@, now)]
        /\ \/ disk' = store' /\ unsaved' = (unsaved \union WrittenOver) \ store.windows
           \/ disk' = disk /\ unsaved' = unsaved \union {window} /\ blind' = blind
    BY <1>7 DEF Persist, Goes, results
  <2>2. store'.windows = store.windows /\ store'.base.beacons = store.base.beacons
    BY <2>1, PruneGood DEF IInv, StoresInv, Types
  <2>3. window \in store.windows /\ Running /\ Running'
    BY <2>1 DEF LearnedInv, InWindow, Running
  <2>4. \A w \in stored \ (unsaved \union WrittenOver) : w \in store.windows
    BY <2>3 DEF LearnedInv, WrittenOver
  <2>5. CASE disk' = store' /\ unsaved' = (unsaved \union WrittenOver) \ store.windows
    <3>1. disk' # None
      BY <2>5, Parameters DEF StoresInv, Good
    <3>2. \A w \in stored' \ unsaved' : w \in disk'.windows
      BY <2>1, <2>2, <2>4, <2>5
    <3>3. \A p \in Procs : disk'.base.beacons[p] <= store'.base.beacons[p]
      BY <2>2, <2>5, StoreShape
    <3>4. QED BY <2>1, <2>2, <2>3, <2>5, <3>1, <3>2, <3>3 DEF LearnedInv
  <2>6. CASE disk' = disk /\ unsaved' = unsaved \union {window} /\ blind' = blind
    BY <2>1, <2>2, <2>3, <2>6 DEF LearnedInv
  <2>7. QED BY <2>1, <2>5, <2>6
<1>8. CASE AppendWindow
  BY <1>8 DEF AppendWindow, Goes, LearnedInv, InWindow, Running, results
<1>9. CASE Fire
  BY <1>9 DEF Fire, Goes, LearnedInv, InWindow, Running
<1>10. CASE Restart
  <2>1. /\ pc' = "off" /\ capture' = <<>> /\ UNCHANGED <<disk, stored, unsaved>>
    BY <1>10 DEF Restart, results
  <2>2. ~Running'
    BY <2>1 DEF Running
  <2>3. QED BY <2>1, <2>2 DEF LearnedInv, InWindow
<1>11. CASE UNCHANGED vars
  BY <1>11 DEF vars, loop, learning, results, LearnedInv, Running
<1>12. QED
  BY <1>1, <1>2, <1>3, <1>4, <1>5, <1>6, <1>7, <1>8, <1>9, <1>10, <1>11 DEF Next, Daemon, RunWindow

(* So what the history, the file and the memory know is always in that order. *)
LEMMA LearnedAlways == Spec => []LearnedInv
<1>1. Init => LearnedInv
  BY DEF Init, LearnedInv, Running, InWindow
<1>2. IInv /\ [Next]_vars => StoresInv'
  BY StepStores
<1>3. QED BY Invariant, LearnedStep, <1>1, <1>2, PTL DEF Spec

(* A window of the history was taught to the baseline and saved with it, unless
   that save failed or a process that could not read the file wrote over it
   (daemon.go:381-396, baseline.go:350-390). *)
THEOREM StoredIsLearnedHolds == Spec => []StoredIsLearned
<1>1. LearnedInv => StoredIsLearned
  BY DEF LearnedInv, StoredIsLearned
<1>2. QED BY LearnedAlways, <1>1, PTL

(* An expected beaconer of the file is one of the running loop, unless that loop
   began without being able to read the file (baseline.go:204, 355-358). *)
THEOREM ExpectedStaysHolds == Spec => []ExpectedStays
<1>1. IInv /\ LearnedInv => ExpectedStays
  <2> SUFFICES ASSUME IInv, LearnedInv, disk # None, DOMAIN capture # {}, ~blind, NEW p \in Procs,
                      disk.base.beacons[p] >= MinBeaconingObs
               PROVE  store.base.beacons[p] >= MinBeaconingObs
    BY DEF ExpectedStays, IsExpectedBeaconer
  <2>1. disk.base.beacons[p] <= store.base.beacons[p]
    BY DEF LearnedInv, Running
  <2>2. disk.base.beacons[p] \in Nat /\ store.base.beacons[p] \in Nat
    BY StoreShape
  <2>3. QED BY <2>1, <2>2, Parameters
<1>2. QED BY Invariant, LearnedAlways, <1>1, PTL

----------------------------------------------------------------------------
(* The window that is about to be alerted does not count. *)
Overdue == unalerted \ (IF pc = "firing" THEN {window} ELSE {})
AlertInv == Cardinality(Overdue) <= restarts

(* The windows are finitely many, and at most one of those with an alert to
   come is the current one. *)
LEMMA Windows ==
  ASSUME Types
  PROVE  /\ IsFiniteSet(unalerted) /\ Cardinality(unalerted) \in Nat
         /\ IsFiniteSet(Overdue) /\ Cardinality(Overdue) \in Nat
         /\ Cardinality(unalerted) <= Cardinality(Overdue) + (IF pc = "firing" THEN 1 ELSE 0)
<1>1. IsFiniteSet(1 .. window)
  BY FS_Interval DEF Types
<1>2. IsFiniteSet(unalerted) /\ Cardinality(unalerted) \in Nat
  BY <1>1, FS_Subset, FS_CardinalityType DEF Types
<1>3. /\ IsFiniteSet(unalerted \ {window}) /\ Cardinality(unalerted \ {window}) \in Nat
      /\ Cardinality(unalerted) <= Cardinality(unalerted \ {window}) + 1
  <2>1. /\ IsFiniteSet(unalerted \ {window})
        /\ Cardinality(unalerted \ {window}) =
             IF window \in unalerted THEN Cardinality(unalerted) - 1 ELSE Cardinality(unalerted)
    BY <1>2, FS_RemoveElement
  <2>2. Cardinality(unalerted \ {window}) \in Nat
    BY <2>1, FS_CardinalityType
  <2>3. QED BY <1>2, <2>1, <2>2
<1>4. QED BY <1>2, <1>3 DEF Overdue

(* Only an end of the process leaves the current window overdue; the number of
   restarts grows with it. *)
LEMMA AlertStep == Types /\ Types' /\ AlertInv /\ [Next]_vars => AlertInv'
<1> SUFFICES ASSUME Types, Types', AlertInv, [Next]_vars PROVE AlertInv'
  OBVIOUS
<1> USE Windows
<1>1. CASE UNCHANGED <<pc, window, unalerted, restarts>>
  BY <1>1 DEF AlertInv, Overdue
<1>2. CASE UNCHANGED <<unalerted, restarts>> /\ pc # "firing" /\ pc' # "firing"
  BY <1>2 DEF AlertInv, Overdue
<1>3. CASE AppendWindow
  <2>1. Overdue' \subseteq Overdue /\ restarts' = restarts
    BY <1>3 DEF AppendWindow, Goes, Overdue, results
  <2>2. Cardinality(Overdue') <= Cardinality(Overdue)
    BY <2>1, FS_Subset
  <2>3. Cardinality(Overdue') \in Nat /\ restarts \in Nat
    BY <2>1, FS_Subset, FS_CardinalityType DEF Types
  <2>4. QED BY <2>1, <2>2, <2>3 DEF AlertInv
<1>4. CASE Fire
  BY <1>4 DEF Fire, Goes, AlertInv, Overdue
<1>5. CASE Restart
  <2>1. pc' = "off" /\ restarts' = restarts + 1 /\ unalerted' = unalerted
    BY <1>5 DEF Restart, results
  <2>2. Cardinality(Overdue) <= restarts /\ restarts \in Nat
    BY DEF AlertInv, Types
  <2>3. Cardinality(unalerted) <= restarts + 1
    BY <2>2
  <2>4. Overdue' = unalerted
    BY <2>1 DEF Overdue
  <2>5. QED BY <2>1, <2>3, <2>4 DEF AlertInv
<1>6. ASSUME NEW cfg \in Configs, Run(cfg) PROVE AlertInv'
  BY <1>2, <1>6 DEF Run, results, bounds
<1>7. ASSUME NEW r \in flows, ObserveFlow(r) PROVE AlertInv'
  BY <1>1, <1>7 DEF ObserveFlow, results, bounds
<1>8. ASSUME NEW i \in DOMAIN capture, Open(i) \/ OpenFails(i) \/ CaptureEnds(i) PROVE AlertInv'
  BY <1>1, <1>8 DEF Open, OpenFails, CaptureEnds, CaptureGoes, results
<1>9. CASE Stop \/ StartWindow \/ EmptyWindow \/ Score \/ Persist
  BY <1>2, <1>9 DEF Stop, StartWindow, EmptyWindow, Score, Persist, AllDone, Goes, results, bounds
<1>10. CASE WindowOver \/ Tick \/ Cancel \/ UNCHANGED vars
  BY <1>1, <1>10 DEF WindowOver, Tick, Cancel, vars, loop, results, bounds
<1>11. QED
  BY <1>3, <1>4, <1>5, <1>6, <1>7, <1>8, <1>9, <1>10 DEF Next, Daemon, RunWindow

(* Every end of the process leaves at most one stored window without its
   alerts (daemon.go:393-407). *)
THEOREM AlertedUnlessEndedHolds == Spec => []AlertedUnlessEnded
<1>1. Init => AlertInv
  BY FS_EmptySet DEF Init, AlertInv, Overdue
<1>2. IInv => Types
  BY DEF IInv
<1>3. Types /\ AlertInv => AlertedUnlessEnded
  <2> SUFFICES ASSUME Types, AlertInv PROVE AlertedUnlessEnded
    OBVIOUS
  <2>1. Cardinality(Overdue) <= restarts /\ restarts \in Nat
    BY DEF AlertInv, Types
  <2>2. QED BY <2>1, Windows DEF AlertedUnlessEnded
<1>4. QED BY Invariant, AlertStep, <1>1, <1>2, <1>3, PTL DEF Spec
=============================================================================
