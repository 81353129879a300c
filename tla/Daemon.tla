------------------------------- MODULE Daemon -------------------------------
(***************************************************************************)
(* internal/daemon/daemon.go: the loop of capture windows.  A window opens *)
(* one capture per interface, waits for all of them, takes the flows,      *)
(* scores them against the baseline, teaches the baseline, writes it,      *)
(* appends the window to the history and fires the alerts, in this order,  *)
(* with nothing that ties these writes together.  Every write may fail     *)
(* (it is logged and the window goes on) and the process may end between   *)
(* any two steps and start again from what is on disk.  Here a flow is new *)
(* to its process or not, periodic or not, and a window has something to   *)
(* alert or not.  The table of flows, the scores, the process cache, the   *)
(* history file and the alert limiter have modules of their own; metrics   *)
(* and log lines are left out.  runWindow returns no error on any path.    *)
(***************************************************************************)
EXTENDS Baseline, Sequences

CONSTANTS
  Flows,         \* records [proc, dst, periodic] a window may contain
  Configs,       \* records [single, list, found] of interface settings
  None,
  MaxFlows, MaxWindows, MaxRestarts, MaxFaults, MaxClock   \* bounds of the model

Stores == [base : Bases, told : SUBSET (Procs \X Dests), windows : SUBSET Nat]

ASSUME DaemonParameters ==
  /\ Flows \subseteq [proc : Procs, dst : Dests, periodic : BOOLEAN]
  /\ None \notin Stores
  /\ {MaxFlows, MaxWindows, MaxRestarts, MaxFaults, MaxClock} \subseteq Nat

VARIABLES
  now,
  cancelled,     \* ctx is done
  pc,            \* where Run and runWindow stand
  capture,       \* the capture goroutines: interface -> where it stands
  over,          \* winCtx is done
  flows,         \* the scored flows still to be observed
  urgent,        \* some flow of this window reaches the alert threshold
  store,         \* the baseline in memory, and which windows and pairs it was taught
  disk,          \* the same in the baseline file, or None
  window,        \* number of the current window (bounds the model)
  stored,        \* the windows appended to the history
  unalerted,     \* history: the windows stored with something to alert that is not yet passed on
  reports,       \* history: flows reported as beaconing, per process, over all runs
  unsaved,       \* history: windows whose observations no write has saved, or one wrote over
  blind,         \* history: this process could not read the file and has not replaced it
  restarts, faults

loop == <<pc, capture, over, flows, urgent, window>>
learning == <<store, disk, reports, unsaved, blind>>
results == <<stored, unalerted>>
bounds == <<restarts, faults>>
vars == <<now, cancelled, loop, learning, results, bounds>>

Untaught == [base |-> EmptyStore, told |-> {}, windows |-> {}]
----------------------------------------------------------------------------
(* The interfaces of a window, each by its name: one listed twice is opened twice
   by the code and once here.  The list has priority, then the single name, then
   the first interface found that is not a loopback one, those with an address
   before others. *)
ResolveInterfaces(cfg) ==
  IF cfg.list # <<>> THEN cfg.list ELSE IF cfg.single # None THEN <<cfg.single>> ELSE <<>>

SelectInterface(found) ==
  LET usable == SelectSeq(found, LAMBDA i : ~i.loopback)
      addressed == SelectSeq(usable, LAMBDA i : i.addressed)
  IN IF addressed # <<>> THEN addressed[1].name
     ELSE IF usable # <<>> THEN usable[1].name ELSE None

ActiveInterfaces(cfg) ==
  LET names == ResolveInterfaces(cfg)
      auto == SelectInterface(cfg.found)
  IN IF names # <<>> THEN {names[i] : i \in DOMAIN names}
     ELSE IF auto # None THEN {auto} ELSE {}

Init ==
  /\ now = 0 /\ cancelled = FALSE
  /\ pc = "off" /\ capture = <<>> /\ over = FALSE /\ flows = {} /\ urgent = FALSE
  /\ window = 0
  /\ store = Untaught /\ disk = None
  /\ reports = [p \in Procs |-> 0] /\ unsaved = {} /\ blind = FALSE
  /\ stored = {} /\ unalerted = {}
  /\ restarts = 0 /\ faults = 0

Fault == faults < MaxFaults /\ faults' = faults + 1

(* The head of Run: the interfaces are resolved once, and without any the
   daemon ends while the rest of the program goes on; baseline.Init reads the
   file into the empty store.  A file that cannot be read or parsed is passed
   over without a word, and the store stays empty. *)
Run(cfg) ==
  /\ pc = "off"
  /\ capture' = [i \in ActiveInterfaces(cfg) |-> "ended"]
  /\ pc' = IF ActiveInterfaces(cfg) = {} THEN "stopped" ELSE "loop"
  /\ \/ /\ store' = IF disk = None \/ ActiveInterfaces(cfg) = {} THEN Untaught
                    ELSE [disk EXCEPT !.base = Load(@, now)]
        /\ UNCHANGED <<blind, faults>>
     \/ /\ disk # None /\ ActiveInterfaces(cfg) # {}
        /\ store' = Untaught /\ blind' = TRUE
        /\ Fault
  /\ UNCHANGED <<now, cancelled, over, flows, urgent, window, disk, reports,
                 unsaved, results, restarts>>

(* Time passes in the windows and between two runs of the process. *)
Tick ==
  /\ now < MaxClock /\ pc \in {"off", "capturing"}
  /\ now' = now + 1
  /\ UNCHANGED <<cancelled, loop, learning, results, bounds>>

Cancel ==
  /\ ~cancelled
  /\ cancelled' = TRUE
  /\ UNCHANGED <<now, loop, learning, results, bounds>>

(* The select at the head of the loop. *)
Stop ==
  /\ pc = "loop" /\ cancelled
  /\ pc' = "stopped"
  /\ UNCHANGED <<now, cancelled, capture, over, flows, urgent, window, learning, results, bounds>>

StartWindow ==
  /\ pc = "loop" /\ ~cancelled
  /\ window < MaxWindows
  /\ window' = window + 1
  /\ pc' = "capturing"
  /\ over' = FALSE
  /\ capture' = [i \in DOMAIN capture |-> "opening"]
  /\ UNCHANGED <<now, cancelled, flows, urgent, learning, results, bounds>>

(* winCtx ends with the interval, or with ctx. *)
WindowOver ==
  /\ pc = "capturing" /\ ~over
  /\ over' = TRUE
  /\ UNCHANGED <<now, cancelled, pc, capture, flows, urgent, window, learning, results, bounds>>

(* A capture goroutine: it ends at once when its interface cannot be opened,
   and else when the channel is closed because winCtx is done. *)
CaptureGoes(i, from, to) ==
  /\ i \in DOMAIN capture /\ capture[i] = from
  /\ capture' = [capture EXCEPT ![i] = to]
  /\ UNCHANGED <<now, cancelled, pc, over, flows, urgent, window, learning, results, restarts>>

Open(i) == CaptureGoes(i, "opening", "open") /\ UNCHANGED faults
OpenFails_NoDone(i) == CaptureGoes(i, "opening", "stuck") /\ Fault
OpenFails(i) == CaptureGoes(i, "opening", "failed") /\ Fault
CaptureEnds(i) == over /\ CaptureGoes(i, "open", "ended") /\ UNCHANGED faults

(* wg.Wait, and then the flows of the window, if there are any.  From here on
   nothing waits for winCtx, and the capture goroutines are gone. *)
AllDone == pc = "capturing" /\ \A i \in DOMAIN capture : capture[i] \in {"failed", "ended"}

Joined == over' = TRUE /\ capture' = [i \in DOMAIN capture |-> "ended"]

EmptyWindow ==
  /\ AllDone /\ Joined
  /\ pc' = "loop"
  /\ UNCHANGED <<now, cancelled, flows, urgent, window, learning, results, bounds>>

(* Finalize: what the baseline of the windows before says of a flow.  The
   signal of a periodic flow is left out for an expected beaconer. *)
Scored(f) ==
  [flow |-> f,
   new |-> IsNewDestination(store.base, f.proc, f.dst),
   expected |-> IsExpectedBeaconer(store.base, f.proc)]
Reported(r) == r.flow.periodic /\ ~r.expected

Score ==
  /\ AllDone /\ Joined
  /\ \E i \in DOMAIN capture : capture[i] = "ended"
  /\ \E fs \in SUBSET Flows :
       /\ fs # {} /\ Cardinality(fs) <= MaxFlows
       /\ flows' = {Scored(f) : f \in fs}
  /\ urgent' \in BOOLEAN
  /\ pc' = "observing"
  /\ UNCHANGED <<now, cancelled, window, learning, results, bounds>>

(* Observe, ObserveDest and, when the flow was reported, ObserveBeaconing. *)
Taught_Twice(r) ==
  LET p == r.flow.proc
      b == ObserveDest(Observe(store.base, p, now), p, r.flow.dst)
  IN IF Reported(r) THEN ObserveBeaconing(ObserveBeaconing(b, p), p) ELSE b
Taught(r) ==
  LET p == r.flow.proc
      b == ObserveDest(Observe(store.base, p, now), p, r.flow.dst)
  IN IF Reported(r) THEN ObserveBeaconing(b, p) ELSE b

ObserveFlow(r) ==
  /\ pc = "observing" /\ r \in flows
  /\ store' = [base |-> Taught(r), told |-> store.told \union {<<r.flow.proc, r.flow.dst>>},
               windows |-> store.windows \union {window}]
  /\ reports' = IF Reported(r) THEN [reports EXCEPT ![r.flow.proc] = @ + 1] ELSE reports
  /\ flows' = flows \ {r}
  /\ UNCHANGED <<now, cancelled, pc, capture, over, urgent, window, disk, unsaved,
                 blind, results, bounds>>

Goes(from, to) ==
  /\ pc = from
  /\ pc' = to
  /\ UNCHANGED <<now, cancelled, capture, over, flows, window, reports, restarts>>

(* What a write loses: the stored windows of a file that was never read. *)
WrittenOver == IF blind THEN disk.windows \intersect stored ELSE {}

Persist_KeepsFile ==
  /\ Goes("observing", "storing") /\ flows = {} /\ UNCHANGED urgent
  /\ store' = [store EXCEPT !.base = Prune(@, now)]
  /\ disk' = IF disk = None THEN store' ELSE disk
  /\ unsaved' = (unsaved \union WrittenOver) \ store.windows
  /\ blind' = FALSE
  /\ UNCHANGED <<results, faults>>
(* baseline.Persist prunes and replaces the file in one step; when that fails
   the old file stays and the store is pruned all the same. *)
Persist ==
  /\ Goes("observing", "storing") /\ flows = {} /\ UNCHANGED urgent
  /\ store' = [store EXCEPT !.base = Prune(@, now)]
  /\ \/ /\ disk' = store' /\ blind' = FALSE
        /\ unsaved' = (unsaved \union WrittenOver) \ store.windows
        /\ UNCHANGED faults
     \/ /\ unsaved' = unsaved \union {window}
        /\ UNCHANGED <<disk, blind>> /\ Fault
  /\ UNCHANGED results

(* history.Append, and then alerting.Fire, which does not depend on it. *)
AppendWindow ==
  /\ Goes("storing", "firing") /\ UNCHANGED urgent
  /\ \/ /\ stored' = stored \union {window}
        /\ unalerted' = IF urgent THEN unalerted \union {window} ELSE unalerted
        /\ UNCHANGED faults
     \/ UNCHANGED results /\ Fault
  /\ UNCHANGED <<store, disk, unsaved, blind>>

Fire_NotWhenCancelled ==
  /\ Goes("firing", "loop") /\ urgent' = FALSE
  /\ unalerted' = IF cancelled THEN unalerted ELSE unalerted \ {window}
  /\ UNCHANGED <<stored, store, disk, unsaved, blind, faults>>
Fire ==
  /\ Goes("firing", "loop") /\ urgent' = FALSE
  /\ unalerted' = unalerted \ {window}
  /\ UNCHANGED <<stored, store, disk, unsaved, blind, faults>>

(* The process ends, anywhere, and its successor has not reached Run yet. *)
Restart ==
  /\ restarts < MaxRestarts
  /\ restarts' = restarts + 1
  /\ pc' = "off" /\ cancelled' = FALSE
  /\ capture' = <<>> /\ over' = FALSE /\ flows' = {} /\ urgent' = FALSE
  /\ store' = Untaught /\ blind' = FALSE
  /\ UNCHANGED <<now, window, disk, reports, unsaved, results, faults>>

RunWindow ==
  \/ \E i \in DOMAIN capture : Open(i) \/ OpenFails(i) \/ CaptureEnds(i)
  \/ EmptyWindow
  \/ Score
  \/ \E r \in flows : ObserveFlow(r)
  \/ Persist \/ AppendWindow \/ Fire

Daemon == (\E cfg \in Configs : Run(cfg)) \/ Stop \/ StartWindow \/ WindowOver \/ RunWindow
Next == Daemon \/ Tick \/ Cancel \/ Restart

(* The goroutines are scheduled and the timer of winCtx expires.  Nobody has
   to cancel or restart the process. *)
Spec == Init /\ [][Next]_vars /\ WF_vars(Daemon)
----------------------------------------------------------------------------
(* Type invariant, with the sizes the baseline promises: no more destinations
   than maxDests, and a set that only ever lacks what did not fit. *)
TypeOK ==
  /\ pc \in {"off", "loop", "stopped", "capturing", "observing", "storing", "firing"}
  /\ {cancelled, over, urgent, blind} \subseteq BOOLEAN
  /\ flows \subseteq [flow : Flows, new : BOOLEAN, expected : BOOLEAN]
  /\ window \in 0 .. MaxWindows /\ stored \union unsaved \union unalerted \subseteq 1 .. window
  /\ store \in Stores /\ disk \in Stores \union {None}
  /\ \A s \in {store} \union ({disk} \ {None}) : \A p \in Procs :
       /\ Cardinality(s.base.seen[p]) <= MaxDests
       /\ Cardinality(s.base.seen[p]) <= s.base.count[p]
       /\ \A d \in s.base.seen[p] : <<p, d>> \in s.told
       /\ s.base.n[p] <= s.base.count[p]

(* "new IPs are counted but not remembered" only beyond maxDests
   (baseline.go:67): a destination of which the store has been told, in this
   run or in one whose baseline was saved, is reported as new again only by a
   process whose set is full. *)
Scores == pc = "capturing" /\ pc' = "observing"
NewOnlyOnce ==
  [][Scores => \A r \in flows' :
       r.new /\ <<r.flow.proc, r.flow.dst>> \in store.told =>
         Cardinality(store.base.seen[r.flow.proc]) = MaxDests]_vars

(* The signal is suppressed for good reason only: the process was reported as
   beaconing at least minBeaconingObs times, over all runs, none of them
   counted twice by a save and a load. *)
SuppressedWasReported ==
  [][Scores => \A r \in flows' : r.expected => reports[r.flow.proc] >= MinBeaconingObs]_vars

(* "After minBeaconingObs observations the process becomes an expected
   beaconer" (baseline.go:204), and stays one: saving, pruning and loading
   never take it back, unless the process was ended before the file was
   written, or began without being able to read it (and then only until it
   writes a file of its own). *)
ExpectedStays ==
  disk # None /\ DOMAIN capture # {} /\ ~blind =>
    \A p \in Procs : IsExpectedBeaconer(disk.base, p) => IsExpectedBeaconer(store.base, p)

(* A window that is in the history was taught to the baseline before, so a
   restart never forgets what the history still knows, unless the baseline of
   that window could not be written, or was written over by a process that
   could not read it. *)
StoredIsLearned ==
  \A w \in stored \ unsaved : disk # None /\ w \in disk.windows

(* A window with something to alert is stored first and alerted next: only an
   end of the process between the two leaves it stored without its alerts,
   at most one window each time (the history is not read back to alert). *)
AlertedUnlessEnded ==
  Cardinality(unalerted) <= restarts + (IF pc = "firing" THEN 1 ELSE 0)

(* Cancelling ends the daemon, whatever window it is in and whichever of its
   interfaces could be opened ("It blocks until ctx is cancelled",
   daemon.go:107). *)
CancelStops == cancelled ~> (pc = "stopped" \/ ~cancelled)
=============================================================================
