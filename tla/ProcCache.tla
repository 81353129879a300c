----------------------------- MODULE ProcCache -----------------------------
(***************************************************************************)
(* The process cache of internal/correlate/correlate.go.  The daemon builds*)
(* a socket table at the start of every window and again every two seconds *)
(* in a goroutine that the end of the window stops but nothing waits for,  *)
(* so builds of two windows may overlap.  They share one ProcCache: a build*)
(* lists the sockets, copies the cache under its lock, resolves each PID on*)
(* the copy without the lock, and under the lock again writes the copy back*)
(* and prunes.  Meanwhile processes start, open and close sockets and exit,*)
(* and the system gives their PIDs to others.                              *)
(*                                                                         *)
(* The metadata of a process is the number of its start (0 when the process*)
(* was gone before it was asked) and whether it is all of it or the name   *)
(* only.  The table a build returns holds the entry of its copy for every  *)
(* PID it listed.  A listing that fails returns an empty table before the  *)
(* cache is touched and is no step of the model.                           *)
(***************************************************************************)
EXTENDS Integers, FiniteSets

CONSTANTS
  Pids,
  Builders,    \* goroutines that may be inside buildSocketTable at once
  MaxStarts,   \* bound of the model: processes started
  None

ASSUME StartsAreBounded == MaxStarts \in Nat
ASSUME NoneIsNoValue ==
  /\ None \notin Pids
  /\ None \notin [start : Nat, parent : Pids \union {None}]
  /\ None \notin [start : Nat, full : BOOLEAN]

VARIABLES
  proc,     \* the operating system's processes: start number and parent
  sockets,  \* the PIDs that own a socket
  starts,   \* processes started so far
  procs,    \* ProcCache.procs, None where there is no entry
  stage,    \* where each builder stands
  active,   \* activePIDs: the PIDs in its listing
  todo,     \* the PIDs of the listing that it has not resolved yet
  local,    \* localCache
  alone,    \* history: no other build was open since the builder's listing
  gone      \* history: the starts of a PID that were over when a build alone pruned it

system == <<proc, sockets, starts>>
build == <<stage, active, todo, local, alone>>
vars == <<system, procs, build, gone>>

----------------------------------------------------------------------------
Empty == [p \in Pids |-> None]
Full(n) == [start |-> n, full |-> TRUE]
NameOnly(n) == [start |-> n, full |-> FALSE]
Unresolved == NameOnly(0)

Init ==
  /\ proc = Empty
  /\ sockets = {}
  /\ starts = 0
  /\ procs = Empty
  /\ stage = [b \in Builders |-> "idle"]
  /\ active = [b \in Builders |-> {}]
  /\ todo = [b \in Builders |-> {}]
  /\ local = [b \in Builders |-> Empty]
  /\ alone = [b \in Builders |-> FALSE]
  /\ gone = [p \in Pids |-> 0]

----------------------------------------------------------------------------
(* The system: a free PID is given to a new process, with or without a parent
   among the PIDs; the children of a process that exits lose their parent. *)
Start(p, parent) ==
  /\ proc[p] = None
  /\ starts < MaxStarts
  /\ parent # None => parent # p /\ proc[parent] # None
  /\ starts' = starts + 1
  /\ proc' = [proc EXCEPT ![p] = [start |-> starts', parent |-> parent]]
  /\ UNCHANGED <<sockets, procs, build, gone>>

OpenSocket(p) ==
  /\ proc[p] # None
  /\ p \notin sockets
  /\ sockets' = sockets \union {p}
  /\ UNCHANGED <<proc, starts, procs, build, gone>>

CloseSocket(p) ==
  /\ p \in sockets
  /\ sockets' = sockets \ {p}
  /\ UNCHANGED <<proc, starts, procs, build, gone>>

Exit(p) ==
  /\ proc[p] # None
  /\ proc' = [x \in Pids |->
       CASE x = p -> None
         [] x # p /\ proc[x] # None -> [proc[x] EXCEPT !.parent = IF @ = p THEN None ELSE @]
         [] OTHER -> None]
  /\ sockets' = sockets \ {p}
  /\ UNCHANGED <<starts, procs, build, gone>>

----------------------------------------------------------------------------
(* psnet.Connections. *)
ListSockets(b) ==
  /\ stage[b] = "idle"
  /\ stage' = [stage EXCEPT ![b] = "copy"]
  /\ active' = [active EXCEPT ![b] = sockets]
  /\ todo' = [todo EXCEPT ![b] = sockets]
  /\ alone' = [x \in Builders |-> x = b /\ \A y \in Builders : stage[y] = "idle"]
  /\ UNCHANGED <<system, procs, local, gone>>

CopyCache(b) ==
  /\ stage[b] = "copy"
  /\ stage' = [stage EXCEPT ![b] = "resolve"]
  /\ local' = [local EXCEPT ![b] = procs]
  /\ UNCHANGED <<system, procs, active, todo, alone, gone>>

(* resolveProcess: an entry of the copy is taken as it is; otherwise the
   system is asked, and a parent that is not in the copy gets an entry with
   its name only.  The sockets come in any order. *)
Resolved_NotKept(c, p) ==
  IF c[p] = None /\ proc[p] # None THEN [c EXCEPT ![p] = Full(proc[p].start)] ELSE c
Resolved(c, p) ==
  LET parent == proc[p].parent
  IN CASE c[p] # None -> c
       [] c[p] = None /\ proc[p] = None -> [c EXCEPT ![p] = Unresolved]
       [] c[p] = None /\ proc[p] # None ->
            [x \in Pids |-> CASE x = p -> Full(proc[p].start)
                              [] x = parent /\ c[x] = None -> NameOnly(proc[x].start)
                              [] OTHER -> c[x]]

Resolve(b, p) ==
  /\ stage[b] = "resolve"
  /\ p \in todo[b]
  /\ todo' = [todo EXCEPT ![b] = @ \ {p}]
  /\ local' = [local EXCEPT ![b] = Resolved(@, p)]
  /\ UNCHANGED <<system, procs, stage, active, alone, gone>>

(* The copy is written over the cache, then the PIDs that were not listed are
   pruned; the table is returned. *)
WrittenBack(b) == [p \in Pids |-> IF local[b][p] # None THEN local[b][p] ELSE procs[p]]
Pruned_First(b) == [p \in Pids |->
  IF local[b][p] # None THEN local[b][p] ELSE IF p \in active[b] THEN procs[p] ELSE None]
Pruned_Off(b) == WrittenBack(b)
Pruned(b) == [p \in Pids |-> IF p \in active[b] THEN WrittenBack(b)[p] ELSE None]

(* Every start up to this one is over for PID p. *)
Over(p) == IF proc[p] = None THEN starts ELSE proc[p].start - 1

WriteBack(b) ==
  /\ stage[b] = "resolve"
  /\ todo[b] = {}
  /\ procs' = Pruned(b)
  /\ stage' = [stage EXCEPT ![b] = "idle"]
  /\ active' = [active EXCEPT ![b] = {}]
  /\ local' = [local EXCEPT ![b] = Empty]
  /\ alone' = [alone EXCEPT ![b] = FALSE]
  /\ gone' = [p \in Pids |-> IF alone[b] /\ p \notin active[b] THEN Over(p) ELSE gone[p]]
  /\ UNCHANGED <<system, todo>>

Build(b) ==
  \/ ListSockets(b)
  \/ CopyCache(b)
  \/ \E p \in Pids : Resolve(b, p)
  \/ WriteBack(b)

Next ==
  \/ \E p \in Pids : \E parent \in Pids \union {None} : Start(p, parent)
  \/ \E p \in Pids : OpenSocket(p) \/ CloseSocket(p) \/ Exit(p)
  \/ \E b \in Builders : Build(b)

(* While the daemon runs its ticker starts a build again and again, and a
   build that was started ends: its calls to the system return. *)
Spec == Init /\ [][Next]_vars /\ \A b \in Builders : WF_vars(Build(b))

----------------------------------------------------------------------------
(* Type invariant; an entry describes a process that has been started. *)
Process == [start : 1 .. MaxStarts, parent : Pids \union {None}]
Info == [start : 0 .. MaxStarts, full : BOOLEAN]

TypeOK ==
  /\ starts \in 0 .. MaxStarts
  /\ proc \in [Pids -> Process \union {None}]
  /\ \A p \in Pids : proc[p] # None /\ proc[p].parent # None =>
       proc[p].parent # p /\ proc[proc[p].parent] # None
  /\ sockets \subseteq {p \in Pids : proc[p] # None}
  /\ procs \in [Pids -> Info \union {None}]
  /\ stage \in [Builders -> {"idle", "copy", "resolve"}]
  /\ active \in [Builders -> SUBSET Pids]
  /\ todo \in [Builders -> SUBSET Pids]
  /\ local \in [Builders -> [Pids -> Info \union {None}]]
  /\ alone \in [Builders -> BOOLEAN]
  /\ gone \in [Pids -> 0 .. MaxStarts]
  /\ \A b \in Builders : stage[b] = "copy" => todo[b] = active[b]
  /\ \A b \in Builders : \A p \in active[b] \ todo[b] :
       stage[b] = "resolve" => local[b][p] # None

(* "PIDs that disappear from the connection list are pruned" (correlate.go:64),
   so that a PID given to another process is resolved anew: once a build that
   overlapped no other has found a PID without sockets, no entry describes a
   process that was over by then. *)
ReusedIsResolvedAnew ==
  \A p \in Pids : procs[p] # None => procs[p].start = 0 \/ procs[p].start > gone[p]

(* "... are pruned to prevent leaks" (correlate.go:64): a PID that stays
   without sockets leaves the cache for good, although a build that listed it
   earlier may put it back once. *)
NoLeak == \A p \in Pids : <>[](p \notin sockets) => <>[](procs[p] = None)
=============================================================================
