--------------------------- MODULE ProcCacheProofs ---------------------------
(***************************************************************************)
(* Theorems about the process cache for every set of PIDs and of builders  *)
(* and every number of process starts.  ReusedIsResolvedAnew speaks of the *)
(* cache between builds; what makes it inductive is the same bound on the  *)
(* copies of the builds that are open, and that a build alone is alone.    *)
(***************************************************************************)
EXTENDS ProcCache, TLAPS

(* No entry of c describes a process that was over for good. *)
NotGone(c) == \A p \in Pids : c[p] # None => c[p].start = 0 \/ c[p].start > gone[p]

(* What a build alone has seen to be over stays over: no process that holds a
   PID now is one of those. *)
GoneIsOver == \A p \in Pids : gone[p] <= Over(p)

(* A build that has been alone since its listing is the only one open. *)
AloneIsAlone == \A b, x \in Builders : alone[b] /\ x # b => stage[x] = "idle"

CopiesInv ==
  /\ NotGone(procs)
  /\ \A b \in Builders : NotGone(local[b])
  /\ \A b \in Builders : stage[b] = "idle" => local[b] = Empty
  /\ \A p \in Pids : proc[p] # None => proc[p].start <= starts
  /\ GoneIsOver
  /\ AloneIsAlone

----------------------------------------------------------------------------
(* An entry is never the absence of one. *)
LEMMA EntriesAreValues ==
  /\ None \notin Info
  /\ None \notin Process
  /\ \A n \in 0 .. MaxStarts :
       /\ Full(n) \in Info /\ Full(n).start = n
       /\ NameOnly(n) \in Info /\ NameOnly(n).start = n
<1>1. Info \subseteq [start : Nat, full : BOOLEAN]
  BY DEF Info
<1>2. Process \subseteq [start : Nat, parent : Pids \union {None}]
  BY StartsAreBounded DEF Process
<1>3. \A n \in 0 .. MaxStarts : Full(n) \in Info /\ Full(n).start = n
  BY DEF Info, Full
<1>4. \A n \in 0 .. MaxStarts : NameOnly(n) \in Info /\ NameOnly(n).start = n
  BY DEF Info, NameOnly
<1> QED BY <1>1, <1>2, <1>3, <1>4, NoneIsNoValue

(* What a resolution adds to a copy: entries of processes that run now. *)
LEMMA ResolvedEntries ==
  ASSUME TypeOK, NEW c \in [Pids -> Info \union {None}], NEW p \in Pids
  PROVE  /\ Resolved(c, p) \in [Pids -> Info \union {None}]
         /\ Resolved(c, p)[p] # None
         /\ \A x \in Pids : c[x] # None => Resolved(c, p)[x] = c[x]
         /\ \A x \in Pids : c[x] = None /\ Resolved(c, p)[x] # None =>
              Resolved(c, p)[x].start = 0 \/ (proc[x] # None /\ Resolved(c, p)[x].start = proc[x].start)
<1>1. CASE c[p] # None
  BY <1>1 DEF Resolved
<1>2. CASE c[p] = None /\ proc[p] = None
  <2>1. Resolved(c, p) = [c EXCEPT ![p] = Unresolved]
    BY <1>2 DEF Resolved
  <2>2. Unresolved \in Info /\ Unresolved # None /\ Unresolved.start = 0
    BY EntriesAreValues, StartsAreBounded DEF Unresolved
  <2> QED BY <2>1, <2>2, <1>2
<1>3. CASE c[p] = None /\ proc[p] # None
  <2>1. Resolved(c, p) =
          [x \in Pids |-> CASE x = p -> Full(proc[p].start)
                            [] x = proc[p].parent /\ c[x] = None -> NameOnly(proc[x].start)
                            [] OTHER -> c[x]]
    BY <1>3 DEF Resolved
  <2>2. \A x \in Pids : proc[x] # None =>
          /\ Full(proc[x].start) \in Info /\ Full(proc[x].start) # None
          /\ Full(proc[x].start).start = proc[x].start
          /\ NameOnly(proc[x].start) \in Info /\ NameOnly(proc[x].start) # None
          /\ NameOnly(proc[x].start).start = proc[x].start
    <3>1. \A x \in Pids : proc[x] # None => proc[x].start \in 0 .. MaxStarts
      BY DEF TypeOK, Process
    <3> QED BY <3>1, EntriesAreValues
  <2>3. \A x \in Pids : x = proc[p].parent => proc[x] # None
    BY <1>3, NoneIsNoValue DEF TypeOK
  <2>4. Resolved(c, p)[p] = Full(proc[p].start)
    BY <2>1, <1>3, NoneIsNoValue DEF TypeOK
  <2>5. ASSUME NEW x \in Pids, x # p
        PROVE  Resolved(c, p)[x] = IF x = proc[p].parent /\ c[x] = None THEN NameOnly(proc[x].start)
                                   ELSE c[x]
    BY <2>1, <2>5
  <2> QED BY <2>1, <2>2, <2>3, <2>4, <2>5, <1>3
<1> QED BY <1>1, <1>2, <1>3

(* Type correctness for every set of PIDs and builders: in particular a build
   that has resolved its whole listing holds an entry for each PID in it, so
   no socket of the table points to a nil entry. *)
THEOREM TypeCorrect == Spec => []TypeOK
<1> USE NoneIsNoValue, StartsAreBounded
<1>1. Init => TypeOK
  BY DEF Init, TypeOK, Empty
<1>2. TypeOK /\ [Next]_vars => TypeOK'
  <2> SUFFICES ASSUME TypeOK, [Next]_vars PROVE TypeOK'
    OBVIOUS
  <2>1. CASE UNCHANGED vars
    BY <2>1 DEF TypeOK, vars, system, build
  <2>2. ASSUME NEW p \in Pids, NEW parent \in Pids \union {None}, Start(p, parent) PROVE TypeOK'
    <3>1. starts' \in 1 .. MaxStarts
      BY <2>2 DEF TypeOK, Start
    <3>2. proc' \in [Pids -> Process \union {None}]
      BY <2>2, <3>1 DEF TypeOK, Start, Process
    <3>3. \A x \in Pids : proc[x] # None => proc'[x] = proc[x]
      BY <2>2 DEF TypeOK, Start
    <3>4. proc'[p].parent = parent /\ proc'[p] # None
      BY <2>2, <3>1 DEF TypeOK, Start
    <3>5. \A x \in Pids : proc'[x] # None /\ proc'[x].parent # None =>
            proc'[x].parent # x /\ proc'[proc'[x].parent] # None
      <4> SUFFICES ASSUME NEW x \in Pids, proc'[x] # None, proc'[x].parent # None
                   PROVE  proc'[x].parent # x /\ proc'[proc'[x].parent] # None
        OBVIOUS
      <4>1. CASE x = p
        BY <4>1, <3>3, <3>4, <2>2 DEF Start
      <4>2. CASE x # p
        <5>1. proc'[x] = proc[x]
          BY <4>2, <2>2 DEF Start, TypeOK
        <5>2. proc[x].parent \in Pids \ {x} /\ proc[proc[x].parent] # None
          BY <5>1 DEF TypeOK, Process
        <5> QED BY <5>1, <5>2, <3>3
      <4> QED BY <4>1, <4>2
    <3> QED BY <2>2, <3>1, <3>2, <3>3, <3>5 DEF TypeOK, Start, build
  <2>3. ASSUME NEW p \in Pids, OpenSocket(p) \/ CloseSocket(p) PROVE TypeOK'
    BY <2>3 DEF TypeOK, OpenSocket, CloseSocket, build
  <2>4. ASSUME NEW p \in Pids, Exit(p) PROVE TypeOK'
    <3>1. \A x \in Pids : x # p /\ proc[x] # None =>
            proc'[x] = [proc[x] EXCEPT !.parent = IF @ = p THEN None ELSE @]
      BY <2>4 DEF Exit
    <3>2. \A x \in Pids : x = p \/ proc[x] = None => proc'[x] = None
      BY <2>4 DEF Exit
    <3>3. \A x \in Pids : x # p /\ proc[x] # None =>
            /\ proc'[x] \in Process
            /\ proc'[x].parent = IF proc[x].parent = p THEN None ELSE proc[x].parent
      <4> SUFFICES ASSUME NEW x \in Pids, x # p, proc[x] # None
                   PROVE  /\ proc'[x] \in Process
                          /\ proc'[x].parent = IF proc[x].parent = p THEN None ELSE proc[x].parent
        OBVIOUS
      <4>1. proc[x] \in Process
        BY DEF TypeOK
      <4> QED BY <3>1, <4>1 DEF Process
    <3>4. DOMAIN proc' = Pids /\ proc' = [x \in Pids |-> proc'[x]]
      BY <2>4 DEF Exit
    <3>5. proc' \in [Pids -> Process \union {None}]
      BY <3>2, <3>3, <3>4
    <3>6. \A x \in Pids : x # p /\ proc[x] # None => proc'[x] # None
      BY <3>3 DEF Process
    <3>7. \A x \in Pids : proc'[x] # None /\ proc'[x].parent # None =>
            proc'[x].parent # x /\ proc'[proc'[x].parent] # None
      BY <3>2, <3>3, <3>6 DEF TypeOK, Process
    <3>8. sockets' \subseteq {x \in Pids : proc'[x] # None}
      BY <2>4, <3>6 DEF TypeOK, Exit
    <3>9. UNCHANGED <<starts, procs, stage, active, todo, local, alone, gone>>
      BY <2>4 DEF Exit, build
    <3> QED BY <3>5, <3>7, <3>8, <3>9 DEF TypeOK
  <2>5. ASSUME NEW b \in Builders, ListSockets(b) PROVE TypeOK'
    BY <2>5 DEF TypeOK, ListSockets, system
  <2>6. ASSUME NEW b \in Builders, CopyCache(b) PROVE TypeOK'
    <3>1. \A x \in Builders : \A p \in active'[x] \ todo'[x] : stage'[x] = "resolve" => local'[x][p] # None
      BY <2>6 DEF TypeOK, CopyCache
    <3> QED BY <2>6, <3>1 DEF TypeOK, CopyCache, system
  <2>7. ASSUME NEW b \in Builders, NEW p \in Pids, Resolve(b, p) PROVE TypeOK'
    <3>1. local[b] \in [Pids -> Info \union {None}]
      BY DEF TypeOK
    <3>2. local'[b] = Resolved(local[b], p) /\ \A x \in Builders : x # b => local'[x] = local[x]
      BY <2>7 DEF TypeOK, Resolve
    <3>3. local' \in [Builders -> [Pids -> Info \union {None}]]
      BY <2>7, <3>1, <3>2, ResolvedEntries DEF TypeOK, Resolve
    <3>4. \A x \in Builders : \A q \in active'[x] \ todo'[x] : stage'[x] = "resolve" => local'[x][q] # None
      <4> SUFFICES ASSUME NEW x \in Builders, NEW q \in active[x] \ todo'[x], stage[x] = "resolve"
                   PROVE  local'[x][q] # None
        BY <2>7 DEF Resolve
      <4>1. q \in Pids
        BY DEF TypeOK
      <4>2. CASE x # b
        BY <2>7, <3>2, <4>2 DEF TypeOK, Resolve
      <4>3. CASE x = b /\ q = p
        BY <3>1, <3>2, <4>3, ResolvedEntries
      <4>4. CASE x = b /\ q # p
        <5>1. local[b][q] # None
          BY <2>7, <4>4 DEF TypeOK, Resolve
        <5> QED BY <3>1, <3>2, <4>1, <4>4, <5>1, ResolvedEntries
      <4> QED BY <4>2, <4>3, <4>4
    <3> QED BY <2>7, <3>3, <3>4 DEF TypeOK, Resolve, system
  <2>8. ASSUME NEW b \in Builders, WriteBack(b) PROVE TypeOK'
    <3>1. procs' \in [Pids -> Info \union {None}]
      BY <2>8 DEF TypeOK, WriteBack, Pruned, WrittenBack
    <3>2. \A p \in Pids : Over(p) \in 0 .. MaxStarts
      BY DEF TypeOK, Over, Process
    <3>3. gone' \in [Pids -> 0 .. MaxStarts]
      BY <2>8, <3>2 DEF TypeOK, WriteBack
    <3> QED BY <2>8, <3>1, <3>3 DEF TypeOK, WriteBack, system, Empty
  <2> QED BY <2>1, <2>2, <2>3, <2>4, <2>5, <2>6, <2>7, <2>8 DEF Next, Build
<1> QED BY <1>1, <1>2, PTL DEF Spec

(* No entry describes a process that a build alone has seen to be over: a PID
   that the system gives to another process is resolved anew. *)
THEOREM ReusedIsResolvedAnewHolds == Spec => []ReusedIsResolvedAnew
<1> USE NoneIsNoValue, StartsAreBounded
<1>1. Init => CopiesInv
  BY DEF Init, CopiesInv, NotGone, GoneIsOver, AloneIsAlone, Over, Empty
<1>2. TypeOK /\ CopiesInv /\ [Next]_vars => CopiesInv'
  <2> SUFFICES ASSUME TypeOK, CopiesInv, [Next]_vars PROVE CopiesInv'
    OBVIOUS
  <2>1. CASE UNCHANGED vars
    BY <2>1 DEF CopiesInv, NotGone, GoneIsOver, AloneIsAlone, Over, Empty, vars, system, build
  <2>2. ASSUME NEW p \in Pids, NEW parent \in Pids \union {None}, Start(p, parent) PROVE CopiesInv'
    <3>1. starts' = starts + 1 /\ starts \in Nat
      BY <2>2 DEF Start, TypeOK
    <3>2. proc'[p] # None /\ proc'[p].start = starts + 1
      BY <2>2, <3>1 DEF Start, TypeOK
    <3>3. \A x \in Pids : x # p => proc'[x] = proc[x]
      BY <2>2 DEF Start, TypeOK
    <3>4. \A x \in Pids : proc[x] # None => proc[x].start \in Nat /\ proc[x].start <= starts
      BY DEF TypeOK, CopiesInv, Process
    <3>5. \A x \in Pids : gone[x] \in Nat /\ gone[x] <= Over(x)
      BY DEF TypeOK, CopiesInv, GoneIsOver
    <3>6. \A x \in Pids : gone[x] <= Over(x)'
      BY <2>2, <3>1, <3>2, <3>3, <3>4, <3>5 DEF Over, Start
    <3>7. \A x \in Pids : proc'[x] # None => proc'[x].start <= starts'
      BY <3>1, <3>2, <3>3, <3>4
    <3> QED BY <2>2, <3>6, <3>7 DEF CopiesInv, NotGone, GoneIsOver, AloneIsAlone, Start, build, Empty
  <2>3. ASSUME NEW p \in Pids, OpenSocket(p) \/ CloseSocket(p) PROVE CopiesInv'
    BY <2>3 DEF CopiesInv, NotGone, GoneIsOver, AloneIsAlone, Over, OpenSocket, CloseSocket, build, Empty
  <2>4. ASSUME NEW p \in Pids, Exit(p) PROVE CopiesInv'
    <3>1. \A x \in Pids : proc'[x] # None => proc[x] # None /\ proc'[x].start = proc[x].start
      BY <2>4 DEF Exit, TypeOK, Process
    <3>2. \A x \in Pids : proc[x] # None => proc[x].start \in Nat /\ proc[x].start <= starts
      BY DEF TypeOK, CopiesInv, Process
    <3>3. \A x \in Pids : gone[x] \in Nat /\ gone[x] <= Over(x) /\ starts \in Nat
      BY DEF TypeOK, CopiesInv, GoneIsOver
    <3>4. \A x \in Pids : gone[x] <= Over(x)'
      <4> SUFFICES ASSUME NEW x \in Pids PROVE gone[x] <= Over(x)'
        OBVIOUS
      <4>1. starts' = starts
        BY <2>4 DEF Exit
      <4>2. CASE proc'[x] # None
        BY <4>1, <4>2, <3>1, <3>3 DEF Over
      <4>3. CASE proc'[x] = None /\ proc[x] = None
        BY <4>1, <4>3, <3>3 DEF Over
      <4>4. CASE proc'[x] = None /\ proc[x] # None
        BY <4>1, <4>4, <3>2, <3>3 DEF Over
      <4> QED BY <4>2, <4>3, <4>4
    <3> QED BY <2>4, <3>1, <3>2, <3>4 DEF CopiesInv, NotGone, GoneIsOver, AloneIsAlone, Exit, build, Empty
  <2>5. ASSUME NEW b \in Builders, ListSockets(b) PROVE CopiesInv'
    <3>1. \A x \in Builders : stage'[x] = "idle" => stage[x] = "idle"
      BY <2>5 DEF ListSockets, TypeOK
    <3>2. AloneIsAlone'
      <4> SUFFICES ASSUME NEW y \in Builders, NEW x \in Builders, alone'[y], x # y
                   PROVE  stage'[x] = "idle"
        BY DEF AloneIsAlone
      <4>1. y = b /\ \A z \in Builders : stage[z] = "idle"
        BY <2>5 DEF ListSockets
      <4> QED BY <2>5, <4>1 DEF ListSockets, TypeOK
    <3> QED BY <2>5, <3>1, <3>2 DEF CopiesInv, NotGone, GoneIsOver, Over, ListSockets, system, Empty
  <2>6. ASSUME NEW b \in Builders, CopyCache(b) PROVE CopiesInv'
    <3>1. \A x \in Builders : local'[x] = IF x = b THEN procs ELSE local[x]
      BY <2>6 DEF CopyCache, TypeOK
    <3>2. \A x \in Builders : /\ stage'[x] = "idle" => x # b
                              /\ stage'[x] = "idle" <=> stage[x] = "idle"
      BY <2>6 DEF CopyCache, TypeOK
    <3> QED BY <2>6, <3>1, <3>2 DEF CopiesInv, NotGone, GoneIsOver, AloneIsAlone, Over, CopyCache, system, Empty
  <2>7. ASSUME NEW b \in Builders, NEW p \in Pids, Resolve(b, p) PROVE CopiesInv'
    <3>1. \A x \in Builders : local'[x] = IF x = b THEN Resolved(local[b], p) ELSE local[x]
      BY <2>7 DEF Resolve, TypeOK
    <3>2. \A x \in Pids : proc[x] # None => proc[x].start > gone[x]
      BY DEF CopiesInv, GoneIsOver, Over, TypeOK, Process
    <3>3. local[b] \in [Pids -> Info \union {None}]
      BY DEF TypeOK
    <3>4. NotGone(Resolved(local[b], p))
      BY <3>2, <3>3, ResolvedEntries DEF CopiesInv, NotGone
    <3>5. \A x \in Builders : NotGone(local[x])'
      BY <2>7, <3>1, <3>4 DEF CopiesInv, NotGone, Resolve
    <3>6. \A x \in Builders : stage'[x] = "idle" => local'[x] = Empty
      BY <2>7, <3>1 DEF CopiesInv, Resolve
    <3> QED BY <2>7, <3>5, <3>6 DEF CopiesInv, NotGone, GoneIsOver, AloneIsAlone, Over, Resolve, system, Empty
  <2>8. ASSUME NEW b \in Builders, WriteBack(b) PROVE CopiesInv'
    <3>1. \A x \in Builders : local'[x] = IF x = b THEN Empty ELSE local[x]
      BY <2>8 DEF WriteBack, TypeOK
    <3>2. \A x \in Builders : stage'[x] = IF x = b THEN "idle" ELSE stage[x]
      BY <2>8 DEF WriteBack, TypeOK
    <3>3. \A x \in Builders : alone'[x] = IF x = b THEN FALSE ELSE alone[x]
      BY <2>8 DEF WriteBack, TypeOK
    <3>4. AloneIsAlone'
      BY <3>2, <3>3 DEF AloneIsAlone, CopiesInv
    <3>5. \A x \in Builders : stage'[x] = "idle" => local'[x] = Empty
      BY <3>1, <3>2 DEF CopiesInv
    <3>6. \A x \in Pids : Over(x)' = Over(x)
      BY <2>8 DEF WriteBack, system, Over
    <3>7. GoneIsOver'
      BY <2>8, <3>6 DEF WriteBack, TypeOK, CopiesInv, GoneIsOver, Over, Process
    <3>8. \A x \in Pids : procs'[x] # None =>
            x \in active[b] /\ procs'[x] \in {local[b][x], procs[x]}
      BY <2>8 DEF WriteBack, Pruned, WrittenBack
    <3>9. \A x \in active[b] : gone'[x] = gone[x]
      BY <2>8 DEF WriteBack, TypeOK
    <3>10. NotGone(procs)'
      BY <3>8, <3>9 DEF NotGone, CopiesInv
    <3>11. \A x \in Builders : NotGone(local[x])'
      <4>1. CASE alone[b]
        <5>1. \A x \in Builders : local'[x] = Empty
          BY <4>1, <3>1 DEF CopiesInv, AloneIsAlone
        <5> QED BY <5>1 DEF NotGone, Empty
      <4>2. CASE ~alone[b]
        <5>1. \A x \in Pids : gone'[x] = gone[x]
          BY <4>2, <2>8 DEF WriteBack
        <5> QED BY <5>1, <3>1 DEF NotGone, Empty, CopiesInv
      <4> QED BY <4>1, <4>2
    <3> QED BY <2>8, <3>4, <3>5, <3>7, <3>10, <3>11 DEF CopiesInv, WriteBack, system, Empty
  <2> QED BY <2>1, <2>2, <2>3, <2>4, <2>5, <2>6, <2>7, <2>8 DEF Next, Build
<1>3. CopiesInv => ReusedIsResolvedAnew
  BY DEF CopiesInv, NotGone, ReusedIsResolvedAnew
<1> QED BY <1>1, <1>2, <1>3, TypeCorrect, PTL DEF Spec

----------------------------------------------------------------------------
(* "PIDs that disappear from the connection list are pruned"
   (correlate.go:64), as far as one step can say it: a build that ends leaves
   in the cache the PIDs of its listing and no others, whatever an overlapping
   build stored or pruned since it copied the cache.  That builds end again and
   again is what the liveness property NoLeak adds. *)
THEOREM BuildLeavesItsListing ==
  Spec => [][\A b \in Builders : WriteBack(b) =>
               {p \in Pids : procs'[p] # None} = active[b]]_vars
<1>1. TypeOK => (\A b \in Builders : WriteBack(b) =>
                   {p \in Pids : procs'[p] # None} = active[b])
  <2> SUFFICES ASSUME TypeOK, NEW b \in Builders, WriteBack(b)
               PROVE  {p \in Pids : procs'[p] # None} = active[b]
    OBVIOUS
  <2>1. active[b] \subseteq Pids /\ \A p \in active[b] : local[b][p] # None
    BY DEF TypeOK, WriteBack
  <2>2. \A p \in Pids : procs'[p] # None <=> p \in active[b]
    BY <2>1 DEF WriteBack, Pruned, WrittenBack
  <2> QED BY <2>1, <2>2
<1> QED BY <1>1, TypeCorrect, PTL
=============================================================================
