------------------------------- MODULE History -------------------------------
(***************************************************************************)
(* The flow history of internal/history/history.go: the JSONL file (the    *)
(* hot file), its in-memory offset index, the rotated daily gzip files and *)
(* the asynchronous pruneOld.  One process; its goroutines serialise on mu.*)
(* Append reads the clock before it takes mu, so a stamp and the write it  *)
(* belongs to are two steps.  pruneOld holds mu from start to end but      *)
(* changes the disk several times, so a failure or a crash of the process  *)
(* may come between any two of its steps.                                  *)
(*                                                                         *)
(* The file is a sequence of segments: a whole line holding an entry, the  *)
(* beginning of a line that a failed write left without its newline, or    *)
(* such a beginning that a rewrite later closed with a newline.  A byte    *)
(* offset is the number of segments before it.  An absent and an empty file*)
(* read the same and are both <<>>.                                        *)
(***************************************************************************)
EXTENDS Integers, Sequences, FiniteSets, SequencesExt

CONSTANTS
  Appenders,        \* goroutines that call Append: the daemon, MCP tool handlers
  PruneEvery,       \* pruneEvery
  MaxAge,           \* MaxAgeHours, in clock units
  PruneTo,          \* PruneToHours, in clock units
  MaxSize,          \* MaxSizeMB, in segments
  CompressRotated,  \* history.compress_rotated
  MaxRotatedDays,   \* history.max_rotated_days (0: keep all)
  DayLen,           \* clock units of a UTC day
  WriteFaults,      \* how a write of Append may fail
  ReplaceFaults,    \* how replaceFileSafely may fail
  MaxAppends, MaxClock, MaxFaults, MaxCrashes,  \* bounds of the model
  None

ASSUME HistoryParameters ==
  /\ PruneEvery \in Nat \ {0} /\ MaxSize \in Nat \ {0} /\ DayLen \in Nat \ {0}
  /\ MaxAge \in Nat /\ PruneTo \in Nat /\ MaxRotatedDays \in Nat
  /\ MaxClock \in Nat \ {0} /\ None \notin [id : Nat, ts : Nat]
  /\ CompressRotated \in BOOLEAN
  /\ WriteFaults \subseteq {"nothing", "torn", "unindexed"}
  /\ ReplaceFaults \subseteq {"intact", "lost", "unflagged"}

VARIABLES
  now,          \* the wall clock
  hot,          \* history.jsonl
  gz,           \* history_<day>.jsonl.gz for each day, <<>> when absent
  backups,      \* entries of the .history-backup-* files that were left behind
  index,        \* offsetIndex
  appendCount,  \* appends of this process
  pending,      \* pruneOld goroutines that wait for mu
  stamped,      \* the entry each appender has stamped and not yet written
  job,          \* the pruneOld that holds mu, and where it stands
  stale,        \* history: index kept although the file it describes is gone
  nextId, faults, crashes   \* counters that bound the model

vars == <<now, hot, gz, backups, index, appendCount, pending, stamped, job, stale,
          nextId, faults, crashes>>
bounds == <<nextId, faults, crashes>>

----------------------------------------------------------------------------
(* The hot file and its lines. *)
Line(e) == [kind |-> "entry", id |-> e.id, ts |-> e.ts]
Torn == [kind |-> "torn", id |-> 0, ts |-> 0]
Junk == [kind |-> "junk", id |-> 0, ts |-> 0]

Day(t) == t \div DayLen
Days == 0 .. Day(MaxClock)

(* A scan that starts at offset `start` reads segment i as an entry if it is
   one and is not glued to the remains of a failed write before it. *)
ParsedFrom(start) ==
  {i \in start + 1 .. Len(hot) :
     hot[i].kind = "entry" /\ (i = start + 1 \/ hot[i - 1].kind # "torn")}
Parsed == ParsedFrom(0)

(* The members of a finite set of numbers, in increasing order: the k-th has
   k - 1 below it. *)
InOrder(S) ==
  [k \in 1 .. Cardinality(S) |-> CHOOSE x \in S : Cardinality({y \in S : y < x}) = k - 1]

(* The lines of a scan that are rewritten by a prune: an unended last line
   gets its newline. *)
Closed(f) == IF f # <<>> /\ Last(f).kind = "torn" THEN Front(f) \o <<Junk>> ELSE f
Kept(Drop) ==
  LET keep == InOrder((DOMAIN hot) \ Drop)
  IN Closed([i \in DOMAIN keep |-> hot[keep[i]]])

(* Lines, not segments, are dropped to enforce the cap: from the first line
   start that leaves no more than MaxSize. *)
HardCap_Off(f) == f
HardCap(f) ==
  LET starts == {i \in 1 .. Len(f) + 1 :
                   /\ Len(f) - i + 1 <= MaxSize
                   /\ i = 1 \/ f[i - 1].kind # "torn"}
      first == CHOOSE i \in starts : \A j \in starts : i <= j
  IN SubSeq(f, first, Len(f))

----------------------------------------------------------------------------
(* The offset index. *)
BuiltIndex ==
  LET lines == InOrder(Parsed)
  IN [i \in DOMAIN lines |-> [ts |-> hot[lines[i]].ts, off |-> lines[i] - 1]]

Search_PastEqual(idx, cutoff) == Cardinality({i \in DOMAIN idx : idx[i].ts <= cutoff})

(* Binary search for the first index entry not before the cutoff, then one
   step back. *)
Halved(idx, cutoff, b) ==   \* one turn of its loop, with b = <<lo, hi>>
  LET mid == (b[1] + b[2]) \div 2
  IN CASE b[1] >= b[2] -> b
       [] b[1] < b[2] /\ idx[mid + 1].ts < cutoff -> <<mid + 1, b[2]>>
       [] OTHER -> <<b[1], mid>>
Search(idx, cutoff) ==
  LET turns[k \in 0 .. Len(idx)] ==
        IF k = 0 THEN <<0, Len(idx)>> ELSE Halved(idx, cutoff, turns[k - 1])
  IN turns[Len(idx)][1]
StartOffset(idx, cutoff) ==
  LET lo == Search(idx, cutoff) IN IF lo > 0 THEN idx[lo].off ELSE 0

EntryAt(i) == [id |-> hot[i].id, ts |-> hot[i].ts]
HotEntries == {EntryAt(i) : i \in Parsed}

(* Query, and RecurrenceMap with the same lookup: an empty index is rebuilt
   first, then the file is scanned from the offset the index gives, and the
   daily files that may hold the window. *)
UsedIndex == IF index = <<>> THEN BuiltIndex ELSE index
HotResult(cutoff) ==
  {i \in ParsedFrom(StartOffset(UsedIndex, cutoff)) : hot[i].ts >= cutoff}
GzResult(cutoff) ==
  LET open == {d \in Days : CompressRotated /\ (d + 1) * DayLen >= cutoff}
  IN {e \in UNION {Range(gz[d]) : d \in open} : e.ts >= cutoff}
QueryResult(cutoff) == {EntryAt(i) : i \in HotResult(cutoff)} \union GzResult(cutoff)

----------------------------------------------------------------------------
Idle == [step |-> "idle", at |-> 0, days |-> <<>>]

Init ==
  /\ now = 1
  /\ hot = <<>>
  /\ gz = [d \in Days |-> <<>>]
  /\ backups = {}
  /\ index = <<>>
  /\ appendCount = 0
  /\ pending = 0
  /\ stamped = [a \in Appenders |-> None]
  /\ job = Idle
  /\ stale = FALSE
  /\ nextId = 1
  /\ faults = 0
  /\ crashes = 0

Tick ==
  /\ now < MaxClock
  /\ now' = now + 1
  /\ UNCHANGED <<hot, gz, backups, index, appendCount, pending, stamped, job, stale, bounds>>

(* Append, before the lock: the entry gets its timestamp. *)
Stamp(a) ==
  /\ stamped[a] = None
  /\ nextId <= MaxAppends
  /\ stamped' = [stamped EXCEPT ![a] = [id |-> nextId, ts |-> now]]
  /\ nextId' = nextId + 1
  /\ UNCHANGED <<now, hot, gz, backups, index, appendCount, pending, job, stale, faults, crashes>>

MuFree == job.step = "idle"

(* Append, under mu: the line goes to the end of the file and of the index;
   every PruneEvery-th append starts a pruneOld goroutine. *)
Write(a) ==
  /\ MuFree
  /\ stamped[a] # None
  /\ hot' = Append(hot, Line(stamped[a]))
  /\ index' = Append(index, [ts |-> stamped[a].ts, off |-> Len(hot)])
  /\ appendCount' = appendCount + 1
  /\ pending' = IF appendCount' % PruneEvery = 0 THEN pending + 1 ELSE pending
  /\ stamped' = [stamped EXCEPT ![a] = None]
  /\ UNCHANGED <<now, gz, backups, job, stale, bounds>>

(* Append fails: before anything reached the file, after a part of the line,
   or at Close when the whole line did. *)
WriteFails(a) ==
  /\ MuFree
  /\ stamped[a] # None
  /\ faults < MaxFaults
  /\ faults' = faults + 1
  /\ \E fault \in WriteFaults :
       hot' = CASE fault = "nothing" -> hot
                [] fault = "torn" -> Append(hot, Torn)
                [] fault = "unindexed" -> Append(hot, Line(stamped[a]))
  /\ stamped' = [stamped EXCEPT ![a] = None]
  /\ UNCHANGED <<now, gz, backups, index, appendCount, pending, job, stale, nextId, crashes>>

(* Query and RecurrenceMap change one thing only: an empty index is rebuilt. *)
BuildIndex ==
  /\ MuFree
  /\ index = <<>>
  /\ index' = BuiltIndex
  /\ UNCHANGED <<now, hot, gz, backups, appendCount, pending, stamped, job, stale, bounds>>

----------------------------------------------------------------------------
(* pruneOld takes mu.  rotateOldEntriesToGzip partitions the lines by day;
   with nothing older than today pruneOld goes straight on to the trim. *)
Rotated(t) == {i \in Parsed : Day(hot[i].ts) < Day(t)}
DaysToRotate(t) == {Day(hot[i].ts) : i \in Rotated(t)}
OrderedDays(t) ==   \* in the order of their first lines
  LET first == InOrder({i \in Rotated(t) :
                 \A j \in Rotated(t) : j < i => Day(hot[j].ts) # Day(hot[i].ts)})
  IN [k \in DOMAIN first |-> Day(hot[first[k]].ts)]

StartPrune ==
  /\ MuFree
  /\ pending > 0
  /\ pending' = pending - 1
  /\ job' = IF CompressRotated /\ DaysToRotate(now) # {}
            THEN [step |-> "merge", at |-> now, days |-> OrderedDays(now)]
            ELSE [step |-> "trim", at |-> now, days |-> <<>>]
  /\ UNCHANGED <<now, hot, gz, backups, index, appendCount, stamped, stale, bounds>>

(* mergeIntoGzip: the day's lines that the file does not hold yet follow its
   own, and the new file takes the place of the old one. *)
DayLines(d) == {i \in Rotated(job.at) : Day(hot[i].ts) = d}
Merged_Again(d) ==
  LET new == InOrder(DayLines(d))
  IN gz[d] \o [i \in DOMAIN new |-> EntryAt(new[i])]
Merged(d) ==
  LET new == InOrder({i \in DayLines(d) : EntryAt(i) \notin Range(gz[d])})
  IN gz[d] \o [i \in DOMAIN new |-> EntryAt(new[i])]

MergeDay ==
  /\ job.step = "merge"
  /\ gz' = [gz EXCEPT ![Head(job.days)] = Merged(Head(job.days))]
  /\ job' = [job EXCEPT !.days = Tail(@), !.step = IF Len(job.days) = 1 THEN "rewrite" ELSE @]
  /\ UNCHANGED <<now, hot, backups, index, appendCount, pending, stamped, stale, bounds>>

Trimming == [job EXCEPT !.step = "trim", !.days = <<>>]

(* An error before any file was replaced abandons the rotation and leaves the
   hot file as it was; pruneOld goes on with the trim all the same. *)
RotateFails_GoesOn ==
  /\ job.step \in {"merge", "rewrite"}
  /\ faults < MaxFaults
  /\ faults' = faults + 1
  /\ job' = [job EXCEPT !.step = "rewrite"]
  /\ UNCHANGED <<now, hot, gz, backups, index, appendCount, pending, stamped, stale, nextId, crashes>>
RotateFails ==
  /\ job.step \in {"merge", "rewrite"}
  /\ faults < MaxFaults
  /\ faults' = faults + 1
  /\ job' = Trimming
  /\ UNCHANGED <<now, hot, gz, backups, index, appendCount, pending, stamped, stale, nextId, crashes>>

(* replaceFileSafely fails with the day's file in place and untouched, or,
   when there was one to move away, with the old file left in a backup: the
   second rename and the restore failed (the day has no file any more), or the
   new file is in place and removing the backup failed. *)
MergeFails ==
  LET d == Head(job.days)
  IN /\ job.step = "merge"
     /\ faults < MaxFaults
     /\ faults' = faults + 1
     /\ \E fault \in ReplaceFaults \ {"intact"} :
          /\ gz[d] # <<>>
          /\ gz' = [gz EXCEPT ![d] = IF fault = "lost" THEN <<>> ELSE Merged(d)]
          /\ backups' = backups \union Range(gz[d])
     /\ job' = Trimming
     /\ UNCHANGED <<now, hot, index, appendCount, pending, stamped, stale, nextId, crashes>>

(* The hot file is replaced and the index with it. *)
Replace(new) == hot' = new /\ index' = <<>> /\ stale' = FALSE

(* replaceFileSafely returns an error: nothing changed, or the second rename
   and the restore failed and the content is only in the backup file, or the
   file was replaced and removing the backup failed.  The index stays.  A
   process that dies between the two renames leaves the disk like "lost". *)
ReplaceFails(fault, new) ==
  /\ faults < MaxFaults
  /\ faults' = faults + 1
  /\ hot' = CASE fault = "intact" -> hot [] fault = "lost" -> <<>> [] fault = "unflagged" -> new
  /\ backups' = IF fault = "intact" THEN backups ELSE backups \union HotEntries
  /\ stale' = (stale \/ fault # "intact")
  /\ UNCHANGED index

TodayLines == Kept(Rotated(job.at))
RewriteHot ==
  /\ job.step = "rewrite"
  /\ Replace(TodayLines)
  /\ job' = [job EXCEPT !.step = "purge"]
  /\ UNCHANGED <<now, gz, backups, appendCount, pending, stamped, bounds>>

RewriteHotFails ==
  /\ job.step = "rewrite"
  /\ \E fault \in ReplaceFaults :
       /\ ReplaceFails(fault, TodayLines)
       /\ job' = IF fault = "lost" THEN Idle ELSE Trimming
  /\ UNCHANGED <<now, gz, appendCount, pending, stamped, nextId, crashes>>

(* Daily files whose midnight lies before now minus MaxRotatedDays go. *)
Purged(d) == MaxRotatedDays > 0 /\ d * DayLen < job.at - MaxRotatedDays * DayLen
Purge ==
  /\ job.step = "purge"
  /\ gz' = [d \in Days |-> IF Purged(d) THEN <<>> ELSE gz[d]]
  /\ job' = Trimming
  /\ UNCHANGED <<now, hot, backups, index, appendCount, pending, stamped, stale, bounds>>

(* The directory cannot be read, or some of the files not be removed: they
   stay until a later rotation comes this far.  A process that dies among the
   removals leaves the same. *)
PurgeFails ==
  /\ job.step = "purge"
  /\ faults < MaxFaults
  /\ faults' = faults + 1
  /\ \E kept \in SUBSET {d \in Days : Purged(d)} :
       gz' = [d \in Days |-> IF Purged(d) /\ d \notin kept THEN <<>> ELSE gz[d]]
  /\ job' = Trimming
  /\ UNCHANGED <<now, hot, backups, index, appendCount, pending, stamped, stale, nextId, crashes>>

(* The trim: lines older than the age limit, which is the shorter one when
   the file is over its size, then the cap on what is left. *)
TrimAge == IF Len(hot) > MaxSize THEN PruneTo ELSE MaxAge
TrimmedLines == HardCap(Kept({i \in Parsed : hot[i].ts <= now - TrimAge}))

Trim ==
  /\ job.step = "trim"
  /\ IF hot = <<>> THEN UNCHANGED <<hot, index, stale>> ELSE Replace(TrimmedLines)
  /\ job' = Idle
  /\ UNCHANGED <<now, gz, backups, appendCount, pending, stamped, bounds>>

TrimFails ==
  /\ job.step = "trim"
  /\ hot # <<>>
  /\ \E fault \in ReplaceFaults : ReplaceFails(fault, TrimmedLines)
  /\ job' = Idle
  /\ UNCHANGED <<now, gz, appendCount, pending, stamped, nextId, crashes>>

(* The process dies and is started again: what is on disk stays. *)
Crash ==
  /\ crashes < MaxCrashes
  /\ crashes' = crashes + 1
  /\ index' = <<>>
  /\ stale' = FALSE
  /\ appendCount' = 0
  /\ pending' = 0
  /\ stamped' = [a \in Appenders |-> None]
  /\ job' = Idle
  /\ UNCHANGED <<now, hot, gz, backups, nextId, faults>>

Prune == StartPrune \/ MergeDay \/ RewriteHot \/ Purge \/ Trim

Next ==
  \/ Tick
  \/ \E a \in Appenders : Stamp(a) \/ Write(a) \/ WriteFails(a)
  \/ BuildIndex
  \/ Prune
  \/ RotateFails
  \/ MergeFails
  \/ RewriteHotFails
  \/ PurgeFails
  \/ TrimFails
  \/ Crash

(* A pruneOld goroutine runs until it returns, and the scheduler and the
   mutex let a waiting one in (sync.Mutex is fair to a waiter of over 1 ms). *)
Spec == Init /\ [][Next]_vars /\ WF_vars(Prune)

----------------------------------------------------------------------------
GzEntries == UNION {Range(gz[d]) : d \in Days}
Stored == HotEntries \union GzEntries

(* Query returns every stored entry of its window: the index "skips any
   earlier bytes" and nothing else (history.go:137-140), whatever mixture of
   appends, torn writes, rebuilt indexes, prunes, rotations and restarts made
   the file and the index.  Neither side of a failed swap of the hot file is
   claimed (stale), and what only a backup file holds no query reads. *)
QueryMissesNothing ==
  MuFree /\ ~stale =>
    \A cutoff \in 1 .. MaxClock + 1 : {e \in Stored : e.ts >= cutoff} \subseteq QueryResult(cutoff)

(* An entry leaves the disk only from age, to meet the size cap (the newest are
   kept), or with a daily file past its retention; a rotation that fails or is
   cut short by a crash at any point loses nothing, and when a file cannot be
   swapped "backup retained" (history.go:881) is true: what it held is in the
   hot file, in a daily file or in a backup. *)
OnDisk == Stored \union backups
StoredUntilExpired ==
  [][\A e \in OnDisk \ OnDisk' :
       \/ job.step = "trim" /\ e.ts <= now - TrimAge
       \/ job.step = "trim" /\ Len(hot) > MaxSize /\ \A x \in HotEntries' : x.ts >= e.ts
       \/ job.step = "purge" /\ Day(job.at) - Day(e.ts) >= MaxRotatedDays]_vars

(* "This ensures idempotent daily rotation" (history.go:764): however often a
   failure or a crash makes a day rotate again, its file holds an entry once,
   and a rotation that completes leaves no entry in both places. *)
RotationIsIdempotent ==
  /\ \A d \in Days : IsInjective(gz[d])
  /\ job.step = "purge" => HotEntries \intersect GzEntries = {}

(* The 50 MB cap of docs/configuration.md:194: once an append has asked for a
   prune and failures and restarts are over, the file gets within its size. *)
PruneBoundsFile ==
  (pending > 0 /\ faults = MaxFaults /\ crashes = MaxCrashes) ~> (Len(hot) <= MaxSize)
=============================================================================
