# Specifications of MCP-FlowSentinel

MCP-FlowSentinel captures packets on one or more interfaces, groups them into
flows, scores each flow, stores the flows of every window in a history file and
alerts on the suspicious ones. It runs as a daemon or as an MCP server whose
tools do the same work on demand. This directory holds TLA+ models of its
stateful parts, the TLC runs that check them and the TLAPS proofs about them.

`tlc -config X.cfg M` runs a check, `tlapm M.tla` checks the proofs of a module.
`PROJECT.json` lists the components, the runs, the source lines of every
definition, the hazards and the findings.

## 1. Inventory

| Part | State | Operations | Hard behaviour | Correct when |
|---|---|---|---|---|
| Flow table `aggregate.go` (`Aggregator`) | `sync.Map` of flows, `flowCount`, `droppedFlows`, `limitLogged` | `Add`, `flowFor`, collecting pass of `Finalize` | one goroutine per interface, no common lock; limit tested before the store and counted after it | the limit is kept, nothing is dropped early, a flow is the sum of its packets, the records are the whole window |
| Scoring `aggregate.go`, `filter.go` | the records while `Finalize` runs, the DNS cache | passes 2-5 of `Finalize`, `score`, `FilterOptions.Apply`, `Summarise` | bounded parallel DNS, order of the passes, shared capped categories, cross-flow bonuses, a reload between two passes | the score is the defined one in any order, labels agree with the score, the filter misses nothing |
| History `history.go` | JSONL file, daily gzip files, `offsetIndex`, `appendCount` | `Append`, `Query`, `RecurrenceMap`, `pruneOld`, rotation, purge | several disk steps, each may fail or be the last before a crash; stale offsets; time order assumed by a binary search | a query misses nothing, rotation neither loses nor repeats, only expired entries go, the file stays bounded |
| Alerting `alerting.go` | deduplication cache, token bucket, counters | `Fire`, `shouldFire`, `allow`, `post` | order of deduplication and limiter, reload between flows, retries beside new alerts | one alert per window and flow, rate bound, every alert delivered or counted |
| LRU `lru.go` | list and map, capacity, expiry | `Get`, `Set`, `evictOldest` | eviction against expiry | most recently used kept, expired never returned |
| Alert log `store.go` | append-only file | `writeAlertRecord`, `GetAlerts` | write errors only logged | every fired alert is listed |
| Daemon `daemon.go` | one window at a time, its capture goroutines, counters | `Run`, `runWindow`, feed refreshers | captures that cannot be opened, cancellation in any window, a failed write or a crash between any two of learn, save, store and alert | cancellation ends it, what is stored was learned, only a crash loses alerts |
| Capture `capture.go`, `reassembly.go`, `reader.go` | bounded channels, stream buffers, drop counter | `CapturePackets`, `OfflineReader.Read`, `drainPacketSource`, `forward`, `Reassembled` | two bounded channels, best effort on one and waiting on the other, flush on every way out, a 32-bit counter | it ends, a packet is delivered once and in order, losses are accounted for |
| Process cache `correlate.go` | map PID to process | `buildSocketTable`, `Lookup` | copy out, slow work, write back; PIDs reused | an entry describes the process that owns the socket |
| Threat feeds `feed.go`, `hassh_feed.go`, `iprep.go`, `domrep.go` | live set, cache file | update, lookup, load, save | sources that fail or break off, order of the sources, crash while saving | a complete merge appears as a whole, what any source listed is found, a restart serves the same set |
| Baseline `baseline.go` | byte statistics, destinations, beacon counters, file | `Observe*`, `Is*`, `Persist`, `load` | counts across restarts, full sets, staleness | a destination is new once, a signal is suppressed for good reason and stays so |
| Configuration `config.go` | global pointer, last path | `Load`, `Set`, `Reload`, `Get` | zero values against explicit zeros, two locks, overlapping reloads | only a valid configuration is active, and it is what the file means |
| Updater `updater.go` | the binary, its backup | download, verify, swap | failure between two renames | an unverified file is never installed, a program is always there |
| Metrics `metrics.go` | atomic counters | record, serve | none between counters | monotone |
| Parsers `http.go`, `ssh.go`, `tls_cert.go`, `ja3.go`, `ja3s.go` | none | pure functions of bytes | none | covered by the unit and fuzz tests |

How they interact. `runWindow` (daemon) starts one capture goroutine per
interface; each reads a bounded channel that capture fills and calls
`Aggregator.Add`. When the window's context ends, the channels are closed, the
goroutines return, `wg.Wait` lets `runWindow` go on: it asks history for the
recurrence map, `Finalize` scores the flows with the process cache, the feeds
and the baseline, the baseline learns them and is saved, `history.Append`
stores them and starts a pruning goroutine now and then, `alerting.Fire` alerts.
The MCP tools `analyze_network`, `live_watch` and `analyze_pcap` make the same
calls to aggregate and history from other goroutines, `reload_config` replaces
the configuration at any time.

The hazards of this code, each at the line where it bites and with the
properties that would catch it, are in `PROJECT.json` under `hazards`.

## 2. Plan

Order by how much depends on the part and how hard it is to test.

| | Module | Abstract specification or composition | State |
|---|---|---|---|
| 1 | FlowTable | writers of several interfaces on one table | modelled, proved |
| 2 | History | a set of stored entries, in the properties | modelled, safety proved |
| 3 | LRU, Alerting | Alerting uses the LRU operators and the token bucket | modelled, safety proved |
| 4 | ProcCache | builds of one window overlap those of the next | modelled, safety proved |
| 5 | FeedSpec, Feed | Feed implements FeedSpec | modelled, safety and refinement proved |
| 6 | Baseline, Daemon | Daemon keeps the baseline in memory and on disk, and orders it with history and alerting | modelled, safety proved |
| 7 | Capture | reader, reassembler and consumer | modelled, safety proved |
| 8 | Scoring | the passes of `Finalize` against a definition of the score | modelled, safety proved |
| 9 | Config | `Load` and `reload_config` against the meaning of a file | modelled, safety proved |

What is left: the updater's two renames, as one more small module. Liveness stays
with TLC.

## 3. The modules

### FlowTable (`internal/aggregate/aggregate.go`, `runWindow`)

`flows` is the `sync.Map`, a function from the keys present to their state.
`flowFor` is three atomic steps: `Lookup`, `CheckLimit` (then `DropPacket`) and
`LoadOrStore`, and `CountFlow` is the increment after it; `pc[w]` is where
goroutine `w` stands. `Update` is the critical section of the flow's own mutex.
`Close` is the end of a capture channel, `Finalize` follows `wg.Wait`. The
fields of `flowState` are one of each kind: counters, earliest and latest time,
the capped list of timestamps, a set (DNS names, SNI, the sticky flags), a first
value that wins (JA3, which stands for JA3S, HASSH, HTTP request and
certificate), a minimum with a presence flag (DNS TTL). `Record` is what the first
pass of `Finalize` makes of a flow: of several server names the first, and a
duration. The process it looks up is ProcCache's subject. `applied` is history: the
packets that reached each flow, from which `Faithful` computes its state anew.

*Properties.* `FlowBound`: the table has fewer than `MaxFlows` plus the number
of writers flows. `NoEarlyDrop`: a packet is dropped only when the table holds
`MaxFlows`. `TrackedAreCounted`: a writer alone on its interface never drops a
packet of a tracked flow (with two writers on one interface it may; nothing in
the configuration prevents that). `NothingLost`: every flow has the packets, the
bytes, the times and the stamps, in order, of the packets that reached it, and
every call of `Add` is accounted for. `FinalizedIsFinal`: the records are those of
the table, which nothing changes any more.

### Scoring (`internal/aggregate/aggregate.go` from `Finalize` on, `filter.go`)

`window` is the flows of the table, `pass` the pass. `StartLookup` and `EndLookup` are the goroutines of pass 2
under the semaphore `slots`, with the cache of names; `Looked` is `wg.Wait`;
`Enrich` is pass 2.5. `ScoreFlow` is pass 3 for one flow: the table `Signals`
has every signal of `score()` in the order in which it is tried, with the switch
that disables it, its category and its points; `Masked` and `Exempted` are the
process contexts. `Scan` and `Upload` are the passes over all flows, `Raise` what
both do to a record, `SortRecords` the sort and `Apply` the filter. `Reload` may
come between any two steps, and each pass reads the configuration again.
Conditions on bytes, ports, certificates and fractions are facts of a flow; the
factor of the baseline is one of its four values.

*Properties.* `ScoresAreDefined`: without a reload the score is the sum of the
capped categories, whatever the order of the map and of the lookups.
`LabelsFollowScore`: after every pass, under any reload, the risk level and the
techniques are those of the final score. `FilterMissesNothing`: stopping at the
first record under the limit is right because the sort comes last.
`FinalizeEnds` (liveness): every lookup gives its slot back.

### History (`internal/history/history.go`)

`hot` is the file as a sequence of segments (whole lines, torn lines, torn lines
closed later); an offset is a number of segments. `gz[d]` is the file of day
`d`. `Stamp` is the part of `Append` before the lock, `Write` and `WriteFails`
the part under it. `pruneOld` holds the lock from `StartPrune` to `Idle`
(`MuFree`), with one step per change of the disk: `MergeDay` for each day,
`RewriteHot`, `Purge`, `Trim`, and `Crash` may come between any two. Each can fail
(`RotateFails`, `MergeFails`, `RewriteHotFails`, `PurgeFails`, `TrimFails`). A file is
replaced by two renames, of which the second and the restore may fail: the old
content is then in a backup only, whether it is the hot file or a day's
(`ReplaceFaults`), and `backups` has what such files hold. A purge that fails
leaves any part of what it should remove. `BuildIndex` is the only effect of `Query` and `RecurrenceMap`.
`Search` is the binary search as written, with its turns as a function;
`OrderedDays` lists the days of the file in the order of their first lines, in
which rotation takes them.

*Properties.* `QueryMissesNothing`: for every cutoff `Query` returns all stored
entries of the window. `RotationIsIdempotent`: however often a day is rotated
again its file holds an entry once, and no entry stays in both places.
`StoredUntilExpired`: an entry leaves the disk, backups included, only by age, by the
size cap with the newest kept, or with its daily file. `PruneBoundsFile` (liveness).

*Left out.* The flows inside an entry and their filter; a second process on the
same files; the two kinds of state after a swap that reports an error although
the file moved (`stale`) are reached but queries from them are not claimed.
Rotation is switched on by a constant, although no file can switch it on
(finding 2): the code is there and called.

### LRU and Alerting (`internal/cache/lru.go`, `internal/alerting/alerting.go`)

LRU gives the methods as operators on the cache's value, since each is one
critical section. `StartFire` is the head of `Fire` (it returns at once when
alerting is off, and `getRateLimiter` replaces the limiter when its size
changed), `Suppress`, `RateLimit` and `Alert` are the three outcomes for one
flow, `EndFire` the end of the loop; the clock may tick between two flows.
`posts[n]` counts the `post` goroutines that have failed `n` times;
`PostSucceeds`, `Retry` and `GiveUp` are their attempts, at any time. The
truncation of the refill to whole tokens is modelled with the clock's unit and
`Minute` units in a minute; configurations come from a small set.

*Properties.* `DedupWindow` and `SuppressedInWindow` are the two halves of the
deduplication promise, with the eviction of a bounded cache stated exactly.
`RateBound` bounds the grants of one limiter over every stretch of time; the
strict bound of a token bucket (a burst plus the rate) is exceeded by less than
the one token whose fraction was not credited before. `LimitedOnlyWhenBusy`: an
alert is dropped only within a minute of a granted one. `PostsAccounted`: every
alert is delivered, counted as failed or still being posted.

### ProcCache (`internal/correlate/correlate.go`, `runWindow`)

`procs` is `ProcCache.procs`. A builder is a goroutine inside
`buildSocketTable`: the one that starts a window, or the ticker's of a window
that is open or has just ended; `stage[b]` is where it stands, `active`, `todo`
and `local` are its listing, what is left of it and `localCache`. `ListSockets`
is the call to gopsutil before any lock, `CopyCache` the first critical section,
`Resolve` one socket of the loop, `WriteBack` the second critical section with
`pruneExcept`. Processes and sockets are the operating system's: `Start`,
`OpenSocket`, `CloseSocket` and `Exit` come at any time, and a free PID may be
given out again.

The metadata of a process is abstracted to the number of its start, which tells
two holders of a PID apart, and to whether it is all of it or the name only. The
calls that ask for the name, the path and so on of one PID are one step: their
mixture of two processes or of a process and its end is left out. `alone` and
`gone` are history variables of the property.

*Properties.* `ReusedIsResolvedAnew`: after a build that overlapped no other has
seen a PID without sockets, the cache never again describes a process that was
over by then. Builds that overlap may put such an entry back, which is why the
property speaks of builds alone. `NoLeak` (liveness): a PID that stays without
sockets leaves the cache for good, whatever overlaps. Nothing re-checks a
cached entry whose PID owns sockets in every listing, so an entry may describe
the former holder of a PID that died and was reused between two builds.

*Left out.* `Lookup` (a pure function of a table), `GetAllConnections` (its own
transient cache).

### FeedSpec and Feed (`ja3/feed.go`, `capture/hassh_feed.go`, `intel/iprep.go`, `intel/domrep.go`)

FeedSpec is what a feed promises: lookups see the set of one complete merge, a
new set appears as a whole, and a merge is defined from what the sources
answered, without an order of work: every indicator that a source listed has an
entry of such a source, and for domains and ranges of the first. Which source a
hash or an address is from it leaves open: for hashes the comments promise the
local file and the code does otherwise, which is `LocalFileFirst`, finding 3, and
for addresses nothing is promised. Feed is the code of all four, chosen by
`kind`, since they share no state. `Begin` is a tick of the updater goroutine,
`Fetch` the parsing of the local file or of one URL, of which any part may
arrive; `NothingFound` is the early return, `Merged` the end of the loop; the
swap under the write lock and the write of the cache come in the order of each
feed (`SwapThenSave`, `SaveThenSwap`), the write in place in two steps (truncated,
then filled) or by a rename; `Restart` may come anywhere and loads the cache.
An indicator is an exact one or `Wide`, a range or parent domain over all exact
ones. `ImplementsFeedSpec` is the refinement, with `answers <- read`,
`cache <- file` and, as the set on offer, `batch` from the merge to the end of
the update.

*Properties.* The refinement; `FoundIfListed`: each lookup finds what any source
of the merge listed and names such a source; `RestartKeepsLive`: however an update
ended, the cache loads the set that is live, unless its last write failed.

### Baseline and Daemon (`internal/baseline/baseline.go`, `internal/daemon/daemon.go`)

Baseline gives the store as operators on its value. Daemon is `Run` and
`runWindow`: `Run` resolves the interfaces and loads the baseline, which may fail
without a word and leave the store empty (`blind`), `StartWindow` opens a capture per
interface, which `Open`, `OpenFails` and `CaptureEnds` follow; `EmptyWindow` and `Score` come after `wg.Wait`, `ObserveFlow` teaches one
flow, `Persist`, `AppendWindow` and `Fire` are the three writes, each of which may
fail and be only logged. The first save of a process that could not read the file
writes over it (`WrittenOver`). `Cancel` and `Restart` come at any time. `store` and
`disk` are the baseline in memory and in the file, with a record of what they
were taught (`told`, `windows`); `reports`, `unsaved` and `unalerted` are
history variables.

*Properties.* `NewOnlyOnce`: a destination the store was told of is new again
only to a process whose set is full. `SuppressedWasReported` and `ExpectedStays`:
beaconing is suppressed only after `minBeaconingObs` reports over all runs, and
from then on, except by a process that could not read the file. `StoredIsLearned`: a
stored window is in the saved baseline unless that could not be written, or such a
process wrote over it. `AlertedUnlessEnded`: only an end of the process
leaves a stored window without its alerts, one window each time. `CancelStops`
(liveness).

### Capture (`internal/capture/capture.go`, `reassembly.go`, `reader.go`)

`pc` is where `drainPacketSource` stands. `TakeStats`, `TakeFlush`, `SeeDone` and
`NoneReady` are the cases of its select, `ReadPacket` and `ReadFails` the outcomes
of a read, `EndOfFile` one of a file only; a file may also fail from some record on
whenever it is read (`stuck`). `Send` waits for room in `ch`, `GiveUpSend` ends the
capture. `Add` and `Flush` are the reassembler, which emits on
`sniCh` without waiting, and `Forward` moves one event to `ch` or gives it up.
`Finish` flushes and forwards on every way out, `Return` closes. `Receive` is the
consumer. The TCP library is external: contiguous segments after a SYN are
delivered at once, the others by a flush, which closes the stream (the library may
deliver and keep it open). `hellos`, `refused` and `unread` are history: the
ClientHellos put together, those whose event was given up, and those of which
none was made.

*Properties.* `PacketsAccounted`: a decodable packet is delivered once and in
order, and cancellation loses at most the one in hand. `HellosAccounted`: every
ClientHello put together is received, in a channel, refused or unread
(`HelloCounts`); a step refuses one only when a channel is full, and leaves one
unread only when it names no server or exceeds the buffer (`HelloLosses`).
`DropsNotOvercounted`: the reported number never exceeds the kernel's, with a counter
that wraps and cannot always be read. `CaptureEnds` (liveness): a capture ends once
it is cancelled, and one of a file also by itself unless the file is stuck.

### Config (`internal/config/config.go`, `tools/reload_config.go`)

A load is `Begin` (the path), `Read`, then `Fail`, or `Set` and `SetPath`, which
take two locks; main loads first, handlers may overlap, `Edit` changes a file at
any time. `Merge`, `PreserveExplicit`, `Valid`, `Compiles` and `ApplyEnv` are the
stages of `Load` over all fields by name, with their defaults; `Used` is the
webhook of the environment, which the alerting takes at each use and a load does
not. Decoding YAML is external: a document maps the fields it names.

*Properties.* `ActiveIsValid`; `FileIsHonoured`: after a load every field but
`compress_rotated` is, where it is used, what the documentation says of the file
and of the environment (`Meaning`, whose list of meaningful zeros is that of the
comments and tests, not that of the loader);
`EmptyPathMeansDefaults`, over the two locks and overlapping loads.

## 4. The runs

| Run | Instance | States | Shows |
|---|---|---|---|
| `flow_table` | 3 writers, 2 on one interface, limit 2, 4 packet shapes, 5 calls of `Add`, 2 kept timestamps | 720 k | the properties of FlowTable over every interleaving |
| `history` | 1 appender, 4 appends, prune every 2, days of 2 units, 5 units of time, size 2, one failure anywhere, one crash anywhere | 200 k | the properties of History, and that pruning ends within the size |
| `alerting` | 3 keys for a cache of 2 (symmetric), 3 configurations, minute of 4 units, 5 units of time, 5 evaluations, 2 attempts, 2 failed ones | 1.5 M | the properties of Alerting over every order of flows, ticks, reloads and attempts |
| `proc_cache` | 2 PIDs, 2 builders, 2 process starts | 400 k | the properties of ProcCache over every overlap of two builds with processes that come and go |
| `feed` | 4 kinds, a local file and 2 URLs, 2 exact indicators and a wide one, 2 updates, 1 crash | 1.6 M | lookups, restarts and the refinement over every part of every listing |
| `daemon` | 2 processes, 2 destinations of which one is remembered, thresholds of 2, 2 windows of up to 2 flows, 1 restart, 1 failure, 2 units of time, 4 interface settings | 131 k | the properties of Daemon over every failure, of the load too, and every crash between two writes |
| `capture` | 3 connections, 3 reads, channels of 2 and 1, counter modulo 2, 2 ticks, 2 kernel drops | 276 k | the properties of Capture for live sources and files |
| `scoring` | windows of up to 3 of 6 flows, 2 configurations, 1 reload | 20 k | the properties of Scoring over every order of flows and lookups |
| `config` | main and 2 handlers, 2 paths, 8 documents, 2 reloads, 1 edit | 26 k | the properties of Config over every overlap |
| `history_two_appenders` | 2 appenders, no failure, no crash | | finding 1 |
| `config_compress` | as `config` | | finding 2 |
| `feed_local_file` | as `feed`, 1 update, no crash | | finding 3 |

*Why the bounds are enough.* Three writers are the least for which two race on
one key while a third races for the last place, and five calls fill the table
and overflow it in every order. In History two prunes, three days, a failure and
a crash fit into the bounds, so a day is rotated again after each kind of
interruption, and an index is built, extended, dropped and rebuilt. In Alerting
a key can be admitted, evicted, expire and be admitted again, a bucket can be
emptied, refilled in part and in full, and be replaced twice. In ProcCache two
starts let one PID be reused, or a parent and a child live at once, and two
builders are the least that overlap; each builds as often as it likes. In Feed
three sources tell the first, the last and a middle one apart, and the second
update meets the set and the file of the first, whatever became of them. In
Daemon two windows of two flows let a process be reported twice in one and be
suppressed in the next, or fill its set and meet another destination, with the
restart before, between or after; one failure is enough since no write depends
on the success of another, and the proofs hold for any number.
In Capture three reads fill both channels and complete a hello with the SYN
before or after its segments, with a name or without, and two drops wrap the
counter. In Scoring one flow fills a category, three flows from one source pass the scan threshold and
two are each other's reverse. In Config two reloads overlap each other and an
edit. The proofs of section 5 do not depend on bounds.

*Deadlock* is checked for `alerting` and `proc_cache`, where some step is always
possible. It is switched off for FlowTable, Capture and Scoring, which end with
their window, and for History, Feed, Daemon and Config, which stop when clock and
counters reach their bounds.

*Fairness.* No fairness is assumed of callers, the clock, users, failures,
crashes, processes or sockets.

- `WF_vars(Prune)` (History): a goroutine that runs `pruneOld` blocks on nothing
  but `mu`; Go's scheduler runs it and `sync.Mutex` hands itself to a waiter
  after a millisecond. `PruneBoundsFile` assumes that failures and restarts come
  to an end and that the process makes `PruneEvery` appends: one that never does
  prunes nothing.
- `WF_vars(Build(b))` for each builder (ProcCache): every window starts with a
  build and the ticker starts one every two seconds, and a build that was started
  ends, since it holds the lock for two copies only and its calls to the system
  return; a listing that fails for ever is excluded.
- `WF_vars(Daemon)`: the loop and its goroutines are scheduled, and the timer of
  the window's context expires. It covers them as one; each goroutine has at most
  two steps in a window, so none is starved by the others.
- `WF_vars(DrainPacketSource)` and `WF_vars(Receive)` (Capture): a read returns
  within the 100 ms timeout of the handle, a file that can be read has an end, the
  consumer does nothing but receive.
- `WF_scoringVars(FinalizePass)` (Scoring): goroutines are scheduled and a lookup ends by the
  deadline of its context.

## 5. The proofs

Each module of proofs holds for every value of the constants that satisfies the
named assumptions of the module it is about: finitely many writers and a positive
limit (FlowTable), finitely many connections (Capture), the values of the
thresholds, capacities and durations as the code's constants and its validation
give them, and that `None` is no ordinary value. Two theorems about History have
the hypothesis `OneAppender`: finding 1 is what happens without it.

**AggregateProofs**, about FlowTable and Scoring (whose names differ, so
that one module extends both).
`TypeCorrect`, in particular that a writer about to count or
update a flow finds it in the table. `FlowBoundHolds`: `FlowBound` is not
inductive, since nothing in it says how many writers are past the test.
`CountInv` is the strengthening: the table holds exactly `flowCount` plus the
writers about to count, and the table plus the writers admitted and not yet
stored stay below `MaxFlows` plus the writers. `NoEarlyDropHolds`, from `CountInv`
and `FullInv` (a writer that was refused saw a full table, which never shrinks).
`TrackedAreCountedHolds`, inductive with `TypeOK`. `FinalizedIsFinalHolds`: the
records are the table, and no writer is left, once they exist.
`NothingLostHolds` compares a flow with a state computed from all its packets,
so it needs to know what one more packet does to that state, field by field:
`CountersOfAppend`, `TimesOfAppend` and `EnrichmentOfAppend`. With them
`FlowsReflect` (each flow reflects the packets that reached it) is inductive, and
`PacketsLanded` counts the calls of `Add` as packets in flows, drops, and writers
still busy with one.
The theorems about Scoring assume `ScoringParameters`: finitely many candidates,
multipliers of the code, byte counts that are numbers, and the validated number of
workers. `LabelsFollowScoreHolds` is inductive with the types of the records
(`WindowTypes`), given that a flow scores zero exactly when no signal fires: the
first signal that fires finds its category empty (`ReasonsIs`).
`ScoresAreDefinedHolds` has two halves. `DefinedScore` says that the score of
`score()`, which fills the categories in the order of the table and stops each at its
limit, is the limited sum of the definition; `FilledIs` shows it place by place, and
`ChainExists` that the functions over the table exist at all. `Scored` then gives for
every pass what the score is at that point, from facts that no later pass changes.
`FilterMissesNothingHolds` needs `Ordered`: the report is a permutation of the flows
(an injection between sets of the same size is onto) whose scores never rise
(`AdjacentIsEnough`). Both take the first place at which a claim would fail
(`HasMin`) where the argument would be an induction.

**ProcCacheProofs.** `TypeCorrect`: a build which has resolved its listing has an
entry for every PID of it, so no socket of the table points to nil.
`ReusedIsResolvedAnewHolds`: the property speaks of the cache only and is not
inductive, since an open build may hold an old entry in its copy. `CopiesInv` adds
the same bound on every copy, that a build alone is alone, and that what it saw to
be over stays over. `ResolvedEntries` is the lemma about `resolveProcess`.
`BuildLeavesItsListing`, the part of `NoLeak` that is about one step: a build that ends
leaves in the cache exactly the PIDs it listed.

**HistoryProofs.** The properties relate two disks, an index and a rotation that may
stop anywhere, and none is inductive. `StoreInv` has five parts. `Types` also says
which step of a rotation comes with which days. `Fresh`: an identifier is in the
hot file at most once and below the next to be given. `Daily`: a daily file holds
entries of its own day, once each, and only of days that are over. `Rotating`: while
a rotation runs, every line it will drop from the hot file is of a day still to
do or in that day's file already, which makes the rewrite harmless wherever a
crash comes. `Indexed`: an index entry gives the offset and the time of a line of
the hot file. `RotationIsIdempotentHolds` follows from these. The other two need
`Ordered` as well, that the lines are sorted by time, which one appender preserves
and two do not. `SearchIs` says that the binary search ends at the start of the index
or at an entry older than the cutoff; with the lines sorted, nothing before that
entry is in the window. Since the proof cannot be an induction over the turns, it
takes the first turn at which this would fail (`HasMin`) and shows there is none. `Drawn` relates a
rewritten file to the old one by the lines it was drawn from, in order; the lemmas
on rotation, trimming and the cap state it once, and every part of `StoreInv` uses it.
`QueryMissesNothingHolds`, `StoredUntilExpiredHolds` and `RotationIsIdempotentHolds`
hold for every number of appends, faults and crashes.
`TrimIsCapped` is the part of `PruneBoundsFile` that is about one step: a trim that
completes leaves the file within its size (`CapIs`).

**AlertingProofs.** `RateBoundHolds`: the property relates any two grants and says
nothing of the bucket. `Inflow` is the balance it follows from: for every grant,
what the bucket holds and what was granted since is within a full bucket and what
time has let flow in; `RefillInflow` shows it of the truncated refill, with
lemmas for the products the arithmetic solver does not find. `EmptiedByGrant`
(an empty bucket was emptied by a grant after its last refill) gives
`LimitedOnlyWhenBusyHolds`. `PostsAccountedHolds` needs that a move from one
attempt to the next leaves the sum over the attempts alone: `TotalExists` to
`TotalMoves` are the lemmas about that sum. `DedupWindowHolds` and
`SuppressedInWindowHolds` rest on `CacheInv`: the cache has a key once, an entry's
expiry is the end of the window that its last admission began, every entry in front
of it in the recency list was looked up since, and an admitted key that has left
the cache has as many others looked up since as the cache has places
(`Forgotten`). `WithoutIs` and `FrontIs` are its lemmas about
removing one element of the recency list.

**FeedProofs.** `Implements`: every behaviour of Feed is one of FeedSpec. Its core is
`MergeInv`: before every source the batch is the merge that the code makes, with the
least or the greatest index that lists an indicator, of the sources read so far; `NextNamed` says what one more source does to that index. Then each step
maps to a step or a stutter, and `MergeIsMerge` says that what the code offers is a
merge of FeedSpec, named by a source that listed it and by the first where that
counts. `FoundIfListedHolds` follows from the same invariant
and the definition of the merge. `RestartKeepsLiveHolds` by `SavedInv`, which says
for each point of an update which of the two sets are already the batch.

**DaemonProofs.** `StoresInv` says of the store and of the file what the baseline may
hold: within its size, remembering every destination it was told of unless full,
and with no more beacon counts than reports. The `Good` lemmas show that pruning,
observing and loading keep it, and `TypeCorrect`, `NewOnlyOnceHolds` and
`SuppressedWasReportedHolds` follow. `LearnedInv` orders the memory and the file over
a window, for a process that has read the file or replaced it since, and gives `StoredIsLearnedHolds` and `ExpectedStaysHolds`. `AlertInv` counts
the overdue windows against the restarts and gives `AlertedUnlessEndedHolds`.

**CaptureProofs.** `DropsNotOvercountedHolds`, by `DropsInv`: what was counted is at
most the full turns of the counter plus its last sample, from two lemmas on
division. `TypeCorrect`, `PacketsAccountedHolds` and `HellosAccountedHolds` come from
one invariant, `CaptureInv`: the packets in `ch` are numbered in order and end just
before the one in hand (`QueueInv`, `PacketInv`), what is queued agrees with the place
in the loop (`ControlInv`), and every hello is received, refused or in one of the two
channels (`HelloInv`). `StepLosses` is the other half of `HellosAccountedHolds`, what
a step may lose, and `EmitsCounts` what putting hellos together does to the three
numbers. The counts of packets in a channel change by `CountAppend`
and `CountTail`; `StepCapture` has one lemma for each handler.

**ConfigProofs.** `ActiveIsValidHolds`: validation precedes the environment's
overrides, so the proof needs that these touch no field that is checked
(`EnvKeepsValid`), and that the defaults are valid. `EmptyPathMeansDefaultsHolds` is
inductive with the types: a load that has set and not yet recorded its path is
visible. `FileIsHonouredHolds` is the meaning of a file and of the environment, field
by field, for every document; `EnvOverridesTwo` and `UsedOverridesOne` say which
fields the overrides touch.

*Only model-checked.* Every liveness property (`PruneBoundsFile`, `NoLeak`, `CancelStops`,
`CaptureEnds`, `FinalizeEnds`): fairness and ENABLED are out of the prover's reach.

## 6. Findings

1. *Index out of order* (`history.go:94,127`): `Append` stamps before it locks,
   so with two callers the index is not sorted and a query may skip an entry.
2. *Rotation cannot be switched on* (`config.go:525`): the merge copies three
   fields of the history section and never `compress_rotated`.
3. *The local feed file is overridden* (`ja3/feed.go:124`, `hassh_feed.go`): the file is
   read first and every URL after it into the same map, so a URL's entry takes the
   place of the local one, although `ja3/feed.go:112`, `hassh_feed.go:4,97` and
   `config.go:200` give the file the highest priority.

Where the properties above are weaker than a reader of the code might expect, they
are written around behaviour of the code that the models do have:

- After a torn write the next entry is glued to its remains and lost although its
  `Append` returned nil (`history.go:119`); `QueryMissesNothing` speaks of lines that
  can be parsed.
- When a day cannot be saved in its compressed file, the trim that follows still
  deletes its entries by age and size (`history.go:690,523`).
- A daily file is deleted by days counted from the midnight at which its day
  began, up to a day before its last entry is that old (`history.go:754`).
- An alert the rate limiter drops still silences its flow for the deduplication
  window (`alerting.go:208`).
- The entry with only a name that a child's resolution stores for its parent is
  taken for the parent's own (`correlate.go:312`).
- A baseline file that cannot be read or parsed gives an empty store without a word
  (`baseline.go:355-389`), and the next save replaces it; `ExpectedStays` and
  `StoredIsLearned` except it.
- An error of a file other than `io.EOF`, such as that of a cut gzip stream, is
  tried again at once for ever (`capture.go:230-243`): without a deadline on the
  context such a file keeps one processor busy and never ends.
- The clean signals of a flow ("only annotate clearly low-risk flows",
  `aggregate.go:1381`) are computed before the scan and upload passes raise the score
  and not again (`aggregate.go:613`): a flow raised to MEDIUM keeps them.
- `--test-alert` refuses a webhook that only `FLOWSENTINEL_WEBHOOK_URL` names
  (`main.go:307`), although alerts are sent to it.
- An expected beaconer is one of `minBeaconingObs` capture windows by its comment
  (`baseline.go:222`); the counter goes up once for every reported flow.
- A ClientHello that was split and names no server is never emitted
  (`reassembly.go:102`), so its JA3 is lost, although `docs/architecture.md:163` says
  no handshake is missed.
- A signal whose category is full already leaves no reason, although
  `docs/architecture.md:7` says every fired signal is recorded.
- The JA3 updater starts only when there is a URL (`daemon.go:149`): a local file
  alone is never read.
- Of overlapping reloads the one that read the older file may be the last to set
  it (`config.go:743`).

## 7. Not modelled

- Updater: it runs once, alone, on the request of the user; download, digest and
  signature are library calls. The two renames on Windows are a listed hazard.
- Parsers, intelligence helpers, HTTP clients, installers, the formatting of tool
  answers: no state, or an input space TLC cannot enumerate. Metrics: independent
  atomic counters.
- The alert log (`store.go`): an append-only file whose errors are logged; `Summarise`
  and the statistics of the daemon only count.
- Capacity and expiry of the DNS cache (the LRU of Alerting is the same code), the
  page limits of the TCP library, `GetAllConnections` and `Lookup` of correlate.
- Floating point: the variance of the baseline, entropy and the coefficient of
  variation of a beacon are facts or small numbers.
- Small exits that change nothing a property tells apart, or cannot be taken: an alert
  that cannot be marshalled (`alerting.go:226`; it has only texts and finite numbers), a feed
  cache that cannot be read although it is there (`ja3/feed.go:244`), a flow whose
  process has no name (it teaches the baseline nothing), an interface listed twice,
  a NaN in the configuration, which passes the negated checks (`config.go:808`).
- Two processes on one history file: `mu` is per process, and nothing in the code
  orders them. `RecurrenceMap` counts an entry twice between an interrupted rotation
  and the next one; `Query` does too, which its property, a set, does not see.
