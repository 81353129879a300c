-------------------------------- MODULE Feed --------------------------------
(***************************************************************************)
(* The four threat feeds: ja3/feed.go, capture/hassh_feed.go,              *)
(* intel/iprep.go and intel/domrep.go.  Each has a live set under a lock,  *)
(* a cache file, an update that reads a local file and then every URL, and *)
(* lookups that run beside it.  They share a shape and differ in what      *)
(* counts when two sources list one indicator, in what a wide indicator    *)
(* covers, and in how and when the cache is written.  The feeds share no   *)
(* state, so a behaviour is about one of them, chosen by kind.  Only the   *)
(* updater goroutine of the daemon updates a feed, one update at a time; a *)
(* source is read in one step, and any part of its listing may be all that *)
(* arrives: nothing when the request fails or the file is missing, a part  *)
(* when the body breaks off (what was parsed by then stays in the merge).  *)
(* What the update returns is only logged.                                 *)
(***************************************************************************)
EXTENDS Naturals, FiniteSetsExt, Functions, Sequences

CONSTANTS
  Exact, Wide, Sources, None,   \* see FeedSpec
  BuiltIn,     \* hashes of the tables compiled into the program
  Extra,       \* hashes listed in the configuration (ja3 only)
  MaxUpdates, MaxCrashes        \* bounds of the model

Indicators == Exact \union {Wide}
Entries == [Indicators -> Range(Sources) \union {None}]
NoEntries == [k \in Indicators |-> None]

ASSUME FeedParameters ==
  /\ Wide \notin Exact /\ None \notin Range(Sources) /\ Sources \in Seq(Range(Sources))
  /\ BuiltIn \subseteq Exact /\ Extra \subseteq Exact
  /\ None \notin Entries \union {"built-in", "extra"}

VARIABLES
  kind,        \* which of the four feeds
  live,        \* feedEntries, hasshFeedEntries, ipRepLive, domRepLive
  file,        \* the cache file: a set, or None when missing or unreadable
  step,        \* where the update stands
  batch,       \* the map the update fills
  next,        \* index of the source to be read
  read,        \* history: what each source listed in this update
  saveFailed,  \* history: the last attempt to write the cache failed
  updates, crashes

update == <<step, batch, next, read>>
vars == <<kind, live, file, update, saveFailed, updates, crashes>>

Kinds == {"ja3", "hassh", "iprep", "domrep"}
----------------------------------------------------------------------------
(* The parsers: entries ks of source s go into the map m.  The maps of hashes
   and addresses are overwritten; ranges are appended to a list of which a
   lookup takes the first that matches; a domain that is there is kept. *)
Overwrites(m, s, ks) == [k \in Indicators |-> IF k \in ks THEN s ELSE m[k]]
Keeps(m, s, ks) == [k \in Indicators |-> IF k \in ks /\ m[k] = None THEN s ELSE m[k]]

ParseCSV(m, s, ks) == Overwrites(m, s, ks)
ParseHasshCSV(m, s, ks) == Overwrites(m, s, ks)
ParseIPRepStream(m, s, ks) == Keeps(Overwrites(m, s, ks \ {Wide}), s, ks)
ParseDomRep_Overwrites(m, s, ks) == Overwrites(m, s, ks)
ParseDomRep(m, s, ks) == Keeps(m, s, ks)

Parsed(m, s, ks) ==
  CASE kind = "ja3" -> ParseCSV(m, s, ks)
    [] kind = "hassh" -> ParseHasshCSV(m, s, ks)
    [] kind = "iprep" -> ParseIPRepStream(m, s, ks)
    [] kind = "domrep" -> ParseDomRep(m, s, ks)

(* The lookups: the source that answers for the value q, or None. *)
LookupWithFeed(m, q) ==
  CASE q \in BuiltIn -> "built-in"
    [] q \notin BuiltIn /\ m[q] # None -> m[q]
    [] q \notin BuiltIn /\ m[q] = None /\ q \in Extra -> "extra"
    [] OTHER -> None

LookupHASHWithFeed(m, q) == IF q \in BuiltIn THEN "built-in" ELSE m[q]
IPRepLookup_ExactOnly(m, q) == m[q]
IPRepLookup(m, q) == IF m[q] # None THEN m[q] ELSE m[Wide]
DomRepLookup(m, q) == IF m[q] # None THEN m[q] ELSE m[Wide]

Lookup(m, q) ==
  CASE kind = "ja3" -> LookupWithFeed(m, q)
    [] kind = "hassh" -> LookupHASHWithFeed(m, q)
    [] kind = "iprep" -> IPRepLookup(m, q)
    [] kind = "domrep" -> DomRepLookup(m, q)

(* What a start takes from the cache: nothing when it cannot be parsed. *)
LoadFeedFromDisk == IF file = None THEN NoEntries ELSE file
LoadHasshFeedFromDisk == IF file = None THEN NoEntries ELSE file
LoadIPRepFromDisk == IF file = None THEN NoEntries ELSE file
LoadDomRepFromDisk == IF file = None THEN NoEntries ELSE file

Loaded ==
  CASE kind = "ja3" -> LoadFeedFromDisk
    [] kind = "hassh" -> LoadHasshFeedFromDisk
    [] kind = "iprep" -> LoadIPRepFromDisk
    [] kind = "domrep" -> LoadDomRepFromDisk
----------------------------------------------------------------------------
NoUpdate ==
  /\ step' = "idle"
  /\ batch' = NoEntries
  /\ next' = 1
  /\ read' = [i \in DOMAIN Sources |-> {}]

Init ==
  /\ kind \in Kinds
  /\ live = NoEntries
  /\ file = None
  /\ step = "idle" /\ batch = NoEntries /\ next = 1
  /\ read = [i \in DOMAIN Sources |-> {}]
  /\ saveFailed = FALSE
  /\ updates = 0 /\ crashes = 0

Begin ==
  /\ step = "idle" /\ updates < MaxUpdates
  /\ step' = "reading"
  /\ updates' = updates + 1
  /\ UNCHANGED <<kind, live, file, batch, next, read, saveFailed, crashes>>

(* The local file or one URL: whatever part of its listing arrives. *)
Fetch(ks) ==
  /\ step = "reading" /\ next <= Len(Sources)
  /\ batch' = Parsed(batch, Sources[next], ks)
  /\ read' = [read EXCEPT ![next] = ks]
  /\ next' = next + 1
  /\ UNCHANGED <<kind, live, file, step, saveFailed, updates, crashes>>

AllRead == step = "reading" /\ next > Len(Sources)

NothingFound_Swaps ==
  /\ AllRead /\ batch = NoEntries
  /\ live' = batch
  /\ NoUpdate
  /\ UNCHANGED <<kind, file, saveFailed, updates, crashes>>
(* No source gave an entry: the update returns and the old set stays. *)
NothingFound ==
  /\ AllRead /\ batch = NoEntries
  /\ NoUpdate
  /\ UNCHANGED <<kind, live, file, saveFailed, updates, crashes>>

Merged ==
  /\ AllRead /\ batch # NoEntries
  /\ step' = "merged"
  /\ UNCHANGED <<kind, live, file, batch, next, read, saveFailed, updates, crashes>>

(* The live map is replaced under the write lock. *)
Swap(from) ==
  /\ step = from
  /\ live' = batch
  /\ UNCHANGED <<kind, file, saveFailed, updates, crashes>>

(* os.WriteFile on the cache itself: truncated, then filled, or left as it is
   when it cannot be opened, and truncated when the write fails. *)
WriteInPlace ==
  \/ /\ step = "swapped"
     /\ step' = "writing"
     /\ file' = None
     /\ UNCHANGED <<kind, live, batch, next, read, saveFailed, updates, crashes>>
  \/ /\ step = "writing"
     /\ file' = batch
     /\ saveFailed' = FALSE
     /\ NoUpdate
     /\ UNCHANGED <<kind, live, updates, crashes>>
  \/ /\ step \in {"swapped", "writing"}
     /\ saveFailed' = TRUE
     /\ NoUpdate
     /\ UNCHANGED <<kind, live, file, updates, crashes>>

SaveFeedToDisk == kind = "ja3" /\ WriteInPlace
SaveHasshFeedToDisk == kind = "hassh" /\ WriteInPlace
SaveIPRepToDisk == kind = "iprep" /\ WriteInPlace

(* A temporary file renamed over the cache; an error ends it silently. *)
SaveDomRepToDisk ==
  /\ kind = "domrep"
  /\ step = "merged"
  /\ step' = "saved"
  /\ \/ file' = batch /\ saveFailed' = FALSE
     \/ file' = file /\ saveFailed' = TRUE
  /\ UNCHANGED <<kind, live, batch, next, read, updates, crashes>>

(* Hashes and addresses are live before they are saved, domains after. *)
SwapThenSave ==
  Swap("merged") /\ step' = "swapped" /\ UNCHANGED <<batch, next, read>>
SaveThenSwap == Swap("saved") /\ NoUpdate

Read == (\E ks \in SUBSET Indicators : Fetch(ks)) \/ NothingFound \/ Merged

UpdateFeed == kind = "ja3" /\ (Read \/ SwapThenSave \/ SaveFeedToDisk)
UpdateHasshFeed == kind = "hassh" /\ (Read \/ SwapThenSave \/ SaveHasshFeedToDisk)
UpdateIPRep == kind = "iprep" /\ (Read \/ SwapThenSave \/ SaveIPRepToDisk)
UpdateDomRep == kind = "domrep" /\ (Read \/ SaveDomRepToDisk \/ SaveThenSwap)

(* The goroutine of a feed: one update at the start, one at every tick, never
   two at once.  Its end with the context is a run in which it takes no step. *)
RunJA3FeedUpdater == kind = "ja3" /\ Begin
RunHasshFeedUpdater == kind = "hassh" /\ Begin
RunIPRepUpdater == kind = "iprep" /\ Begin
RunDomRepUpdater == kind = "domrep" /\ Begin

(* The process ends, anywhere, and starts again: init loads the cache. *)
Restart ==
  /\ crashes < MaxCrashes
  /\ crashes' = crashes + 1
  /\ live' = Loaded
  /\ NoUpdate
  /\ UNCHANGED <<kind, file, saveFailed, updates>>

Next ==
  \/ RunJA3FeedUpdater \/ UpdateFeed
  \/ RunHasshFeedUpdater \/ UpdateHasshFeed
  \/ RunIPRepUpdater \/ UpdateIPRep
  \/ RunDomRepUpdater \/ UpdateDomRep
  \/ Restart
Spec == Init /\ [][Next]_vars
----------------------------------------------------------------------------
Offering == step \in {"merged", "saved", "swapped", "writing"}

(* The update of every feed implements FeedSpec: "Atomically replace the live
   feed" (ja3/feed.go:136), "atomically replaces the live domain reputation
   database" (domrep.go:81), with the merge computed source by source, the
   file truncated before it is written, and a crash anywhere. *)
Abstract ==
  INSTANCE FeedSpec WITH answers <- read, cache <- file,
                         offered <- IF Offering THEN batch ELSE None
ImplementsFeedSpec == Abstract!Spec

(* Of the sources that list a hash, the local file names it: it is loaded first
   for its "highest priority for overrides" (ja3/feed.go:112, hassh_feed.go:4),
   and "Local file takes priority over remote URLs." (hassh_feed.go:97).  The
   maps are overwritten in the order of reading, so a later URL takes its place. *)
LocalFileFirst ==
  Offering /\ kind \in {"ja3", "hassh"} =>
    \A k \in Exact : k \in read[1] => batch[k] = Sources[1]

(* What any source listed in a merge is found by the lookup of that feed,
   alone or through the range or parent domain that covers it, and the answer
   names a source that listed it or a table that has it. *)
Covered(i, q) == q \in read[i] \/ (kind \in {"iprep", "domrep"} /\ Wide \in read[i])
FoundIfListed ==
  Offering =>
    \A q \in Exact :
      LET answer == Lookup(batch, q)
          sources == {Sources[i] : i \in {j \in DOMAIN Sources : Covered(j, q)}}
      IN /\ sources # {} => answer # None
         /\ answer \notin {None, "built-in", "extra"} => answer \in sources

(* A restart between two updates changes nothing for the lookups unless the
   cache could not be written ("Persist to disk for next restart",
   ja3/feed.go:142): every way an update ends leaves the same set in memory
   and in the file, whichever is replaced first. *)
RestartKeepsLive == step = "idle" /\ ~saveFailed => Loaded = live
=============================================================================
