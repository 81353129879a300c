------------------------------ MODULE FeedProofs ------------------------------
(* Theorems about Feed for all sources, indicators and built-in tables: the  *)
(* update of every feed implements FeedSpec, what a source listed is found,  *)
(* and a restart between two updates serves what was served before.          *)
EXTENDS Feed, WellFoundedInduction, TLAPS

Steps == {"idle", "reading", "merged", "saved", "swapped", "writing"}

Types ==
  /\ kind \in Kinds /\ step \in Steps
  /\ live \in Entries /\ batch \in Entries /\ file \in Entries \union {None}
  /\ next \in 1 .. Len(Sources) + 1
  /\ read \in [DOMAIN Sources -> SUBSET Indicators]
  /\ saveFailed \in BOOLEAN

(* Which source names an indicator, by the answers and what the parser of the
   feed does: the first that lists a domain or a range, else the last. *)
First(knd, k) == knd = "domrep" \/ (knd = "iprep" /\ k = Wide)
Listing(r, k) == {i \in DOMAIN Sources : k \in r[i]}
Named(knd, r, k) ==
  CASE Listing(r, k) = {} -> None
    [] Listing(r, k) # {} /\ First(knd, k) -> Sources[Min(Listing(r, k))]
    [] OTHER -> Sources[Max(Listing(r, k))]

Merge == [k \in Indicators |-> Named(kind, read, k)]

(* The map being filled is the merge of what was read so far: no source that
   is still to be read has listed anything. *)
MergeInv ==
  /\ batch = Merge
  /\ \A i \in DOMAIN Sources : i >= next => read[i] = {}
  /\ Offering => batch # NoEntries
  /\ step = "idle" => batch = NoEntries /\ next = 1

(* The largest and the smallest member of a set of positions. *)
LEMMA MaxIs ==
  ASSUME NEW S \in SUBSET Nat, NEW m \in S, \A n \in S : n <= m
  PROVE  Max(S) = m
<1>1. \E x \in S : \A y \in S : x >= y
  OBVIOUS
<1>2. Max(S) \in S /\ \A y \in S : Max(S) >= y
  BY <1>1, Zenon DEF Max
<1>3. Max(S) \in Nat /\ m \in Nat /\ Max(S) >= m
  BY <1>2
<1>4. m >= Max(S)
  BY <1>2, <1>3
<1>5. QED BY <1>3, <1>4

(* The same for the smallest. *)
LEMMA MinIs ==
  ASSUME NEW S \in SUBSET Nat, NEW m \in S, \A n \in S : m <= n
  PROVE  Min(S) = m
<1>1. \E x \in S : \A y \in S : x <= y
  OBVIOUS
<1>2. Min(S) \in S /\ \A y \in S : Min(S) <= y
  BY <1>1, Zenon DEF Min
<1>3. Min(S) \in Nat /\ m \in Nat /\ Min(S) <= m
  BY <1>2
<1>4. m <= Min(S)
  BY <1>2, <1>3
<1>5. QED BY <1>3, <1>4

(* The sources are numbered from 1, and none of them is None. *)
LEMMA SourcesAre ==
  /\ Len(Sources) \in Nat /\ DOMAIN Sources = 1 .. Len(Sources)
  /\ \A i \in DOMAIN Sources : Sources[i] \in Range(Sources) /\ Sources[i] # None
BY FeedParameters DEF Range

(* A set of positions that is not empty has a smallest member. *)
LEMMA HasMin ==
  ASSUME NEW S \in SUBSET Nat, S # {}
  PROVE  \E m \in S : \A n \in S : m <= n
<1> DEFINE R == {ss \in Nat \X Nat : ss[1] < ss[2]}
<1>2. IsWellFoundedOn(R, Nat)
  BY NatLessThanWellFounded DEF OpToRel
<1>3. \A x, y \in Nat : x < y => <<x, y>> \in R
  OBVIOUS
<1> HIDE DEF R
<1>4. \E x \in S : \A y \in S : ~ (<<y, x>> \in R)
  BY <1>2, WFMin
<1>5. PICK x \in S : \A y \in S : ~ (<<y, x>> \in R)
  BY <1>4
<1>6. ASSUME NEW y \in S PROVE x <= y
  <2>1. ~ (y < x) /\ x \in Nat /\ y \in Nat
    BY <1>3, <1>5, <1>6
  <2>2. QED BY <2>1
<1>7. QED BY <1>6

(* A source read after all that have listed something: it names what only it
   lists, and what others list where the last one counts. *)
LEMMA NextNamed ==
  ASSUME NEW knd, NEW r \in [DOMAIN Sources -> SUBSET Indicators], NEW n \in DOMAIN Sources,
         \A i \in DOMAIN Sources : i >= n => r[i] = {},
         NEW ks \in SUBSET Indicators, NEW k \in Indicators
  PROVE  Named(knd, [r EXCEPT ![n] = ks], k) =
           IF k \in ks /\ (Listing(r, k) = {} \/ ~First(knd, k)) THEN Sources[n] ELSE Named(knd, r, k)
<1> DEFINE L == Listing(r, k)
<1> DEFINE M == Listing([r EXCEPT ![n] = ks], k)
<1>1. L \in SUBSET Nat /\ M \in SUBSET Nat /\ n \in Nat
  BY SourcesAre DEF Listing
<1>2. \A i \in L : i < n
  BY SourcesAre DEF Listing
<1>3. M = IF k \in ks THEN L \union {n} ELSE L
  <2>1. r[n] = {}
    BY SourcesAre
  <2>2. \A i \in DOMAIN Sources : [r EXCEPT ![n] = ks][i] = IF i = n THEN ks ELSE r[i]
    OBVIOUS
  <2>3. \A i \in DOMAIN Sources : k \in [r EXCEPT ![n] = ks][i] <=> (i = n /\ k \in ks) \/ k \in r[i]
    BY <2>1, <2>2
  <2>4. QED BY <2>3 DEF Listing
<1>4. CASE k \notin ks
  BY <1>3, <1>4 DEF Named
<1> HIDE DEF L, M
<1>5. CASE k \in ks /\ L = {}
  <2>1. M = {n} /\ M # {}
    BY <1>3, <1>5
  <2>2. Max(M) = n
    BY <1>1, <2>1, MaxIs
  <2>3. Min(M) = n
    BY <1>1, <2>1, MinIs
  <2>4. QED BY <1>5, <2>1, <2>2, <2>3 DEF Named, L, M
<1>6. CASE k \in ks /\ L # {}
  <2>1. M = L \union {n} /\ M # {}
    BY <1>3, <1>6
  <2>2. \A i \in M : i <= n
    BY <1>1, <1>2, <2>1
  <2>3. Max(M) = n
    BY <1>1, <2>1, <2>2, MaxIs
  <2>4. PICK m \in L : \A i \in L : m <= i
    BY <1>1, <1>6, HasMin
  <2>5. Min(L) = m
    BY <1>1, <2>4, MinIs
  <2>6. \A i \in M : m <= i
    BY <1>1, <1>2, <2>1, <2>4
  <2>7. Min(M) = m
    BY <1>1, <2>1, <2>4, <2>6, MinIs
  <2>8. QED BY <1>6, <2>1, <2>3, <2>5, <2>7 DEF Named, L, M
<1>7. QED BY <1>4, <1>5, <1>6

(* The positions that list an indicator have a largest one: they are bounded by
   the number of sources. *)
LEMMA HasMax ==
  ASSUME NEW S \in SUBSET Nat, S # {}, NEW b \in Nat, \A n \in S : n <= b
  PROVE  \E m \in S : \A n \in S : n <= m
<1> DEFINE T == {b - n : n \in S}
<1>1. T \in SUBSET Nat /\ T # {}
  <2>1. \A n \in S : b - n \in Nat
    OBVIOUS
  <2>2. T \subseteq Nat
    BY <2>1
  <2>3. PICK n \in S : TRUE
    OBVIOUS
  <2>4. b - n \in T
    OBVIOUS
  <2>5. QED BY <2>2, <2>4
<1>2. PICK t \in T : \A u \in T : t <= u
  BY <1>1, HasMin
<1>3. PICK m \in S : t = b - m
  OBVIOUS
<1>4. ASSUME NEW n \in S PROVE n <= m
  <2>1. b - n \in T
    OBVIOUS
  <2>2. b - m <= b - n
    BY <1>2, <1>3, <2>1
  <2>3. QED BY <2>2
<1>5. QED BY <1>4

(* An indicator has an entry exactly when a source lists it. *)
LEMMA NamedIsSource ==
  ASSUME NEW knd, NEW r \in [DOMAIN Sources -> SUBSET Indicators], NEW k \in Indicators
  PROVE  IF Listing(r, k) = {} THEN Named(knd, r, k) = None
         ELSE \E i \in Listing(r, k) : Named(knd, r, k) = Sources[i]
<1> DEFINE L == Listing(r, k)
<1>1. L \in SUBSET Nat /\ L \subseteq DOMAIN Sources /\ \A i \in L : i <= Len(Sources)
  BY SourcesAre DEF Listing
<1>2. CASE L = {}
  BY <1>2 DEF Named
<1> HIDE DEF L
<1>3. CASE L # {}
  <2>1. PICK m \in L : \A i \in L : m <= i
    BY <1>1, <1>3, HasMin
  <2>2. PICK n \in L : \A i \in L : i <= n
    BY <1>1, <1>3, SourcesAre, HasMax
  <2>3. Min(L) = m
    BY <1>1, <2>1, MinIs
  <2>4. Max(L) = n
    BY <1>1, <2>2, MaxIs
  <2>5. QED BY <1>3, <2>3, <2>4 DEF Named, L
<1>4. QED BY <1>2, <1>3 DEF L

(* What the parsers make of the answers is a merge in the sense of FeedSpec. *)
LEMMA MergeIsMerge ==
  ASSUME Types
  PROVE  Abstract!IsMerge(Merge)
<1>1. read \in [DOMAIN Sources -> SUBSET Indicators] /\ Abstract!Indicators = Indicators
  BY DEF Types, Abstract!Indicators, Indicators
<1>2. ASSUME NEW k \in Indicators
      PROVE  /\ Named(kind, read, k) \in Range(Sources) \union {None}
             /\ Listing(read, k) = {} => Named(kind, read, k) = None
             /\ Listing(read, k) # {} => Named(kind, read, k) \in {Sources[i] : i \in Listing(read, k)}
             /\ Listing(read, k) # {} /\ First(kind, k) => Named(kind, read, k) = Sources[Min(Listing(read, k))]
  <2>1. IF Listing(read, k) = {} THEN Named(kind, read, k) = None
        ELSE \E i \in Listing(read, k) : Named(kind, read, k) = Sources[i]
    BY <1>1, NamedIsSource
  <2>2. \A i \in Listing(read, k) : Sources[i] \in Range(Sources)
    BY SourcesAre DEF Listing
  <2>3. Listing(read, k) # {} /\ First(kind, k) => Named(kind, read, k) = Sources[Min(Listing(read, k))]
    BY DEF Named
  <2>4. QED BY <2>1, <2>2, <2>3
<1>3. Merge \in Entries
  BY <1>2 DEF Merge, Entries
<1>4. Abstract!Entries = Entries
  BY DEF Abstract!Entries, Abstract!Indicators, Entries, Indicators, Abstract!Range, Range
<1>5. ASSUME NEW k \in Indicators
      PROVE  /\ Abstract!FirstCounts(k) <=> First(kind, k)
             /\ Abstract!Min(Listing(read, k)) = Min(Listing(read, k))
  BY DEF Abstract!FirstCounts, First, Abstract!Min, Min
<1>6. ASSUME NEW k \in Indicators PROVE Merge[k] = Named(kind, read, k)
  BY DEF Merge
<1>7. QED BY <1>1, <1>2, <1>3, <1>4, <1>5, <1>6 DEF Abstract!IsMerge, Listing

----------------------------------------------------------------------------
IInv == Types /\ MergeInv

(* The empty map is a map, and None is not one. *)
LEMMA NoEntriesType == NoEntries \in Entries /\ None \notin Entries /\ NoEntries # None
BY FeedParameters DEF NoEntries, Entries

(* Before anything is read the merge is empty. *)
LEMMA EmptyMerge ==
  ASSUME NEW knd, NEW r, r = [i \in DOMAIN Sources |-> {}]
  PROVE  [k \in Indicators |-> Named(knd, r, k)] = NoEntries
BY DEF Named, Listing, NoEntries

(* What the parser of each feed makes of a map that is the merge so far is the
   merge with one source more. *)
LEMMA FetchMerges ==
  ASSUME IInv, NEW ks \in SUBSET Indicators, Fetch(ks)
  PROVE  /\ batch' \in Entries /\ batch' = Merge'
         /\ \A i \in DOMAIN Sources : i >= next' => read'[i] = {}
         /\ next' \in 1 .. Len(Sources) + 1 /\ read' \in [DOMAIN Sources -> SUBSET Indicators]
<1>1. /\ next \in DOMAIN Sources /\ next' = next + 1 /\ kind' = kind
      /\ read' = [read EXCEPT ![next] = ks] /\ batch' = Parsed(batch, Sources[next], ks)
  BY SourcesAre DEF Fetch, IInv, Types
<1>2. /\ read \in [DOMAIN Sources -> SUBSET Indicators] /\ batch \in Entries /\ kind \in Kinds
      /\ \A i \in DOMAIN Sources : i >= next => read[i] = {}
  BY DEF IInv, Types, MergeInv
<1>3. \A k \in Indicators : batch[k] = Named(kind, read, k)
  BY DEF IInv, MergeInv, Merge
<1>4. \A k \in Indicators : batch[k] = None <=> Listing(read, k) = {}
  BY <1>2, <1>3, NamedIsSource, SourcesAre DEF Listing
<1>5. Wide \in Indicators /\ Sources[next] \in Range(Sources)
  BY <1>1, SourcesAre DEF Indicators
<1>6. Parsed(batch, Sources[next], ks) =
        [k \in Indicators |-> IF k \in ks /\ (batch[k] = None \/ ~First(kind, k))
                             THEN Sources[next] ELSE batch[k]]
  <2>1. CASE kind \in {"ja3", "hassh"}
    BY <2>1 DEF Parsed, ParseCSV, ParseHasshCSV, Overwrites, First
  <2>2. CASE kind = "domrep"
    BY <2>2 DEF Parsed, ParseDomRep, Keeps, First
  <2>3. CASE kind = "iprep"
    BY <2>3 DEF Parsed, ParseIPRepStream, Keeps, Overwrites, First
  <2>4. QED BY <1>2, <2>1, <2>2, <2>3 DEF Kinds
<1>7. \A k \in Indicators : batch'[k] = Named(kind', read', k)
  <2> SUFFICES ASSUME NEW k \in Indicators PROVE batch'[k] = Named(kind', read', k)
    OBVIOUS
  <2>1. batch'[k] = IF k \in ks /\ (batch[k] = None \/ ~First(kind, k)) THEN Sources[next] ELSE batch[k]
    BY <1>1, <1>6
  <2>2. Named(kind, [read EXCEPT ![next] = ks], k) =
          IF k \in ks /\ (Listing(read, k) = {} \/ ~First(kind, k)) THEN Sources[next]
          ELSE Named(kind, read, k)
    BY <1>1, <1>2, NextNamed, ZenonT(30)
  <2>3. Named(kind', read', k) = Named(kind, [read EXCEPT ![next] = ks], k)
    BY <1>1
  <2>4. QED BY <1>3, <1>4, <2>1, <2>2, <2>3
<1>8. batch' = [k \in Indicators |-> Named(kind', read', k)]
  BY <1>1, <1>6, <1>7
<1>9. batch' \in Entries
  BY <1>1, <1>2, <1>5, <1>6 DEF Entries
<1>10. /\ next' \in 1 .. Len(Sources) + 1 /\ read' \in [DOMAIN Sources -> SUBSET Indicators]
       /\ \A i \in DOMAIN Sources : i >= next' => read'[i] = {}
  BY <1>1, <1>2, SourcesAre
<1>11. QED BY <1>8, <1>9, <1>10 DEF Merge

(* The end of an update leaves an empty map and nothing read. *)
LEMMA ResetMerges ==
  ASSUME NoUpdate
  PROVE  /\ batch' \in Entries /\ batch' = Merge' /\ batch' = NoEntries
         /\ \A i \in DOMAIN Sources : i >= next' => read'[i] = {}
         /\ next' = 1 /\ step' = "idle" /\ read' \in [DOMAIN Sources -> SUBSET Indicators]
         /\ next' \in 1 .. Len(Sources) + 1
<1>1. batch' = NoEntries /\ read' = [i \in DOMAIN Sources |-> {}] /\ next' = 1 /\ step' = "idle"
  BY DEF NoUpdate
<1>2. [k \in Indicators |-> Named(kind', read', k)] = NoEntries
  BY <1>1, EmptyMerge
<1>3. batch' = Merge' /\ batch' \in Entries
  BY <1>1, <1>2, NoEntriesType DEF Merge
<1>4. read' \in [DOMAIN Sources -> SUBSET Indicators] /\ \A i \in DOMAIN Sources : read'[i] = {}
  BY <1>1
<1>5. 1 \in 1 .. Len(Sources) + 1
  BY SourcesAre
<1>6. QED BY <1>1, <1>3, <1>4, <1>5

(* What each feed loads is what its file has, or nothing. *)
LEMMA LoadedType ==
  ASSUME Types
  PROVE  Loaded = (IF file = None THEN NoEntries ELSE file) /\ Loaded \in Entries
BY NoEntriesType DEF Types, Kinds, Loaded, LoadFeedFromDisk, LoadHasshFeedFromDisk, LoadIPRepFromDisk,
   LoadDomRepFromDisk

(* The same after a step. *)
LEMMA LoadedNext ==
  ASSUME Types'
  PROVE  Loaded' = (IF file' = None THEN NoEntries ELSE file')
BY DEF Types, Kinds, Loaded, LoadFeedFromDisk, LoadHasshFeedFromDisk, LoadIPRepFromDisk,
   LoadDomRepFromDisk

(* Initially nothing was read, listed or saved. *)
LEMMA InitIInv == Init => IInv
<1> SUFFICES ASSUME Init PROVE IInv
  OBVIOUS
<1>1. 1 \in 1 .. Len(Sources) + 1
  BY SourcesAre
<1>2. [i \in DOMAIN Sources |-> {}] \in [DOMAIN Sources -> SUBSET Indicators]
  OBVIOUS
<1>3. Types
  BY <1>1, <1>2, NoEntriesType, Zenon DEF Init, Types, Steps
<1>4. batch = NoEntries /\ read = [i \in DOMAIN Sources |-> {}] /\ step = "idle" /\ next = 1
  BY DEF Init
<1>5. Merge = NoEntries
  BY <1>4, EmptyMerge DEF Merge
<1>6. QED BY <1>3, <1>4, <1>5 DEF IInv, MergeInv, Offering

----------------------------------------------------------------------------
(* The steps of a feed, sorted by what they do to the sets. *)
Reading == Begin \/ \E ks \in SUBSET Indicators : Fetch(ks)
Dropping == NothingFound
Truncates ==
  /\ step = "swapped" /\ step' = "writing" /\ file' = None
  /\ UNCHANGED <<kind, live, batch, next, read, saveFailed>>
Writes ==
  /\ step = "writing" /\ file' = batch /\ saveFailed' = FALSE
  /\ NoUpdate /\ UNCHANGED <<kind, live>>
WriteFails ==
  /\ step \in {"swapped", "writing"} /\ saveFailed' = TRUE
  /\ NoUpdate /\ UNCHANGED <<kind, live, file>>

(* The steps of the four updates are of a few kinds, whatever the feed. *)
LEMMA NextCases ==
  ASSUME IInv, [Next]_vars
  PROVE  \/ Reading \/ Dropping \/ Merged \/ Restart \/ UNCHANGED vars
         \/ kind # "domrep" /\ (SwapThenSave \/ Truncates \/ Writes \/ WriteFails)
         \/ kind = "domrep" /\ (SaveDomRepToDisk \/ SaveThenSwap)
BY DEF Next, RunJA3FeedUpdater, RunHasshFeedUpdater, RunIPRepUpdater, RunDomRepUpdater, UpdateFeed,
   UpdateHasshFeed, UpdateIPRep, UpdateDomRep, SaveFeedToDisk, SaveHasshFeedToDisk, SaveIPRepToDisk,
   Read, WriteInPlace, Reading, Dropping, Truncates, Writes, WriteFails

(* A step that leaves the merge alone. *)
LEMMA Kept ==
  ASSUME IInv, UNCHANGED <<kind, batch, read, next>>
  PROVE  /\ Merge' = Merge /\ batch' = Merge'
         /\ \A i \in DOMAIN Sources : i >= next' => read'[i] = {}
         /\ batch' \in Entries /\ kind' \in Kinds /\ next' \in 1 .. Len(Sources) + 1
         /\ read' \in [DOMAIN Sources -> SUBSET Indicators]
BY DEF IInv, Types, MergeInv, Merge

(* Every step keeps the map equal to the merge of what was read. *)
LEMMA StepIInv == IInv /\ [Next]_vars => IInv'
<1> SUFFICES ASSUME IInv, [Next]_vars PROVE IInv'
  OBVIOUS
<1>1. CASE Begin
  <2>1. UNCHANGED <<kind, batch, read, next>>
    BY <1>1 DEF Begin
  <2>2. QED BY <1>1, <2>1, Kept DEF Begin, IInv, Types, MergeInv, Steps, Offering
<1>2. ASSUME NEW ks \in SUBSET Indicators, Fetch(ks) PROVE IInv'
  BY <1>2, FetchMerges DEF Fetch, IInv, Types, MergeInv, Steps, Offering
<1>3. CASE NothingFound
  BY <1>3, ResetMerges DEF NothingFound, IInv, Types, MergeInv, Steps, Offering
<1>4. CASE Merged
  <2>1. UNCHANGED <<kind, batch, read, next>>
    BY <1>4 DEF Merged
  <2>2. QED BY <1>4, <2>1, Kept DEF Merged, IInv, Types, MergeInv, Steps, Offering
<1>5. CASE SwapThenSave \/ Truncates \/ SaveDomRepToDisk
  <2>1. UNCHANGED <<kind, batch, read, next>>
    BY <1>5 DEF SwapThenSave, Swap, Truncates, SaveDomRepToDisk
  <2>2. QED BY <1>5, <2>1, Kept DEF SwapThenSave, Swap, Truncates, SaveDomRepToDisk, IInv, Types, MergeInv,
        Steps, Offering
<1>6. CASE Writes \/ WriteFails
  BY <1>6, ResetMerges DEF Writes, WriteFails, IInv, Types, MergeInv, Steps, Offering
<1>7. CASE SaveThenSwap
  BY <1>7, ResetMerges DEF SaveThenSwap, Swap, IInv, Types, MergeInv, Steps, Offering
<1>8. CASE Restart
  BY <1>8, ResetMerges, LoadedType DEF Restart, IInv, Types, MergeInv, Steps, Offering
<1>9. CASE UNCHANGED vars
  <2>1. UNCHANGED <<kind, batch, read, next>>
    BY <1>9 DEF vars, update
  <2>2. QED BY <1>9, <2>1, Kept DEF vars, update, IInv, Types, MergeInv, Steps, Offering
<1>10. QED
  BY <1>1, <1>2, <1>3, <1>4, <1>5, <1>6, <1>7, <1>8, <1>9, NextCases DEF Reading, Dropping

(* The inductive invariant holds of every behaviour. *)
LEMMA Invariant == Spec => []IInv
BY InitIInv, StepIInv, PTL DEF Spec

(* The update of each feed implements FeedSpec (ja3/feed.go:136,
   hassh_feed.go:134, iprep.go:130, domrep.go:81): what lookups see is always
   the merge of one complete update, replaced as a whole, and what a restart
   finds is such a merge or nothing. *)
THEOREM Implements == Spec => ImplementsFeedSpec
<1>1. Init => Abstract!Init
  <2> SUFFICES ASSUME Init PROVE Abstract!Init
    OBVIOUS
  <2>1. read \in Abstract!Answers
    BY DEF Init, Abstract!Answers, Abstract!Indicators
  <2>2. ~Offering /\ live = Abstract!NoEntries /\ file = None
    BY DEF Init, Offering, NoEntries, Abstract!NoEntries, Indicators, Abstract!Indicators
  <2>3. QED BY <2>1, <2>2 DEF Abstract!Init
<1>2. IInv /\ IInv' /\ [Next]_vars =>
        [Abstract!Next]_<<kind, read, live, file, IF Offering THEN batch ELSE None>>
  <2> SUFFICES ASSUME IInv, IInv', [Next]_vars
               PROVE  \/ Abstract!Next
                      \/ UNCHANGED <<kind, read, live, file, IF Offering THEN batch ELSE None>>
    OBVIOUS
  <2> DEFINE offer == IF Offering THEN batch ELSE None
  <2>1. /\ read' \in Abstract!Answers /\ None \notin Entries /\ batch \in Entries
        /\ Abstract!NoEntries = NoEntries
    BY NoEntriesType DEF IInv, Types, Abstract!Answers, Abstract!Indicators, Indicators,
       Abstract!NoEntries, NoEntries
  <2>2. CASE UNCHANGED vars
    BY <2>2 DEF vars, update, Offering
  <2>3. CASE Reading
    <3>1. UNCHANGED <<kind, live, file, offer>>
      BY <2>3 DEF Reading, Begin, Fetch, Offering
    <3>2. QED BY <2>1, <3>1 DEF Abstract!Next, Abstract!Ask
  <2>4. CASE Dropping
    <3>1. UNCHANGED <<kind, live, file, offer>>
      BY <2>4 DEF Dropping, NothingFound, AllRead, NoUpdate, Offering
    <3>2. QED BY <2>1, <3>1 DEF Abstract!Next, Abstract!Ask
  <2>5. CASE Merged
    <3>1. UNCHANGED <<kind, live, file>> /\ offer' = batch /\ batch # NoEntries
      BY <2>5 DEF Merged, Offering
    <3>2. batch = Merge /\ Abstract!IsMerge(Merge)
      BY MergeIsMerge DEF IInv, MergeInv
    <3>3. Abstract!IsMerge(offer')
      BY <3>1, <3>2
    <3>4. Abstract!Offer
      BY <2>1, <3>1, <3>3 DEF Abstract!Offer
    <3>5. QED BY <2>1, <3>1, <3>4 DEF Abstract!Next
  <2>6. CASE SwapThenSave
    <3>1. UNCHANGED <<kind, file>> /\ live' = batch /\ offer = batch /\ offer' = batch
      BY <2>6 DEF SwapThenSave, Swap, Offering
    <3>2. Abstract!Publish
      BY <2>1, <3>1 DEF Abstract!Publish
    <3>3. QED BY <2>1, <3>1, <3>2 DEF Abstract!Next
  <2>7. CASE kind # "domrep" /\ Truncates
    <3>1. UNCHANGED <<kind, live, offer>> /\ file' = None
      BY <2>7 DEF Truncates, Offering
    <3>2. Abstract!LoseCache
      BY <2>7, <3>1 DEF Abstract!LoseCache
    <3>3. QED BY <2>1, <3>1, <3>2 DEF Abstract!Next
  <2>8. CASE Writes
    <3>1. UNCHANGED <<kind, live>> /\ file' = batch /\ offer = batch /\ offer' = None
      BY <2>8 DEF Writes, NoUpdate, Offering
    <3>2. Abstract!Persist
      BY <2>1, <3>1 DEF Abstract!Persist
    <3>3. QED BY <2>1, <3>1, <3>2 DEF Abstract!Next
  <2>9. CASE WriteFails
    <3>1. UNCHANGED <<kind, live, file>> /\ offer' = None
      BY <2>9 DEF WriteFails, NoUpdate, Offering
    <3>2. Abstract!Withdraw
      BY <3>1 DEF Abstract!Withdraw
    <3>3. QED BY <2>1, <3>1, <3>2 DEF Abstract!Next
  <2>10. CASE SaveDomRepToDisk
    <3>1. /\ UNCHANGED <<kind, live>> /\ offer = batch /\ offer' = batch
          /\ file' = batch \/ file' = file
      BY <2>10 DEF SaveDomRepToDisk, Offering
    <3>2. Abstract!Persist \/ Abstract!Ask
      BY <2>1, <3>1 DEF Abstract!Persist, Abstract!Ask
    <3>3. QED BY <2>1, <3>1, <3>2 DEF Abstract!Next
  <2>11. CASE SaveThenSwap
    <3>1. UNCHANGED <<kind, file>> /\ live' = batch /\ offer = batch /\ offer' = None
      BY <2>11 DEF SaveThenSwap, Swap, NoUpdate, Offering
    <3>2. Abstract!Publish
      BY <2>1, <3>1 DEF Abstract!Publish
    <3>3. QED BY <2>1, <3>1, <3>2 DEF Abstract!Next
  <2>12. CASE Restart
    <3>1. UNCHANGED <<kind, file>> /\ live' = Loaded /\ offer' = None
      BY <2>12 DEF Restart, NoUpdate, Offering
    <3>2. live' = IF file = None THEN Abstract!NoEntries ELSE file
      BY <2>1, <3>1, LoadedType DEF IInv
    <3>3. Abstract!Restart
      BY <3>1, <3>2 DEF Abstract!Restart
    <3>4. QED BY <2>1, <3>1, <3>3 DEF Abstract!Next
  <2>13. QED
    BY <2>2, <2>3, <2>4, <2>5, <2>6, <2>7, <2>8, <2>9, <2>10, <2>11, <2>12, NextCases
<1>3. QED BY Invariant, <1>1, <1>2, PTL DEF Spec, ImplementsFeedSpec, Abstract!Spec

(* What any source listed is found in the merge, and the answer names a source
   that listed it or a table that has it (feed.go:95-131, iprep.go:103-128,
   domrep.go:90-118). *)
THEOREM FoundIfListedHolds == Spec => []FoundIfListed
<1>1. IInv => FoundIfListed
  <2> SUFFICES ASSUME IInv, NEW q \in Exact
               PROVE  LET answer == Lookup(batch, q)
                          sources == {Sources[i] : i \in {j \in DOMAIN Sources : Covered(j, q)}}
                      IN /\ sources # {} => answer # None
                         /\ answer \notin {None, "built-in", "extra"} => answer \in sources
    BY DEF FoundIfListed
  <2> DEFINE answer == Lookup(batch, q)
  <2> DEFINE sources == {Sources[i] : i \in {j \in DOMAIN Sources : Covered(j, q)}}
  <2>1. /\ q \in Indicators /\ Wide \in Indicators /\ kind \in Kinds
        /\ read \in [DOMAIN Sources -> SUBSET Indicators]
        /\ None # "built-in" /\ None # "extra"
    BY FeedParameters DEF IInv, Types, Indicators
  <2>2. /\ batch[q] = Named(kind, read, q) /\ batch[Wide] = Named(kind, read, Wide)
    BY <2>1 DEF IInv, MergeInv, Merge
  <2>3. IF Listing(read, q) = {} THEN batch[q] = None
        ELSE \E i \in Listing(read, q) : batch[q] = Sources[i]
    BY <2>1, <2>2, NamedIsSource
  <2>4. IF Listing(read, Wide) = {} THEN batch[Wide] = None
        ELSE \E i \in Listing(read, Wide) : batch[Wide] = Sources[i]
    BY <2>1, <2>2, NamedIsSource
  <2>5. \A i \in DOMAIN Sources : Sources[i] # None
    BY SourcesAre
  <2>6. \A i \in DOMAIN Sources :
          Covered(i, q) <=> i \in Listing(read, q) \/ (kind \in {"iprep", "domrep"} /\ i \in Listing(read, Wide))
    BY DEF Covered, Listing
  <2>7. Listing(read, q) \subseteq DOMAIN Sources /\ Listing(read, Wide) \subseteq DOMAIN Sources
    BY DEF Listing
  <2>8. batch[q] # None => batch[q] \in sources
    BY <2>3, <2>6, <2>7
  <2>9. batch[Wide] # None /\ kind \in {"iprep", "domrep"} => batch[Wide] \in sources
    BY <2>4, <2>6, <2>7
  <2>10. sources # {} => batch[q] # None \/ (kind \in {"iprep", "domrep"} /\ batch[Wide] # None)
    BY <2>3, <2>4, <2>5, <2>6, <2>7
  <2>11. /\ answer \in {"built-in", "extra", None} \/ answer = batch[q]
            \/ (kind \in {"iprep", "domrep"} /\ answer = batch[Wide])
         /\ batch[q] # None => answer # None
         /\ kind \in {"iprep", "domrep"} /\ batch[Wide] # None => answer # None
    BY <2>1, Zenon DEF Lookup, LookupWithFeed, LookupHASHWithFeed, IPRepLookup, DomRepLookup, Kinds
  <2>12. /\ sources # {} => answer # None
         /\ answer \notin {None, "built-in", "extra"} => answer \in sources
    <3> HIDE DEF answer, sources
    <3>1. QED BY <2>8, <2>9, <2>10, <2>11
  <2>13. QED BY <2>12
<1>2. QED BY Invariant, <1>1, PTL

(* Where an update stands, what of it is in memory and in the file. *)
SavedInv ==
  /\ step \in {"swapped", "writing"} => live = batch
  /\ ~saveFailed /\ step = "saved" => file = batch
  /\ ~saveFailed /\ step \in {"idle", "reading", "merged"} => Loaded = live

(* Every way an update ends leaves the same set in memory and in the file,
   unless the file could not be written (ja3/feed.go:136-142, domrep.go:76-86):
   which of the two is replaced first does not matter. *)
THEOREM RestartKeepsLiveHolds == Spec => []RestartKeepsLive
<1>1. Init => SavedInv
  BY DEF Init, SavedInv, Kinds, Loaded, LoadFeedFromDisk, LoadHasshFeedFromDisk, LoadIPRepFromDisk,
     LoadDomRepFromDisk
<1>2. IInv /\ IInv' /\ SavedInv /\ [Next]_vars => SavedInv'
  <2> SUFFICES ASSUME IInv, IInv', SavedInv, [Next]_vars PROVE SavedInv'
    OBVIOUS
  <2>1. /\ Loaded = (IF file = None THEN NoEntries ELSE file)
        /\ Loaded' = (IF file' = None THEN NoEntries ELSE file')
        /\ None \notin Entries /\ batch \in Entries
    BY LoadedType, LoadedNext, NoEntriesType DEF IInv, Types
  <2>2. CASE Reading
    BY <2>1, <2>2 DEF Reading, Begin, Fetch, SavedInv
  <2>3. CASE Dropping \/ Merged
    BY <2>1, <2>3 DEF Dropping, NothingFound, AllRead, NoUpdate, Merged, SavedInv
  <2>4. CASE SwapThenSave \/ Truncates
    BY <2>1, <2>4 DEF SwapThenSave, Swap, Truncates, SavedInv
  <2>5. CASE Writes
    <3>1. step = "writing" /\ step' = "idle" /\ file' = batch /\ live' = live /\ ~saveFailed'
      BY <2>5 DEF Writes, NoUpdate
    <3>2. Loaded' = batch
      BY <2>1, <3>1
    <3>3. QED BY <3>1, <3>2 DEF SavedInv
  <2>6. CASE WriteFails
    BY <2>6 DEF WriteFails, NoUpdate, SavedInv
  <2>7. CASE SaveDomRepToDisk
    <3>1. step' = "saved" /\ batch' = batch /\ (~saveFailed' => file' = batch)
      BY <2>7 DEF SaveDomRepToDisk, IInv, Types
    <3>2. QED BY <3>1 DEF SavedInv
  <2>8. CASE SaveThenSwap
    <3>1. /\ step = "saved" /\ step' = "idle" /\ live' = batch
          /\ file' = file /\ saveFailed' = saveFailed
      BY <2>8 DEF SaveThenSwap, Swap, NoUpdate
    <3>2. ~saveFailed => file = batch
      BY <3>1 DEF SavedInv
    <3>3. ~saveFailed' => Loaded' = live'
      BY <2>1, <3>1, <3>2
    <3>4. QED BY <3>1, <3>3 DEF SavedInv
  <2>9. CASE Restart
    BY <2>1, <2>9 DEF Restart, NoUpdate, SavedInv
  <2>10. CASE UNCHANGED vars
    BY <2>1, <2>10 DEF vars, update, SavedInv
  <2>11. QED BY <2>2, <2>3, <2>4, <2>5, <2>6, <2>7, <2>8, <2>9, <2>10, NextCases
<1>3. SavedInv => RestartKeepsLive
  BY DEF SavedInv, RestartKeepsLive
<1>4. QED BY Invariant, <1>1, <1>2, <1>3, PTL DEF Spec
=============================================================================
