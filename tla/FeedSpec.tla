------------------------------ MODULE FeedSpec ------------------------------
(***************************************************************************)
(* What a threat feed promises to the scorers that look things up in it:   *)
(* a lookup sees the set of one complete merge, and a new set appears as a *)
(* whole or not at all.  A merge is defined by the answers of the sources, *)
(* without saying how it is computed: an indicator that sources list has   *)
(* an entry, of one of them, and of the first where the feed promises it.  *)
(* A merge that found nothing is never published.  The cache file holds a  *)
(* complete merge or cannot be read; only a feed that replaces the file in *)
(* one step promises never to lose it.  A start of the process serves what *)
(* the cache holds.                                                        *)
(***************************************************************************)
EXTENDS Naturals, FiniteSetsExt, Functions

CONSTANTS
  Exact,    \* indicators that match one value: a hash, an address, a domain
  Wide,     \* an indicator that covers every exact one: a CIDR range, a parent domain
  Sources,  \* the sources in the order they are read, the local file first
  None

VARIABLES
  kind,     \* which feed this is
  answers,  \* what each source listed when it was last asked
  live,     \* the set that lookups use
  cache,    \* the set in the cache file, None when there is none to read
  offered   \* a complete merge on its way to the lookups and the cache, or None

Indicators == Exact \union {Wide}
Entries == [Indicators -> Range(Sources) \union {None}]
NoEntries == [k \in Indicators |-> None]

(* Where the first source that lists an indicator counts: for domains and for
   ranges.  Of the sources that list a hash or an address any may be named: the
   comments on hashes promise the local file and the code takes another (see
   LocalFileFirst in Feed), and on addresses nothing is promised. *)
FirstCounts(k) == kind = "domrep" \/ (kind = "iprep" /\ k = Wide)

IsMerge(m) ==
  /\ m \in Entries
  /\ \A k \in Indicators :
       LET listing == {i \in DOMAIN Sources : k \in answers[i]}
       IN /\ listing = {} => m[k] = None
          /\ listing # {} => m[k] \in {Sources[i] : i \in listing}
          /\ listing # {} /\ FirstCounts(k) => m[k] = Sources[Min(listing)]

Answers == [DOMAIN Sources -> SUBSET Indicators]

Init == answers \in Answers /\ live = NoEntries /\ cache = None /\ offered = None

Ask == UNCHANGED <<live, cache, offered>>

Offer ==
  /\ IsMerge(offered')
  /\ offered' # NoEntries
  /\ UNCHANGED <<live, cache>>

Publish ==
  /\ offered # None
  /\ live' = offered
  /\ offered' \in {offered, None}
  /\ UNCHANGED cache

Persist ==
  /\ offered # None
  /\ cache' = offered
  /\ offered' \in {offered, None}
  /\ UNCHANGED live

Withdraw == offered' = None /\ UNCHANGED <<live, cache>>

LoseCache ==
  /\ kind # "domrep"
  /\ cache' = None
  /\ UNCHANGED <<live, offered>>

Restart ==
  /\ live' = IF cache = None THEN NoEntries ELSE cache
  /\ offered' = None
  /\ UNCHANGED cache

Next ==
  /\ kind' = kind /\ answers' \in Answers
  /\ Ask \/ Offer \/ Publish \/ Persist \/ Withdraw \/ LoseCache \/ Restart

Spec == Init /\ [][Next]_<<kind, answers, live, cache, offered>>
=============================================================================
