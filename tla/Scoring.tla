------------------------------ MODULE Scoring ------------------------------
(***************************************************************************)
(* internal/aggregate/aggregate.go from Finalize on, and filter.go: what   *)
(* becomes of the flows of a window.  Their host names are looked up by a  *)
(* bounded number of goroutines; the intelligence lists are asked; each    *)
(* flow gets points, reasons and labels; two passes over all flows add to  *)
(* them; the report is sorted and filtered.  Every pass reads the global   *)
(* configuration again, and reload_config may replace it at any time.      *)
(*                                                                         *)
(* Points are tenths, scores hundredths.  What a signal's condition asks   *)
(* of a flow, and which process it belongs to, is a fact of the flow; a    *)
(* flow has at most one fact of each group of alternatives (ports, beacon  *)
(* strength, lateral ports).  The contents of the lists and of the         *)
(* baseline do not change during one Finalize.                             *)
(***************************************************************************)
EXTENDS Naturals, Sequences, FiniteSets, SequencesExt

CONSTANTS
  Candidates,   \* flows a window may contain
  MaxWindow,    \* and how many of them (bound of the model)
  Configs, MaxReloads,
  Unset         \* the zero value of an optional field

ASSUME ScoringParameters ==
  /\ IsFiniteSet(Candidates)
  /\ \A f \in Candidates : f.multiplier \in {7, 10, 13, 18} /\ f.bytes \in Nat
  /\ \A c \in Configs : c.dnsWorkers \in Nat \ {0}   \* config.go validates it

VARIABLES
  config,     \* config.Get()
  window,     \* the flows of the window
  pass,       \* the pass that Finalize is in
  slots,      \* capacity of sem
  looking,    \* the flows whose lookup runs
  dnsCache,   \* host name of a destination: Unset, "" or a name
  rec,        \* the records: of each flow what the passes found
  report,     \* the sorted records
  filtered,   \* what FilterOptions.Apply leaves of them
  reloads

scoringVars == <<config, window, pass, slots, looking, dnsCache, rec, report, filtered, reloads>>
----------------------------------------------------------------------------
(* scoreBucket: the limit of each category, in tenths, and add. *)
Cap == [c2 |-> 60, tls |-> 35, behavioral |-> 40, dns |-> 30, process |-> 35, network |-> 50]

Add(b, total, pts) == Min({Cap[b], total + pts})

(* The signals in the order in which score() tries them: the fact that fires
   one, the switch that disables it, its category and its points. *)
Sig(fact, switch, bucket, pts) == [fact |-> fact, switch |-> switch, bucket |-> bucket, pts |-> pts]

DestinationSignals == <<
  Sig("bad_port", "port", "c2", 40), Sig("odd_port", "port", "network", 10),
  Sig("no_reverse_dns", "reverse_dns", "network", 8),
  Sig("entropy", "dns_exfil", "dns", 25),
  Sig("https_no_sni", "sni", "network", 7), Sig("doh", "sni", "network", 5),
  Sig("ja3", "ja3", "c2", 40), Sig("ja3s", "ja3", "c2", 35),
  Sig("hassh", Unset, "c2", 25), Sig("ip_rep", Unset, "c2", 25),
  Sig("high_risk_asn", "geo", "network", 15)>>

ProcessSignals == <<
  Sig("no_binary", "binary_path", "process", 10), Sig("suspicious_path", "binary_path", "process", 25),
  Sig("cmdline", "cmdline", "process", 20),
  Sig("seen20", Unset, "behavioral", 20), Sig("seen10", Unset, "behavioral", 15),
  Sig("seen5", Unset, "behavioral", 10), Sig("seen3", Unset, "behavioral", 5),
  Sig("new_destination", Unset, "behavioral", 15),
  Sig("dom_rep", Unset, "dns", 20),
  Sig("beacon_strong", "beaconing", "behavioral", 35), Sig("beacon_possible", "beaconing", "behavioral", 20),
  Sig("volume", Unset, "network", 5), Sig("rate", Unset, "network", 10),
  Sig("long_lived", Unset, "behavioral", 5)>>

ProtocolSignals == <<
  Sig("quic_process", "quic", "network", 15), Sig("quic_asn", "quic", "network", 10),
  Sig("lateral25", "lateral", "network", 25), Sig("lateral20", "lateral", "network", 20),
  Sig("lateral15", "lateral", "network", 15), Sig("lateral10", "lateral", "network", 10),
  Sig("not_tls", "protocol", "network", 15), Sig("dns_tcp", "protocol", "dns", 15),
  Sig("nxdomain", "dns_exfil", "dns", 20), Sig("fast_flux", "dns_exfil", "dns", 15),
  Sig("http_connect", "http", "network", 20), Sig("user_agent", "http", "c2", 30),
  Sig("no_user_agent", "http", "network", 10), Sig("http_port", "http", "network", 15),
  Sig("uri", "http", "network", 15), Sig("http2_port", "http", "network", 15),
  Sig("grpc_port", "http", "network", 10), Sig("grpc", "http", "network", 5),
  Sig("ipv6_rh0", Unset, "network", 15), Sig("ipv6_fragment", Unset, "network", 5)>>

CertSignals == <<
  Sig("self_signed", "cert", "tls", 20), Sig("expired", "cert", "tls", 15),
  Sig("long_cert", "cert", "tls", 15), Sig("ip_cn", "cert", "tls", 10), Sig("no_san", "cert", "tls", 5)>>

Signals == DestinationSignals \o ProcessSignals \o ProtocolSignals \o CertSignals

(* processContext and isExemptedProcess: what is not held against a kind of
   process, and against one the configuration exempts. *)
Periodic == {"seen20", "seen10", "seen5", "seen3", "new_destination", "beacon_strong", "beacon_possible"}
Masked(ctx) ==
  CASE ctx = "browser" -> {"doh", "quic_process"}
    [] ctx = "devtool" -> {"quic_process"}
    [] ctx = "system" -> Periodic \union {"long_lived"}
    [] OTHER -> {}
Exempted == Periodic \union {"no_binary", "suspicious_path", "quic_process"}

(* Facts that depend on a threshold, on the configuration or on a lookup. *)
Recurrence(n) ==
  IF n >= 20 THEN {"seen20"} ELSE IF n >= 10 THEN {"seen10"}
  ELSE IF n >= 5 THEN {"seen5"} ELSE IF n >= 3 THEN {"seen3"} ELSE {}

NXDomainStorm(f, cfg) ==
  IF f.nx >= (IF f.ctx = "devtool" THEN 2 * cfg.nxThreshold ELSE cfg.nxThreshold) THEN {"nxdomain"} ELSE {}

NoReverseDNS(f, r) == IF "public" \in f.facts /\ r.reverseDNS = "" THEN {"no_reverse_dns"} ELSE {}

(* LookupWithFeed: the built-in list and the feed, then the configured hashes. *)
KnownJA3(f, cfg) ==
  IF "ja3_listed" \in f.facts \/ ("ja3_extra" \in f.facts /\ cfg.extraJA3) THEN {"ja3"} ELSE {}

(* score: the signals that fire, by their place in the table; a beacon of a
   process that is expected to beacon is none. *)
Fired(f, r, cfg) ==
  LET facts == f.facts \union r.known \union Recurrence(f.recurrence)
                 \union NXDomainStorm(f, cfg) \union NoReverseDNS(f, r)
      silent == Masked(f.ctx) \union (IF f.exempted THEN Exempted ELSE {})
                  \union (IF "expected_beaconer" \in f.facts THEN {"beacon_strong", "beacon_possible"} ELSE {})
  IN {i \in DOMAIN Signals : Signals[i].fact \in facts \ silent /\ Signals[i].switch \notin cfg.disabled}

(* What a category holds when the first n signals have been tried, and in the
   end; a reason is kept only when its category was not full yet. *)
Filled(b, fired, n) ==
  LET total[k \in 0 .. n] ==
        IF k = 0 THEN 0
        ELSE IF k \in fired /\ Signals[k].bucket = b THEN Add(b, total[k - 1], Signals[k].pts)
        ELSE total[k - 1]
  IN total[n]
Bucket(b, fired) == Filled(b, fired, Len(Signals))

Reasons(fired) ==
  LET kept == {i \in fired : Filled(Signals[i].bucket, fired, i - 1) < Cap[Signals[i].bucket]}
  IN [k \in 1 .. Cardinality(kept) |->
        Signals[CHOOSE i \in kept : Cardinality({j \in kept : j <= i}) = k].fact]

Total(fired) ==
  Min({100, Bucket("c2", fired) + Bucket("tls", fired) + Bucket("behavioral", fired)
            + Bucket("dns", fired) + Bucket("process", fired) + Bucket("network", fired)})

Score(f, fired) ==
  [score |-> Min({1000, Total(fired) * f.multiplier}), reasons |-> Reasons(fired)]

RiskLabel(score) ==
  IF score >= 700 THEN "CRITICAL" ELSE IF score >= 500 THEN "HIGH"
  ELSE IF score >= 200 THEN "MEDIUM" ELSE "LOW"

(* Only of a flow that scores low, why it does; later passes leave them. *)
CleanSignals(f, r, score) ==
  IF score >= 200 THEN {}
  ELSE (f.facts \intersect {"standard_port", "sni", "low_risk_country"})
         \union (IF r.reverseDNS # "" THEN {"resolves"} ELSE {})
----------------------------------------------------------------------------
NewRecord ==
  [looked |-> FALSE, reverseDNS |-> "", known |-> {}, score |-> 0, reasons |-> <<>>,
   tagged |-> {}, clean |-> {}, risk |-> Unset]

Key(f) == <<f.src, f.dst>>

(* Pass 1: the window's flows, one of each key. *)
ScoringInit ==
  /\ config \in Configs
  /\ window \in {fs \in SUBSET Candidates :
                  /\ Cardinality(fs) <= MaxWindow
                  /\ \A f, g \in fs : Key(f) = Key(g) => f = g}
  /\ pass = "lookups" /\ slots = config.dnsWorkers /\ looking = {}
  /\ dnsCache = [d \in {f.dst : f \in window} |-> Unset]
  /\ rec = [f \in window |-> NewRecord]
  /\ report = <<>> /\ filtered = <<>> /\ reloads = 0

(* config.Set, by reload_config in another goroutine. *)
Reload ==
  /\ reloads < MaxReloads
  /\ reloads' = reloads + 1
  /\ config' \in Configs \ {config}
  /\ UNCHANGED <<window, pass, slots, looking, dnsCache, rec, report, filtered>>

Pass(from, to) == pass = from /\ pass' = to

(* Pass 2: a goroutine starts when sem has room.  A cached name, the empty one
   included, is used; otherwise the query, which may time out, is cached. *)
StartLookup(f) ==
  /\ pass = "lookups" /\ f \notin looking /\ ~rec[f].looked
  /\ Cardinality(looking) < slots
  /\ IF dnsCache[f.dst] = Unset
     THEN looking' = looking \union {f} /\ UNCHANGED rec
     ELSE /\ rec' = [rec EXCEPT ![f].looked = TRUE, ![f].reverseDNS = dnsCache[f.dst]]
          /\ UNCHANGED looking
  /\ UNCHANGED <<config, window, pass, slots, dnsCache, report, filtered, reloads>>

Answer(f) ==
  /\ \E name \in {"", "host"} :
       /\ rec' = [rec EXCEPT ![f].looked = TRUE, ![f].reverseDNS = name]
       /\ dnsCache' = [dnsCache EXCEPT ![f.dst] = name]
  /\ UNCHANGED <<config, window, pass, slots, report, filtered, reloads>>

EndLookup_KeepsSlot(f) == f \in looking /\ ~rec[f].looked /\ Answer(f) /\ UNCHANGED looking
EndLookup(f) == f \in looking /\ Answer(f) /\ looking' = looking \ {f}

(* wg.Wait. *)
Looked_NoWait ==
  /\ Pass("lookups", "intel") /\ \A f \in window : rec[f].looked \/ f \in looking
  /\ UNCHANGED <<config, window, slots, looking, dnsCache, rec, report, filtered, reloads>>
Looked ==
  /\ Pass("lookups", "intel") /\ \A f \in window : rec[f].looked
  /\ UNCHANGED <<config, window, slots, looking, dnsCache, rec, report, filtered, reloads>>

(* Pass 2.5: what the fingerprint lists say. *)
Enrich ==
  /\ Pass("intel", "score")
  /\ rec' = [f \in window |-> [rec[f] EXCEPT !.known = KnownJA3(f, config)]]
  /\ UNCHANGED <<config, window, slots, looking, dnsCache, report, filtered, reloads>>

(* Pass 3: points, reasons, techniques, clean signals and risk of one flow. *)
ScoreFlow(f) ==
  /\ pass = "score" /\ rec[f].risk = Unset
  /\ \E fired \in {Fired(f, rec[f], config)} : \E s \in {Score(f, fired)} :
        rec' = [rec EXCEPT ![f].score = s.score, ![f].reasons = s.reasons,
                            ![f].tagged = ToSet(s.reasons),
                            ![f].clean = CleanSignals(f, rec[f], s.score),
                            ![f].risk = RiskLabel(s.score)]
  /\ UNCHANGED <<config, window, pass, slots, looking, dnsCache, report, filtered, reloads>>

AllScored ==
  /\ Pass("score", "scan") /\ \A f \in window : rec[f].risk # Unset
  /\ UNCHANGED <<config, window, slots, looking, dnsCache, rec, report, filtered, reloads>>

(* What passes 4 and 5 do to a record: more points, a reason, and the labels
   that follow from them. *)
Raise_StaleRisk(r, points, reason) ==
  [r EXCEPT !.score = Min({1000, @ + points}), !.reasons = Append(@, reason),
            !.tagged = ToSet(Append(r.reasons, reason))]
Raise(r, points, reason) ==
  [r EXCEPT !.score = Min({1000, @ + points}), !.reasons = Append(@, reason),
            !.tagged = ToSet(Append(r.reasons, reason)),
            !.risk = RiskLabel(Min({1000, r.score + points}))]

(* Pass 4: one source and many destinations. *)
Destinations(f) == Cardinality({g.dst : g \in {h \in window : h.src = f.src}})

Scan ==
  /\ Pass("scan", "upload")
  /\ rec' = [f \in window |->
       IF Destinations(f) >= config.scanConfirmed THEN Raise(rec[f], 300, "scan")
       ELSE IF Destinations(f) >= config.scanPossible THEN Raise(rec[f], 150, "possible_scan")
       ELSE rec[f]]
  /\ UNCHANGED <<config, window, slots, looking, dnsCache, report, filtered, reloads>>

(* Pass 5: far more bytes out than its reverse flow brought in; the switch and
   the ratio are read one after the other. *)
UploadOff ==
  /\ Pass("upload", IF "asymmetric" \in config.disabled THEN "sort" ELSE "ratio")
  /\ UNCHANGED <<config, window, slots, looking, dnsCache, rec, report, filtered, reloads>>

Uploads(f) ==
  \E g \in window : /\ g.src = f.dst /\ g.dst = f.src
                    /\ g.bytes > 0 /\ f.bytes > g.bytes * config.uploadRatio

Upload ==
  /\ Pass("ratio", "sort")
  /\ rec' = [f \in window |-> IF Uploads(f) THEN Raise(rec[f], 200, "upload") ELSE rec[f]]
  /\ UNCHANGED <<config, window, slots, looking, dnsCache, report, filtered, reloads>>

(* The report, by descending score; flows of the same score in any order. *)
SortRecords_Ascending ==
  /\ Pass("sort", "apply")
  /\ \E s \in SetToSeqs(window) :
       /\ \A i \in 1 .. Len(s) - 1 : rec[s[i]].score <= rec[s[i + 1]].score
       /\ report' = s
  /\ UNCHANGED <<config, window, slots, looking, dnsCache, rec, filtered, reloads>>
SortRecords ==
  /\ Pass("sort", "apply")
  /\ \E s \in SetToSeqs(window) :
       /\ \A i \in 1 .. Len(s) - 1 : rec[s[i]].score >= rec[s[i + 1]].score
       /\ report' = s
  /\ UNCHANGED <<config, window, slots, looking, dnsCache, rec, filtered, reloads>>

(* FilterOptions.Apply stops at the first record below MinScore, and keeps at
   most TopN; 0 means no limit. *)
Kept(s, minScore) ==
  LET below == {i \in 1 .. Len(s) : minScore > 0 /\ rec[s[i]].score < minScore}
  IN IF below = {} THEN s ELSE SubSeq(s, 1, Min(below) - 1)

Apply(minScore, topN) ==
  /\ Pass("apply", "done")
  /\ LET out == Kept(report, minScore)
     IN filtered' = [min |-> minScore, top |-> topN,
                     out |-> IF topN > 0 /\ Len(out) > topN THEN SubSeq(out, 1, topN) ELSE out]
  /\ UNCHANGED <<config, window, slots, looking, dnsCache, rec, report, reloads>>

FinalizePass ==
  \/ \E f \in window : StartLookup(f) \/ EndLookup(f) \/ ScoreFlow(f)
  \/ Looked \/ Enrich \/ AllScored \/ Scan \/ UploadOff \/ Upload \/ SortRecords
  \/ \E minScore \in {0, 200, 700}, topN \in {0, 1} : Apply(minScore, topN)

ScoringNext == Reload \/ FinalizePass

(* The goroutines are scheduled and a lookup ends by its deadline. *)
ScoringSpec == ScoringInit /\ [][ScoringNext]_scoringVars /\ WF_scoringVars(FinalizePass)
----------------------------------------------------------------------------
(* The points of a flow by definition: of each category the sum of what fired,
   up to its limit, scaled and limited again, whatever the order; then the two
   bonuses, whatever their order. *)
Points(f, b) ==
  LET fired == Fired(f, rec[f], config)
      sum[k \in 0 .. Len(Signals)] ==
        IF k = 0 THEN 0
        ELSE sum[k - 1] + (IF k \in fired /\ Signals[k].bucket = b THEN Signals[k].pts ELSE 0)
  IN sum[Len(Signals)]
FlowScore(f) ==
  LET Limited(b) == Min({Cap[b], Points(f, b)})
      sum == Limited("c2") + Limited("tls") + Limited("behavioral")
             + Limited("dns") + Limited("process") + Limited("network")
  IN Min({1000, Min({100, sum}) * f.multiplier})
Bonus(f) ==
  (IF Destinations(f) >= config.scanConfirmed THEN 300
   ELSE IF Destinations(f) >= config.scanPossible THEN 150 ELSE 0)
  + (IF Uploads(f) /\ "asymmetric" \notin config.disabled THEN 200 ELSE 0)

(* A report made under one configuration scores every flow by definition: its
   host name was there when it was scored, no category exceeds its limit, and
   neither the order of the map nor that of the lookups shows in it. *)
ScoresAreDefined ==
  (pass = "done" /\ reloads = 0) =>
    \A f \in window : rec[f].score = Min({1000, FlowScore(f) + Bonus(f)})

(* The labels of a record are those of its final score and reasons, although
   three passes change them; a score stays within 1000 and never comes without
   a reason. *)
LabelsFollowScore ==
  \A f \in window : rec[f].risk # Unset =>
    /\ rec[f].score \in 0 .. 1000
    /\ rec[f].risk = RiskLabel(rec[f].score)
    /\ rec[f].tagged = ToSet(rec[f].reasons)
    /\ (rec[f].score = 0) <=> (rec[f].reasons = <<>>)

(* FilterOptions.Apply stops at the first record below the limit, which is
   right only because the report is sorted by the final scores: no record at
   or above the limit is missing, unless TopN better ones are there. *)
FilterMissesNothing ==
  pass = "done" =>
    /\ ToSet(report) = window
    /\ \A f \in window : rec[f].score >= filtered.min /\ f \notin ToSet(filtered.out) =>
         /\ Len(filtered.out) = filtered.top
         /\ \A i \in 1 .. Len(filtered.out) : rec[filtered.out[i]].score >= rec[f].score

(* Finalize ends whatever the lookups do: every goroutine gives its slot back. *)
FinalizeEnds == <>(pass = "done")
=============================================================================
