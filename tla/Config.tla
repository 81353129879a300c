------------------------------- MODULE Config -------------------------------
(***************************************************************************)
(* internal/config/config.go and tools/reload_config.go: the configuration *)
(* file merged over the defaults, checked, and put in place of the global  *)
(* one, by main at the start and by the reload_config tool, whose calls    *)
(* may overlap, while the user edits the file; and the one field that its  *)
(* user, alerting/alerting.go, takes from the environment first.           *)
(*                                                                         *)
(* A configuration maps every field to an integer: numbers as they are     *)
(* (fractions in hundredths), switches 0 or 1, texts and lists 0 when      *)
(* empty, 2 when set to something that validate or the pattern compiler    *)
(* rejects, another number for another text.  A document maps the fields   *)
(* it names.                                                               *)
(***************************************************************************)
EXTENDS Integers, Sequences, FiniteSets, SequencesExt

CONSTANTS
  Handlers,      \* concurrent calls of reload_config
  Paths, DefaultPath,
  Flag, EnvPath, \* --config and FLOWSENTINEL_CONFIG, or None
  EnvCity, EnvASN,   \* GEOIP_CITY_DB and GEOIP_ASN_DB, 0 when not set
  EnvWebhook,    \* FLOWSENTINEL_WEBHOOK_URL, 0 when not set
  Documents,     \* what a well-formed file may contain
  MaxLoads, MaxEdits,   \* bounds of the model
  None

ASSUME ConfigParameters ==
  /\ DefaultPath \in Paths /\ {Flag, EnvPath} \subseteq Paths \union {None} /\ None \notin Paths
  /\ {EnvCity, EnvASN, EnvWebhook} \subseteq Nat /\ "main" \notin Handlers

----------------------------------------------------------------------------
(* Default(): what is not 0. *)
NonZeroDefaults ==
  [beaconing_strong_cv |-> 15, beaconing_possible_cv |-> 30, beaconing_min_packets |-> 5,
   dns_entropy_threshold |-> 350, dns_label_len_threshold |-> 40,
   scan_confirmed_destinations |-> 20, scan_possible_destinations |-> 8,
   nxdomain_storm_threshold |-> 5, fast_flux_ttl_threshold |-> 30, asymmetric_upload_ratio |-> 1000,
   default_duration_seconds |-> 5, max_duration_seconds |-> 60, dns_timeout_ms |-> 200,
   dns_workers |-> 20, dns_cache_ttl_seconds |-> 300, packet_buffer_size |-> 4096,
   max_size_mb |-> 50, max_age_hours |-> 24, prune_to_hours |-> 12, max_rotated_days |-> 7,
   min_score_threshold |-> 700, deduplication_window_seconds |-> 300, max_alerts_per_minute |-> 60,
   capture_interval_seconds |-> 300,
   ja3_feed_hours |-> 24, ja3_feed_urls |-> 1, hassh_feed_hours |-> 24,
   ip_rep_hours |-> 24, ip_rep_urls |-> 1, dom_rep_hours |-> 24, dom_rep_urls |-> 1,
   listen_addr |-> 1]

(* mergeOverDefaults, section by section: a field that the document leaves out
   or sets to its zero value keeps its default. *)
MergedScoring ==
  {"beaconing_strong_cv", "beaconing_possible_cv", "beaconing_min_packets",
   "beaconing_min_interval_seconds", "dns_entropy_threshold", "dns_label_len_threshold",
   "scan_confirmed_destinations", "scan_possible_destinations", "nxdomain_storm_threshold",
   "fast_flux_ttl_threshold", "asymmetric_upload_ratio", "extra_bad_ports", "extra_standard_ports",
   "extra_suspicious_paths", "extra_cmdline_patterns", "extra_high_risk_asns",
   "extra_ja3_bad_hashes", "exempted_processes", "dev_tool_processes",
   "disable_binary_path_scoring", "disable_cmdline_scoring", "disable_port_scoring",
   "disable_beaconing_scoring", "disable_dns_exfil_scoring", "disable_geo_scoring",
   "disable_ja3_scoring", "disable_reverse_dns_scoring", "disable_sni_scoring",
   "disable_quic_scoring", "disable_lateral_movement_scoring", "disable_protocol_anomaly_scoring",
   "disable_asymmetric_scoring", "disable_http_scoring", "disable_cert_scoring"}

MergedRuntime ==
  {"default_duration_seconds", "max_duration_seconds", "dns_timeout_ms", "dns_workers",
   "dns_cache_ttl_seconds", "packet_buffer_size", "city_db", "asn_db",
   "max_size_mb", "max_age_hours", "prune_to_hours",
   "alerting_enabled", "webhook_url", "min_score_threshold", "deduplication_window_seconds",
   "max_alerts_per_minute", "webhook_secret",
   "interface", "interfaces", "bpf_filter", "capture_interval_seconds"}

MergedServices ==
  {"ja3_feed_enabled", "ja3_feed_hours", "ja3_feed_urls", "ja3_feed_file",
   "hassh_feed_enabled", "hassh_feed_hours", "hassh_feed_urls", "hassh_feed_file",
   "ip_rep_enabled", "ip_rep_hours", "ip_rep_urls", "ip_rep_file",
   "dom_rep_enabled", "dom_rep_hours", "dom_rep_urls", "dom_rep_file",
   "metrics_enabled", "listen_addr", "virustotal_api_key"}

(* Of these the loader keeps an explicit zero or empty list. *)
Explicit ==
  {"max_rotated_days", "min_score_threshold", "max_alerts_per_minute",
   "ja3_feed_urls", "ip_rep_urls", "dom_rep_urls"}

Merged == MergedScoring \union MergedRuntime \union MergedServices
Fields == Merged \union Explicit \union {"compress_rotated"}

Default == [f \in Fields |-> IF f \in DOMAIN NonZeroDefaults THEN NonZeroDefaults[f] ELSE 0]

Merge(cfg, doc) ==
  [f \in Fields |-> IF f \in Merged \intersect DOMAIN doc /\ doc[f] # 0 THEN doc[f] ELSE cfg[f]]

PreserveExplicit_NotZero(cfg, doc) ==
  [f \in Fields |-> IF f \in Explicit \intersect DOMAIN doc /\ doc[f] # 0 THEN doc[f] ELSE cfg[f]]
PreserveExplicit(cfg, doc) ==
  [f \in Fields |-> IF f \in Explicit \intersect DOMAIN doc THEN doc[f] ELSE cfg[f]]

(* applyEnvOverrides. *)
ApplyEnv(cfg) ==
  [cfg EXCEPT !.city_db = IF EnvCity # 0 THEN EnvCity ELSE @,
              !.asn_db = IF EnvASN # 0 THEN EnvASN ELSE @]

(* What of it is used: Fire and FireTest take the webhook of the environment.
   (--test-alert asks for the one of the file first, main.go:307.) *)
Used(cfg) == [cfg EXCEPT !.webhook_url = IF EnvWebhook # 0 THEN EnvWebhook ELSE @]

(* ValidateHTTPURL, of a text or of every element of a list. *)
ValidURLs(urls) == urls # 2

(* validate: what it asks of the numbers and of the URLs. *)
Valid(c) ==
  /\ c.beaconing_strong_cv > 0 /\ c.beaconing_strong_cv < 100
  /\ c.beaconing_possible_cv > c.beaconing_strong_cv
  /\ c.beaconing_min_packets >= 2
  /\ c.dns_entropy_threshold > 0
  /\ c.fast_flux_ttl_threshold > 0 /\ c.fast_flux_ttl_threshold <= 86400
  /\ c.extra_bad_ports # 2 /\ c.extra_standard_ports # 2
  /\ c.scan_confirmed_destinations > c.scan_possible_destinations
  /\ c.default_duration_seconds > 0 /\ c.max_duration_seconds >= c.default_duration_seconds
  /\ c.dns_timeout_ms > 0 /\ c.dns_workers > 0 /\ c.dns_workers <= 200 /\ c.dns_cache_ttl_seconds >= 0
  /\ c.packet_buffer_size = 0 \/ (c.packet_buffer_size >= 256 /\ c.packet_buffer_size <= 65536)
  /\ c.max_size_mb > 0 /\ c.max_age_hours > 0
  /\ c.prune_to_hours > 0 /\ c.prune_to_hours < c.max_age_hours
  /\ c.max_rotated_days >= 0
  /\ c.capture_interval_seconds > 0
  /\ c.min_score_threshold >= 0 /\ c.min_score_threshold <= 1000
  /\ c.deduplication_window_seconds >= 0 /\ c.max_alerts_per_minute >= 0
  /\ \A f \in {"webhook_url", "ja3_feed_urls", "hassh_feed_urls", "ip_rep_urls", "dom_rep_urls"} :
       ValidURLs(c[f])

(* compileScoringPatterns. *)
Compiles(c) == c.extra_cmdline_patterns # 2

(* Load between the reading of the file and Set: merge, then what is explicit,
   then the checks, then the environment. *)
Parsed(doc) == PreserveExplicit(Merge(Default, doc), doc)

Accepted_BeforeExplicit(doc) == Valid(Merge(Default, doc)) /\ Compiles(Parsed(doc))
Accepted(doc) == Valid(Parsed(doc)) /\ Compiles(Parsed(doc))

Loaded(content) == ApplyEnv(IF content.kind = "document" THEN Parsed(content.doc) ELSE Default)

----------------------------------------------------------------------------
VARIABLES
  file,      \* what is at each path
  global,    \* the active configuration
  lastPath,  \* of the last load of a file, or None
  load,      \* the loads under way: of main or of a handler
  loads, edits

vars == <<file, global, lastPath, load, loads, edits>>
Loaders == Handlers \union {"main"}
Idle == [at |-> "idle", path |-> None, content |-> [kind |-> "missing"]]

Contents ==
  {[kind |-> k] : k \in {"missing", "unreadable", "malformed"}}
    \union {[kind |-> "document", doc |-> d] : d \in Documents}

Init ==
  /\ file \in [Paths -> Contents]
  /\ global = Default /\ lastPath = None
  /\ load = [l \in Loaders |-> IF l = "main" THEN [Idle EXCEPT !.at = "boot"] ELSE Idle]
  /\ loads = 0 /\ edits = 0

(* The user changes a file, --init-config (WriteDefault) only one that is
   missing; what it writes are the defaults. *)
Edit(p) ==
  /\ edits < MaxEdits
  /\ edits' = edits + 1
  /\ \E c \in Contents : file' = [file EXCEPT ![p] = c]
  /\ UNCHANGED <<global, lastPath, load, loads>>

(* The path of a load: the environment overrides the argument, and without
   either it is the default path. *)
PathOf(arg) == IF EnvPath # None THEN EnvPath ELSE IF arg # None THEN arg ELSE DefaultPath

Begin(l, from, arg) ==
  /\ load[l].at = from
  /\ load' = [load EXCEPT ![l] = [at |-> "read", path |-> PathOf(arg), content |-> Idle.content]]
  /\ UNCHANGED <<file, global, lastPath, edits>>

Start == Begin("main", "boot", Flag) /\ UNCHANGED loads

(* reload_config is served when main has loaded a configuration. *)
Reload(h) ==
  /\ loads < MaxLoads /\ load["main"].at = "idle"
  /\ Begin(h, "idle", lastPath)
  /\ loads' = loads + 1

Read(l) ==
  /\ load[l].at = "read"
  /\ load' = [load EXCEPT ![l].at = "parse", ![l].content = file[load[l].path]]
  /\ UNCHANGED <<file, global, lastPath, loads, edits>>

(* An error leaves the configuration alone; main exits on one. *)
Rejected(c) == c.kind \in {"unreadable", "malformed"} \/ (c.kind = "document" /\ ~Accepted(c.doc))

Fail(l) ==
  /\ load[l].at = "parse" /\ Rejected(load[l].content)
  /\ load' = [load EXCEPT ![l] = IF l = "main" THEN [Idle EXCEPT !.at = "exit"] ELSE Idle]
  /\ UNCHANGED <<file, global, lastPath, loads, edits>>

(* Set; a missing file means the defaults, and leaves lastPath alone. *)
Set_ForgetsPath(l) ==
  /\ load[l].at = "parse" /\ ~Rejected(load[l].content)
  /\ global' = Loaded(load[l].content)
  /\ load' = [load EXCEPT ![l] = Idle]
  /\ UNCHANGED <<file, lastPath, loads, edits>>
Set(l) ==
  /\ load[l].at = "parse" /\ ~Rejected(load[l].content)
  /\ global' = Loaded(load[l].content)
  /\ load' = [load EXCEPT ![l] = IF @.content.kind = "document" THEN [@ EXCEPT !.at = "path"] ELSE Idle]
  /\ UNCHANGED <<file, lastPath, loads, edits>>

SetPath(l) ==
  /\ load[l].at = "path"
  /\ lastPath' = load[l].path
  /\ load' = [load EXCEPT ![l] = Idle]
  /\ UNCHANGED <<file, global, loads, edits>>

Next ==
  \/ \E p \in Paths : Edit(p)
  \/ Start
  \/ \E h \in Handlers : Reload(h)
  \/ \E l \in Loaders : Read(l) \/ Fail(l) \/ Set(l) \/ SetPath(l)

Spec == Init /\ [][Next]_vars
----------------------------------------------------------------------------
(* The active configuration has passed every check on every field, cross-field
   ones included, whatever part of it came from the file, from the defaults or
   from the environment; a rejected file never replaces it. *)
ActiveIsValid == Valid(global) /\ Compiles(global) /\ DOMAIN global = Fields

(* Where a zero or an empty list means something else than a field left out:
   "(0 = unlimited)" for the rotated days and the alerts per minute
   (config.go:1050, 1060), and config_test.go:70-95 for the others. *)
ZeroIsMeant ==
  {"max_rotated_days", "max_alerts_per_minute", "min_score_threshold"}
    \union {"ja3_feed_urls", "ip_rep_urls", "dom_rep_urls"}

(* What a file means by its documentation: a field it names has its value, a
   field it leaves out or sets to zero the default, unless zero is meant; and
   three variables of the environment override it (docs/configuration.md:138-145). *)
Meaning(doc, f) ==
  IF f = "city_db" /\ EnvCity # 0 THEN EnvCity
  ELSE IF f = "asn_db" /\ EnvASN # 0 THEN EnvASN
  ELSE IF f = "webhook_url" /\ EnvWebhook # 0 THEN EnvWebhook
  ELSE IF f \notin DOMAIN doc THEN Default[f]
  ELSE IF doc[f] = 0 /\ f \notin ZeroIsMeant THEN Default[f] ELSE doc[f]

Loads(l) == load[l].at = "parse" /\ load[l].content.kind = "document" /\ load'[l].at = "path"

(* After a load what is used is what the file means, in every field but
   compress_rotated: the merge by zero values, the second reading of explicit
   ones and the overrides, of the load and of the alerting, neither forget a
   field nor undo each other. *)
FileIsHonoured ==
  [][\A l \in Loaders : Loads(l) =>
       \A f \in Fields \ {"compress_rotated"} : Used(global')[f] = Meaning(load[l].content.doc, f)]_vars

(* "Empty string means no file was loaded (built-in defaults are in use)"
   (config.go:366): whatever loads overlap, fail or find the file gone,
   between them a configuration other than the defaults has a path. *)
EmptyPathMeansDefaults ==
  (\A l \in Loaders : load[l].at # "path") /\ lastPath = None
    => global \in {Default, ApplyEnv(Default)}

(* history.compress_rotated "enables gzip compression of the previous day's
   history" (config.go:150): a file that sets it turns it on. *)
CompressIsHonoured ==
  [][\A l \in Loaders : Loads(l) =>
       global'.compress_rotated = Meaning(load[l].content.doc, "compress_rotated")]_vars
=============================================================================
