---------------------------- MODULE ConfigProofs ----------------------------
(* Theorems about Config for every set of files and documents and every      *)
(* number of overlapping reloads: what is active is valid, a load makes of a *)
(* file what it means, and an empty path means the defaults.                 *)
EXTENDS Config, TLAPS

(* A load under way has a path, and a content that a file may have. *)
Types ==
  /\ lastPath \in Paths \union {None}
  /\ load \in [Loaders -> [at : {"idle", "boot", "exit", "read", "parse", "path"},
                           path : Paths \union {None}, content : Contents]]
  /\ \A l \in Loaders : load[l].at \in {"read", "parse", "path"} => load[l].path \in Paths
  /\ file \in [Paths -> Contents]

(* What may be active: the defaults, or what a load made of a content. *)
ActiveInv ==
  \/ global \in {Default, ApplyEnv(Default)}
  \/ \E d \in Documents : Accepted(d) /\ global = ApplyEnv(Parsed(d))

IInv == Types /\ ActiveInv /\ EmptyPathMeansDefaults

(* The environment overrides two fields only, of which no check speaks
   (config.go:772-779). *)
LEMMA EnvOverridesTwo ==
  ASSUME NEW c, c = [f \in Fields |-> c[f]]
  PROVE  /\ DOMAIN ApplyEnv(c) = Fields
         /\ \A f \in Fields : f \notin {"city_db", "asn_db"} => ApplyEnv(c)[f] = c[f]
         /\ "city_db" \in Fields => ApplyEnv(c)["city_db"] = IF EnvCity # 0 THEN EnvCity ELSE c["city_db"]
         /\ "asn_db" \in Fields => ApplyEnv(c)["asn_db"] = IF EnvASN # 0 THEN EnvASN ELSE c["asn_db"]
<1>1. DOMAIN c = Fields
  OBVIOUS
<1>2. QED BY <1>1 DEF ApplyEnv

(* The alerting overrides one more (alerting.go:185-188). *)
LEMMA UsedOverridesOne ==
  ASSUME NEW c, DOMAIN c = Fields, NEW f \in Fields
  PROVE  Used(c)[f] = IF f = "webhook_url" /\ EnvWebhook # 0 THEN EnvWebhook ELSE c[f]
BY DEF Used

(* Every field of which a check speaks is one of the configuration. *)
LEMMA CheckedFields ==
  /\ {"beaconing_strong_cv", "beaconing_possible_cv", "beaconing_min_packets",
      "dns_entropy_threshold", "fast_flux_ttl_threshold", "extra_bad_ports", "extra_standard_ports",
      "scan_confirmed_destinations", "scan_possible_destinations", "extra_cmdline_patterns"}
       \subseteq Fields \ {"city_db", "asn_db"}
  /\ {"default_duration_seconds", "max_duration_seconds", "dns_timeout_ms", "dns_workers",
      "dns_cache_ttl_seconds", "packet_buffer_size", "max_size_mb", "max_age_hours", "prune_to_hours",
      "capture_interval_seconds", "deduplication_window_seconds", "webhook_url"}
       \subseteq Fields \ {"city_db", "asn_db"}
  /\ {"max_rotated_days", "min_score_threshold", "max_alerts_per_minute",
      "ja3_feed_urls", "hassh_feed_urls", "ip_rep_urls", "dom_rep_urls"}
       \subseteq Fields \ {"city_db", "asn_db"}
  /\ {"city_db", "asn_db"} \subseteq Fields
<1>1. {"beaconing_strong_cv", "beaconing_possible_cv", "beaconing_min_packets",
      "dns_entropy_threshold", "fast_flux_ttl_threshold", "extra_bad_ports", "extra_standard_ports",
      "scan_confirmed_destinations", "scan_possible_destinations", "extra_cmdline_patterns"}
       \subseteq MergedScoring
  BY DEF MergedScoring
<1>2. {"default_duration_seconds", "max_duration_seconds", "dns_timeout_ms", "dns_workers",
      "dns_cache_ttl_seconds", "packet_buffer_size", "max_size_mb", "max_age_hours", "prune_to_hours",
      "capture_interval_seconds", "deduplication_window_seconds", "webhook_url", "city_db", "asn_db"}
       \subseteq MergedRuntime
  BY DEF MergedRuntime
<1>3. {"max_rotated_days", "min_score_threshold", "max_alerts_per_minute",
       "ja3_feed_urls", "ip_rep_urls", "dom_rep_urls"} \subseteq Explicit
  BY DEF Explicit
<1>4. "hassh_feed_urls" \in MergedServices
  BY DEF MergedServices
<1>5. QED BY <1>1, <1>2, <1>3, <1>4 DEF Fields, Merged

(* So a check says of a configuration what it says after the overrides. *)
LEMMA EnvKeepsValid ==
  ASSUME NEW c, c = [f \in Fields |-> c[f]], Valid(c), Compiles(c)
  PROVE  Valid(ApplyEnv(c)) /\ Compiles(ApplyEnv(c)) /\ DOMAIN ApplyEnv(c) = Fields
<1> DEFINE e == ApplyEnv(c)
<1>1. DOMAIN e = Fields /\ \A f \in Fields : f \notin {"city_db", "asn_db"} => e[f] = c[f]
  BY EnvOverridesTwo
<1> HIDE DEF e
<1>2. /\ e.beaconing_strong_cv = c.beaconing_strong_cv
      /\ e.beaconing_possible_cv = c.beaconing_possible_cv
      /\ e.beaconing_min_packets = c.beaconing_min_packets
      /\ e.dns_entropy_threshold = c.dns_entropy_threshold
      /\ e.fast_flux_ttl_threshold = c.fast_flux_ttl_threshold
      /\ e.extra_bad_ports = c.extra_bad_ports /\ e.extra_standard_ports = c.extra_standard_ports
      /\ e.scan_confirmed_destinations = c.scan_confirmed_destinations
      /\ e.scan_possible_destinations = c.scan_possible_destinations
      /\ e.extra_cmdline_patterns = c.extra_cmdline_patterns
  BY <1>1, CheckedFields
<1>3. /\ e.default_duration_seconds = c.default_duration_seconds
      /\ e.max_duration_seconds = c.max_duration_seconds
      /\ e.dns_timeout_ms = c.dns_timeout_ms /\ e.dns_workers = c.dns_workers
      /\ e.dns_cache_ttl_seconds = c.dns_cache_ttl_seconds
      /\ e.packet_buffer_size = c.packet_buffer_size
      /\ e.max_size_mb = c.max_size_mb /\ e.max_age_hours = c.max_age_hours
      /\ e.prune_to_hours = c.prune_to_hours
      /\ e.capture_interval_seconds = c.capture_interval_seconds
      /\ e.deduplication_window_seconds = c.deduplication_window_seconds
  BY <1>1, CheckedFields
<1>4. /\ e.max_rotated_days = c.max_rotated_days
      /\ e.min_score_threshold = c.min_score_threshold
      /\ e.max_alerts_per_minute = c.max_alerts_per_minute
      /\ \A f \in {"webhook_url", "ja3_feed_urls", "hassh_feed_urls", "ip_rep_urls", "dom_rep_urls"} :
           e[f] = c[f]
  BY <1>1, CheckedFields
<1>5. Valid(e)
  BY <1>2, <1>3, <1>4 DEF Valid
<1>6. Compiles(e)
  BY <1>2 DEF Compiles
<1>7. QED BY <1>1, <1>5, <1>6 DEF e
----------------------------------------------------------------------------
(* The defaults are themselves valid (config.go:262-335, 806-902). *)
LEMMA DefaultIsValid == Valid(Default) /\ Compiles(Default) /\ Default = [f \in Fields |-> Default[f]]
<1> DEFINE d == Default
<1>1. /\ d.beaconing_strong_cv = 15 /\ d.beaconing_possible_cv = 30
      /\ d.beaconing_min_packets = 5 /\ d.dns_entropy_threshold = 350
      /\ d.fast_flux_ttl_threshold = 30
      /\ d.extra_bad_ports = 0 /\ d.extra_standard_ports = 0
      /\ d.scan_confirmed_destinations = 20 /\ d.scan_possible_destinations = 8
      /\ d.extra_cmdline_patterns = 0
  BY CheckedFields DEF Default, NonZeroDefaults
<1>2. /\ d.default_duration_seconds = 5 /\ d.max_duration_seconds = 60
      /\ d.dns_timeout_ms = 200 /\ d.dns_workers = 20 /\ d.dns_cache_ttl_seconds = 300
      /\ d.packet_buffer_size = 4096 /\ d.max_size_mb = 50 /\ d.max_age_hours = 24
      /\ d.prune_to_hours = 12 /\ d.capture_interval_seconds = 300
      /\ d.deduplication_window_seconds = 300 /\ d.webhook_url = 0
  BY CheckedFields DEF Default, NonZeroDefaults
<1>3. /\ d.max_rotated_days = 7 /\ d.min_score_threshold = 700 /\ d.max_alerts_per_minute = 60
      /\ d.ja3_feed_urls = 1 /\ d.hassh_feed_urls = 0 /\ d.ip_rep_urls = 1 /\ d.dom_rep_urls = 1
  BY CheckedFields DEF Default, NonZeroDefaults
<1>4. d = [f \in Fields |-> d[f]]
  BY DEF Default
<1> HIDE DEF d
<1>5. Valid(d)
  BY ONLY <1>1, <1>2, <1>3 DEF Valid, ValidURLs
<1>6. QED BY <1>1, <1>4, <1>5 DEF d, Compiles

(* A merge has every field, and so has what a load makes of it. *)
LEMMA ParsedIsConfig == ASSUME NEW doc PROVE Parsed(doc) = [f \in Fields |-> Parsed(doc)[f]]
BY DEF Parsed, PreserveExplicit

(* Initially the defaults are active and no file has been read. *)
LEMMA InitIInv == Init => IInv
<1> SUFFICES ASSUME Init PROVE IInv
  OBVIOUS
<1>1. Idle.at = "idle" /\ Idle.path = None /\ Idle.content = [kind |-> "missing"]
  BY DEF Idle
<1>2. Idle.content \in Contents
  BY <1>1 DEF Contents
<1>3. \A l \in Loaders : load[l] \in {Idle, [Idle EXCEPT !.at = "boot"]}
  BY DEF Init
<1>4. Types
  BY <1>1, <1>2, <1>3 DEF Init, Types, Idle
<1>5. QED BY <1>4 DEF Init, IInv, ActiveInv, EmptyPathMeansDefaults

(* A load starts at a path: of the environment, of the flag, of the last load
   or the default one. *)
LEMMA BeginPath == ASSUME Types, NEW arg \in Paths \union {None} PROVE PathOf(arg) \in Paths
BY ConfigParameters DEF PathOf

(* Every step keeps the loads well formed. *)
LEMMA StepTypes == Types /\ [Next]_vars => Types'
<1> SUFFICES ASSUME Types, [Next]_vars PROVE Types'
  OBVIOUS
<1>1. Idle.at = "idle" /\ Idle.path = None /\ Idle.content \in Contents
      /\ Idle = [at |-> "idle", path |-> None, content |-> Idle.content]
  BY DEF Idle, Contents
<1>2. CASE \E p \in Paths : Edit(p)
  BY <1>2 DEF Edit, Types
<1>3. ASSUME NEW l \in Loaders, NEW from, NEW arg \in Paths \union {None}, Begin(l, from, arg) PROVE Types'
  <2>1. PathOf(arg) \in Paths
    BY BeginPath
  <2>2. QED BY <1>1, <1>3, <2>1 DEF Begin, Types
<1>4. ASSUME NEW l \in Loaders, Read(l) PROVE Types'
  BY <1>4 DEF Read, Types
<1>5. ASSUME NEW l \in Loaders, Fail(l) PROVE Types'
  BY <1>1, <1>5 DEF Fail, Types
<1>6. ASSUME NEW l \in Loaders, Set(l) PROVE Types'
  BY <1>1, <1>6 DEF Set, Types
<1>7. ASSUME NEW l \in Loaders, SetPath(l) PROVE Types'
  BY <1>1, <1>7 DEF SetPath, Types
<1>8. CASE UNCHANGED vars
  BY <1>8 DEF vars, Types
<1>9. Flag \in Paths \union {None} /\ lastPath \in Paths \union {None} /\ "main" \in Loaders
  BY ConfigParameters DEF Types, Loaders
<1>10. QED
  BY <1>2, <1>3, <1>4, <1>5, <1>6, <1>7, <1>8, <1>9 DEF Next, Start, Reload, Loaders

(* Only Set replaces the configuration, by what it made of a content that was
   not rejected; a path is forgotten by no step. *)
LEMMA StepIInv == IInv /\ [Next]_vars => IInv'
<1> SUFFICES ASSUME IInv, [Next]_vars PROVE IInv'
  OBVIOUS
<1>1. Types /\ Types'
  BY StepTypes DEF IInv
<1>2. ASSUME UNCHANGED <<global, lastPath>>,
             \A l \in Loaders : load'[l].at = "path" => load[l].at = "path",
             \A l \in Loaders : load[l].at = "path" => load'[l].at = "path"
      PROVE  IInv'
  BY <1>1, <1>2 DEF IInv, ActiveInv, EmptyPathMeansDefaults
<1>3. CASE \E p \in Paths : Edit(p)
  BY <1>2, <1>3 DEF Edit
<1>4. ASSUME NEW l \in Loaders, NEW from \in {"boot", "idle"}, NEW arg, Begin(l, from, arg) PROVE IInv'
  BY <1>1, <1>2, <1>4 DEF Begin, Types
<1>5. ASSUME NEW l \in Loaders, Read(l) \/ Fail(l) PROVE IInv'
  BY <1>1, <1>2, <1>5 DEF Read, Fail, Types, Idle
<1>6. ASSUME NEW l \in Loaders, Set(l) PROVE IInv'
  <2> DEFINE c == load[l].content
  <2>1. c \in Contents /\ ~Rejected(c) /\ global' = Loaded(c) /\ lastPath' = lastPath
        /\ load[l].at = "parse"
    BY <1>1, <1>6 DEF Set, Types
  <2>2. CASE c.kind = "document"
    <3>1. c.doc \in Documents /\ Accepted(c.doc)
      BY <2>1, <2>2 DEF Contents, Rejected
    <3>2. global' = ApplyEnv(Parsed(c.doc))
      BY <2>1, <2>2 DEF Loaded
    <3>3. load'[l].at = "path"
      BY <1>1, <1>6, <2>2 DEF Set, Types
    <3>4. QED BY <1>1, <3>1, <3>2, <3>3 DEF IInv, ActiveInv, EmptyPathMeansDefaults
  <2>3. CASE c.kind # "document"
    <3>1. global' = ApplyEnv(Default)
      BY <2>1, <2>3 DEF Loaded
    <3>2. QED BY <1>1, <3>1 DEF IInv, ActiveInv, EmptyPathMeansDefaults
  <2>4. QED BY <2>2, <2>3
<1>7. ASSUME NEW l \in Loaders, SetPath(l) PROVE IInv'
  <2>1. lastPath' = load[l].path /\ load[l].path \in Paths /\ global' = global
    BY <1>1, <1>7 DEF SetPath, Types
  <2>2. lastPath' # None
    BY <2>1, ConfigParameters
  <2>3. QED BY <1>1, <2>1, <2>2 DEF IInv, ActiveInv, EmptyPathMeansDefaults
<1>8. CASE UNCHANGED vars
  BY <1>2, <1>8 DEF vars
<1>9. "main" \in Loaders /\ Handlers \subseteq Loaders
  BY DEF Loaders
<1>10. QED
  BY <1>3, <1>4, <1>5, <1>6, <1>7, <1>8, <1>9 DEF Next, Start, Reload

(* The inductive invariant holds of every behaviour. *)
LEMMA Invariant == Spec => []IInv
BY InitIInv, StepIInv, PTL DEF Spec

(* Whatever the files contain and however reloads overlap, the active
   configuration has passed every check (config.go:661-745, 806-902). *)
THEOREM ActiveIsValidHolds == Spec => []ActiveIsValid
<1>1. IInv => ActiveIsValid
  <2> SUFFICES ASSUME IInv PROVE ActiveIsValid
    OBVIOUS
  <2>1. CASE global = Default
    BY <2>1, DefaultIsValid DEF ActiveIsValid
  <2>2. CASE global = ApplyEnv(Default)
    BY <2>2, DefaultIsValid, EnvKeepsValid DEF ActiveIsValid
  <2>3. ASSUME NEW d \in Documents, Accepted(d), global = ApplyEnv(Parsed(d)) PROVE ActiveIsValid
    <3>1. Valid(Parsed(d)) /\ Compiles(Parsed(d))
      BY <2>3 DEF Accepted
    <3>2. QED BY <2>3, <3>1, ParsedIsConfig, EnvKeepsValid DEF ActiveIsValid
  <2>4. QED BY <2>1, <2>2, <2>3 DEF IInv, ActiveInv
<1>2. QED BY Invariant, <1>1, PTL

(* Whatever loads overlap or fail, a configuration of a file has a path
   (config.go:366). *)
THEOREM EmptyPathMeansDefaultsHolds == Spec => []EmptyPathMeansDefaults
<1>1. IInv => EmptyPathMeansDefaults
  BY DEF IInv
<1>2. QED BY Invariant, <1>1, PTL

(* After a load what is used is what the file and the environment mean, in every
   field but compress_rotated (config.go:390-645, 692-742, alerting.go:185-188). *)
THEOREM FileIsHonouredHolds == Spec => FileIsHonoured
<1> DEFINE Honoured(l) ==
      \A f \in Fields \ {"compress_rotated"} : Used(global')[f] = Meaning(load[l].content.doc, f)
<1>1. ASSUME NEW doc, NEW f \in Fields \ {"compress_rotated"}
      PROVE  Used(ApplyEnv(Parsed(doc)))[f] = Meaning(doc, f)
  <2>1. f \in Merged \union Explicit
    BY DEF Fields
  <2>2. Parsed(doc)[f] = IF f \in Explicit \intersect DOMAIN doc THEN doc[f]
                         ELSE IF f \in Merged \intersect DOMAIN doc /\ doc[f] # 0 THEN doc[f] ELSE Default[f]
    BY DEF Parsed, PreserveExplicit, Merge
  <2>3. Parsed(doc)[f] = IF f \notin DOMAIN doc THEN Default[f]
                         ELSE IF doc[f] = 0 /\ f \notin ZeroIsMeant THEN Default[f] ELSE doc[f]
    <3>1. Explicit = ZeroIsMeant
      BY DEF Explicit, ZeroIsMeant
    <3>2. QED BY <2>1, <2>2, <3>1
  <2>4. ApplyEnv(Parsed(doc))[f] =
          IF f = "city_db" /\ EnvCity # 0 THEN EnvCity
          ELSE IF f = "asn_db" /\ EnvASN # 0 THEN EnvASN ELSE Parsed(doc)[f]
    BY EnvOverridesTwo, ParsedIsConfig
  <2>5. DOMAIN ApplyEnv(Parsed(doc)) = Fields
    BY EnvOverridesTwo, ParsedIsConfig
  <2>6. Used(ApplyEnv(Parsed(doc)))[f] =
          IF f = "webhook_url" /\ EnvWebhook # 0 THEN EnvWebhook ELSE ApplyEnv(Parsed(doc))[f]
    BY <2>5, UsedOverridesOne
  <2>7. QED BY <2>3, <2>4, <2>6 DEF Meaning
<1>2. ASSUME Types, [Next]_vars, NEW l \in Loaders, Loads(l) PROVE Honoured(l)
  <2>1. load[l].at = "parse" /\ load'[l].at = "path" /\ load[l].content.kind = "document"
    BY <1>2 DEF Loads
  <2>2. ASSUME NEW k \in Loaders, Set(k) PROVE Honoured(l)
    <3>1. k = l
      BY <1>2, <2>1, <2>2 DEF Set, Types
    <3>2. global' = ApplyEnv(Parsed(load[l].content.doc))
      BY <2>1, <2>2, <3>1 DEF Set, Loaded
    <3>3. QED BY <1>1, <3>2
  <2>3. \A k \in Loaders : \A from, arg : ~Begin(k, from, arg)
    BY <1>2, <2>1 DEF Begin, Types
  <2>4. \A k \in Loaders : ~(Read(k) \/ Fail(k) \/ SetPath(k))
    BY <1>2, <2>1 DEF Read, Fail, SetPath, Types, Idle
  <2>5. ~(UNCHANGED vars) /\ \A p \in Paths : ~Edit(p)
    BY <2>1 DEF vars, Edit
  <2>6. QED BY <1>2, <2>2, <2>3, <2>4, <2>5 DEF Next, Start, Reload, Loaders
<1>3. Types /\ [Next]_vars => [\A l \in Loaders : Loads(l) => Honoured(l)]_vars
  BY <1>2
<1>4. IInv => Types
  BY DEF IInv
<1>5. QED BY Invariant, <1>3, <1>4, PTL DEF Spec, FileIsHonoured
=============================================================================
