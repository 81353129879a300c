----------------------------- MODULE MCConfig -----------------------------
(* A file given by --config, the default one, and two overlapping reloads.
   The documents set a field to zero, to a value that is wrong on its own, to
   one that is wrong with another field's default, and to good ones. *)
EXTENDS Config, TLC

MCDocuments ==
  {<<>>,
   "compress_rotated" :> 1 @@ "max_rotated_days" :> 0 @@ "city_db" :> 5,
   "max_alerts_per_minute" :> 0 @@ "min_score_threshold" :> 0 @@ "dns_workers" :> 0,
   "scan_possible_destinations" :> 30,
   "max_rotated_days" :> 0 - 1,
   "extra_cmdline_patterns" :> 2,
   "ip_rep_urls" :> 0 @@ "alerting_enabled" :> 1 @@ "webhook_url" :> 1 @@ "interfaces" :> 1,
   "webhook_url" :> 2}
=============================================================================
