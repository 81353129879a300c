----------------------------- MODULE MCScoring -----------------------------
(* Flows of one source to two destinations and one in the other direction:
   one that fills the c2 category and carries a configured fingerprint, quiet
   ones, one of a system service that beacons, one of a developer tool with a
   few failed lookups, one of an exempted process. *)
EXTENDS Scoring

Flow(src, dst, bytes, facts) ==
  [src |-> src, dst |-> dst, bytes |-> bytes, facts |-> facts, ctx |-> "default",
   exempted |-> FALSE, recurrence |-> 0, nx |-> 0, multiplier |-> 10]

MCCandidates ==
  {[Flow("s", "d1", 20, {"bad_port", "ja3_extra", "ip_rep", "self_signed", "expired"}) EXCEPT !.multiplier = 13],
   Flow("s2", "d1", 3, {"public", "standard_port", "sni"}),
   [Flow("s", "d2", 1, {"public", "beacon_strong", "doh", "standard_port"}) EXCEPT
      !.ctx = "system", !.recurrence = 20],
   [Flow("s", "d2", 1, {"beacon_strong", "cmdline", "suspicious_path", "standard_port"}) EXCEPT
      !.exempted = TRUE, !.recurrence = 5],
   [Flow("s", "d2", 1, {"beacon_strong", "odd_port", "new_destination"}) EXCEPT
      !.recurrence = 3, !.multiplier = 18],
   [Flow("d1", "s", 1, {"entropy", "standard_port"}) EXCEPT !.ctx = "devtool", !.nx = 3, !.multiplier = 7]}

Config(disabled, possible, confirmed, extra, workers) ==
  [disabled |-> disabled, scanPossible |-> possible, scanConfirmed |-> confirmed,
   extraJA3 |-> extra, nxThreshold |-> 2, uploadRatio |-> 2, dnsWorkers |-> workers]
MCOneConfig == {Config({}, 2, 3, TRUE, 2)}
MCConfigs ==
  MCOneConfig \union {Config({"asymmetric", "binary_path"}, 1, 2, FALSE, 1)}
=============================================================================
