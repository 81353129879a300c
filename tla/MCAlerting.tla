----------------------------- MODULE MCAlerting -----------------------------
(* Three flow keys for a cache of two, and two configurations that differ in *)
(* the size of the limiter and in the window, one of them the default.       *)
EXTENDS Alerting, TLC

MCConfigs ==
  {[enabled |-> TRUE, max |-> 2, window |-> 2],
   [enabled |-> TRUE, max |-> 1, window |-> 0],
   [enabled |-> FALSE, max |-> 2, window |-> 2]}
SymmetricKeys == Permutations(Keys)
=============================================================================
