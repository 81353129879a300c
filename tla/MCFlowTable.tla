----------------------------- MODULE MCFlowTable -----------------------------
(* Three capture goroutines, two of them on the same interface (the list of  *)
(* interfaces in the configuration is not checked for duplicates), a table   *)
(* of two flows and four packet shapes: a late and an early packet of one    *)
(* tuple, a metadata-only event, and a packet of a second tuple.             *)
EXTENDS FlowTable, TLC

CONSTANTS w1, w2, w3

MCIfaceOf == (w1 :> "eth0") @@ (w2 :> "eth0") @@ (w3 :> "wlan0")

Packet(t, ts, len, enrich, ttl, name, ja3) ==
  [tuple |-> t, ts |-> ts, len |-> len, enrich |-> enrich, ttl |-> ttl, name |-> name, ja3 |-> ja3]

MCPackets ==
  {Packet("a", 2, 2, FALSE, 0, 2, "j1"),
   Packet("a", 1, 1, FALSE, 1, 1, None),
   Packet("b", 1, 1, TRUE, None, 1, "j2"),
   Packet("c", 1, 0, FALSE, None, None, None)}
=============================================================================
