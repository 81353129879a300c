----------------------------- MODULE MCCapture -----------------------------
(* Three connections: a's ClientHello is split in two segments, b's is one
   segment long, c's does not name a server.  The channels have one and two
   places, and the drop counter wraps at two. *)
EXTENDS Capture, TLC
CONSTANTS a, b, c
MCHelloLen == a :> 2 @@ b :> 1 @@ c :> 1
=============================================================================
