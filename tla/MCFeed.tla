------------------------------- MODULE MCFeed -------------------------------
(* The local file and two URLs; one hash that is built in, one that is also  *)
(* in the configuration, and a range or parent domain over both.             *)
EXTENDS Feed, TLC
MCSources == <<"local", "url1", "url2">>
=============================================================================
