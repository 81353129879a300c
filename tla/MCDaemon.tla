------------------------------ MODULE MCDaemon ------------------------------
(* Two processes, one of which outgrows its set of one destination; a list   *)
(* of two interfaces, a single name, and the automatic choice.               *)
EXTENDS Daemon, TLC

Flow(p, d, periodic) == [proc |-> p, dst |-> d, periodic |-> periodic]
MCFlows == {Flow("p", "d1", TRUE), Flow("p", "d2", TRUE), Flow("q", "d1", FALSE)}
Found(name, loopback, addressed) ==
  [name |-> name, loopback |-> loopback, addressed |-> addressed]
MCConfigs ==
  {[single |-> "i1", list |-> <<"i2", "i3">>, found |-> <<>>],
   [single |-> "i1", list |-> <<>>, found |-> <<>>],
   [single |-> None, list |-> <<>>,
    found |-> <<Found("lo", TRUE, TRUE), Found("i1", FALSE, FALSE)>>],
   [single |-> None, list |-> <<>>, found |-> <<Found("lo", TRUE, TRUE)>>]}
=============================================================================
