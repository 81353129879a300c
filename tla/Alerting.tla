------------------------------ MODULE Alerting ------------------------------
(***************************************************************************)
(* internal/alerting/alerting.go: Fire, called by the daemon at the end of *)
(* every window, decides for each flow over the score threshold whether to *)
(* alert: the deduplication cache first, then the token bucket.  An alert  *)
(* is posted by a goroutine of its own with up to MaxRetries attempts.  The*)
(* reload_config tool may change the configuration at any time, so a call  *)
(* of Fire reads any of them, and keeps it.  Only Fire touches the cache   *)
(* and the limiter and only the daemon's loop calls Fire, so the evaluation*)
(* of one flow is one step; time may pass between two flows and between two*)
(* attempts.  This state dies with the process, and no code restores it.   *)
(***************************************************************************)
EXTENDS LRU, Integers, FiniteSets

CONSTANTS
  Keys,           \* flowDedupeKey of the flows that reach the threshold
  Configs,        \* the alerting sections a reload may install
  Minute,         \* time.Minute, in clock units
  DefaultWindow,  \* the 300 s used for a window of 0
  InitialMax,     \* the limiter of a process that has not fired yet (60)
  MaxRetries,     \* maxRetries
  MaxClock, MaxEvals, MaxPostFaults,   \* bounds of the model
  None

ASSUME AlertingParameters ==
  /\ Minute \in Nat \ {0} /\ DefaultWindow \in Nat \ {0}
  /\ InitialMax \in Nat /\ MaxRetries \in Nat \ {0}
  /\ None \notin Nat
  /\ Configs \subseteq [enabled : BOOLEAN, max : Nat, window : Nat]

VARIABLES
  now,        \* time.Now
  firing,     \* the configuration Fire works with, None outside Fire
  cache,      \* dedupCache
  limiter,    \* globalRateLimiter
  firedCount, \* atomic.Int64
  posts,      \* the number of post goroutines that have failed n attempts so far
  delivered,  \* history: alerts whose post was answered with 2xx
  webhookFailures,
  evals,      \* flows evaluated so far (bounds the model)
  postFaults, \* failed attempts so far (bounds the model)
  outcome,    \* history: the last flow evaluated and what became of it
  admitted,   \* history: until when the key last passed the deduplication holds
  others,     \* history: the other keys looked up since the key last was
  grants      \* history: the times at which this limiter granted a token

deciding == <<cache, limiter, evals, outcome, admitted, others, grants>>
posting == <<firedCount, posts, delivered, webhookFailures, postFaults>>
vars == <<now, firing, deciding, posting>>

----------------------------------------------------------------------------
NewLimiter(max, t) == [tokens |-> max, max |-> max, last |-> t]

AtMost(a, b) == IF a < b THEN a ELSE b

Refilled_KeepsTime(l, t) ==
  LET elapsed == t - l.last
      add == (l.max * elapsed) \div Minute
  IN CASE elapsed >= Minute -> [l EXCEPT !.tokens = l.max, !.last = t]
       [] elapsed < Minute /\ add > 0 -> [l EXCEPT !.tokens = AtMost(@ + add, l.max)]
       [] OTHER -> l

(* allow: tokens come back in proportion to the time since the last refill,
   whole tokens only, and all of them after a minute. *)
Refilled(l, t) ==
  LET elapsed == t - l.last
      add == (l.max * elapsed) \div Minute
  IN CASE elapsed >= Minute -> [l EXCEPT !.tokens = l.max, !.last = t]
       [] elapsed < Minute /\ add > 0 ->
            [l EXCEPT !.tokens = AtMost(@ + add, l.max), !.last = t]
       [] OTHER -> l

Unlimited(l) == l.max = 0
Allowed_NoRefill(l, t) == Unlimited(l) \/ l.tokens > 0
Allowed(l, t) == Unlimited(l) \/ Refilled(l, t).tokens > 0
AfterAllow(l, t) ==
  CASE Unlimited(l) -> l
    [] Allowed(l, t) /\ ~Unlimited(l) -> [Refilled(l, t) EXCEPT !.tokens = @ - 1]
    [] OTHER -> Refilled(l, t)

WindowOf(c) == IF c.window = 0 THEN DefaultWindow ELSE c.window

----------------------------------------------------------------------------
Init ==
  /\ now = 1
  /\ firing = None
  /\ cache = <<>>
  /\ limiter = NewLimiter(InitialMax, 1)
  /\ firedCount = 0
  /\ posts = [n \in 0 .. MaxRetries - 1 |-> 0]
  /\ delivered = 0
  /\ webhookFailures = 0
  /\ evals = 0
  /\ postFaults = 0
  /\ outcome = None
  /\ admitted = [k \in Keys |-> None]
  /\ others = [k \in Keys |-> {}]
  /\ grants = <<>>

Tick ==
  /\ now < MaxClock
  /\ now' = now + 1
  /\ UNCHANGED <<firing, deciding, posting>>

(* Fire: a disabled or unconfigured section ends it at once; a limiter of
   another size is replaced by a full one. *)
LimiterFor(max) ==
  IF max = limiter.max THEN UNCHANGED <<limiter, grants>>
  ELSE limiter' = NewLimiter(max, now) /\ grants' = <<>>

StartFire(cfg) ==
  /\ firing = None
  /\ cfg.enabled
  /\ firing' = cfg
  /\ LimiterFor(cfg.max)
  /\ UNCHANGED <<now, cache, evals, outcome, admitted, others, posting>>

EndFire ==
  /\ firing # None
  /\ firing' = None
  /\ UNCHANGED <<now, deciding, posting>>

(* The flow's turn in the loop of Fire, and what every outcome does. *)
Evaluate(k, what) ==
  /\ firing # None
  /\ evals < MaxEvals
  /\ evals' = evals + 1
  /\ outcome' = [key |-> k, what |-> what]
  /\ others' = [x \in Keys |-> IF x = k THEN {} ELSE others[x] \union {k}]
  /\ UNCHANGED <<now, firing>>

(* shouldFire says no. *)
Suppress(k) ==
  /\ Evaluate(k, "suppressed")
  /\ Hit(cache, k, now)
  /\ cache' = AfterGet(cache, k, now)
  /\ UNCHANGED <<limiter, admitted, grants, posting>>

(* shouldFire says yes, and has entered the key before the limiter is asked. *)
Admit(k) ==
  /\ ~Hit(cache, k, now)
  /\ cache' = AfterSet(AfterGet(cache, k, now), k, WindowOf(firing), now)
  /\ admitted' = [admitted EXCEPT ![k] = now + WindowOf(firing)]

(* The limiter says no: the alert is dropped. *)
RateLimit(k) ==
  /\ Evaluate(k, "limited")
  /\ Admit(k)
  /\ ~Allowed(limiter, now)
  /\ limiter' = AfterAllow(limiter, now)
  /\ UNCHANGED <<grants, posting>>

(* The alert is counted and recorded, and its post goroutine starts. *)
Alert(k) ==
  /\ Evaluate(k, "fired")
  /\ Admit(k)
  /\ Allowed(limiter, now)
  /\ limiter' = AfterAllow(limiter, now)
  /\ grants' = Append(grants, now)
  /\ firedCount' = firedCount + 1
  /\ posts' = [posts EXCEPT ![0] = @ + 1]
  /\ UNCHANGED <<delivered, webhookFailures, postFaults>>

----------------------------------------------------------------------------
(* An attempt of post that is answered with a 2xx status. *)
PostSucceeds(n) ==
  /\ posts[n] > 0
  /\ posts' = [posts EXCEPT ![n] = @ - 1]
  /\ delivered' = delivered + 1
  /\ UNCHANGED <<now, firing, deciding, firedCount, webhookFailures, postFaults>>

(* An attempt that is not answered in time, or not with 2xx: the goroutine
   tries again after a pause, or gives up after the last one. *)
Fails(n) == posts[n] > 0 /\ postFaults < MaxPostFaults /\ postFaults' = postFaults + 1

Retry(n) ==
  /\ Fails(n)
  /\ n + 1 < MaxRetries
  /\ posts' = [posts EXCEPT ![n] = @ - 1, ![n + 1] = @ + 1]
  /\ UNCHANGED <<now, firing, deciding, firedCount, delivered, webhookFailures>>

GiveUp_Uncounted(n) ==
  /\ Fails(n)
  /\ n + 1 = MaxRetries
  /\ posts' = [posts EXCEPT ![n] = @ - 1]
  /\ UNCHANGED <<now, firing, deciding, firedCount, delivered, webhookFailures>>
GiveUp(n) ==
  /\ Fails(n)
  /\ n + 1 = MaxRetries
  /\ posts' = [posts EXCEPT ![n] = @ - 1]
  /\ webhookFailures' = webhookFailures + 1
  /\ UNCHANGED <<now, firing, deciding, firedCount, delivered>>

Fire ==
  \/ \E cfg \in Configs : StartFire(cfg)
  \/ EndFire
  \/ \E k \in Keys : Suppress(k) \/ RateLimit(k) \/ Alert(k)

Next ==
  \/ Tick
  \/ Fire
  \/ \E n \in 0 .. MaxRetries - 1 : PostSucceeds(n) \/ Retry(n) \/ GiveUp(n)

Spec == Init /\ [][Next]_vars
----------------------------------------------------------------------------
Evaluated(what) == evals' > evals /\ outcome'.what = what

(* "the same flow will not fire more than once per deduplication window"
   (docs/configuration.md:180), as far as a bounded cache can promise it: a
   key fires again only after the window it was admitted with, or when as
   many other keys as the cache holds were looked up since it last was. *)
DedupWindow ==
  [][Evaluated("fired") =>
       LET k == outcome'.key
       IN \/ admitted[k] = None
          \/ now > admitted[k]
          \/ Cardinality(others[k]) >= Capacity]_vars

(* A flow over the threshold is passed over only inside the window of an
   earlier decision on its key: no leftover of an expired or evicted entry,
   and no reload of the window, suppresses an alert that is due. *)
SuppressedInWindow ==
  [][Evaluated("suppressed") =>
       LET k == outcome'.key IN admitted[k] # None /\ now <= admitted[k]]_vars

(* The token bucket "allows up to maxPerMinute webhook POSTs per minute with
   a burst equal to maxPerMinute" (alerting.go:38): over any stretch of
   time one limiter grants no more than a full bucket, what flows in, and the
   part of a token that had not been credited when the stretch began. *)
RateBound ==
  limiter.max > 0 =>
    \A i, j \in DOMAIN grants :
      i <= j => (j - i - limiter.max) * Minute < limiter.max * (grants[j] - grants[i])

(* The limiter drops an alert only when its bucket could hold no whole token:
   within the last minute it granted one. *)
LimitedOnlyWhenBusy ==
  [][Evaluated("limited") => \E i \in DOMAIN grants : now - grants[i] < Minute]_vars

(* An alert fired is delivered, counted in webhookFailures, or still being
   posted: no exit of the retry loop loses one. *)
Posting[n \in 0 .. MaxRetries] == IF n = 0 THEN 0 ELSE Posting[n - 1] + posts[n - 1]
PostsAccounted == firedCount = delivered + webhookFailures + Posting[MaxRetries]
=============================================================================
