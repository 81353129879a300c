---------------------------- MODULE AlertingProofs ----------------------------
(* Theorems about Alerting for every set of flows, every size of cache and   *)
(* bucket, every window and every sequence of ticks and reloads: how many    *)
(* alerts one limiter grants in a stretch of time, and when it drops one;    *)
(* when an alert may be repeated or suppressed; and that none is lost.       *)
EXTENDS Alerting, FiniteSetTheorems, SequenceTheorems, TLAPS

(* The number of tokens of a full bucket. *)
Size == limiter.max

Types ==
  /\ now \in Nat
  /\ limiter \in [tokens : Nat, max : Nat, last : Nat]
  /\ limiter.tokens <= Size /\ limiter.last <= now
  /\ grants \in Seq(Nat)
  /\ \A i \in DOMAIN grants : grants[i] <= now
  /\ evals \in Nat

(* From the i-th grant on, the tokens granted and those left are less than a
   full bucket and what has flowed in up to the last refill. *)
Inflow ==
  \A i \in DOMAIN grants :
    (Len(grants) - i + limiter.tokens - Size) * Minute < Size * (limiter.last - grants[i])

(* The bucket was emptied by a grant after its last refill. *)
EmptiedByGrant ==
  Size > 0 /\ limiter.tokens = 0 => \E i \in DOMAIN grants : grants[i] >= limiter.last

IInv == Types /\ (Size > 0 => Inflow) /\ RateBound /\ EmptiedByGrant

(* A product of natural numbers grows with each of its factors, and division
   leaves less than the divisor. *)
LEMMA Products ==
  /\ \A a, b, c \in Int : (a + b) * c = a * c + b * c /\ (a - b) * c = a * c - b * c
  /\ \A a, b, c \in Int : c * (a + b) = c * a + c * b /\ c * (a - b) = c * a - c * b
  /\ \A a, b \in Int, c \in Nat : a <= b => a * c <= b * c /\ c * a <= c * b
  /\ \A a \in Nat, m \in Nat \ {0} :
       a \div m \in Nat /\ (a \div m) * m <= a /\ (a < m <=> a \div m = 0)
<1>1. \A a, b, c \in Int : (a + b) * c = a * c + b * c /\ (a - b) * c = a * c - b * c
  OBVIOUS
<1>2. \A a, b, c \in Int : c * (a + b) = c * a + c * b /\ c * (a - b) = c * a - c * b
  OBVIOUS
<1>3. \A a, b \in Int, c \in Nat : a <= b => a * c <= b * c /\ c * a <= c * b
  OBVIOUS
<1>4. ASSUME NEW a \in Nat, NEW m \in Nat \ {0}
      PROVE  a \div m \in Nat /\ (a \div m) * m <= a /\ (a < m <=> a \div m = 0)
  OBVIOUS
<1>5. QED BY <1>1, <1>2, <1>3, <1>4

----------------------------------------------------------------------------
(* What allow makes of the bucket before it takes a token: it is full after a
   minute, else it has what flowed in, in whole tokens; it stays as it is, its
   last refill included, while that is not one token. *)
LEMMA RefillIs ==
  ASSUME Types, Size > 0
  PROVE  LET r == Refilled(limiter, now)
         IN /\ r \in [tokens : Nat, max : Nat, last : Nat]
            /\ r.max = Size /\ r.tokens <= Size
            /\ \/ r.tokens = Size /\ r.last = now /\ now - limiter.last >= Minute
               \/ /\ r.last = now /\ r.tokens > 0
                  /\ (r.tokens - limiter.tokens) * Minute <= Size * (now - limiter.last)
               \/ r = limiter /\ Size * (now - limiter.last) < Minute /\ now - limiter.last < Minute
<1> DEFINE elapsed == now - limiter.last
           add == (Size * elapsed) \div Minute
           r == Refilled(limiter, now)
<1>1. /\ elapsed \in Nat /\ Size \in Nat /\ limiter.tokens \in Nat /\ limiter.last \in Nat /\ now \in Nat
      /\ limiter.tokens <= Size /\ Minute \in Nat \ {0}
      /\ limiter = [tokens |-> limiter.tokens, max |-> Size, last |-> limiter.last]
  BY AlertingParameters DEF Types, Size
<1>2. Size * elapsed \in Nat
  BY <1>1
<1>3. add \in Nat /\ add * Minute <= Size * elapsed /\ (Size * elapsed < Minute <=> add = 0)
  BY <1>1, <1>2, Products
<1>4. /\ elapsed >= Minute => r = [limiter EXCEPT !.tokens = limiter.max, !.last = now]
      /\ elapsed < Minute /\ add > 0 =>
           r = [limiter EXCEPT !.tokens = AtMost(limiter.tokens + add, limiter.max), !.last = now]
      /\ elapsed < Minute /\ add = 0 => r = limiter
  BY <1>1, <1>3 DEF Refilled, Size
<1> HIDE DEF r, add
<1>5. CASE elapsed >= Minute
  <2>1. r.tokens = Size /\ r.max = Size /\ r.last = now
        /\ r \in [tokens : Nat, max : Nat, last : Nat]
    BY <1>1, <1>4, <1>5 DEF Types, Size
  <2>2. QED BY <1>1, <1>5, <2>1 DEF r
<1>6. CASE elapsed < Minute /\ add > 0
  <2> DEFINE a == AtMost(limiter.tokens + add, Size)
  <2>1. a \in Nat /\ a <= Size /\ a > 0 /\ a - limiter.tokens <= add
    BY <1>1, <1>3, <1>6 DEF AtMost
  <2>2. r = [limiter EXCEPT !.tokens = a, !.last = now]
    BY <1>4, <1>6 DEF Size
  <2> HIDE DEF a
  <2>3. r.tokens = a /\ r.max = Size /\ r.last = now
        /\ r \in [tokens : Nat, max : Nat, last : Nat]
    BY <1>1, <2>1, <2>2 DEF Types, Size
  <2>4. (a - limiter.tokens) * Minute <= add * Minute /\ add * Minute \in Nat
        /\ (a - limiter.tokens) * Minute \in Int
    <3>1. a - limiter.tokens \in Int
      BY <1>1, <2>1
    <3>2. \A x \in Int : x <= add => x * Minute <= add * Minute
      BY <1>1, <1>3, Products
    <3>3. add * Minute \in Nat /\ \A x \in Int : x * Minute \in Int
      BY <1>1, <1>3
    <3> DEFINE d == a - limiter.tokens
    <3> HIDE DEF d
    <3>4. d \in Int /\ d <= add
      BY <2>1, <3>1 DEF d
    <3>5. d * Minute <= add * Minute /\ d * Minute \in Int
      BY <3>2, <3>3, <3>4
    <3>6. QED BY <3>3, <3>5 DEF d
  <2>5. (a - limiter.tokens) * Minute <= Size * elapsed
    <3> HIDE DEF elapsed
    <3>1. QED BY <1>2, <1>3, <2>4
  <2>6. QED BY <1>1, <2>1, <2>3, <2>5 DEF r
<1>7. CASE elapsed < Minute /\ add = 0
  <2>1. r = limiter
    BY <1>4, <1>7
  <2>2. Size * elapsed < Minute
    BY <1>3, <1>7
  <2>3. QED BY <1>1, <1>7, <2>1, <2>2 DEF r, Size
<1>8. QED BY <1>1, <1>3, <1>5, <1>6, <1>7

(* A refill keeps the balance of every stretch of time. *)
LEMMA RefillInflow ==
  ASSUME Types, Size > 0, Inflow, NEW i \in DOMAIN grants
  PROVE  (Len(grants) - i + Refilled(limiter, now).tokens - Size) * Minute
           < Size * (Refilled(limiter, now).last - grants[i])
<1> DEFINE r == Refilled(limiter, now)
           n == Len(grants) - i
           g == grants[i]
           L == limiter.last
           T == limiter.tokens
<1>1. /\ n \in Nat /\ g \in Nat /\ g <= now /\ L \in Nat /\ L <= now /\ now \in Nat
      /\ Size \in Nat /\ T \in Nat /\ T <= Size /\ Minute \in Nat \ {0}
  BY AlertingParameters DEF Types, Size
<1>2. (n + T - Size) * Minute < Size * (L - g)
  BY DEF Inflow
<1>3. r.tokens \in Nat /\ r.last \in Nat
  BY RefillIs
<1> SUFFICES (n + r.tokens - Size) * Minute < Size * (r.last - g)
  OBVIOUS
<1> HIDE DEF r, n, g, L, T
<1>4. /\ (n + T - Size) * Minute = n * Minute + T * Minute - Size * Minute
      /\ Size * (L - g) = Size * L - Size * g /\ Size * (now - g) = Size * now - Size * g
      /\ Size * (now - L) = Size * now - Size * L
      /\ (n + r.tokens - Size) * Minute = n * Minute + r.tokens * Minute - Size * Minute
      /\ (r.tokens - T) * Minute = r.tokens * Minute - T * Minute
      /\ n * Minute \in Nat /\ T * Minute \in Nat /\ Size * Minute \in Nat
      /\ Size * L \in Nat /\ Size * g \in Nat /\ Size * now \in Nat /\ r.tokens * Minute \in Nat
  BY <1>1, <1>3
<1>5. CASE r.tokens = Size /\ r.last = now /\ now - L >= Minute
  <2>1. Size * Minute <= Size * (now - L)
    BY <1>1, <1>5, Products
  <2>2. QED BY <1>1, <1>2, <1>4, <1>5, <2>1
<1>6. CASE r.last = now /\ (r.tokens - T) * Minute <= Size * (now - L)
  BY <1>1, <1>2, <1>4, <1>6
<1>7. CASE r = limiter
  BY <1>2, <1>7 DEF L, T
<1>8. \/ r.tokens = Size /\ r.last = now /\ now - L >= Minute
      \/ r.last = now /\ (r.tokens - T) * Minute <= Size * (now - L)
      \/ r = limiter
  BY RefillIs DEF r, L, T
<1>9. QED BY <1>5, <1>6, <1>7, <1>8

----------------------------------------------------------------------------
(* Initially the bucket is full and has granted nothing. *)
LEMMA InitIInv == Init => IInv
<1> SUFFICES ASSUME Init PROVE IInv
  OBVIOUS
<1>1. /\ limiter = [tokens |-> InitialMax, max |-> InitialMax, last |-> 1]
      /\ now = 1 /\ grants = <<>> /\ evals = 0 /\ InitialMax \in Nat
  BY AlertingParameters DEF Init, NewLimiter
<1>2. grants \in Seq(Nat) /\ DOMAIN grants = {} /\ Size = InitialMax
  BY <1>1 DEF Size
<1>3. Types
  BY <1>1, <1>2 DEF Types
<1>4. QED BY <1>1, <1>2, <1>3 DEF IInv, Inflow, RateBound, EmptiedByGrant

(* A grant keeps the balance, and adds stretches that end with it: what they
   granted and what is left of the bucket is bounded by the same inflow. *)
LEMMA AlertKeeps ==
  ASSUME IInv, NEW k \in Keys, Alert(k)
  PROVE  IInv'
<1> DEFINE n == Len(grants)
           r == Refilled(limiter, now)
<1>1. /\ now \in Nat /\ now' = now /\ Size \in Nat /\ Minute \in Nat \ {0} /\ n \in Nat
      /\ limiter \in [tokens : Nat, max : Nat, last : Nat] /\ limiter.last <= now
      /\ grants \in Seq(Nat) /\ DOMAIN grants = 1 .. n
      /\ \A i \in 1 .. n : grants[i] \in Nat /\ grants[i] <= now
  BY AlertingParameters DEF IInv, Types, Alert, Evaluate, Size
<1>2. /\ grants' = Append(grants, now) /\ evals' = evals + 1 /\ limiter' = AfterAllow(limiter, now)
      /\ Allowed(limiter, now)
  BY DEF Alert, Evaluate
<1>3. /\ grants' \in Seq(Nat) /\ Len(grants') = n + 1 /\ DOMAIN grants' = 1 .. n + 1
      /\ grants'[n + 1] = now /\ \A i \in 1 .. n : grants'[i] = grants[i]
  BY <1>1, <1>2
<1>4. \A i \in 1 .. n + 1 : grants'[i] \in Nat /\ grants'[i] <= now /\ (i \in 1 .. n \/ i = n + 1)
  BY <1>1, <1>3
<1>5. evals' \in Nat
  BY <1>2 DEF IInv, Types
<1> HIDE DEF n, r
<1>6. CASE Size = 0
  <2>1. limiter' = limiter
    BY <1>2, <1>6 DEF AfterAllow, Unlimited, Size
  <2>2. Types'
    BY <1>1, <1>3, <1>4, <1>5, <2>1 DEF Types, IInv, Size
  <2>3. QED BY <1>6, <2>1, <2>2 DEF IInv, RateBound, EmptiedByGrant, Size
<1>7. CASE Size > 0
  <2>1. /\ r \in [tokens : Nat, max : Nat, last : Nat] /\ r.max = Size /\ r.tokens <= Size
        /\ r.last <= now /\ (r.last = now \/ Size * (now - r.last) < Minute)
    BY <1>1, <1>7, RefillIs DEF IInv, r
  <2>2. ~Unlimited(limiter) /\ r.tokens > 0
    BY <1>2, <1>7 DEF Unlimited, Allowed, Size, r
  <2>3. limiter' = [r EXCEPT !.tokens = @ - 1]
    BY <1>2, <2>2 DEF AfterAllow, r
  <2>4. /\ limiter'.tokens = r.tokens - 1 /\ Size' = Size /\ limiter'.last = r.last
        /\ limiter' \in [tokens : Nat, max : Nat, last : Nat]
    BY <2>1, <2>2, <2>3 DEF Size
  <2>5. Types'
    BY <1>1, <1>3, <1>4, <1>5, <2>1, <2>4, SMTT(30) DEF Types
  <2> DEFINE T == r.tokens
             L == r.last
  <2> HIDE DEF T, L
  <2>6. /\ T \in Nat /\ T > 0 /\ T <= Size
        /\ L \in Nat /\ L <= now /\ (L = now \/ Size * (now - L) < Minute)
    BY <2>1, <2>2 DEF T, L
  <2>7. \A i \in 1 .. n : (n - i + T - Size) * Minute < Size * (L - grants[i])
    BY <1>1, <1>7, RefillInflow DEF IInv, n, r, T, L
  <2>8. \A i \in 1 .. n : (n + 1 - i + (T - 1) - Size) * Minute < Size * (L - grants[i])
    <3>1. \A i \in 1 .. n : n + 1 - i + (T - 1) - Size = n - i + T - Size
      BY <1>1, <2>6
    <3>2. QED BY <2>7, <3>1
  <2>9. (n + 1 - (n + 1) + (T - 1) - Size) * Minute < Size * (L - now)
    <3> DEFINE t == n + 1 - (n + 1) + (T - 1) - Size
    <3>1. t \in Int /\ t <= 0 - 1
      BY <1>1, <2>6
    <3> HIDE DEF t
    <3>2. t * Minute <= (0 - 1) * Minute /\ t * Minute \in Int /\ (0 - 1) * Minute = 0 - Minute
      BY <1>1, <3>1, Products
    <3>3. L = now => Size * (L - now) = 0
      BY <1>1, <2>6
    <3>4. Size * (L - now) = 0 - Size * (now - L) /\ Size * (now - L) \in Nat
      BY <1>1, <2>6
    <3>5. t * Minute < Size * (L - now)
      <4> DEFINE p == t * Minute
                 q == Size * (now - L)
                 z == Size * (L - now)
      <4>1. p <= 0 - Minute /\ p \in Int /\ q \in Nat /\ z = 0 - q /\ (z = 0 \/ q < Minute)
            /\ Minute \in Nat \ {0}
        BY <1>1, <2>6, <3>2, <3>3, <3>4
      <4> HIDE DEF p, q, z
      <4>2. p < z
        BY <4>1
      <4>3. QED BY <4>2 DEF p, z
    <3>6. QED BY <3>5 DEF t
  <2>10. Inflow'
    <3>1. ASSUME NEW i \in 1 .. n + 1
          PROVE  (n + 1 - i + (T - 1) - Size) * Minute < Size * (L - grants'[i])
      BY <1>3, <1>4, <2>8, <2>9
    <3>2. limiter'.tokens = T - 1 /\ limiter'.last = L
      BY <2>4 DEF T, L
    <3>3. ASSUME NEW i \in DOMAIN grants'
          PROVE  (Len(grants') - i + limiter'.tokens - Size') * Minute
                   < Size' * (limiter'.last - grants'[i])
      <4>1. i \in 1 .. n + 1
        BY <1>3
      <4> DEFINE m == Len(grants')
                 t == limiter'.tokens
      <4>2. m = n + 1 /\ t = T - 1 /\ Size' = Size /\ limiter'.last = L
        BY <1>3, <2>4, <3>2
      <4>3. n \in Nat /\ T \in Nat /\ Size \in Nat /\ i \in Nat
        BY <1>1, <2>6, <4>1
      <4> HIDE DEF m, t
      <4>4. m - i + t - Size = n + 1 - i + (T - 1) - Size
        BY ONLY <4>2, <4>3
      <4>5. (m - i + t - Size') * Minute < Size' * (limiter'.last - grants'[i])
        BY <3>1, <4>1, <4>2, <4>4, Zenon
      <4>6. QED BY <4>5 DEF m, t
    <3>4. QED BY <3>3 DEF Inflow
  <2>11. RateBound'
    <3>1. ASSUME NEW i \in 1 .. n + 1
          PROVE  (n + 1 - i - Size) * Minute < Size * (now - grants'[i])
      <4> DEFINE g == grants'[i]
                 u == n + 1 - i + (T - 1) - Size
                 v == n + 1 - i - Size
      <4>1. u * Minute < Size * (L - g)
        BY <1>3, <1>4, <2>8, <2>9
      <4>2. g \in Nat /\ g <= now /\ u \in Int /\ v \in Int /\ v <= u
        BY <1>1, <1>4, <2>6
      <4> HIDE DEF g, u, v
      <4>3. v * Minute <= u * Minute /\ v * Minute \in Int /\ u * Minute \in Int
        BY <1>1, <4>2, Products
      <4>4. Size * (L - g) <= Size * (now - g) /\ Size * (L - g) \in Int /\ Size * (now - g) \in Int
        <5>1. L - g \in Int /\ now - g \in Int /\ L - g <= now - g
          BY <1>1, <2>6, <4>2
        <5> DEFINE a == L - g
                   b == now - g
        <5> HIDE DEF a, b
        <5>2. Size * a <= Size * b /\ Size * a \in Int /\ Size * b \in Int
          BY <1>1, <5>1, Products DEF a, b
        <5>3. QED BY <5>2 DEF a, b
      <4>5. v * Minute < Size * (now - g)
        BY <4>1, <4>3, <4>4
      <4>6. QED BY <4>5 DEF g, v
    <3>2. \A i, j \in 1 .. n :
            i <= j => (j - i - Size) * Minute < Size * (grants'[j] - grants'[i])
      BY <1>1, <1>3, <1>7 DEF IInv, RateBound, Size
    <3>3. ASSUME NEW i \in 1 .. n + 1, NEW j \in 1 .. n + 1, i <= j
          PROVE  (j - i - Size) * Minute < Size * (grants'[j] - grants'[i])
      <4>1. CASE j = n + 1
        <5>1. grants'[j] = now
          BY <1>3, <4>1
        <5>2. j - i - Size = n + 1 - i - Size /\ grants'[j] - grants'[i] = now - grants'[i]
          BY <1>1, <1>4, <4>1, <5>1
        <5>3. QED BY <3>1, <5>2, Zenon
      <4>2. CASE j \in 1 .. n
        <5>1. i \in 1 .. n
          BY <1>1, <3>3, <4>2
        <5>2. QED BY <3>2, <3>3, <4>2, <5>1
      <4>3. QED BY <1>4, <4>1, <4>2
    <3>4. QED BY <1>3, <2>4, <3>3 DEF RateBound, Size
  <2>12. EmptiedByGrant'
    <3>1. n + 1 \in DOMAIN grants' /\ grants'[n + 1] >= limiter'.last
      BY <1>1, <1>3, <2>1, <2>4
    <3>2. QED BY <3>1 DEF EmptiedByGrant
  <2>13. QED BY <2>5, <2>10, <2>11, <2>12 DEF IInv
<1>8. QED BY <1>1, <1>6, <1>7

(* Every step keeps the balance: only Fire touches the bucket, and a reload
   starts a new one. *)
LEMMA StepIInv == IInv /\ [Next]_vars => IInv'
<1> SUFFICES ASSUME IInv, [Next]_vars PROVE IInv'
  OBVIOUS
<1>1. ASSUME UNCHANGED <<limiter, grants>>, now' \in Nat, now' >= now, evals' \in Nat PROVE IInv'
  <2>1. Types'
    BY <1>1 DEF IInv, Types, Size
  <2>2. QED BY <1>1, <2>1 DEF IInv, Inflow, RateBound, EmptiedByGrant, Size
<1>2. now \in Nat /\ evals \in Nat
  BY DEF IInv, Types
<1>3. CASE Tick
  BY <1>1, <1>2, <1>3 DEF Tick, deciding
<1>4. CASE EndFire
  BY <1>1, <1>2, <1>4 DEF EndFire, deciding
<1>5. ASSUME NEW cfg \in Configs, StartFire(cfg) PROVE IInv'
  <2>1. now' = now /\ evals' = evals /\ LimiterFor(cfg.max) /\ cfg.max \in Nat
    BY <1>5, AlertingParameters DEF StartFire
  <2>2. CASE cfg.max = limiter.max
    BY <1>1, <1>2, <2>1, <2>2 DEF LimiterFor
  <2>3. CASE cfg.max # limiter.max
    <3>1. limiter' = [tokens |-> cfg.max, max |-> cfg.max, last |-> now] /\ grants' = <<>>
      BY <2>1, <2>3 DEF LimiterFor, NewLimiter
    <3>2. grants' \in Seq(Nat) /\ DOMAIN grants' = {} /\ Size' = cfg.max
      BY <3>1 DEF Size
    <3>3. Types'
      BY <1>2, <2>1, <3>1, <3>2 DEF Types
    <3>4. QED BY <2>1, <3>1, <3>2, <3>3 DEF IInv, Inflow, RateBound, EmptiedByGrant
  <2>4. QED BY <2>2, <2>3
<1>6. ASSUME NEW k \in Keys, Suppress(k) PROVE IInv'
  BY <1>1, <1>2, <1>6 DEF Suppress, Evaluate
<1>7. ASSUME NEW k \in Keys, RateLimit(k) PROVE IInv'
  <2> DEFINE r == Refilled(limiter, now)
  <2>1. /\ now' = now /\ grants' = grants /\ evals' = evals + 1
        /\ limiter' = AfterAllow(limiter, now) /\ ~Allowed(limiter, now)
    BY <1>7 DEF RateLimit, Evaluate
  <2>2. limiter' = r /\ Size > 0 /\ ~(r.tokens > 0)
    BY <2>1 DEF AfterAllow, Allowed, Unlimited, IInv, Types, Size
  <2>3. r = limiter
    BY <2>2, RefillIs DEF IInv, Types, Size
  <2>4. QED BY <1>1, <1>2, <2>1, <2>2, <2>3
<1>8. ASSUME NEW k \in Keys, Alert(k) PROVE IInv'
  BY <1>8, AlertKeeps
<1>9. ASSUME NEW n \in 0 .. MaxRetries - 1, PostSucceeds(n) \/ Retry(n) \/ GiveUp(n) PROVE IInv'
  BY <1>1, <1>2, <1>9 DEF PostSucceeds, Retry, GiveUp, deciding
<1>10. CASE UNCHANGED vars
  BY <1>1, <1>2, <1>10 DEF vars, deciding
<1>11. QED
  BY <1>3, <1>4, <1>5, <1>6, <1>7, <1>8, <1>9, <1>10 DEF Next, Fire

(* The inductive invariant holds of every behaviour. *)
LEMMA Invariant == Spec => []IInv
BY InitIInv, StepIInv, PTL DEF Spec

(* Over any stretch of time one limiter grants no more than a full bucket and
   what flows in meanwhile, rounded up (alerting.go:38, 53-80). *)
THEOREM RateBoundHolds == Spec => []RateBound
<1>1. IInv => RateBound
  BY DEF IInv
<1>2. QED BY Invariant, <1>1, PTL

(* An alert is dropped only by a limiter that granted one within the last
   minute (alerting.go:53-80, 208). *)
THEOREM LimitedOnlyWhenBusyHolds == Spec => LimitedOnlyWhenBusy
<1> DEFINE Busy == \E i \in DOMAIN grants : now - grants[i] < Minute
<1>1. ASSUME IInv, [Next]_vars, Evaluated("limited") PROVE Busy
  <2>1. evals' > evals /\ outcome'.what = "limited" /\ evals \in Nat
    BY <1>1 DEF Evaluated, IInv, Types
  <2>2. PICK k \in Keys : RateLimit(k)
    <3>1. evals' # evals
      BY <2>1
    <3>2. \A k \in Keys : ~Suppress(k) /\ ~Alert(k)
      BY <2>1 DEF Suppress, Alert, Evaluate
    <3>3. QED BY <1>1, <3>1, <3>2 DEF Next, Fire, Tick, EndFire, StartFire, PostSucceeds, Retry,
                                      GiveUp, deciding, vars
  <2> DEFINE r == Refilled(limiter, now)
  <2>3. Size > 0 /\ ~(r.tokens > 0)
    BY <1>1, <2>2 DEF RateLimit, Allowed, Unlimited, IInv, Types, Size
  <2>4. r = limiter /\ now - limiter.last < Minute
    BY <1>1, <2>3, RefillIs DEF IInv, Types, Size
  <2>5. PICK i \in DOMAIN grants : grants[i] >= limiter.last
    BY <1>1, <2>3, <2>4 DEF IInv, Types, EmptiedByGrant, Size
  <2>6. /\ grants[i] \in Nat /\ now \in Nat /\ limiter.last \in Nat /\ Minute \in Nat
    BY <1>1, AlertingParameters DEF IInv, Types
  <2>7. QED BY <2>4, <2>5, <2>6
<1>2. IInv /\ [Next]_vars => [Evaluated("limited") => Busy]_vars
  BY <1>1
<1>3. QED BY Invariant, <1>2, PTL DEF Spec, LimitedOnlyWhenBusy

----------------------------------------------------------------------------
(* The goroutines that post, added up.  A set of numbers that is not empty has
   a smallest member, so a claim that fails fails for a smallest number. *)
LEMMA HasMin ==
  ASSUME NEW S \in SUBSET Nat, S # {}
  PROVE  \E m \in S : \A n \in S : m <= n
<1> DEFINE R == {ss \in Nat \X Nat : ss[1] < ss[2]}
<1>1. IsWellFoundedOn(R, Nat)
  BY NatLessThanWellFounded DEF OpToRel
<1>2. \A x, y \in Nat : x < y => <<x, y>> \in R
  OBVIOUS
<1> HIDE DEF R
<1>3. PICK x \in S : \A y \in S : ~ (<<y, x>> \in R)
  <2>1. \E x \in S : \A y \in S : ~ (<<y, x>> \in R)
    BY <1>1, WFMin
  <2>2. QED BY <2>1
<1>4. ASSUME NEW y \in S PROVE x <= y
  <2>1. ~ (y < x) /\ x \in Nat /\ y \in Nat
    BY <1>2, <1>3, <1>4
  <2>2. QED BY <2>1
<1>5. QED BY <1>4

IsTotal(g, q, m) == g = [n \in 0 .. m |-> IF n = 0 THEN 0 ELSE g[n - 1] + q[n - 1]]
Total(q) == CHOOSE g : IsTotal(g, q, MaxRetries)
Counts == [0 .. MaxRetries - 1 -> Nat]

LEMMA TotalExists ==
  ASSUME NEW q
  PROVE  \E g : IsTotal(g, q, MaxRetries)
<1> DEFINE S == {m \in Nat : ~ \E g : IsTotal(g, q, m)}
<1>1. SUFFICES ASSUME S # {} PROVE FALSE
  BY AlertingParameters
<1>2. PICK m \in S : \A n \in S : m <= n
  BY <1>1, HasMin
<1>3. m \in Nat /\ ~ \E g : IsTotal(g, q, m)
  BY <1>2
<1>4. CASE m = 0
  <2> DEFINE g == [n \in 0 .. 0 |-> 0]
  <2>1. g = [n \in 0 .. 0 |-> IF n = 0 THEN 0 ELSE g[n - 1] + q[n - 1]]
    OBVIOUS
  <2>2. QED BY <1>3, <1>4, <2>1 DEF IsTotal
<1>5. CASE m # 0
  <2>1. m - 1 \in Nat /\ m - 1 < m
    BY <1>3, <1>5
  <2>2. m - 1 \notin S
    BY <1>2, <1>3, <2>1
  <2>3. PICK g : IsTotal(g, q, m - 1)
    BY <2>1, <2>2
  <2> DEFINE h == [n \in 0 .. m |-> IF n < m THEN g[n] ELSE g[m - 1] + q[m - 1]]
  <2>4. \A n \in 0 .. m - 1 : g[n] = IF n = 0 THEN 0 ELSE g[n - 1] + q[n - 1]
    BY <2>3 DEF IsTotal
  <2>5. \A n \in 0 .. m : h[n] = IF n = 0 THEN 0 ELSE h[n - 1] + q[n - 1]
    <3> SUFFICES ASSUME NEW n \in 0 .. m PROVE h[n] = IF n = 0 THEN 0 ELSE h[n - 1] + q[n - 1]
      OBVIOUS
    <3>1. CASE n = 0
      BY <1>3, <1>5, <2>1, <2>4, <3>1
    <3>2. CASE n # 0 /\ n < m
      <4>1. n \in 0 .. m - 1 /\ n - 1 \in 0 .. m /\ n - 1 < m
        BY <1>3, <3>2
      <4>2. h[n] = g[n] /\ h[n - 1] = g[n - 1]
        BY <3>2, <4>1
      <4>3. QED BY <2>4, <3>2, <4>1, <4>2
    <3>3. CASE n = m
      <4>1. n - 1 \in 0 .. m /\ n - 1 < m /\ n # 0 /\ ~(n < m)
        BY <1>3, <1>5, <3>3
      <4>2. h[n] = g[m - 1] + q[m - 1] /\ h[n - 1] = g[m - 1]
        BY <3>3, <4>1
      <4>3. QED BY <3>3, <4>1, <4>2
    <3>4. QED BY <1>3, <3>1, <3>2, <3>3
  <2>6. IsTotal(h, q, m)
    <3>1. h = [n \in 0 .. m |-> h[n]]
      OBVIOUS
    <3> HIDE DEF h
    <3>2. QED BY <2>5, <3>1 DEF IsTotal
  <2>7. QED BY <1>3, <2>6
<1>6. QED BY <1>4, <1>5

LEMMA TotalIs ==
  ASSUME NEW q \in Counts
  PROVE  /\ Total(q)[0] = 0
         /\ \A n \in 1 .. MaxRetries : Total(q)[n] = Total(q)[n - 1] + q[n - 1]
         /\ \A n \in 0 .. MaxRetries : Total(q)[n] \in Nat
<1> DEFINE g == Total(q)
<1>1. g = [n \in 0 .. MaxRetries |-> IF n = 0 THEN 0 ELSE g[n - 1] + q[n - 1]]
  BY TotalExists DEF Total, IsTotal
<1>2. MaxRetries \in Nat
  BY AlertingParameters
<1> HIDE DEF g
<1>3. /\ g[0] = 0
      /\ \A n \in 1 .. MaxRetries : g[n] = g[n - 1] + q[n - 1]
  BY <1>1, <1>2
<1>4. \A n \in 0 .. MaxRetries : g[n] \in Nat
  <2> DEFINE S == {n \in Nat : n <= MaxRetries /\ g[n] \notin Nat}
  <2>1. SUFFICES ASSUME S # {} PROVE FALSE
    OBVIOUS
  <2>2. PICK m \in S : \A n \in S : m <= n
    BY <2>1, HasMin
  <2>3. m \in Nat /\ m <= MaxRetries /\ g[m] \notin Nat /\ m # 0
    BY <1>3, <2>2
  <2>4. m - 1 \in Nat /\ m - 1 <= MaxRetries /\ m - 1 < m /\ m \in 1 .. MaxRetries /\ m - 1 \in 0 .. MaxRetries - 1
    BY <1>2, <2>3
  <2>5. g[m - 1] \in Nat
    BY <2>2, <2>3, <2>4
  <2>6. q[m - 1] \in Nat
    BY <2>4 DEF Counts
  <2>7. QED BY <1>3, <2>3, <2>4, <2>5, <2>6
<1>5. QED BY <1>3, <1>4 DEF g

LEMMA TotalOfNone ==
  ASSUME NEW q \in Counts, \A n \in 0 .. MaxRetries - 1 : q[n] = 0
  PROVE  Total(q)[MaxRetries] = 0
<1> DEFINE g == Total(q)
           S == {n \in Nat : n <= MaxRetries /\ g[n] # 0}
<1>1. MaxRetries \in Nat
  BY AlertingParameters
<1>2. g[0] = 0 /\ \A n \in 1 .. MaxRetries : g[n] = g[n - 1] + q[n - 1]
  BY TotalIs
<1> HIDE DEF g
<1>3. SUFFICES ASSUME S # {} PROVE FALSE
  BY <1>1 DEF g
<1>4. PICK m \in S : \A n \in S : m <= n
  BY <1>3, HasMin
<1>5. m \in Nat /\ m <= MaxRetries /\ g[m] # 0 /\ m # 0
  BY <1>2, <1>4
<1>6. m - 1 \in Nat /\ m - 1 <= MaxRetries /\ m - 1 < m /\ m \in 1 .. MaxRetries /\ m - 1 \in 0 .. MaxRetries - 1
  BY <1>1, <1>5
<1>7. g[m - 1] = 0
  BY <1>4, <1>5, <1>6
<1>8. QED BY <1>2, <1>5, <1>6, <1>7

(* Changing one count changes the total by as much. *)
LEMMA TotalChanges ==
  ASSUME NEW q \in Counts, NEW i \in 0 .. MaxRetries - 1, NEW v \in Nat
  PROVE  /\ [q EXCEPT ![i] = v] \in Counts
         /\ Total([q EXCEPT ![i] = v])[MaxRetries] = Total(q)[MaxRetries] + (v - q[i])
<1> DEFINE r == [q EXCEPT ![i] = v]
           g == Total(q)
           h == Total(r)
           d == v - q[i]
           S == {n \in Nat : n <= MaxRetries /\ h[n] # g[n] + (IF i < n THEN d ELSE 0)}
<1>1. MaxRetries \in Nat /\ i \in Nat /\ i < MaxRetries
  BY AlertingParameters
<1>2. r \in Counts /\ d \in Int /\ q[i] \in Nat
      /\ \A n \in 0 .. MaxRetries - 1 : r[n] = (IF n = i THEN v ELSE q[n]) /\ q[n] \in Nat
  BY <1>1 DEF Counts
<1>3. /\ g[0] = 0 /\ \A n \in 1 .. MaxRetries : g[n] = g[n - 1] + q[n - 1]
      /\ \A n \in 0 .. MaxRetries : g[n] \in Nat
  BY TotalIs
<1>4. /\ h[0] = 0 /\ \A n \in 1 .. MaxRetries : h[n] = h[n - 1] + r[n - 1]
      /\ \A n \in 0 .. MaxRetries : h[n] \in Nat
  <2> HIDE DEF r
  <2>1. QED BY <1>2, TotalIs
<1>5. d = v - q[i]
  OBVIOUS
<1> HIDE DEF g, h, r, d
<1>6. S = {}
  <2>1. SUFFICES ASSUME S # {} PROVE FALSE
    OBVIOUS
  <2>2. PICK m \in S : \A n \in S : m <= n
    BY <2>1, HasMin
  <2>3. m \in Nat /\ m <= MaxRetries /\ h[m] # g[m] + (IF i < m THEN d ELSE 0)
    BY <2>2
  <2>4. m # 0
    BY <1>1, <1>3, <1>4, <2>3
  <2>5. m - 1 \in Nat /\ m - 1 <= MaxRetries /\ m - 1 < m /\ m \in 1 .. MaxRetries
        /\ m - 1 \in 0 .. MaxRetries - 1 /\ m - 1 \in 0 .. MaxRetries
    BY <1>1, <2>3, <2>4
  <2>6. h[m - 1] = g[m - 1] + (IF i < m - 1 THEN d ELSE 0)
    BY <2>2, <2>3, <2>5
  <2>7. h[m] = h[m - 1] + r[m - 1] /\ g[m] = g[m - 1] + q[m - 1]
    BY <1>3, <1>4, <2>5
  <2>8. h[m - 1] \in Nat /\ g[m - 1] \in Nat /\ q[m - 1] \in Nat
    BY <1>2, <1>3, <1>4, <2>5
  <2>9. CASE i = m - 1
    <3>1. r[m - 1] = v /\ q[m - 1] = q[i]
      BY <1>2, <2>5, <2>9
    <3> DEFINE a == g[m - 1]
               b == q[i]
    <3>2. h[m] = a + v /\ g[m] = a + b /\ d = v - b /\ a \in Nat /\ b \in Nat
      BY <1>1, <1>2, <1>5, <2>6, <2>7, <2>8, <2>9, <3>1
    <3> HIDE DEF a, b
    <3>3. h[m] = g[m] + d
      BY <3>2
    <3>4. QED BY <1>1, <2>3, <2>5, <2>9, <3>3
  <2>10. CASE i # m - 1
    <3>1. r[m - 1] = q[m - 1]
      BY <1>2, <2>5, <2>10
    <3>2. i < m <=> i < m - 1
      BY <1>1, <2>3, <2>10
    <3> DEFINE a == g[m - 1]
               b == q[m - 1]
               c == IF i < m THEN d ELSE 0
    <3>3. h[m] = (a + c) + b /\ g[m] = a + b /\ a \in Nat /\ b \in Nat /\ c \in Int
      BY <1>2, <2>6, <2>7, <2>8, <3>1, <3>2
    <3> HIDE DEF a, b, c
    <3>4. h[m] = g[m] + c
      BY <3>3
    <3>5. QED BY <2>3, <3>4 DEF c
  <2>11. QED BY <2>9, <2>10
<1>7. h[MaxRetries] = g[MaxRetries] + d
  BY <1>1, <1>6
<1>8. QED BY <1>2, <1>7 DEF g, h, r, d

PostInv ==
  /\ posts \in Counts /\ firedCount \in Nat /\ delivered \in Nat /\ webhookFailures \in Nat
  /\ firedCount = delivered + webhookFailures + Total(posts)[MaxRetries]

(* Moving a goroutine from one place to the next, or starting or ending one. *)
LEMMA TotalMoves ==
  ASSUME NEW q \in Counts, NEW i \in 0 .. MaxRetries - 1
  PROVE  /\ [q EXCEPT ![i] = @ + 1] \in Counts
         /\ Total([q EXCEPT ![i] = @ + 1])[MaxRetries] = Total(q)[MaxRetries] + 1
         /\ q[i] > 0 => /\ [q EXCEPT ![i] = @ - 1] \in Counts
                        /\ Total([q EXCEPT ![i] = @ - 1])[MaxRetries] = Total(q)[MaxRetries] - 1
<1> DEFINE c == q[i]
           t == Total(q)[MaxRetries]
<1>1. c \in Nat /\ t \in Nat
  BY AlertingParameters, TotalIs DEF Counts
<1>2. /\ [q EXCEPT ![i] = c + 1] \in Counts
      /\ Total([q EXCEPT ![i] = c + 1])[MaxRetries] = t + ((c + 1) - c)
  <2>1. c + 1 \in Nat
    BY <1>1
  <2> HIDE DEF t
  <2>2. QED BY <2>1, TotalChanges DEF t
<1>3. ASSUME c > 0
      PROVE  /\ [q EXCEPT ![i] = c - 1] \in Counts
             /\ Total([q EXCEPT ![i] = c - 1])[MaxRetries] = t + ((c - 1) - c)
  <2>1. c - 1 \in Nat
    BY <1>1, <1>3
  <2>2. QED BY <2>1, TotalChanges
<1>4. t + ((c + 1) - c) = t + 1 /\ (c > 0 => t + ((c - 1) - c) = t - 1)
  <2> HIDE DEF t, c
  <2>1. QED BY <1>1
<1>5. QED BY <1>2, <1>3, <1>4

LEMMA StepPosts == PostInv /\ [Next]_vars => PostInv'
<1> SUFFICES ASSUME PostInv, [Next]_vars PROVE PostInv'
  OBVIOUS
<1> DEFINE t == Total(posts)[MaxRetries]
           u == Total(posts')[MaxRetries]
<1>1. /\ posts \in Counts /\ t \in Nat
      /\ firedCount \in Nat /\ delivered \in Nat /\ webhookFailures \in Nat
      /\ firedCount = delivered + webhookFailures + t
  BY TotalIs, AlertingParameters DEF PostInv
<1>2. CASE UNCHANGED <<posts, firedCount, delivered, webhookFailures>>
  BY <1>2 DEF PostInv, Total, IsTotal
<1>3. ASSUME posts' \in Counts,
             \/ u = t + 1 /\ firedCount' = firedCount + 1 /\ UNCHANGED <<delivered, webhookFailures>>
             \/ u = t - 1 /\ delivered' = delivered + 1 /\ UNCHANGED <<firedCount, webhookFailures>>
             \/ u = t - 1 /\ webhookFailures' = webhookFailures + 1 /\ UNCHANGED <<firedCount, delivered>>
             \/ u = t /\ UNCHANGED <<firedCount, delivered, webhookFailures>>
      PROVE  PostInv'
  <2> DEFINE f == firedCount'
             d == delivered'
             w == webhookFailures'
  <2>1. u \in Nat
    BY <1>3, TotalIs, AlertingParameters
  <2>2. \/ u = t + 1 /\ f = firedCount + 1 /\ d = delivered /\ w = webhookFailures
        \/ u = t - 1 /\ d = delivered + 1 /\ f = firedCount /\ w = webhookFailures
        \/ u = t - 1 /\ w = webhookFailures + 1 /\ f = firedCount /\ d = delivered
        \/ u = t /\ f = firedCount /\ d = delivered /\ w = webhookFailures
    BY <1>3
  <2> HIDE DEF f, d, w, u, t
  <2>3. f \in Nat /\ d \in Nat /\ w \in Nat /\ f = d + w + u
    BY <1>1, <2>1, <2>2
  <2>4. QED BY <1>3, <2>3 DEF PostInv, f, d, w, u
<1>4. CASE Tick \/ EndFire
  BY <1>2, <1>4 DEF Tick, EndFire, posting
<1>5. ASSUME NEW cfg \in Configs, StartFire(cfg) PROVE PostInv'
  BY <1>2, <1>5 DEF StartFire, posting
<1>6. ASSUME NEW k \in Keys, Suppress(k) \/ RateLimit(k) PROVE PostInv'
  BY <1>2, <1>6 DEF Suppress, RateLimit, posting
<1>7. ASSUME NEW k \in Keys, Alert(k) PROVE PostInv'
  <2>1. 0 \in 0 .. MaxRetries - 1
    BY AlertingParameters
  <2>2. /\ posts' = [posts EXCEPT ![0] = @ + 1] /\ firedCount' = firedCount + 1
        /\ UNCHANGED <<delivered, webhookFailures>>
    BY <1>7 DEF Alert
  <2>3. posts' \in Counts /\ u = t + 1
    BY <1>1, <2>1, <2>2, TotalMoves
  <2>4. QED BY <1>3, <2>2, <2>3
<1>8. ASSUME NEW n \in 0 .. MaxRetries - 1, PostSucceeds(n) \/ GiveUp(n) PROVE PostInv'
  <2>1. /\ posts[n] > 0 /\ posts' = [posts EXCEPT ![n] = @ - 1]
        /\ \/ delivered' = delivered + 1 /\ UNCHANGED <<firedCount, webhookFailures>>
           \/ webhookFailures' = webhookFailures + 1 /\ UNCHANGED <<firedCount, delivered>>
    BY <1>8 DEF PostSucceeds, GiveUp, Fails
  <2>2. posts' \in Counts /\ u = t - 1
    BY <1>1, <2>1, TotalMoves
  <2>3. QED BY <1>3, <2>1, <2>2
<1>9. ASSUME NEW n \in 0 .. MaxRetries - 1, Retry(n) PROVE PostInv'
  <2> DEFINE q == [posts EXCEPT ![n] = @ - 1]
             x == Total(q)[MaxRetries]
  <2>1. /\ posts[n] > 0 /\ n + 1 \in 0 .. MaxRetries - 1 /\ n # n + 1
        /\ posts' = [posts EXCEPT ![n] = @ - 1, ![n + 1] = @ + 1]
        /\ UNCHANGED <<firedCount, delivered, webhookFailures>>
    BY <1>9, AlertingParameters DEF Retry, Fails
  <2>2. q \in Counts /\ x = t - 1
    BY <1>1, <2>1, TotalMoves
  <2>3. posts' = [q EXCEPT ![n + 1] = @ + 1]
    BY <1>1, <2>1 DEF Counts
  <2>4. q \in Counts => /\ [q EXCEPT ![n + 1] = @ + 1] \in Counts
                        /\ Total([q EXCEPT ![n + 1] = @ + 1])[MaxRetries] = x + 1
    <3> DEFINE p == q
    <3>1. q = p
      OBVIOUS
    <3> HIDE DEF p
    <3>2. p \in Counts => /\ [p EXCEPT ![n + 1] = @ + 1] \in Counts
                          /\ Total([p EXCEPT ![n + 1] = @ + 1])[MaxRetries] = Total(p)[MaxRetries] + 1
      BY <2>1, TotalMoves
    <3>3. QED BY <3>1, <3>2
  <2>5. posts' \in Counts /\ u = t
    <3>1. posts' \in Counts /\ u = x + 1
      BY <2>2, <2>3, <2>4
    <3> HIDE DEF t, u, x
    <3>2. QED BY <1>1, <2>2, <3>1
  <2>6. QED BY <1>3, <2>1, <2>5
<1>10. CASE UNCHANGED vars
  BY <1>2, <1>10 DEF vars, posting
<1>11. QED
  BY <1>4, <1>5, <1>6, <1>7, <1>8, <1>9, <1>10 DEF Next, Fire

(* Every alert that was fired is delivered, given up and counted as a failure,
   or still being posted, whatever the number of attempts and of alerts in
   flight (alerting.go:225-290). *)
THEOREM PostsAccountedHolds == Spec => []PostsAccounted
<1>1. Init => PostInv
  <2> SUFFICES ASSUME Init PROVE PostInv
    OBVIOUS
  <2>1. /\ posts = [n \in 0 .. MaxRetries - 1 |-> 0]
        /\ firedCount = 0 /\ delivered = 0 /\ webhookFailures = 0
    BY DEF Init
  <2>2. posts \in Counts /\ \A n \in 0 .. MaxRetries - 1 : posts[n] = 0
    BY <2>1 DEF Counts
  <2>3. Total(posts)[MaxRetries] = 0
    BY <2>2, TotalOfNone
  <2>4. QED BY <2>1, <2>2, <2>3 DEF PostInv
<1>2. PostInv => PostsAccounted
  <2>1. Posting = Total(posts)
    BY DEF Posting, Total, IsTotal
  <2>2. QED BY <2>1 DEF PostInv, PostsAccounted
<1>3. QED BY StepPosts, <1>1, <1>2, PTL DEF Spec

----------------------------------------------------------------------------
(* The deduplication cache.  An entry expires when the decision it records
   does; the keys ahead of it were looked up since its own was; and a key that
   was admitted and has lost its entry made room for as many others as the
   cache holds. *)
Items == [key : Keys, expiry : Nat]

CacheTypes ==
  /\ now \in Nat /\ evals \in Nat
  /\ firing \in Configs \union {None}
  /\ cache \in Seq(Items)
  /\ admitted \in [Keys -> Nat \union {None}]
  /\ others \in [Keys -> SUBSET Keys]
  /\ \A k \in Keys : IsFiniteSet(others[k])

CacheEntries ==
  /\ Len(cache) <= Capacity
  /\ \A i, j \in 1 .. Len(cache) : i # j => cache[i].key # cache[j].key
  /\ \A i \in 1 .. Len(cache) : cache[i].expiry # 0 /\ admitted[cache[i].key] = cache[i].expiry
  /\ \A i, j \in 1 .. Len(cache) : i < j => cache[i].key \in others[cache[j].key]

Forgotten ==
  \A k \in Keys : admitted[k] # None /\ ~Holds(cache, k) => Cardinality(others[k]) >= Capacity

CacheInv == CacheTypes /\ CacheEntries /\ Forgotten

(* w is what is left of c, in the same order: its i-th entry was at f[i]. *)
Thinned(w, c, f) ==
  /\ f \in [1 .. Len(w) -> 1 .. Len(c)]
  /\ \A i \in 1 .. Len(w) : w[i] = c[f[i]]
  /\ \A i, j \in 1 .. Len(w) : i < j => f[i] < f[j]

(* Without takes the entry of the key away and keeps all others in order. *)
LEMMA WithoutIs ==
  ASSUME NEW c \in Seq(Items), NEW k,
         \A i, j \in 1 .. Len(c) : i # j => c[i].key # c[j].key
  PROVE  /\ Without(c, k) \in Seq(Items)
         /\ Len(Without(c, k)) <= Len(c)
         /\ \A i \in 1 .. Len(Without(c, k)) : Without(c, k)[i].key # k
         /\ Holds(c, k) => Len(Without(c, k)) = Len(c) - 1 /\ Entry(c, k) \in Items /\ Entry(c, k).key = k
         /\ \E f : /\ Thinned(Without(c, k), c, f)
                   /\ \A i \in 1 .. Len(c) : c[i].key # k => \E j \in 1 .. Len(Without(c, k)) : f[j] = i
         /\ \A i \in 1 .. Len(c) : c[i].key = k => Entry(c, k) = c[i]
<1> DEFINE w == Without(c, k)
           n == Len(c)
           p == Place(c, k)
<1>1. n \in Nat /\ DOMAIN c = 1 .. n /\ \A i \in 1 .. n : c[i] \in Items
  OBVIOUS
<1>2. CASE ~Holds(c, k)
  <2>1. w = c /\ \A i \in 1 .. n : c[i].key # k
    BY <1>1, <1>2 DEF Without, Holds
  <2> DEFINE f == [i \in 1 .. n |-> i]
  <2>2. Thinned(c, c, f) /\ \A i \in 1 .. n : f[i] = i
    BY <1>1 DEF Thinned
  <2>3. \E g : /\ Thinned(c, c, g)
               /\ \A i \in 1 .. n : c[i].key # k => \E j \in 1 .. n : g[j] = i
    <3> HIDE DEF f, n
    <3>1. QED BY <2>2
  <2>4. \E g : /\ Thinned(w, c, g)
               /\ \A i \in 1 .. n : c[i].key # k => \E j \in 1 .. Len(w) : g[j] = i
    BY <2>1, <2>3, Zenon
  <2>5. /\ w \in Seq(Items) /\ Len(w) <= n
        /\ \A i \in 1 .. Len(w) : w[i].key # k
        /\ \A i \in 1 .. n : c[i].key = k => Entry(c, k) = c[i]
    BY <1>1, <2>1
  <2>6. QED BY <1>2, <2>4, <2>5, Zenon
<1>3. CASE Holds(c, k)
  <2>1. p \in 1 .. n /\ c[p].key = k
    BY <1>1, <1>3 DEF Holds, Place
  <2>2. \A i \in 1 .. n : c[i].key = k => i = p
    BY <2>1
  <2>3. w = SubSeq(c, 1, p - 1) \o SubSeq(c, p + 1, n)
    BY <1>3 DEF Without, RemoveAt
  <2> HIDE DEF p, w
  <2> DEFINE u == SubSeq(c, 1, p - 1)
             v == SubSeq(c, p + 1, n)
  <2>4. u \in Seq(Items) /\ Len(u) = p - 1 /\ \A i \in 1 .. p - 1 : u[i] = c[i]
    <3>1. \A i \in 1 .. p - 1 : c[i] \in Items
      BY <1>1, <2>1
    <3>2. QED BY <1>1, <2>1, <3>1, SubSeqProperties
  <2>5. v \in Seq(Items) /\ Len(v) = n - p /\ \A i \in 1 .. n - p : v[i] = c[p + i]
    <3>1. \A i \in p + 1 .. n : c[i] \in Items
      BY <1>1, <2>1
    <3>2. /\ v \in Seq(Items) /\ Len(v) = IF p + 1 <= n THEN n - (p + 1) + 1 ELSE 0
          /\ \A i \in 1 .. n - (p + 1) + 1 : v[i] = c[(p + 1) + i - 1]
      BY <1>1, <2>1, <3>1, SubSeqProperties
    <3> HIDE DEF v, n
    <3>3. QED BY <1>1, <2>1, <3>2
  <2> HIDE DEF u, v
  <2>6. /\ w \in Seq(Items) /\ Len(w) = n - 1
        /\ \A i \in 1 .. n - 1 : w[i] = IF i < p THEN c[i] ELSE c[i + 1]
    <3>1. /\ w \in Seq(Items) /\ Len(w) = (p - 1) + (n - p)
          /\ \A i \in 1 .. (p - 1) + (n - p) : w[i] = IF i <= p - 1 THEN u[i] ELSE v[i - (p - 1)]
      <4>1. /\ u \o v \in Seq(Items) /\ Len(u \o v) = Len(u) + Len(v)
            /\ \A i \in 1 .. Len(u) + Len(v) :
                 (u \o v)[i] = IF i <= Len(u) THEN u[i] ELSE v[i - Len(u)]
        BY <2>4, <2>5, ConcatProperties, ZenonT(30)
      <4>2. w = u \o v
        BY <2>3 DEF u, v
      <4>3. Len(u) = p - 1 /\ Len(v) = n - p
        BY <2>4, <2>5
      <4>4. QED BY <4>1, <4>2, <4>3
    <3> HIDE DEF n
    <3>2. (p - 1) + (n - p) = n - 1
      BY <1>1, <2>1
    <3>3. ASSUME NEW i \in 1 .. n - 1 PROVE w[i] = IF i < p THEN c[i] ELSE c[i + 1]
      <4>1. CASE i < p
        BY <1>1, <2>1, <2>4, <3>1, <3>2, <4>1
      <4>2. CASE ~(i < p)
        <5>1. i - (p - 1) \in 1 .. n - p /\ p + (i - (p - 1)) = i + 1 /\ ~(i <= p - 1)
          BY <1>1, <2>1, <4>2
        <5>2. QED BY <2>5, <3>1, <3>2, <4>2, <5>1
      <4>3. QED BY <4>1, <4>2
    <3>4. QED BY <3>1, <3>2, <3>3
  <2> DEFINE f == [i \in 1 .. n - 1 |-> IF i < p THEN i ELSE i + 1]
  <2>7. Thinned(w, c, f)
    BY <1>1, <2>1, <2>6 DEF Thinned
  <2>8. \A i \in 1 .. n - 1 : w[i].key # k
    <3>1. \A i \in 1 .. n - 1 : i \in 1 .. n /\ i + 1 \in 1 .. n /\ (i < p => i # p) /\ (~(i < p) => i + 1 # p)
      BY <1>1, <2>1
    <3>2. QED BY <2>2, <2>6, <3>1
  <2>9. ASSUME NEW i \in 1 .. n, c[i].key # k PROVE \E j \in 1 .. n - 1 : f[j] = i
    <3>1. i # p
      BY <2>1, <2>9
    <3>2. CASE i < p
      BY <1>1, <2>1, <3>2
    <3>3. CASE i > p
      <4>1. i - 1 \in 1 .. n - 1 /\ ~(i - 1 < p) /\ (i - 1) + 1 = i
        BY <1>1, <2>1, <3>3
      <4>2. QED BY <4>1
    <3>4. QED BY <1>1, <2>1, <3>1, <3>2, <3>3
  <2> HIDE DEF f
  <2>10. Entry(c, k) = c[p]
    BY DEF Entry, p
  <2>11. QED BY <1>1, <2>1, <2>2, <2>6, <2>7, <2>8, <2>9, <2>10 DEF w
<1>4. QED BY <1>2, <1>3

(* A key of which the last entry of a full cache was dropped has been passed
   over for all the others and for the new one. *)
LEMMA DroppedLast ==
  ASSUME CacheTypes, CacheEntries, Len(cache) = Capacity, NEW k \in Keys, ~Holds(cache, k)
  PROVE  Cardinality(others[cache[Capacity].key] \union {k}) >= Capacity
<1> DEFINE n == Capacity
           T == others[cache[Capacity].key] \union {k}
           f == [i \in 1 .. n |-> IF i < n THEN cache[i].key ELSE k]
<1>1. n \in Nat \ {0} /\ Len(cache) = n /\ DOMAIN cache = 1 .. n /\ \A i \in 1 .. n : cache[i] \in Items
  BY CapacityIsPositive DEF CacheTypes
<1>2. IsFiniteSet(T)
  <2>1. cache[Capacity].key \in Keys
    BY <1>1 DEF Items
  <2>2. QED BY <2>1, FS_AddElement DEF CacheTypes
<1>3. \A i \in 1 .. n : f[i] \in T
  BY <1>1 DEF CacheEntries
<1>4. \A i \in 1 .. n : cache[i].key # k
  BY <1>1 DEF Holds
<1>5. \A i, j \in 1 .. n : i # j => f[i] # f[j]
  BY <1>1, <1>4 DEF CacheEntries
<1>6. f \in Injection(1 .. n, T)
  BY <1>3, <1>5 DEF Injection, IsInjective
<1>7. Cardinality(1 .. n) <= Cardinality(T)
  BY <1>2, <1>6, FS_Injection
<1>8. Cardinality(1 .. n) = n
  BY <1>1, FS_Interval
<1>9. Cardinality(T) \in Nat
  BY <1>2, FS_CardinalityType
<1>10. QED BY <1>1, <1>7, <1>8, <1>9

(* An element put in front of a sequence. *)
LEMMA FrontIs ==
  ASSUME NEW S, NEW x \in S, NEW w \in Seq(S)
  PROVE  /\ <<x>> \o w \in Seq(S) /\ Len(<<x>> \o w) = Len(w) + 1
         /\ (<<x>> \o w)[1] = x
         /\ \A i \in 1 .. Len(w) : (<<x>> \o w)[i + 1] = w[i]
<1> DEFINE o == <<x>>
           m == Len(w)
<1>1. o \in Seq(S) /\ Len(o) = 1 /\ o[1] = x /\ m \in Nat
  OBVIOUS
<1> HIDE DEF o
<1>2. /\ o \o w \in Seq(S) /\ Len(o \o w) = Len(o) + m
      /\ \A i \in 1 .. Len(o) + m : (o \o w)[i] = IF i <= Len(o) THEN o[i] ELSE w[i - Len(o)]
  BY <1>1, ConcatProperties
<1> HIDE DEF m
<1>3. Len(o \o w) = m + 1
  BY <1>1, <1>2
<1>4. (o \o w)[1] = x
  <2>1. 1 \in 1 .. Len(o) + m /\ 1 <= Len(o)
    BY <1>1
  <2>2. QED BY <1>1, <1>2, <2>1
<1>5. ASSUME NEW i \in 1 .. m PROVE (o \o w)[i + 1] = w[i]
  <2>1. i + 1 \in 1 .. Len(o) + m /\ ~(i + 1 <= Len(o)) /\ (i + 1) - Len(o) = i
    BY <1>1
  <2>2. QED BY <1>2, <2>1
<1>6. QED BY <1>2, <1>3, <1>4, <1>5 DEF o, m

(* What every flow's turn does to the cache: the entry of its key comes to the
   front, the others keep their order, and the last may be dropped. *)
LEMMA TurnKeeps ==
  ASSUME CacheInv, NEW k \in Keys, NEW e \in Items, e.key = k, e.expiry # 0,
         NEW w \in Seq(Items), Len(w) < Capacity,
         \A i \in 1 .. Len(w) : w[i].key # k,
         NEW f, Thinned(w, cache, f),
         \A i \in 1 .. Len(cache) :
           \/ cache[i].key = k
           \/ \E j \in 1 .. Len(w) : f[j] = i
           \/ i = Capacity /\ Len(cache) = Capacity /\ ~Holds(cache, k),
         cache' = <<e>> \o w,
         admitted' = [admitted EXCEPT ![k] = e.expiry],
         others' = [x \in Keys |-> IF x = k THEN {} ELSE others[x] \union {k}],
         now' = now, firing' = firing, evals' = evals + 1
  PROVE  CacheInv'
<1> DEFINE m == Len(w)
           n == Len(cache)
<1>1. /\ m \in Nat /\ n \in Nat /\ Capacity \in Nat /\ m < Capacity /\ n <= Capacity
      /\ DOMAIN cache = 1 .. n
      /\ \A i \in 1 .. n : cache[i] \in Items
  BY CapacityIsPositive DEF CacheInv, CacheTypes, CacheEntries
<1>2. /\ cache' \in Seq(Items) /\ Len(cache') = m + 1 /\ DOMAIN cache' = 1 .. m + 1
      /\ cache'[1] = e
      /\ \A i \in 1 .. m : cache'[i + 1] = w[i]
  <2>1. \A x \in Seq(Items) : DOMAIN x = 1 .. Len(x)
    OBVIOUS
  <2>2. QED BY <2>1, FrontIs
<1>3. /\ \A i \in 1 .. m : f[i] \in 1 .. n /\ w[i] = cache[f[i]] /\ w[i].key # k /\ w[i].key \in Keys
      /\ \A i, j \in 1 .. m : i < j => f[i] < f[j]
  BY <1>1 DEF Thinned, Items
<1>4. /\ admitted \in [Keys -> Nat \union {None}]
      /\ others \in [Keys -> SUBSET Keys]
      /\ \A x \in Keys : IsFiniteSet(others[x])
      /\ now \in Nat /\ evals \in Nat /\ firing \in Configs \union {None}
  BY DEF CacheInv, CacheTypes
<1>5. e.expiry \in Nat
  BY DEF Items
<1>6. /\ \A i, j \in 1 .. n : i # j => cache[i].key # cache[j].key
      /\ \A i \in 1 .. n : cache[i].expiry # 0 /\ admitted[cache[i].key] = cache[i].expiry
      /\ \A i, j \in 1 .. n : i < j => cache[i].key \in others[cache[j].key]
  BY DEF CacheInv, CacheEntries
<1> HIDE DEF m, n
<1>7. /\ admitted'[k] = e.expiry /\ others'[k] = {}
      /\ \A x \in Keys : x # k => admitted'[x] = admitted[x] /\ others'[x] = others[x] \union {k}
  BY <1>4
<1>8. CacheTypes'
  <2>1. admitted' \in [Keys -> Nat \union {None}]
    BY <1>4, <1>5
  <2>2. others' \in [Keys -> SUBSET Keys]
    BY <1>4
  <2>3. \A x \in Keys : IsFiniteSet(others'[x])
    BY <1>4, <1>7, FS_AddElement, FS_EmptySet
  <2>4. now' \in Nat /\ evals' \in Nat /\ firing' \in Configs \union {None}
    BY <1>4
  <2>5. QED BY <1>2, <2>1, <2>2, <2>3, <2>4 DEF CacheTypes
<1>9. \A i \in 1 .. m + 1 : i = 1 \/ \E j \in 1 .. m : i = j + 1
  <2>1. ASSUME NEW i \in 1 .. m + 1, i # 1 PROVE i - 1 \in 1 .. m /\ i = (i - 1) + 1
    BY <1>1, <2>1
  <2>2. QED BY <2>1
<1>10. CacheEntries'
  <2>1. Len(cache') <= Capacity
    BY <1>1, <1>2
  <2>2. ASSUME NEW i \in 1 .. m + 1
        PROVE  cache'[i].expiry # 0 /\ admitted'[cache'[i].key] = cache'[i].expiry
    <3>1. CASE i = 1
      BY <1>2, <1>7, <3>1
    <3>2. ASSUME NEW a \in 1 .. m, i = a + 1
          PROVE  cache'[i].expiry # 0 /\ admitted'[cache'[i].key] = cache'[i].expiry
      <4>1. cache'[i] = cache[f[a]] /\ f[a] \in 1 .. n /\ cache[f[a]].key # k /\ cache[f[a]].key \in Keys
        BY <1>2, <1>3, <3>2
      <4>2. admitted'[cache[f[a]].key] = admitted[cache[f[a]].key]
        BY <1>7, <4>1
      <4>3. QED BY <1>6, <4>1, <4>2
    <3>3. QED BY <1>9, <3>1, <3>2
  <2>3. ASSUME NEW i \in 1 .. m + 1, NEW j \in 1 .. m + 1, i < j
        PROVE  cache'[i].key # cache'[j].key /\ cache'[i].key \in others'[cache'[j].key]
    <3>1. PICK b \in 1 .. m : j = b + 1
      BY <1>1, <1>9, <2>3
    <3>2. cache'[j] = w[b] /\ w[b].key # k /\ w[b].key \in Keys
      BY <1>2, <1>3, <3>1
    <3>3. CASE i = 1
      BY <1>2, <1>7, <3>2, <3>3
    <3>4. ASSUME NEW a \in 1 .. m, i = a + 1
          PROVE  cache'[i].key # cache'[j].key /\ cache'[i].key \in others'[cache'[j].key]
      <4>1. a < b
        BY <1>1, <2>3, <3>1, <3>4
      <4>2. f[a] < f[b] /\ f[a] \in 1 .. n /\ f[b] \in 1 .. n
        BY <1>3, <4>1
      <4>3. cache[f[a]].key # cache[f[b]].key /\ cache[f[a]].key \in others[cache[f[b]].key]
        BY <1>1, <1>6, <4>2
      <4>4. cache'[i] = cache[f[a]] /\ cache'[j] = cache[f[b]]
        BY <1>2, <1>3, <3>1, <3>4
      <4>5. QED BY <1>7, <3>2, <4>3, <4>4
    <3>5. QED BY <1>9, <3>3, <3>4
  <2>4. \A i, j \in 1 .. m + 1 : i # j => cache'[i].key # cache'[j].key
    <3>1. \A i, j \in 1 .. m + 1 : i # j => i < j \/ j < i
      BY <1>1
    <3>2. QED BY <2>3, <3>1
  <2>5. QED BY <1>2, <2>1, <2>2, <2>3, <2>4, ZenonT(30) DEF CacheEntries
<1>11. Forgotten'
  <2>1. SUFFICES ASSUME NEW x \in Keys, admitted'[x] # None, ~Holds(cache', x)
                 PROVE  Cardinality(others'[x]) >= Capacity
    BY DEF Forgotten, Holds
  <2>2. \A i \in 1 .. m + 1 : cache'[i].key # x
    BY <1>2, <2>1 DEF Holds
  <2>3. 1 \in 1 .. m + 1 /\ \A j \in 1 .. m : j + 1 \in 1 .. m + 1
    BY <1>1
  <2>4. x # k
    BY <1>2, <2>2, <2>3
  <2>5. \A j \in 1 .. m : w[j].key # x
    BY <1>2, <2>2, <2>3
  <2>6. others'[x] = others[x] \union {k} /\ admitted[x] # None
    BY <1>7, <2>1, <2>4
  <2>7. CASE Holds(cache, x)
    <3>1. PICK i \in 1 .. n : cache[i].key = x
      BY <1>1, <2>7 DEF Holds
    <3>2. \A j \in 1 .. m : f[j] # i
      BY <1>3, <2>5, <3>1
    <3>3. i = Capacity /\ Len(cache) = Capacity /\ ~Holds(cache, k)
      BY <2>4, <3>1, <3>2 DEF m, n
    <3>4. Cardinality(others[x] \union {k}) >= Capacity
      BY <3>1, <3>3, DroppedLast DEF CacheInv
    <3>5. QED BY <2>6, <3>4
  <2>8. CASE ~Holds(cache, x)
    <3>1. Cardinality(others[x]) >= Capacity
      BY <2>6, <2>8 DEF CacheInv, Forgotten
    <3>2. IsFiniteSet(others[x] \union {k}) /\ others[x] \subseteq others[x] \union {k}
      BY <1>4, FS_AddElement
    <3>3. Cardinality(others[x]) <= Cardinality(others[x] \union {k})
      BY <3>2, FS_Subset
    <3>4. Cardinality(others[x]) \in Nat /\ Cardinality(others[x] \union {k}) \in Nat
      BY <1>4, <3>2, FS_CardinalityType
    <3>5. QED BY <1>1, <2>6, <3>1, <3>3, <3>4
  <2>9. QED BY <2>7, <2>8
<1>12. QED BY <1>8, <1>10, <1>11 DEF CacheInv

(* A flow that the cache suppresses: its entry moves to the front. *)
LEMMA SuppressKeeps ==
  ASSUME CacheInv, NEW k \in Keys, Suppress(k)
  PROVE  CacheInv' /\ admitted[k] # None /\ now <= admitted[k]
<1> DEFINE w == Without(cache, k)
           e == Entry(cache, k)
<1>1. /\ Holds(cache, k) /\ ~Expired(e, now)
      /\ cache' = <<e>> \o w /\ admitted' = admitted
      /\ others' = [x \in Keys |-> IF x = k THEN {} ELSE others[x] \union {k}]
      /\ now' = now /\ firing' = firing /\ evals' = evals + 1
  BY DEF Suppress, Evaluate, Hit, AfterGet
<1>2. /\ cache \in Seq(Items) /\ DOMAIN cache = 1 .. Len(cache) /\ Len(cache) \in Nat
      /\ \A i, j \in 1 .. Len(cache) : i # j => cache[i].key # cache[j].key
  BY DEF CacheInv, CacheTypes, CacheEntries
<1>3. PICK i \in 1 .. Len(cache) : cache[i].key = k
  BY <1>1, <1>2 DEF Holds
<1>4. /\ w \in Seq(Items) /\ Len(w) = Len(cache) - 1 /\ e \in Items /\ e.key = k /\ e = cache[i]
      /\ \A j \in 1 .. Len(w) : w[j].key # k
  <2>1. /\ w \in Seq(Items) /\ \A j \in 1 .. Len(w) : w[j].key # k
        /\ Holds(cache, k) => Len(w) = Len(cache) - 1 /\ e \in Items /\ e.key = k
    BY <1>2, WithoutIs
  <2>2. \A j \in 1 .. Len(cache) : cache[j].key = k => e = cache[j]
    BY <1>2, WithoutIs
  <2> HIDE DEF w, e
  <2>3. QED BY <1>1, <1>3, <2>1, <2>2
<1>5. PICK f : /\ Thinned(w, cache, f)
               /\ \A j \in 1 .. Len(cache) : cache[j].key # k => \E l \in 1 .. Len(w) : f[l] = j
  BY <1>2, WithoutIs
<1>6. e.expiry # 0 /\ admitted[k] = e.expiry /\ e.expiry \in Nat
  BY <1>3, <1>4 DEF CacheInv, CacheEntries, Items
<1> HIDE DEF w, e
<1>7. Len(w) < Capacity
  BY <1>2, <1>4, CapacityIsPositive DEF CacheInv, CacheEntries
<1>8. admitted' = [admitted EXCEPT ![k] = e.expiry]
  BY <1>1, <1>6 DEF CacheInv, CacheTypes
<1>9. \A j \in 1 .. Len(cache) :
        \/ cache[j].key = k
        \/ \E l \in 1 .. Len(w) : f[l] = j
        \/ j = Capacity /\ Len(cache) = Capacity /\ ~Holds(cache, k)
  BY <1>5
<1>10. CacheInv'
  BY <1>1, <1>4, <1>5, <1>6, <1>7, <1>8, <1>9, TurnKeeps
<1>11. now <= e.expiry
  <2>1. now \in Nat
    BY DEF CacheInv, CacheTypes
  <2>2. QED BY <1>1, <1>6, <2>1 DEF Expired
<1>12. QED BY <1>6, <1>10, <1>11, AlertingParameters

(* A flow that the cache lets pass: its key is new to the cache, with the last
   entry dropped when there is no room, or its entry has expired. *)
LEMMA AdmitKeeps ==
  ASSUME CacheInv, NEW k \in Keys, NEW what, Evaluate(k, what), Admit(k)
  PROVE  /\ CacheInv'
         /\ \/ admitted[k] = None
            \/ now > admitted[k]
            \/ Cardinality(others[k]) >= Capacity
<1> DEFINE v == Without(cache, k)
           w == Evicted(v)
           n == Len(cache)
           e == [key |-> k, expiry |-> now + WindowOf(firing)]
<1>1. /\ firing # None /\ ~Hit(cache, k, now)
      /\ others' = [x \in Keys |-> IF x = k THEN {} ELSE others[x] \union {k}]
      /\ now' = now /\ firing' = firing /\ evals' = evals + 1
      /\ admitted' = [admitted EXCEPT ![k] = now + WindowOf(firing)]
      /\ cache' = AfterSet(v, k, WindowOf(firing), now)
  BY DEF Evaluate, Admit, AfterGet
<1>2. /\ cache \in Seq(Items) /\ DOMAIN cache = 1 .. n /\ n \in Nat /\ now \in Nat
      /\ n <= Capacity /\ Capacity \in Nat
      /\ \A i, j \in 1 .. n : i # j => cache[i].key # cache[j].key
  BY CapacityIsPositive DEF CacheInv, CacheTypes, CacheEntries
<1>3. WindowOf(firing) \in Nat \ {0}
  BY <1>1, AlertingParameters DEF CacheInv, CacheTypes, WindowOf
<1>4. e \in Items /\ e.key = k /\ e.expiry # 0 /\ e.expiry = now + WindowOf(firing)
  <2> DEFINE d == WindowOf(firing)
  <2>1. now + d \in Nat /\ now + d # 0
    <3> HIDE DEF d
    <3>1. QED BY <1>2, <1>3 DEF d
  <2>2. QED BY <2>1 DEF Items
<1>5. /\ v \in Seq(Items) /\ Len(v) <= n
      /\ \A i \in 1 .. Len(v) : v[i].key # k
      /\ Holds(cache, k) => Len(v) = n - 1
  BY <1>2, WithoutIs, ZenonT(30)
<1>6. ~Holds(v, k)
  BY <1>5 DEF Holds
<1>7. cache' = <<e>> \o w
  BY <1>1, <1>3, <1>6 DEF AfterSet
<1> HIDE DEF e
<1>8. PICK f : /\ Thinned(v, cache, f)
               /\ \A i \in 1 .. n : cache[i].key # k => \E j \in 1 .. Len(v) : f[j] = i
  BY <1>2, WithoutIs
<1> HIDE DEF v, n
<1>9. /\ others' = [x \in Keys |-> IF x = k THEN {} ELSE others[x] \union {k}]
      /\ now' = now /\ firing' = firing /\ evals' = evals + 1
      /\ admitted' = [admitted EXCEPT ![k] = e.expiry]
      /\ e \in Items /\ e.key = k /\ e.expiry # 0
  BY <1>1, <1>4
<1>10. ASSUME Len(v) < Capacity PROVE CacheInv'
  <2>1. ~(Len(v) >= Capacity)
    <3>1. Len(v) \in Nat
      BY <1>5
    <3>2. QED BY <1>2, <1>10, <3>1
  <2>2. w = v
    BY <2>1 DEF Evicted
  <2>3. \A i \in 1 .. Len(cache) :
          \/ cache[i].key = k
          \/ \E j \in 1 .. Len(v) : f[j] = i
          \/ i = Capacity /\ Len(cache) = Capacity /\ ~Holds(cache, k)
    BY <1>8 DEF n
  <2>4. cache' = <<e>> \o v
    BY <1>7, <2>2
  <2>5. v \in Seq(Items) /\ \A i \in 1 .. Len(v) : v[i].key # k
    BY <1>5
  <2>6. QED BY <1>8, <1>9, <1>10, <2>3, <2>4, <2>5, TurnKeeps
<1>11. ASSUME ~(Len(v) < Capacity) PROVE CacheInv'
  <2>1. ~Holds(cache, k) /\ v = cache /\ n = Capacity /\ n > 0
    <3>1. Len(v) \in Nat
      BY <1>5
    <3>2. ~(Len(v) = n - 1) /\ Len(v) = n /\ n = Capacity /\ n > 0
      BY <1>2, <1>5, <1>11, <3>1, CapacityIsPositive
    <3>3. QED BY <1>5, <3>2 DEF Without, v
  <2>2. w = SubSeq(cache, 1, n - 1)
    BY <1>2, <2>1 DEF Evicted, n
  <2>3. w \in Seq(Items) /\ Len(w) = n - 1 /\ \A i \in 1 .. n - 1 : w[i] = cache[i]
    <3>1. \A i \in 1 .. n - 1 : cache[i] \in Items
      BY <1>2
    <3>2. /\ w \in Seq(Items) /\ Len(w) = IF 1 <= n - 1 THEN (n - 1) - 1 + 1 ELSE 0
          /\ \A i \in 1 .. (n - 1) - 1 + 1 : w[i] = cache[1 + i - 1]
      BY <1>2, <2>2, <3>1, SubSeqProperties
    <3> HIDE DEF w
    <3>3. (n - 1) - 1 + 1 = n - 1 /\ \A i \in 1 .. n - 1 : 1 + i - 1 = i
      BY <1>2, <2>1
    <3>4. Len(w) = n - 1
      BY <1>2, <2>1, <3>2
    <3>5. QED BY <3>2, <3>3, <3>4
  <2> DEFINE g == [i \in 1 .. n - 1 |-> i]
  <2>4. Thinned(w, cache, g)
    BY <1>2, <2>3 DEF Thinned
  <2>5. ASSUME NEW i \in 1 .. n
        PROVE  (\E j \in 1 .. n - 1 : g[j] = i) \/ i = n
    <3>1. i \in 1 .. n - 1 \/ i = n
      BY <1>2
    <3>2. QED BY <3>1
  <2>6. \A i \in 1 .. Len(w) : w[i].key # k
    <3>1. \A i \in 1 .. n - 1 : i \in 1 .. n
      BY <1>2
    <3>2. \A i \in 1 .. n : cache[i].key # k
      BY <1>5, <2>1 DEF n
    <3>3. QED BY <2>3, <3>1, <3>2
  <2> HIDE DEF g, w, n
  <2>7. Len(w) < Capacity
    BY <1>2, <2>1, <2>3
  <2>8. \A i \in 1 .. Len(cache) :
          \/ cache[i].key = k
          \/ \E j \in 1 .. Len(w) : g[j] = i
          \/ i = Capacity /\ Len(cache) = Capacity /\ ~Holds(cache, k)
    BY <2>1, <2>3, <2>5 DEF n
  <2>9. w \in Seq(Items)
    BY <2>3
  <2>10. QED BY <1>7, <1>9, <2>4, <2>6, <2>7, <2>8, <2>9, TurnKeeps
<1>12. \/ admitted[k] = None
       \/ now > admitted[k]
       \/ Cardinality(others[k]) >= Capacity
  <2>1. CASE Holds(cache, k)
    <3>1. PICK i \in 1 .. n : cache[i].key = k
      BY <1>2, <2>1 DEF Holds
    <3>2. Entry(cache, k) = cache[i]
      BY <1>2, <3>1, WithoutIs
    <3>3. now > cache[i].expiry
      BY <1>1, <2>1, <3>2 DEF Hit, Expired
    <3>4. admitted[k] = cache[i].expiry
      BY <3>1 DEF CacheInv, CacheEntries, n
    <3>5. QED BY <3>3, <3>4
  <2>2. CASE ~Holds(cache, k)
    BY <2>2 DEF CacheInv, Forgotten
  <2>3. QED BY <2>1, <2>2
<1>13. QED BY <1>10, <1>11, <1>12

LEMMA StepCache == CacheInv /\ [Next]_vars => CacheInv'
<1> SUFFICES ASSUME CacheInv, [Next]_vars PROVE CacheInv'
  OBVIOUS
<1>1. now \in Nat /\ evals \in Nat /\ firing \in Configs \union {None}
  BY DEF CacheInv, CacheTypes
<1>2. ASSUME UNCHANGED <<cache, admitted, others, evals>>, now' \in Nat,
             firing' \in Configs \union {None}
      PROVE  CacheInv'
  BY <1>2 DEF CacheInv, CacheTypes, CacheEntries, Forgotten, Holds
<1>3. CASE Tick
  BY <1>1, <1>2, <1>3 DEF Tick, deciding
<1>4. CASE EndFire
  BY <1>1, <1>2, <1>4 DEF EndFire, deciding
<1>5. ASSUME NEW cfg \in Configs, StartFire(cfg) PROVE CacheInv'
  BY <1>1, <1>2, <1>5 DEF StartFire
<1>6. ASSUME NEW k \in Keys, Suppress(k) \/ RateLimit(k) \/ Alert(k) PROVE CacheInv'
  BY <1>6, SuppressKeeps, AdmitKeeps DEF RateLimit, Alert
<1>7. ASSUME NEW n \in 0 .. MaxRetries - 1, PostSucceeds(n) \/ Retry(n) \/ GiveUp(n) PROVE CacheInv'
  BY <1>1, <1>2, <1>7 DEF PostSucceeds, Retry, GiveUp, deciding
<1>8. CASE UNCHANGED vars
  BY <1>1, <1>2, <1>8 DEF vars, deciding
<1>9. QED
  BY <1>3, <1>4, <1>5, <1>6, <1>7, <1>8 DEF Next, Fire

LEMMA CacheInvariant == Spec => []CacheInv
<1>1. ASSUME Init PROVE CacheInv
  <2>1. /\ now = 1 /\ evals = 0 /\ firing = None /\ cache = <<>>
        /\ admitted = [k \in Keys |-> None] /\ others = [k \in Keys |-> {}]
    BY <1>1 DEF Init
  <2>2. cache \in Seq(Items) /\ Len(cache) = 0
    BY <2>1
  <2>3. CacheTypes
    BY <2>1, <2>2, FS_EmptySet DEF CacheTypes
  <2>4. CacheEntries /\ Forgotten
    BY <2>1, <2>2, CapacityIsPositive DEF CacheEntries, Forgotten
  <2>5. QED BY <2>3, <2>4 DEF CacheInv
<1>2. QED BY StepCache, <1>1, PTL DEF Spec

(* A step that evaluates a flow with a given outcome is one of three actions. *)
LEMMA EvaluationIs ==
  ASSUME evals \in Nat, [Next]_vars, NEW what, Evaluated(what)
  PROVE  \E k \in Keys : /\ outcome'.key = k /\ outcome'.what = what
                         /\ \/ Suppress(k) /\ what = "suppressed"
                            \/ RateLimit(k) /\ what = "limited"
                            \/ Alert(k) /\ what = "fired"
<1>1. evals' # evals /\ outcome'.what = what
  BY DEF Evaluated
<1>2. PICK k \in Keys : Suppress(k) \/ RateLimit(k) \/ Alert(k)
  BY <1>1 DEF Next, Fire, Tick, EndFire, StartFire, PostSucceeds, Retry, GiveUp, deciding, vars
<1>3. /\ Suppress(k) => outcome' = [key |-> k, what |-> "suppressed"]
      /\ RateLimit(k) => outcome' = [key |-> k, what |-> "limited"]
      /\ Alert(k) => outcome' = [key |-> k, what |-> "fired"]
  BY DEF Suppress, RateLimit, Alert, Evaluate
<1>4. QED BY <1>1, <1>2, <1>3

(* A flow over the threshold is suppressed only inside the window of an earlier
   decision on its key, whatever expired, was evicted or reloaded meanwhile
   (alerting.go:159-170, 199). *)
THEOREM SuppressedInWindowHolds == Spec => SuppressedInWindow
<1> DEFINE Inside == LET k == outcome'.key IN admitted[k] # None /\ now <= admitted[k]
<1>1. ASSUME CacheInv, [Next]_vars, Evaluated("suppressed") PROVE Inside
  <2>1. PICK k \in Keys : outcome'.key = k /\ Suppress(k)
    BY <1>1, EvaluationIs DEF CacheInv, CacheTypes
  <2>2. QED BY <1>1, <2>1, SuppressKeeps
<1>2. CacheInv /\ [Next]_vars => [Evaluated("suppressed") => Inside]_vars
  BY <1>1
<1>3. QED BY CacheInvariant, <1>2, PTL DEF Spec, SuppressedInWindow

(* A key fires again only after the window it was admitted with, or when as
   many other keys as the cache holds were looked up since
   (alerting.go:159-170, 199; docs/configuration.md:180). *)
THEOREM DedupWindowHolds == Spec => DedupWindow
<1> DEFINE Due == LET k == outcome'.key
                  IN \/ admitted[k] = None
                     \/ now > admitted[k]
                     \/ Cardinality(others[k]) >= Capacity
<1>1. ASSUME CacheInv, [Next]_vars, Evaluated("fired") PROVE Due
  <2>1. PICK k \in Keys : outcome'.key = k /\ Alert(k)
    BY <1>1, EvaluationIs DEF CacheInv, CacheTypes
  <2>2. QED BY <1>1, <2>1, AdmitKeeps DEF Alert
<1>2. CacheInv /\ [Next]_vars => [Evaluated("fired") => Due]_vars
  BY <1>1
<1>3. QED BY CacheInvariant, <1>2, PTL DEF Spec, DedupWindow
=============================================================================
