----------------------------- MODULE HistoryProofs -----------------------------
(* Theorems about History for every age, size and retention limit, every     *)
(* number of faults and restarts: a daily rotation leaves no entry twice;    *)
(* and, with one goroutine that appends, no query misses an entry of its     *)
(* window and an entry leaves the disk only by age, size or retention.      *)
EXTENDS History, FiniteSetTheorems, SequenceTheorems, TLAPS

(* With one appender, entries reach the file in the order of their stamps. *)
OneAppender == \A a, b \in Appenders : a = b

Segments == [kind : {"entry", "torn", "junk"}, id : Nat, ts : Nat]
Entries == [id : Nat, ts : Nat]
IndexEntries == [ts : Nat, off : Nat]
Steps == {"idle", "merge", "rewrite", "purge", "trim"}
Jobs == [step : Steps, at : Nat, days : Seq(Nat)]

Types ==
  /\ now \in Nat /\ now <= MaxClock
  /\ hot \in Seq(Segments)
  /\ gz \in [Days -> Seq(Entries)]
  /\ index \in Seq(IndexEntries)
  /\ stamped \in [Appenders -> Entries \union {None}]
  /\ job \in Jobs
  /\ job.at <= now
  /\ nextId \in Nat
  /\ stale \in BOOLEAN

IsEntry(f, i) == f[i].kind = "entry"

(* Every entry has an identity of its own. *)
Fresh ==
  /\ \A i \in 1 .. Len(hot) : IsEntry(hot, i) => hot[i].id < nextId
  /\ \A i, j \in 1 .. Len(hot) :
       i # j /\ IsEntry(hot, i) /\ IsEntry(hot, j) => hot[i].id # hot[j].id
  /\ \A a \in Appenders : stamped[a] # None =>
       /\ stamped[a].id < nextId
       /\ \A i \in 1 .. Len(hot) : IsEntry(hot, i) => hot[i].id # stamped[a].id
       /\ \A b \in Appenders : b # a /\ stamped[b] # None => stamped[b].id # stamped[a].id

(* A daily file holds each entry of its day once, and only of a day that was
   over when the prune that wrote it began. *)
Daily ==
  \A d \in Days :
    /\ \A i, j \in 1 .. Len(gz[d]) : gz[d][i] = gz[d][j] => i = j
    /\ \A i \in 1 .. Len(gz[d]) : Day(gz[d][i].ts) = d
    /\ gz[d] # <<>> =>
         CompressRotated /\ d < Day(now) /\ (job.step # "idle" => d < Day(job.at))

(* A rotation works through the days that are over; each of their lines is of
   a day still to do or already in its daily file; and the hot file keeps none
   of them once it is rewritten. *)
Rotating ==
  /\ job.step \in {"merge", "rewrite", "purge"} => CompressRotated
  /\ job.step = "merge" => job.days # <<>>
  /\ job.step = "rewrite" => job.days = <<>>
  /\ job.step = "merge" => \A i \in 1 .. Len(job.days) : job.days[i] \in DaysToRotate(job.at)
  /\ job.step \in {"merge", "rewrite"} =>
       \A i \in Rotated(job.at) :
         \/ \E j \in 1 .. Len(job.days) : job.days[j] = Day(hot[i].ts)
         \/ EntryAt(i) \in Range(gz[Day(hot[i].ts)])
  /\ job.step = "purge" => Rotated(job.at) = {}

(* An entry of an index that describes the file leads to a line of its time. *)
Indexed ==
  ~stale => \A i \in 1 .. Len(index) :
    /\ index[i].off < Len(hot)
    /\ IsEntry(hot, index[i].off + 1) /\ hot[index[i].off + 1].ts = index[i].ts

(* The entries stand in the order of their stamps. *)
Ordered ==
  /\ \A i, j \in 1 .. Len(hot) :
       i <= j /\ IsEntry(hot, i) /\ IsEntry(hot, j) => hot[i].ts <= hot[j].ts
  /\ \A i \in 1 .. Len(hot) : IsEntry(hot, i) => hot[i].ts <= now
  /\ \A a \in Appenders : stamped[a] # None =>
       /\ stamped[a].ts <= now
       /\ \A i \in 1 .. Len(hot) : IsEntry(hot, i) => hot[i].ts <= stamped[a].ts

StoreInv == Types /\ Fresh /\ Daily /\ Rotating /\ Indexed

----------------------------------------------------------------------------
(* Days are intervals of DayLen units of the clock. *)
LEMMA DayIs ==
  ASSUME NEW t \in Nat
  PROVE  /\ Day(t) \in Nat
         /\ Day(t) * DayLen <= t /\ t < (Day(t) + 1) * DayLen
         /\ \A u \in Nat : t <= u => Day(t) <= Day(u)
         /\ \A d \in Nat : d * DayLen <= t => d <= Day(t)
<1>1. DayLen \in Nat /\ DayLen > 0
  BY HistoryParameters
<1>2. \A x \in Nat : x \div DayLen \in Nat /\ (x \div DayLen) * DayLen <= x
                     /\ x < ((x \div DayLen) + 1) * DayLen
  BY <1>1
<1>3. \A a, b \in Nat : a >= b + 1 => a * DayLen >= (b + 1) * DayLen
  BY <1>1
<1>4. ASSUME NEW d \in Nat, d * DayLen <= t PROVE d <= Day(t)
  <2> DEFINE q == t \div DayLen
             x == d * DayLen
             y == (q + 1) * DayLen
  <2>1. q \in Nat /\ t < y /\ x <= t /\ x \in Nat /\ y \in Nat /\ (d >= q + 1 => x >= y)
    BY <1>1, <1>2, <1>3, <1>4
  <2> HIDE DEF q, x, y
  <2>2. d <= q
    BY <2>1
  <2>3. QED BY <2>2 DEF q, Day
<1>5. ASSUME NEW u \in Nat, t <= u PROVE Day(t) <= Day(u)
  <2> DEFINE q == t \div DayLen
             r == u \div DayLen
             x == q * DayLen
             y == (r + 1) * DayLen
  <2>1. q \in Nat /\ r \in Nat /\ x <= t /\ u < y /\ x \in Nat /\ y \in Nat /\ (q >= r + 1 => x >= y)
    BY <1>1, <1>2, <1>3, <1>5
  <2> HIDE DEF q, r, x, y
  <2>2. q <= r
    BY <1>5, <2>1
  <2>3. QED BY <2>2 DEF q, r, Day
<1>6. QED BY <1>2, <1>4, <1>5 DEF Day

(* The k-th member of a finite set of numbers is the one with k - 1 below it:
   there is one for each k, and a greater k has a greater member. *)
LEMMA OrderIs ==
  ASSUME NEW S \in SUBSET Nat, IsFiniteSet(S)
  PROVE  /\ InOrder(S) \in Seq(S) /\ Len(InOrder(S)) = Cardinality(S)
         /\ \A k \in 1 .. Cardinality(S) : InOrder(S)[k] \in S
         /\ \A k, l \in 1 .. Cardinality(S) : k < l => InOrder(S)[k] < InOrder(S)[l]
         /\ \A x \in S : \E k \in 1 .. Cardinality(S) : InOrder(S)[k] = x
<1> DEFINE below(x) == {y \in S : y < x}
           rank(x) == Cardinality(below(x))
           n == Cardinality(S)
           s == InOrder(S)
<1>1. n \in Nat /\ \A x \in S : IsFiniteSet(below(x)) /\ rank(x) \in Nat
  <2>1. n \in Nat
    BY FS_CardinalityType
  <2>2. ASSUME NEW x \in S PROVE IsFiniteSet(below(x)) /\ rank(x) \in Nat
    BY FS_Subset, FS_CardinalityType
  <2>3. QED BY <2>1, <2>2
<1>2. ASSUME NEW x \in S, NEW z \in S, x < z PROVE rank(x) < rank(z)
  <2> DEFINE B == below(x)
             D == below(z)
  <2>1. B \union {x} \in SUBSET D /\ x \notin B /\ IsFiniteSet(B) /\ IsFiniteSet(D)
    <3>1. x \in Nat /\ z \in Nat /\ \A y \in S : y < x => y < z
      BY <1>2
    <3>2. \A y \in B : y \in S /\ y < x
      OBVIOUS
    <3>3. \A y \in S : y < z => y \in D
      OBVIOUS
    <3>4. IsFiniteSet(B) /\ IsFiniteSet(D)
      BY <1>1
    <3> HIDE DEF B, D
    <3>5. x \notin B
      BY <3>1, <3>2
    <3>6. \A y \in B \union {x} : y \in D
      BY <1>2, <3>1, <3>2, <3>3
    <3>7. QED BY <3>4, <3>5, <3>6
  <2> HIDE DEF B, D
  <2>2. Cardinality(B \union {x}) = Cardinality(B) + 1 /\ Cardinality(B \union {x}) <= Cardinality(D)
    BY <2>1, FS_AddElement, FS_Subset
  <2>3. Cardinality(B) \in Nat /\ Cardinality(D) \in Nat
    BY <2>1, FS_CardinalityType
  <2>4. Cardinality(B) < Cardinality(D)
    BY <2>2, <2>3
  <2>5. QED BY <2>4 DEF B, D
<1>3. ASSUME NEW x \in S PROVE rank(x) < n
  <2> DEFINE B == below(x)
  <2>1. B \union {x} \in SUBSET S /\ x \notin B /\ IsFiniteSet(B)
    BY <1>1
  <2> HIDE DEF B
  <2>2. Cardinality(B \union {x}) = Cardinality(B) + 1 /\ Cardinality(B \union {x}) <= Cardinality(S)
    BY <2>1, FS_AddElement, FS_Subset
  <2>3. Cardinality(B) \in Nat /\ Cardinality(S) \in Nat
    BY <1>1, <2>1, FS_CardinalityType
  <2>4. Cardinality(B) < Cardinality(S)
    BY <2>2, <2>3
  <2>5. QED BY <2>4 DEF B
<1> HIDE DEF below
<1>4. \A x, z \in S : rank(x) = rank(z) => x = z
  <2>1. SUFFICES ASSUME NEW x \in S, NEW z \in S, x # z PROVE rank(x) # rank(z)
    OBVIOUS
  <2>2. x < z \/ z < x
    BY <2>1
  <2>3. QED BY <1>1, <1>2, <2>2
<1> HIDE DEF rank, n
<1>5. \A k \in 1 .. n : \E x \in S : rank(x) = k - 1
  <2> DEFINE f == [x \in S |-> rank(x) + 1]
  <2>1. \A x \in S : f[x] \in 1 .. n
    BY <1>1, <1>3
  <2>2. \A x, z \in S : f[x] = f[z] => x = z
    BY <1>1, <1>4
  <2>3. f \in Injection(S, 1 .. n)
    <3>1. f \in [S -> 1 .. n]
      BY <2>1
    <3> HIDE DEF f
    <3>2. QED BY <2>2, <3>1 DEF Injection, IsInjective
  <2>4. IsFiniteSet(1 .. n) /\ Cardinality(1 .. n) = n
    BY <1>1, FS_Interval
  <2>5. f \in Surjection(S, 1 .. n)
    BY <2>3, <2>4, FS_Injection DEF n
  <2>6. ASSUME NEW k \in 1 .. n PROVE \E x \in S : rank(x) = k - 1
    <3>1. PICK x \in S : f[x] = k
      BY <2>5 DEF Surjection
    <3>2. rank(x) = k - 1
      BY <1>1, <3>1
    <3>3. QED BY <3>2
  <2>7. QED BY <2>6
<1>6. s = [k \in 1 .. n |-> CHOOSE x \in S : rank(x) = k - 1]
  BY DEF InOrder, rank, n, below
<1>7. \A k \in 1 .. n : s[k] \in S /\ rank(s[k]) = k - 1
  BY <1>5, <1>6
<1>8. s \in [1 .. n -> S]
  <2>1. \A k \in 1 .. n : (CHOOSE x \in S : rank(x) = k - 1) \in S
    BY <1>5
  <2>2. QED BY <1>6, <2>1
<1>9. s \in Seq(S) /\ Len(s) = n
  <2> HIDE DEF s
  <2>1. QED BY <1>1, <1>8
<1> HIDE DEF s
<1>10. ASSUME NEW k \in 1 .. n, NEW l \in 1 .. n, k < l PROVE s[k] < s[l]
  <2>1. s[k] \in S /\ s[l] \in S /\ rank(s[k]) < rank(s[l])
    BY <1>1, <1>7, <1>10
  <2>2. ~(s[l] < s[k]) /\ s[k] # s[l]
    <3>1. \A x, z \in S : x < z => rank(x) < rank(z)
      BY <1>2
    <3>2. \A x \in S : rank(x) \in Nat
      BY <1>1
    <3> DEFINE x == s[k]
               z == s[l]
    <3>3. x \in S /\ z \in S /\ rank(x) < rank(z)
      BY <2>1
    <3> HIDE DEF x, z
    <3>4. ~(z < x) /\ x # z
      BY <3>1, <3>2, <3>3
    <3>5. QED BY <3>4 DEF x, z
  <2>3. s[k] \in Nat /\ s[l] \in Nat
    BY <2>1
  <2>4. QED BY <2>2, <2>3
<1>11. ASSUME NEW x \in S PROVE \E k \in 1 .. n : s[k] = x
  <2>1. rank(x) + 1 \in 1 .. n /\ (rank(x) + 1) - 1 = rank(x)
    BY <1>1, <1>3
  <2>2. s[rank(x) + 1] = x
    BY <1>4, <1>7, <2>1
  <2>3. QED BY <2>1, <2>2
<1>12. QED BY <1>7, <1>9, <1>10, <1>11 DEF s, n

(* A set of numbers that is not empty has a smallest member. *)
LEMMA HasMin ==
  ASSUME NEW S \in SUBSET Nat, S # {}
  PROVE  \E m \in S : \A n \in S : m <= n
<1> DEFINE R == {ss \in Nat \X Nat : ss[1] < ss[2]}
<1>1. IsWellFoundedOn(R, Nat)
  BY NatLessThanWellFounded DEF OpToRel
<1>2. \A x, y \in Nat : x < y => <<x, y>> \in R
  OBVIOUS
<1> HIDE DEF R
<1>3. PICK x \in S : \A y \in S : ~ (<<y, x>> \in R)
  <2>1. \E x \in S : \A y \in S : ~ (<<y, x>> \in R)
    BY <1>1, WFMin
  <2>2. QED BY <2>1
<1>4. ASSUME NEW y \in S PROVE x <= y
  <2>1. ~ (y < x) /\ x \in Nat /\ y \in Nat
    BY <1>2, <1>3, <1>4
  <2>2. QED BY <2>1
<1>5. QED BY <1>4

(* The turns of the binary search: all of them exist, the interval stays inside
   the index, and what lies before it is older than the cutoff. *)
IsTurns(g, idx, cutoff, m) ==
  g = [k \in 0 .. m |-> IF k = 0 THEN <<0, Len(idx)>> ELSE Halved(idx, cutoff, g[k - 1])]

LEMMA TurnsExist ==
  ASSUME NEW idx, NEW cutoff, NEW n \in Nat
  PROVE  \E g : IsTurns(g, idx, cutoff, n)
<1> DEFINE S == {m \in Nat : ~ \E g : IsTurns(g, idx, cutoff, m)}
<1>1. SUFFICES ASSUME S # {} PROVE FALSE
  OBVIOUS
<1>2. PICK m \in S : \A k \in S : m <= k
  BY <1>1, HasMin
<1>3. m \in Nat /\ ~ \E g : IsTurns(g, idx, cutoff, m)
  BY <1>2
<1>4. CASE m = 0
  <2> DEFINE g == [k \in 0 .. 0 |-> <<0, Len(idx)>>]
  <2>1. g = [k \in 0 .. 0 |-> IF k = 0 THEN <<0, Len(idx)>> ELSE Halved(idx, cutoff, g[k - 1])]
    OBVIOUS
  <2>2. QED BY <1>3, <1>4, <2>1 DEF IsTurns
<1>5. CASE m # 0
  <2>1. m - 1 \in Nat /\ m - 1 < m
    BY <1>3, <1>5
  <2>2. m - 1 \notin S
    BY <1>2, <1>3, <2>1
  <2>3. PICK g : IsTurns(g, idx, cutoff, m - 1)
    BY <2>1, <2>2
  <2> DEFINE next(b) == Halved(idx, cutoff, b)
             h == [k \in 0 .. m |-> IF k < m THEN g[k] ELSE next(g[m - 1])]
  <2>4. \A k \in 0 .. m - 1 : g[k] = IF k = 0 THEN <<0, Len(idx)>> ELSE next(g[k - 1])
    BY <2>3 DEF IsTurns
  <2> HIDE DEF next
  <2>5. \A k \in 0 .. m : h[k] = IF k = 0 THEN <<0, Len(idx)>> ELSE next(h[k - 1])
    <3> SUFFICES ASSUME NEW k \in 0 .. m PROVE h[k] = IF k = 0 THEN <<0, Len(idx)>> ELSE next(h[k - 1])
      OBVIOUS
    <3>1. CASE k = 0
      BY <1>3, <1>5, <2>1, <2>4, <3>1
    <3>2. CASE k # 0 /\ k < m
      <4>1. k \in 0 .. m - 1 /\ k - 1 \in 0 .. m /\ k - 1 < m
        BY <1>3, <3>2
      <4>2. h[k] = g[k] /\ h[k - 1] = g[k - 1]
        BY <3>2, <4>1
      <4>3. QED BY <2>4, <3>2, <4>1, <4>2
    <3>3. CASE k = m
      <4>1. k - 1 \in 0 .. m /\ k - 1 < m /\ k # 0 /\ ~(k < m)
        BY <1>3, <1>5, <3>3
      <4>2. h[k] = next(g[m - 1]) /\ h[k - 1] = g[m - 1]
        BY <3>3, <4>1
      <4>3. QED BY <3>3, <4>1, <4>2
    <3>4. QED BY <1>3, <3>1, <3>2, <3>3
  <2>6. IsTurns(h, idx, cutoff, m)
    <3>1. h = [k \in 0 .. m |-> h[k]]
      OBVIOUS
    <3> HIDE DEF h
    <3>2. QED BY <2>5, <3>1 DEF IsTurns, next
  <2>7. QED BY <1>3, <2>6
<1>6. QED BY <1>4, <1>5

LEMMA SearchIs ==
  ASSUME NEW idx \in Seq(IndexEntries), NEW cutoff \in Int
  PROVE  /\ Search(idx, cutoff) \in 0 .. Len(idx)
         /\ Search(idx, cutoff) > 0 => idx[Search(idx, cutoff)].ts < cutoff
<1> DEFINE n == Len(idx)
           g == CHOOSE g : IsTurns(g, idx, cutoff, n)
           sound(b) == /\ b[1] \in 0 .. n /\ b[2] \in 0 .. n
                       /\ b[1] > 0 => idx[b[1]].ts < cutoff
           next(b) == Halved(idx, cutoff, b)
<1>1. n \in Nat /\ \A i \in 1 .. n : idx[i] \in IndexEntries
  OBVIOUS
<1>2. Search(idx, cutoff) = g[n][1]
  BY DEF Search, IsTurns
<1>3. IsTurns(g, idx, cutoff, n)
  BY <1>1, TurnsExist
<1>4. g[0] = <<0, n>> /\ \A k \in 1 .. n : g[k] = next(g[k - 1])
  <2> HIDE DEF g
  <2>1. g = [k \in 0 .. n |-> IF k = 0 THEN <<0, n>> ELSE next(g[k - 1])]
    BY <1>3 DEF IsTurns
  <2> HIDE DEF n, next
  <2>2. QED BY <1>1, <2>1
<1>5. ASSUME NEW b, sound(b) PROVE sound(next(b))
  <2> DEFINE lo == b[1]
             hi == b[2]
             mid == (lo + hi) \div 2
  <2>1. lo \in 0 .. n /\ hi \in 0 .. n /\ (lo > 0 => idx[lo].ts < cutoff)
    BY <1>5
  <2>2. CASE lo >= hi
    <3>1. next(b) = b
      <4>1. ~(lo < hi)
        BY <1>1, <2>1, <2>2
      <4>2. QED BY <2>2, <4>1 DEF Halved
    <3>2. QED BY <1>5, <3>1
  <2>3. CASE lo < hi
    <3>1. mid \in Nat /\ mid < hi /\ mid >= lo
      BY <1>1, <2>1, <2>3
    <3>2. next(b) = IF idx[mid + 1].ts < cutoff THEN <<mid + 1, hi>> ELSE <<lo, mid>>
      <4>1. ~(lo >= hi)
        BY <1>1, <2>1, <2>3
      <4>2. QED BY <2>3, <4>1 DEF Halved
    <3> HIDE DEF mid
    <3>3. CASE idx[mid + 1].ts < cutoff
      <4>1. next(b)[1] = mid + 1 /\ next(b)[2] = hi
        BY <3>2, <3>3
      <4>2. mid + 1 \in 0 .. n
        BY <1>1, <2>1, <3>1
      <4> HIDE DEF next, lo, hi
      <4>3. QED BY <2>1, <3>3, <4>1, <4>2
    <3>4. CASE ~(idx[mid + 1].ts < cutoff)
      <4>1. next(b)[1] = lo /\ next(b)[2] = mid
        BY <3>2, <3>4
      <4>2. mid \in 0 .. n
        BY <1>1, <2>1, <3>1
      <4> HIDE DEF next, lo, hi
      <4>3. QED BY <2>1, <4>1, <4>2
    <3>5. QED BY <3>3, <3>4
  <2>4. QED BY <1>1, <2>1, <2>2, <2>3
<1>6. sound(<<0, n>>)
  BY <1>1
<1> HIDE DEF g, sound, next
<1>7. \A k \in 0 .. n : sound(g[k])
  <2> DEFINE S == {k \in Nat : k <= n /\ ~sound(g[k])}
  <2>1. SUFFICES ASSUME S # {} PROVE FALSE
    <3>1. \A k \in 0 .. n : k \in Nat /\ k <= n
      BY <1>1
    <3>2. QED BY <2>1, <3>1
  <2>2. PICK m \in S : \A k \in S : m <= k
    BY <2>1, HasMin
  <2>3. m \in Nat /\ m <= n /\ ~sound(g[m]) /\ m # 0
    BY <1>4, <1>6, <2>2
  <2>4. m - 1 \in Nat /\ m - 1 <= n /\ m - 1 < m /\ m \in 1 .. n
    BY <1>1, <2>3
  <2>5. sound(g[m - 1])
    BY <2>2, <2>3, <2>4
  <2>6. QED BY <1>4, <1>5, <2>3, <2>4, <2>5
<1>8. sound(g[n])
  BY <1>1, <1>7
<1>9. QED BY <1>2, <1>8 DEF sound

----------------------------------------------------------------------------
(* The lines a scan of a file reads as entries, and how a rewritten file is
   drawn from the old one: its i-th line stood at s[i], lines keep their order,
   and no line that could not be read becomes readable. *)
ParsedIn(f) ==
  {i \in 1 .. Len(f) : IsEntry(f, i) /\ (i = 1 \/ f[i - 1].kind # "torn")}

Drawn(f, h, s) ==
  /\ s \in [1 .. Len(f) -> 1 .. Len(h)]
  /\ \A i, j \in 1 .. Len(f) : i < j => s[i] < s[j]
  /\ \A i \in 1 .. Len(f) : IsEntry(f, i) => f[i] = h[s[i]]
  /\ \A i \in ParsedIn(f) : s[i] \in ParsedIn(h)

LEMMA ParsedIs ==
  ASSUME hot \in Seq(Segments)
  PROVE  /\ Parsed = ParsedIn(hot)
         /\ \A start \in Nat : \A i \in 1 .. Len(hot) :
              i \in ParsedFrom(start) <=>
                i > start /\ IsEntry(hot, i) /\ (i = start + 1 \/ hot[i - 1].kind # "torn")
<1>1. Len(hot) \in Nat
  OBVIOUS
<1>2. ASSUME NEW start \in Nat, NEW i \in 1 .. Len(hot)
      PROVE  i \in start + 1 .. Len(hot) <=> i > start
  BY <1>1
<1>3. 0 + 1 = 1
  OBVIOUS
<1>4. QED BY <1>2, <1>3 DEF Parsed, ParsedFrom, ParsedIn, IsEntry

LEMMA ClosedIs ==
  ASSUME NEW f \in Seq(Segments)
  PROVE  /\ Closed(f) \in Seq(Segments) /\ Len(Closed(f)) = Len(f)
         /\ \A i \in 1 .. Len(f) :
              Closed(f)[i] = IF i = Len(f) /\ f[i].kind = "torn" THEN Junk ELSE f[i]
<1> DEFINE n == Len(f)
<1>1. n \in Nat /\ \A i \in 1 .. n : f[i] \in Segments
  OBVIOUS
<1>2. CASE f # <<>> /\ f[n].kind = "torn"
  <2> DEFINE o == SubSeq(f, 1, n - 1)
             j == <<Junk>>
  <2>1. n > 0
    BY <1>2
  <2>2. Closed(f) = o \o j
    BY <1>2 DEF Closed, Last, Front
  <2>3. o \in Seq(Segments) /\ Len(o) = n - 1 /\ \A i \in 1 .. n - 1 : o[i] = f[i]
    <3>1. \A i \in 1 .. n - 1 : f[i] \in Segments
      BY <1>1
    <3>2. /\ o \in Seq(Segments) /\ Len(o) = IF 1 <= n - 1 THEN (n - 1) - 1 + 1 ELSE 0
          /\ \A i \in 1 .. (n - 1) - 1 + 1 : o[i] = f[1 + i - 1]
      BY <1>1, <3>1, SubSeqProperties
    <3> HIDE DEF o, n
    <3>3. (n - 1) - 1 + 1 = n - 1 /\ \A i \in 1 .. n - 1 : 1 + i - 1 = i
      BY <1>1, <2>1
    <3>4. Len(o) = n - 1
      BY <1>1, <2>1, <3>2
    <3>5. QED BY <3>2, <3>3, <3>4
  <2>4. j \in Seq(Segments) /\ Len(j) = 1 /\ j[1] = Junk
    BY DEF Junk, Segments
  <2> HIDE DEF o, j
  <2>5. /\ o \o j \in Seq(Segments) /\ Len(o \o j) = Len(o) + Len(j)
        /\ \A i \in 1 .. Len(o) + Len(j) : (o \o j)[i] = IF i <= Len(o) THEN o[i] ELSE j[i - Len(o)]
    BY <2>3, <2>4, ConcatProperties
  <2> HIDE DEF n
  <2>6. Len(o) + Len(j) = n
    BY <1>1, <2>3, <2>4
  <2>7. ASSUME NEW i \in 1 .. n
        PROVE  (o \o j)[i] = IF i = n /\ f[i].kind = "torn" THEN Junk ELSE f[i]
    <3>1. CASE i = n
      <4>1. ~(i <= Len(o)) /\ i - Len(o) = 1
        BY <1>1, <2>1, <2>3, <3>1
      <4>2. QED BY <1>2, <2>4, <2>5, <2>6, <3>1, <4>1
    <3>2. CASE i # n
      <4>1. i \in 1 .. n - 1 /\ i <= Len(o)
        BY <1>1, <2>3, <3>2
      <4>2. QED BY <2>3, <2>5, <2>6, <3>2, <4>1
    <3>3. QED BY <3>1, <3>2
  <2>8. QED BY <2>2, <2>5, <2>6, <2>7 DEF n
<1>3. CASE ~(f # <<>> /\ f[n].kind = "torn")
  <2>1. Closed(f) = f
    BY <1>3 DEF Closed, Last
  <2>2. \A i \in 1 .. n : ~(i = n /\ f[i].kind = "torn")
    BY <1>1, <1>3
  <2>3. QED BY <2>1, <2>2
<1>4. QED BY <1>2, <1>3

(* A rewrite that drops some of the readable lines keeps the others. *)
LEMMA KeptIs ==
  ASSUME hot \in Seq(Segments), NEW Drop \in SUBSET Parsed
  PROVE  /\ Kept(Drop) \in Seq(Segments) /\ Len(Kept(Drop)) <= Len(hot)
         /\ \A i \in 1 .. Len(Kept(Drop)) : i = Len(Kept(Drop)) => Kept(Drop)[i].kind # "torn"
         /\ \E s : /\ Drawn(Kept(Drop), hot, s)
                   /\ \A i \in ParsedIn(Kept(Drop)) : s[i] \notin Drop
                   /\ \A j \in Parsed \ Drop : \E i \in ParsedIn(Kept(Drop)) : s[i] = j
<1> DEFINE n == Len(hot)
           K == (DOMAIN hot) \ Drop
           m == Cardinality(K)
           s == InOrder(K)
           g == [i \in DOMAIN s |-> hot[s[i]]]
           f == Kept(Drop)
<1>1. n \in Nat /\ DOMAIN hot = 1 .. n /\ \A i \in 1 .. n : hot[i] \in Segments
  OBVIOUS
<1>2. K \in SUBSET (1 .. n) /\ K \in SUBSET Nat /\ IsFiniteSet(K) /\ m \in Nat /\ m <= n
  <2>1. K \in SUBSET (1 .. n)
    BY <1>1
  <2> HIDE DEF K, n
  <2>2. IsFiniteSet(1 .. n) /\ Cardinality(1 .. n) = n
    BY <1>1, FS_Interval
  <2>3. IsFiniteSet(K) /\ Cardinality(K) <= Cardinality(1 .. n)
    BY <2>1, <2>2, FS_Subset
  <2>4. Cardinality(K) \in Nat
    BY <2>3, FS_CardinalityType
  <2>5. K \in SUBSET Nat
    BY <1>1, <2>1
  <2>6. QED BY <2>1, <2>2, <2>3, <2>4, <2>5
<1>3. \A j \in 1 .. n : j \in K <=> j \notin Drop
  BY <1>1
<1> HIDE DEF K
<1>4. /\ s \in Seq(K) /\ Len(s) = m /\ \A k \in 1 .. m : s[k] \in K
      /\ \A k, l \in 1 .. m : k < l => s[k] < s[l]
      /\ \A x \in K : \E k \in 1 .. m : s[k] = x
  BY <1>2, OrderIs
<1>5. s \in [1 .. m -> 1 .. n] /\ DOMAIN s = 1 .. m
  <2> HIDE DEF s, m
  <2>1. s \in [1 .. m -> K]
    BY <1>4
  <2>2. QED BY <1>2, <2>1
<1> HIDE DEF s, m
<1>6. g \in Seq(Segments) /\ Len(g) = m /\ \A i \in 1 .. m : g[i] = hot[s[i]]
  <2>1. g = [i \in 1 .. m |-> hot[s[i]]] /\ \A i \in 1 .. m : hot[s[i]] \in Segments
    BY <1>1, <1>5
  <2> HIDE DEF g
  <2>2. QED BY <1>2, <2>1
<1>7. f = Closed(g)
  BY DEF Kept, g, s, K
<1> HIDE DEF g, f
<1>8. /\ f \in Seq(Segments) /\ Len(f) = m
      /\ \A i \in 1 .. m : f[i] = IF i = m /\ hot[s[i]].kind = "torn" THEN Junk ELSE hot[s[i]]
  BY <1>6, <1>7, ClosedIs
<1>9. Junk.kind = "junk"
  BY DEF Junk
<1>10. Parsed = ParsedIn(hot)
  BY ParsedIs
<1>11. /\ \A i \in 1 .. m : IsEntry(f, i) <=> IsEntry(hot, s[i])
       /\ \A i \in 1 .. m : IsEntry(f, i) => f[i] = hot[s[i]]
       /\ \A i \in 1 .. m : i # m => f[i] = hot[s[i]]
       /\ \A i \in 1 .. m : i = m => f[i].kind # "torn"
  BY <1>8, <1>9 DEF IsEntry
<1>12. \A j \in 1 .. n : hot[j].kind = "torn" => j \in K
  BY <1>3, <1>10 DEF ParsedIn, IsEntry
<1>13. ASSUME NEW i \in ParsedIn(f) PROVE s[i] \in ParsedIn(hot) /\ s[i] \notin Drop
  <2>1. i \in 1 .. m /\ IsEntry(f, i) /\ (i = 1 \/ f[i - 1].kind # "torn")
    BY <1>8, <1>13 DEF ParsedIn
  <2> DEFINE x == s[i]
  <2>2. x \in 1 .. n /\ IsEntry(hot, x) /\ x \in K
    BY <1>2, <1>4, <1>11, <2>1
  <2>3. ASSUME x # 1, hot[x - 1].kind = "torn" PROVE FALSE
    <3>1. x - 1 \in 1 .. n
      BY <1>1, <2>2, <2>3
    <3>2. PICK k \in 1 .. m : s[k] = x - 1
      BY <1>4, <1>12, <2>3, <3>1
    <3>3. ~(i < k) /\ i # k
      <4>1. i < k => s[i] < s[k]
        BY <1>4, <2>1
      <4>2. ~(x < x - 1) /\ x # x - 1
        BY <1>1, <2>2
      <4>3. QED BY <3>2, <4>1, <4>2
    <3>4. k < i /\ i - 1 \in 1 .. m /\ i - 1 < i /\ k <= i - 1
      BY <1>2, <2>1, <3>3
    <3>5. k = i - 1
      <4>1. SUFFICES ASSUME k < i - 1 PROVE FALSE
        BY <1>2, <2>1, <3>4
      <4>2. s[k] < s[i - 1] /\ s[i - 1] < s[i] /\ s[i - 1] \in 1 .. n
        BY <1>4, <1>5, <2>1, <3>4, <4>1
      <4> DEFINE y == s[i - 1]
      <4>3. x - 1 < y /\ y < x /\ y \in 1 .. n
        BY <3>2, <4>2
      <4> HIDE DEF x, y
      <4>4. QED BY <1>1, <2>2, <4>3
    <3>6. f[i - 1] = hot[x - 1]
      BY <1>2, <1>11, <2>1, <3>2, <3>4, <3>5
    <3>7. i # 1
      BY <1>2, <3>4
    <3>8. QED BY <2>1, <2>3, <3>6, <3>7
  <2>4. QED BY <1>3, <2>2, <2>3 DEF ParsedIn
<1>14. ASSUME NEW j \in Parsed \ Drop PROVE \E i \in ParsedIn(f) : s[i] = j
  <2>1. j \in 1 .. n /\ IsEntry(hot, j) /\ (j = 1 \/ hot[j - 1].kind # "torn")
    BY <1>10 DEF ParsedIn
  <2>2. PICK i \in 1 .. m : s[i] = j
    BY <1>3, <1>4, <2>1
  <2>3. ASSUME i # 1, f[i - 1].kind = "torn" PROVE FALSE
    <3>1. i - 1 \in 1 .. m /\ i - 1 < i /\ i - 1 # m
      BY <1>2, <2>3
    <3> DEFINE x == s[i - 1]
    <3>2. x < j /\ x \in 1 .. n /\ hot[x].kind = "torn"
      BY <1>4, <1>5, <1>11, <2>2, <2>3, <3>1
    <3> HIDE DEF x
    <3>3. CASE x = j - 1
      <4>1. j # 1
        BY <1>1, <2>1, <3>2, <3>3
      <4>2. QED BY <2>1, <3>2, <3>3, <4>1
    <3>4. CASE x # j - 1
      <4>1. x + 1 \in 1 .. n /\ x + 1 < j /\ x + 1 > x /\ (x + 1) - 1 = x /\ x + 1 # 1
        BY <1>1, <2>1, <3>2, <3>4
      <4>2. x + 1 \notin ParsedIn(hot)
        BY <3>2, <4>1 DEF ParsedIn
      <4>3. x + 1 \in K
        BY <1>3, <1>10, <4>1, <4>2
      <4>4. PICK k \in 1 .. m : s[k] = x + 1
        BY <1>4, <4>3
      <4>5. s[i - 1] < s[k] /\ s[k] < s[i]
        BY <2>2, <4>1, <4>4 DEF x
      <4>6. \A a, b \in 1 .. m : a < b => s[a] < s[b]
        BY <1>4
      <4>7. \A a, b \in 1 .. m : s[a] < s[b] => a < b
        <5>1. SUFFICES ASSUME NEW a \in 1 .. m, NEW b \in 1 .. m, s[a] < s[b], ~(a < b) PROVE FALSE
          OBVIOUS
        <5>2. s[a] \in 1 .. n /\ s[b] \in 1 .. n
          BY <1>5
        <5>3. a = b \/ b < a
          BY <1>2, <5>1
        <5>4. s[b] < s[a] \/ s[a] = s[b]
          BY <4>6, <5>3
        <5>5. QED BY <1>1, <5>1, <5>2, <5>4
      <4>8. i - 1 < k /\ k < i
        BY <3>1, <4>5, <4>7
      <4>9. QED BY <1>2, <3>1, <4>8
    <3>5. QED BY <3>3, <3>4
  <2>4. IsEntry(f, i)
    BY <1>11, <2>1, <2>2
  <2>5. i \in ParsedIn(f)
    BY <1>8, <2>3, <2>4 DEF ParsedIn
  <2>6. QED BY <2>2, <2>5
<1>15. Drawn(f, hot, s)
  BY <1>4, <1>5, <1>8, <1>11, <1>13 DEF Drawn
<1>16. \E t : /\ Drawn(f, hot, t)
              /\ \A i \in ParsedIn(f) : t[i] \notin Drop
              /\ \A j \in Parsed \ Drop : \E i \in ParsedIn(f) : t[i] = j
  BY <1>13, <1>14, <1>15
<1>17. QED BY <1>2, <1>8, <1>11, <1>16 DEF f

(* The cap keeps the end of a file, from the first line start that is near
   enough to it: a line it keeps is read as before. *)
LEMMA CapIs ==
  ASSUME NEW f \in Seq(Segments), \A i \in 1 .. Len(f) : i = Len(f) => f[i].kind # "torn"
  PROVE  \E m \in 0 .. Len(f) :
           /\ HardCap(f) \in Seq(Segments) /\ Len(HardCap(f)) = Len(f) - m
           /\ \A i \in 1 .. Len(HardCap(f)) : HardCap(f)[i] = f[m + i]
           /\ \A i \in 1 .. Len(HardCap(f)) : i \in ParsedIn(HardCap(f)) <=> m + i \in ParsedIn(f)
           /\ m > 0 => Len(f) > MaxSize
           /\ Len(HardCap(f)) <= MaxSize
<1> DEFINE n == Len(f)
           starts == {i \in 1 .. n + 1 : n - i + 1 <= MaxSize /\ (i = 1 \/ f[i - 1].kind # "torn")}
           first == CHOOSE i \in starts : \A j \in starts : i <= j
           m == first - 1
           g == SubSeq(f, first, n)
<1>1. n \in Nat /\ \A i \in 1 .. n : f[i] \in Segments
  OBVIOUS
<1>2. n + 1 \in starts
  <2>1. n + 1 \in 1 .. n + 1 /\ n - (n + 1) + 1 <= MaxSize /\ (n + 1) - 1 = n
    BY <1>1, HistoryParameters
  <2>2. n + 1 = 1 \/ f[n].kind # "torn"
    BY <1>1
  <2>3. QED BY <2>1, <2>2
<1>3. HardCap(f) = g
  BY DEF HardCap
<1>4. first \in starts /\ \A j \in starts : first <= j
  <2>1. starts \in SUBSET Nat
    BY <1>1
  <2> HIDE DEF starts
  <2>2. \E i \in starts : \A j \in starts : i <= j
    BY <1>2, <2>1, HasMin
  <2>3. QED BY <2>2
<1> HIDE DEF first
<1>5. first \in 1 .. n + 1 /\ (first = 1 \/ f[first - 1].kind # "torn")
  BY <1>4
<1>6. m \in 0 .. n /\ first = m + 1
  BY <1>1, <1>5
<1>7. g \in Seq(Segments) /\ Len(g) = n - m /\ \A i \in 1 .. n - m : g[i] = f[m + i]
  <2>1. \A i \in first .. n : f[i] \in Segments
    BY <1>1, <1>5
  <2>2. /\ g \in Seq(Segments) /\ Len(g) = IF first <= n THEN n - first + 1 ELSE 0
        /\ \A i \in 1 .. n - first + 1 : g[i] = f[first + i - 1]
    BY <1>1, <1>5, <2>1, SubSeqProperties
  <2> HIDE DEF g, n, m
  <2>3. n - first + 1 = n - m /\ \A i \in 1 .. n - m : first + i - 1 = m + i
    BY <1>1, <1>6
  <2>4. Len(g) = n - m
    BY <1>1, <1>6, <2>2
  <2>5. QED BY <2>2, <2>3, <2>4
<1>8. m > 0 => n > MaxSize
  <2>1. SUFFICES ASSUME m > 0, n <= MaxSize PROVE FALSE
    BY <1>1, HistoryParameters
  <2>2. 1 \in starts
    BY <1>1, <2>1
  <2>3. QED BY <1>4, <1>5, <2>1, <2>2
<1>9. ASSUME NEW i \in 1 .. n - m
      PROVE  i \in ParsedIn(g) <=> m + i \in ParsedIn(f)
  <2> HIDE DEF g, n, starts
  <2>1. m + i \in 1 .. n
    BY <1>1, <1>6
  <2>2. g[i] = f[m + i] /\ (i # 1 => g[i - 1] = f[m + i - 1])
    <3>1. g[i] = f[m + i]
      BY <1>7
    <3>2. ASSUME i # 1 PROVE g[i - 1] = f[m + i - 1]
      <4> HIDE DEF m
      <4>1. i - 1 \in 1 .. n - m /\ m + (i - 1) = m + i - 1
        BY <1>1, <1>6, <3>2
      <4>2. QED BY <1>7, <4>1
    <3>3. QED BY <3>1, <3>2
  <2>3. i = 1 => (m + i = 1 \/ f[m + i - 1].kind # "torn")
    <3>1. ASSUME i = 1 PROVE m + i = first
      BY <1>6, <3>1
    <3>2. QED BY <1>5, <3>1
  <2>4. i # 1 => m + i # 1
    BY <1>1, <1>6
  <2>5. i \in ParsedIn(g) <=> IsEntry(g, i) /\ (i = 1 \/ g[i - 1].kind # "torn")
    BY <1>7 DEF ParsedIn, n
  <2> DEFINE p == m + i
  <2>6. p \in 1 .. Len(f) => (p \in ParsedIn(f) <=> IsEntry(f, p) /\ (p = 1 \/ f[p - 1].kind # "torn"))
    BY DEF ParsedIn
  <2>7. m + i - 1 = p - 1
    BY <1>1, <1>6, <2>1 DEF n
  <2> HIDE DEF p
  <2>8. /\ p \in 1 .. Len(f) /\ g[i] = f[p]
        /\ (i # 1 => p # 1 /\ g[i - 1] = f[p - 1])
        /\ (i = 1 => (p = 1 \/ f[p - 1].kind # "torn"))
    BY <2>1, <2>2, <2>3, <2>4, <2>7 DEF p, n
  <2>9. i \in ParsedIn(g) <=> p \in ParsedIn(f)
    BY <2>5, <2>6, <2>8 DEF IsEntry
  <2>10. QED BY <2>9 DEF p
<1>10. Len(g) <= MaxSize
  <2>1. n - first + 1 <= MaxSize
    BY <1>4
  <2>2. Len(g) = n - m /\ first = m + 1
    BY <1>6, <1>7
  <2> HIDE DEF g, n, m
  <2>3. QED BY <1>1, <1>6, <2>1, <2>2
<1>11. QED BY <1>3, <1>6, <1>7, <1>8, <1>9, <1>10

(* What the trim leaves: a readable line it drops is older than the limit, or
   the file was over its size and every line left stood after it. *)
LEMMA TrimmedIs ==
  ASSUME hot \in Seq(Segments), now \in Nat
  PROVE  /\ TrimmedLines \in Seq(Segments)
         /\ \E s : /\ Drawn(TrimmedLines, hot, s)
                   /\ \A j \in Parsed : ~(hot[j].ts <= now - TrimAge) =>
                        \/ \E i \in ParsedIn(TrimmedLines) : s[i] = j
                        \/ Len(hot) > MaxSize /\ \A i \in ParsedIn(TrimmedLines) : j < s[i]
<1> DEFINE Drop == {i \in Parsed : hot[i].ts <= now - TrimAge}
           f == Kept(Drop)
           g == TrimmedLines
<1>1. Drop \in SUBSET Parsed /\ \A j \in Parsed : ~(hot[j].ts <= now - TrimAge) => j \in Parsed \ Drop
  OBVIOUS
<1>2. g = HardCap(f)
  BY DEF TrimmedLines
<1> HIDE DEF Drop
<1>3. /\ f \in Seq(Segments) /\ Len(f) <= Len(hot)
      /\ \A i \in 1 .. Len(f) : i = Len(f) => f[i].kind # "torn"
  BY <1>1, KeptIs
<1>4. PICK s : /\ Drawn(f, hot, s)
               /\ \A j \in Parsed \ Drop : \E i \in ParsedIn(f) : s[i] = j
  BY <1>1, KeptIs
<1> HIDE DEF f, g
<1>5. PICK m \in 0 .. Len(f) :
        /\ g \in Seq(Segments) /\ Len(g) = Len(f) - m
        /\ \A i \in 1 .. Len(g) : g[i] = f[m + i]
        /\ \A i \in 1 .. Len(g) : i \in ParsedIn(g) <=> m + i \in ParsedIn(f)
        /\ m > 0 => Len(f) > MaxSize
  BY <1>2, <1>3, CapIs
<1> DEFINE t == [i \in 1 .. Len(g) |-> s[m + i]]
<1>6. Len(f) \in Nat /\ Len(g) \in Nat /\ Len(hot) \in Nat /\ MaxSize \in Nat
  BY <1>3, <1>5, HistoryParameters
<1>7. \A i \in 1 .. Len(g) : m + i \in 1 .. Len(f)
  BY <1>5, <1>6
<1>8. /\ s \in [1 .. Len(f) -> 1 .. Len(hot)]
      /\ \A i, j \in 1 .. Len(f) : i < j => s[i] < s[j]
      /\ \A i \in 1 .. Len(f) : IsEntry(f, i) => f[i] = hot[s[i]]
      /\ \A i \in ParsedIn(f) : s[i] \in ParsedIn(hot)
  BY <1>4 DEF Drawn
<1>9. ParsedIn(g) \subseteq 1 .. Len(g) /\ ParsedIn(f) \subseteq 1 .. Len(f)
  BY DEF ParsedIn
<1>10. Drawn(g, hot, t)
  <2>1. t \in [1 .. Len(g) -> 1 .. Len(hot)]
    BY <1>7, <1>8
  <2>2. ASSUME NEW i \in 1 .. Len(g), NEW j \in 1 .. Len(g), i < j PROVE t[i] < t[j]
    <3>1. m + i \in 1 .. Len(f) /\ m + j \in 1 .. Len(f) /\ m + i < m + j
      BY <1>5, <1>6, <1>7, <2>2
    <3>2. s[m + i] < s[m + j]
      BY <1>8, <3>1
    <3>3. QED BY <3>2
  <2>3. ASSUME NEW i \in 1 .. Len(g), IsEntry(g, i) PROVE g[i] = hot[t[i]]
    BY <1>5, <1>7, <1>8, <2>3 DEF IsEntry
  <2>4. ASSUME NEW i \in ParsedIn(g) PROVE t[i] \in ParsedIn(hot)
    BY <1>5, <1>8, <1>9
  <2> HIDE DEF t
  <2>5. QED BY <2>1, <2>2, <2>3, <2>4 DEF Drawn
<1>11. ASSUME NEW j \in Parsed, ~(hot[j].ts <= now - TrimAge)
       PROVE  \/ \E i \in ParsedIn(g) : t[i] = j
              \/ Len(hot) > MaxSize /\ \A i \in ParsedIn(g) : j < t[i]
  <2>1. PICK k \in ParsedIn(f) : s[k] = j
    BY <1>1, <1>4, <1>11
  <2>2. k \in 1 .. Len(f)
    BY <1>9
  <2>3. CASE k > m
    <3>1. k - m \in 1 .. Len(g) /\ m + (k - m) = k
      BY <1>5, <1>6, <2>2, <2>3
    <3>2. k - m \in ParsedIn(g) /\ t[k - m] = j
      BY <1>5, <2>1, <3>1
    <3>3. QED BY <3>2
  <2>4. CASE ~(k > m)
    <3>1. m > 0 /\ Len(hot) > MaxSize
      <4>1. m > 0
        BY <1>5, <2>2, <2>4
      <4>2. Len(f) > MaxSize
        BY <1>5, <4>1
      <4>3. QED BY <1>3, <1>6, <4>1, <4>2
    <3>2. ASSUME NEW i \in ParsedIn(g) PROVE j < t[i]
      <4>1. i \in 1 .. Len(g)
        BY <1>9
      <4>2. m + i \in 1 .. Len(f) /\ k < m + i
        BY <1>5, <1>6, <1>7, <2>2, <2>4, <4>1
      <4>3. s[k] < s[m + i]
        BY <1>8, <2>2, <4>2
      <4>4. QED BY <2>1, <4>1, <4>3
    <3>3. QED BY <3>1, <3>2
  <2>5. QED BY <2>3, <2>4
<1> HIDE DEF t
<1>12. QED BY <1>5, <1>10, <1>11 DEF g

(* A rewritten file keeps the identities and the order of its lines. *)
LEMMA RewriteKeeps ==
  ASSUME hot \in Seq(Segments), NEW f \in Seq(Segments), NEW s, Drawn(f, hot, s), hot' = f
  PROVE  /\ UNCHANGED <<nextId, stamped>> /\ Fresh => Fresh'
         /\ UNCHANGED <<now, stamped>> /\ Ordered => Ordered'
<1>1. /\ \A i \in 1 .. Len(f) : s[i] \in 1 .. Len(hot)
      /\ \A i, j \in 1 .. Len(f) : i < j => s[i] < s[j]
      /\ \A i \in 1 .. Len(f) : IsEntry(f, i) => f[i] = hot[s[i]] /\ IsEntry(hot, s[i])
  BY DEF Drawn, IsEntry
<1>2. Len(f) \in Nat /\ Len(hot) \in Nat
  OBVIOUS
<1>3. \A i, j \in 1 .. Len(f) : i # j => s[i] # s[j]
  <2>1. SUFFICES ASSUME NEW i \in 1 .. Len(f), NEW j \in 1 .. Len(f), i # j PROVE s[i] # s[j]
    OBVIOUS
  <2>2. s[i] \in Nat /\ s[j] \in Nat /\ (i < j \/ j < i)
    BY <1>1, <1>2, <2>1
  <2>3. QED BY <1>1, <2>2
<1>4. ASSUME UNCHANGED <<nextId, stamped>>, Fresh PROVE Fresh'
  <2>1. ASSUME NEW i \in 1 .. Len(f), IsEntry(f, i) PROVE f[i].id < nextId
    BY <1>1, <1>4, <2>1 DEF Fresh
  <2>2. ASSUME NEW i \in 1 .. Len(f), NEW j \in 1 .. Len(f), i # j, IsEntry(f, i), IsEntry(f, j)
        PROVE  f[i].id # f[j].id
    BY <1>1, <1>3, <1>4, <2>2 DEF Fresh
  <2>3. ASSUME NEW a \in Appenders, stamped[a] # None, NEW i \in 1 .. Len(f), IsEntry(f, i)
        PROVE  f[i].id # stamped[a].id
    BY <1>1, <1>4, <2>3 DEF Fresh
  <2>4. ASSUME NEW a \in Appenders, stamped[a] # None
        PROVE  /\ stamped[a].id < nextId
               /\ \A b \in Appenders : b # a /\ stamped[b] # None => stamped[b].id # stamped[a].id
    BY <1>4, <2>4 DEF Fresh
  <2>5. QED BY <1>4, <2>1, <2>2, <2>3, <2>4 DEF Fresh, IsEntry
<1>5. ASSUME UNCHANGED <<now, stamped>>, Ordered PROVE Ordered'
  <2>1. ASSUME NEW i \in 1 .. Len(f), NEW j \in 1 .. Len(f), i <= j, IsEntry(f, i), IsEntry(f, j)
        PROVE  f[i].ts <= f[j].ts
    <3>1. s[i] <= s[j] /\ s[i] \in 1 .. Len(hot) /\ s[j] \in 1 .. Len(hot)
      <4>1. i < j => s[i] < s[j]
        BY <1>1
      <4>2. s[i] \in 1 .. Len(hot) /\ s[j] \in 1 .. Len(hot)
        BY <1>1
      <4>3. i = j \/ i < j
        BY <1>2, <2>1
      <4>4. CASE i = j
        BY <1>2, <4>2, <4>4
      <4>5. CASE i < j
        BY <1>2, <4>1, <4>2, <4>5
      <4>6. QED BY <4>3, <4>4, <4>5
    <3>2. QED BY <1>1, <1>5, <2>1, <3>1 DEF Ordered
  <2>2. ASSUME NEW i \in 1 .. Len(f), IsEntry(f, i)
        PROVE  /\ f[i].ts <= now
               /\ \A a \in Appenders : stamped[a] # None => f[i].ts <= stamped[a].ts
    BY <1>1, <1>5, <2>2 DEF Ordered
  <2>3. \A a \in Appenders : stamped[a] # None => stamped[a].ts <= now
    BY <1>5 DEF Ordered
  <2>4. QED BY <1>5, <2>1, <2>2, <2>3 DEF Ordered, IsEntry
<1>6. QED BY <1>4, <1>5

(* The days a rotation works through are days of the calendar that are over. *)
LEMMA RotatedIs ==
  ASSUME hot \in Seq(Segments), NEW t \in Nat, t <= MaxClock
  PROVE  /\ DaysToRotate(t) \in SUBSET Nat /\ IsFiniteSet(DaysToRotate(t))
         /\ \A d \in DaysToRotate(t) : d < Day(t) /\ d \in Days
         /\ \A i \in Parsed : i \in 1 .. Len(hot) /\ IsEntry(hot, i) /\ hot[i] \in Segments
<1>1. \A i \in Parsed : i \in 1 .. Len(hot) /\ IsEntry(hot, i) /\ hot[i] \in Segments /\ hot[i].ts \in Nat
  <2>1. \A j \in Parsed : j \in 1 .. Len(hot) /\ IsEntry(hot, j)
    BY ParsedIs DEF ParsedIn
  <2>2. \A j \in 1 .. Len(hot) : hot[j] \in Segments
    OBVIOUS
  <2>3. \A x \in Segments : x.ts \in Nat
    BY DEF Segments
  <2>4. QED BY <2>1, <2>2, <2>3
<1>2. Day(t) \in Nat /\ Day(MaxClock) \in Nat /\ Day(t) <= Day(MaxClock)
  BY DayIs, HistoryParameters
<1>3. \A i \in Parsed : Day(hot[i].ts) \in Nat
  BY <1>1, DayIs
<1>4. ASSUME NEW d \in DaysToRotate(t) PROVE d \in Nat /\ d < Day(t) /\ d \in Days
  <2>1. PICK i \in Parsed : d = Day(hot[i].ts) /\ Day(hot[i].ts) < Day(t)
    BY <1>4 DEF DaysToRotate, Rotated
  <2>2. d \in Nat /\ d < Day(t)
    BY <1>3, <2>1
  <2>3. QED BY <1>2, <2>2 DEF Days
<1>5. DaysToRotate(t) \in SUBSET (0 .. Day(t))
  BY <1>2, <1>4
<1>6. IsFiniteSet(0 .. Day(t))
  BY <1>2, FS_Interval
<1>7. QED BY <1>1, <1>4, <1>5, <1>6, FS_Subset

(* A rebuilt index leads to the lines a scan of the whole file reads. *)
LEMMA BuiltIs ==
  ASSUME hot \in Seq(Segments)
  PROVE  /\ BuiltIndex \in Seq(IndexEntries)
         /\ \A i \in 1 .. Len(BuiltIndex) :
              /\ BuiltIndex[i].off < Len(hot)
              /\ IsEntry(hot, BuiltIndex[i].off + 1)
              /\ hot[BuiltIndex[i].off + 1].ts = BuiltIndex[i].ts
<1> DEFINE s == InOrder(Parsed)
           m == Cardinality(Parsed)
           g == BuiltIndex
<1>1. \A j \in Parsed : j \in 1 .. Len(hot) /\ IsEntry(hot, j) /\ hot[j].ts \in Nat
  <2>1. \A j \in Parsed : j \in 1 .. Len(hot) /\ IsEntry(hot, j)
    BY ParsedIs DEF ParsedIn
  <2>2. \A j \in 1 .. Len(hot) : hot[j] \in Segments
    OBVIOUS
  <2>3. \A x \in Segments : x.ts \in Nat
    BY DEF Segments
  <2>4. QED BY <2>1, <2>2, <2>3
<1>2. Len(hot) \in Nat
  OBVIOUS
<1>3. IsFiniteSet(Parsed) /\ Parsed \in SUBSET Nat /\ m \in Nat
  <2>1. IsFiniteSet(1 .. Len(hot)) /\ Parsed \in SUBSET (1 .. Len(hot))
    BY <1>1, <1>2, FS_Interval
  <2>2. IsFiniteSet(Parsed)
    BY <2>1, FS_Subset
  <2>3. QED BY <1>2, <2>1, <2>2, FS_CardinalityType
<1>4. s \in Seq(Parsed) /\ Len(s) = m /\ \A k \in 1 .. m : s[k] \in Parsed
  BY <1>3, OrderIs
<1>5. DOMAIN s = 1 .. m
  BY <1>4
<1>6. g = [i \in 1 .. m |-> [ts |-> hot[s[i]].ts, off |-> s[i] - 1]]
  BY <1>5 DEF BuiltIndex
<1> HIDE DEF s, m
<1>7. ASSUME NEW i \in 1 .. m
      PROVE  /\ s[i] - 1 \in Nat /\ hot[s[i]].ts \in Nat /\ s[i] - 1 < Len(hot)
             /\ IsEntry(hot, s[i]) /\ (s[i] - 1) + 1 = s[i]
  <2> DEFINE x == s[i]
  <2>1. x \in 1 .. Len(hot) /\ IsEntry(hot, x) /\ hot[x].ts \in Nat
    BY <1>1, <1>4
  <2> HIDE DEF x
  <2>2. x - 1 \in Nat /\ x - 1 < Len(hot) /\ (x - 1) + 1 = x
    BY <1>2, <2>1
  <2>3. QED BY <2>1, <2>2 DEF x
<1>8. g \in [1 .. m -> IndexEntries]
  BY <1>6, <1>7 DEF IndexEntries
<1>9. \A i \in 1 .. m : g[i].ts = hot[s[i]].ts /\ g[i].off = s[i] - 1
  BY <1>6
<1> HIDE DEF g
<1>10. g \in Seq(IndexEntries) /\ Len(g) = m
  BY <1>3, <1>8
<1>11. QED BY <1>7, <1>9, <1>10 DEF g

(* The merge adds the lines of the day that its file does not hold yet. *)
LEMMA MergedIs ==
  ASSUME Types, Fresh, NEW d \in Days,
         \A i, j \in 1 .. Len(gz[d]) : gz[d][i] = gz[d][j] => i = j,
         \A i \in 1 .. Len(gz[d]) : Day(gz[d][i].ts) = d
  PROVE  /\ Merged(d) \in Seq(Entries)
         /\ \A i, j \in 1 .. Len(Merged(d)) : Merged(d)[i] = Merged(d)[j] => i = j
         /\ \A i \in 1 .. Len(Merged(d)) : Day(Merged(d)[i].ts) = d
         /\ Range(gz[d]) \subseteq Range(Merged(d))
         /\ \A i \in DayLines(d) : EntryAt(i) \in Range(Merged(d))
<1> DEFINE old == gz[d]
           n == Len(old)
           S == {i \in DayLines(d) : EntryAt(i) \notin Range(old)}
           m == Cardinality(S)
           s == InOrder(S)
           new == [i \in DOMAIN s |-> EntryAt(s[i])]
           f == Merged(d)
<1>1. hot \in Seq(Segments) /\ old \in Seq(Entries) /\ n \in Nat /\ DOMAIN old = 1 .. n
  BY DEF Types
<1>2. \A i \in Parsed : i \in 1 .. Len(hot) /\ IsEntry(hot, i) /\ EntryAt(i) \in Entries
  <2>1. \A j \in Parsed : j \in 1 .. Len(hot) /\ IsEntry(hot, j)
    BY <1>1, ParsedIs DEF ParsedIn
  <2>2. \A j \in 1 .. Len(hot) : hot[j] \in Segments
    BY <1>1
  <2>3. \A x \in Segments : [id |-> x.id, ts |-> x.ts] \in Entries
    BY DEF Segments, Entries
  <2>4. QED BY <2>1, <2>2, <2>3 DEF EntryAt
<1>3. \A i \in DayLines(d) : i \in Parsed /\ Day(hot[i].ts) = d
  BY DEF DayLines, Rotated
<1>4. S \in SUBSET Nat /\ IsFiniteSet(S) /\ m \in Nat
  <2>1. S \in SUBSET (1 .. Len(hot)) /\ Len(hot) \in Nat
    BY <1>1, <1>2, <1>3
  <2> HIDE DEF S
  <2>4. IsFiniteSet(1 .. Len(hot))
    BY <2>1, FS_Interval
  <2>2. IsFiniteSet(S)
    BY <2>1, <2>4, FS_Subset
  <2>3. QED BY <2>1, <2>2, FS_CardinalityType
<1>5. \A x \in S : x \in DayLines(d) /\ EntryAt(x) \notin Range(old)
  OBVIOUS
<1>6. \A i \in DayLines(d) : i \in S \/ EntryAt(i) \in Range(old)
  OBVIOUS
<1>7. f = old \o new
  BY DEF Merged
<1> HIDE DEF S, f
<1>8. /\ s \in Seq(S) /\ Len(s) = m /\ \A k \in 1 .. m : s[k] \in S
      /\ \A k, l \in 1 .. m : k < l => s[k] < s[l]
      /\ \A x \in S : \E k \in 1 .. m : s[k] = x
  BY <1>4, OrderIs
<1>9. DOMAIN s = 1 .. m
  BY <1>8
<1> HIDE DEF s, m
<1>10. new \in Seq(Entries) /\ Len(new) = m /\ \A k \in 1 .. m : new[k] = EntryAt(s[k])
  <2>1. new = [i \in 1 .. m |-> EntryAt(s[i])]
    BY <1>9
  <2>2. \A k \in 1 .. m : EntryAt(s[k]) \in Entries
    BY <1>2, <1>3, <1>5, <1>8
  <2> HIDE DEF new
  <2>3. new \in [1 .. m -> Entries] /\ \A k \in 1 .. m : new[k] = EntryAt(s[k])
    BY <2>1, <2>2
  <2>4. QED BY <1>4, <2>3
<1>11. \A k \in 1 .. m : new[k] \notin Range(old) /\ Day(new[k].ts) = d
  <2>1. ASSUME NEW k \in 1 .. m PROVE new[k] \notin Range(old) /\ Day(new[k].ts) = d
    <3>1. new[k] = EntryAt(s[k]) /\ s[k] \in S
      BY <1>8, <1>10
    <3>2. EntryAt(s[k]).ts = hot[s[k]].ts
      BY DEF EntryAt
    <3>3. QED BY <1>3, <1>5, <3>1, <3>2
  <2>2. QED BY <2>1
<1>12. \A k, l \in 1 .. m : new[k] = new[l] => k = l
  <2>1. SUFFICES ASSUME NEW k \in 1 .. m, NEW l \in 1 .. m, k # l PROVE new[k] # new[l]
    OBVIOUS
  <2>2. s[k] # s[l]
    <3>1. (k < l => s[k] < s[l]) /\ (l < k => s[l] < s[k]) /\ (k < l \/ l < k)
      BY <1>4, <1>8, <2>1
    <3>2. s[k] \in Nat /\ s[l] \in Nat
      BY <1>4, <1>8
    <3>3. QED BY <3>1, <3>2
  <2>3. /\ s[k] \in 1 .. Len(hot) /\ IsEntry(hot, s[k])
        /\ s[l] \in 1 .. Len(hot) /\ IsEntry(hot, s[l])
    BY <1>2, <1>3, <1>5, <1>8
  <2>4. hot[s[k]].id # hot[s[l]].id
    BY <2>2, <2>3 DEF Fresh
  <2>5. EntryAt(s[k]).id = hot[s[k]].id /\ EntryAt(s[l]).id = hot[s[l]].id
    BY DEF EntryAt
  <2>6. QED BY <1>10, <2>4, <2>5
<1> HIDE DEF new, old, n
<1>13. /\ f \in Seq(Entries) /\ Len(f) = n + m
       /\ \A i \in 1 .. n : f[i] = old[i]
       /\ \A i \in 1 .. n + m : i \in 1 .. n \/ (i - n \in 1 .. m /\ f[i] = new[i - n])
       /\ \A k \in 1 .. m : n + k \in 1 .. n + m /\ f[n + k] = new[k]
  <2>1. n = Len(old)
    BY DEF n
  <2>2. /\ f \in Seq(Entries) /\ Len(f) = n + m
        /\ \A i \in 1 .. n + m : f[i] = IF i <= n THEN old[i] ELSE new[i - n]
    <3>1. old \in Seq(Entries) /\ new \in Seq(Entries) /\ Len(new) = m
      BY <1>1, <1>10
    <3>2. ASSUME NEW a \in Seq(Entries), NEW b \in Seq(Entries)
          PROVE  /\ a \o b \in Seq(Entries) /\ Len(a \o b) = Len(a) + Len(b)
                 /\ \A i \in 1 .. Len(a) + Len(b) :
                      (a \o b)[i] = IF i <= Len(a) THEN a[i] ELSE b[i - Len(a)]
      BY ConcatProperties
    <3>3. QED BY <1>7, <2>1, <3>1, <3>2
  <2>3. \A i \in 1 .. n : i \in 1 .. n + m /\ i <= n
    BY <1>1, <1>4
  <2>4. \A i \in 1 .. n + m : i \in 1 .. n \/ (~(i <= n) /\ i - n \in 1 .. m)
    BY <1>1, <1>4
  <2>5. \A k \in 1 .. m : n + k \in 1 .. n + m /\ ~(n + k <= n) /\ (n + k) - n = k
    BY <1>1, <1>4
  <2>6. \A k \in 1 .. m : f[n + k] = new[k]
    BY <2>2, <2>5
  <2>7. QED BY <2>2, <2>3, <2>4, <2>5, <2>6
<1>14. \A i \in 1 .. n : old[i] \in Range(old)
  BY <1>1 DEF Range
<1>15. DOMAIN f = 1 .. n + m
  BY <1>13
<1>16. Range(old) \subseteq Range(f)
  <2>1. \A i \in 1 .. n : i \in 1 .. n + m
    BY <1>1, <1>4
  <2>2. QED BY <1>1, <1>13, <1>15, <2>1 DEF Range
<1>17. \A i \in DayLines(d) : EntryAt(i) \in Range(f)
  <2>1. SUFFICES ASSUME NEW i \in S PROVE EntryAt(i) \in Range(f)
    BY <1>6, <1>16
  <2>2. PICK k \in 1 .. m : s[k] = i
    BY <1>8
  <2>3. n + k \in DOMAIN f /\ f[n + k] = EntryAt(i)
    BY <1>10, <1>13, <1>15, <2>2
  <2>4. QED BY <2>3 DEF Range
<1>18. \A i \in 1 .. n + m : Day(f[i].ts) = d
  <2>1. \A i \in 1 .. n : Day(old[i].ts) = d
    BY DEF old, n
  <2>2. QED BY <1>11, <1>13, <2>1
<1>19. \A i, j \in 1 .. n + m : f[i] = f[j] => i = j
  <2>1. SUFFICES ASSUME NEW i \in 1 .. n + m, NEW j \in 1 .. n + m, f[i] = f[j] PROVE i = j
    OBVIOUS
  <2>2. CASE i \in 1 .. n /\ j \in 1 .. n
    <3>1. \A k, l \in 1 .. n : old[k] = old[l] => k = l
      BY DEF old, n
    <3>2. QED BY <1>13, <2>1, <2>2, <3>1
  <2>3. CASE i \notin 1 .. n /\ j \notin 1 .. n
    <3>1. i - n = j - n
      BY <1>12, <1>13, <2>1, <2>3
    <3>2. QED BY <1>1, <1>4, <3>1
  <2>4. CASE i \in 1 .. n /\ j \notin 1 .. n
    BY <1>11, <1>13, <1>14, <2>1, <2>4
  <2>5. CASE i \notin 1 .. n /\ j \in 1 .. n
    BY <1>11, <1>13, <1>14, <2>1, <2>5
  <2>6. QED BY <2>2, <2>3, <2>4, <2>5
<1>20. QED BY <1>13, <1>16, <1>17, <1>18, <1>19 DEF f, old

----------------------------------------------------------------------------
(* The steps keep the store's invariant. *)
LEMMA JobIs ==
  ASSUME job \in Jobs
  PROVE  /\ Trimming \in Jobs /\ Trimming.step = "trim" /\ Trimming.at = job.at
         /\ \A st \in Steps : \A ds \in Seq(Nat) :
              LET j == [job EXCEPT !.days = ds, !.step = st]
              IN j \in Jobs /\ j.step = st /\ j.at = job.at /\ j.days = ds
         /\ \A st \in Steps : \A t \in Nat : \A ds \in Seq(Nat) :
              [step |-> st, at |-> t, days |-> ds] \in Jobs
         /\ Idle \in Jobs /\ Idle.step = "idle" /\ Idle.at = 0
<1>1. <<>> \in Seq(Nat) /\ "trim" \in Steps /\ "idle" \in Steps
  BY DEF Steps
<1>2. QED BY <1>1 DEF Jobs, Trimming, Idle

(* A prune that rewrites the hot file, and one whose rewrite fails, leaves a
   file drawn from the old one. *)
LEMMA RewritesDraw ==
  ASSUME Types, RewriteHot \/ RewriteHotFails \/ Trim \/ TrimFails
  PROVE  /\ \E f \in Seq(Segments) : \E s : Drawn(f, hot, s) /\ hot' = f
         /\ UNCHANGED <<now, gz, stamped, nextId>>
         /\ ~stale' => index' = <<>> \/ (~stale /\ UNCHANGED <<hot, index>>)
<1>1. hot \in Seq(Segments) /\ Len(hot) \in Nat /\ now \in Nat /\ stale \in BOOLEAN
  BY DEF Types
<1>2. \E s : Drawn(hot, hot, s)
  <2> DEFINE s == [i \in 1 .. Len(hot) |-> i]
  <2>1. s \in [1 .. Len(hot) -> 1 .. Len(hot)] /\ \A i \in 1 .. Len(hot) : s[i] = i
    OBVIOUS
  <2> HIDE DEF s
  <2>2. ParsedIn(hot) \subseteq 1 .. Len(hot)
    BY DEF ParsedIn
  <2>3. Drawn(hot, hot, s)
    BY <2>1, <2>2 DEF Drawn
  <2>4. QED BY <2>3
<1>3. \E s : Drawn(<<>>, hot, s)
  <2> DEFINE s == [i \in 1 .. 0 |-> i]
  <2>1. Len(<<>>) = 0 /\ s \in [1 .. 0 -> 1 .. Len(hot)] /\ \A i \in 1 .. 0 : FALSE
    BY <1>1
  <2> HIDE DEF s
  <2>2. Drawn(<<>>, hot, s)
    BY <2>1 DEF Drawn, ParsedIn
  <2>3. QED BY <2>2
<1>4. ASSUME NEW g \in Seq(Segments), NEW s, Drawn(g, hot, s),
             NEW fault \in ReplaceFaults, ReplaceFails(fault, g)
      PROVE  /\ \E f \in Seq(Segments) : \E r : Drawn(f, hot, r) /\ hot' = f
             /\ ~stale' => (~stale /\ UNCHANGED <<hot, index>>)
  <2>1. fault = "intact" \/ fault = "lost" \/ fault = "unflagged"
    BY HistoryParameters
  <2>2. /\ fault = "intact" => hot' = hot
        /\ fault = "lost" => hot' = <<>>
        /\ fault = "unflagged" => hot' = g
    BY <1>4 DEF ReplaceFails
  <2>3. ~stale' => ~stale /\ fault = "intact"
    BY <1>4 DEF ReplaceFails
  <2>4. index' = index
    BY <1>4 DEF ReplaceFails
  <2>5. \E f \in Seq(Segments) : \E r : Drawn(f, hot, r) /\ hot' = f
    <3>1. CASE fault = "intact"
      BY <1>1, <1>2, <2>2, <3>1
    <3>2. CASE fault = "lost"
      <4>1. <<>> \in Seq(Segments)
        OBVIOUS
      <4>2. QED BY <1>3, <2>2, <3>2, <4>1
    <3>3. CASE fault = "unflagged"
      BY <1>4, <2>2, <3>3
    <3>4. QED BY <2>1, <3>1, <3>2, <3>3
  <2>6. QED BY <2>2, <2>3, <2>4, <2>5
<1>5. TodayLines \in Seq(Segments) /\ \E s : Drawn(TodayLines, hot, s)
  <2>1. Rotated(job.at) \in SUBSET Parsed
    BY DEF Rotated
  <2>2. QED BY <1>1, <2>1, KeptIs DEF TodayLines
<1>6. TrimmedLines \in Seq(Segments) /\ \E s : Drawn(TrimmedLines, hot, s)
  BY <1>1, TrimmedIs
<1>7. CASE RewriteHot
  BY <1>5, <1>7 DEF RewriteHot, Replace, bounds
<1>8. CASE RewriteHotFails
  <2>1. PICK fault \in ReplaceFaults : ReplaceFails(fault, TodayLines)
    BY <1>8 DEF RewriteHotFails
  <2>2. UNCHANGED <<now, gz, stamped, nextId>>
    BY <1>8 DEF RewriteHotFails
  <2>3. QED BY <1>4, <1>5, <2>1, <2>2
<1>9. CASE Trim
  <2>1. UNCHANGED <<now, gz, stamped, nextId>>
    BY <1>9 DEF Trim, bounds
  <2>2. CASE hot = <<>>
    <3>1. UNCHANGED <<hot, index, stale>>
      BY <1>9, <2>2 DEF Trim
    <3>2. QED BY <1>1, <1>2, <2>1, <3>1
  <2>3. CASE hot # <<>>
    <3>1. hot' = TrimmedLines /\ index' = <<>>
      BY <1>9, <2>3 DEF Trim, Replace
    <3>2. QED BY <1>6, <2>1, <3>1
  <2>4. QED BY <2>2, <2>3
<1>10. CASE TrimFails
  <2>1. PICK fault \in ReplaceFaults : ReplaceFails(fault, TrimmedLines)
    BY <1>10 DEF TrimFails
  <2>2. UNCHANGED <<now, gz, stamped, nextId>>
    BY <1>10 DEF TrimFails
  <2>3. QED BY <1>4, <1>6, <2>1, <2>2
<1>11. QED BY <1>7, <1>8, <1>9, <1>10

(* A write adds one segment: the appender's line, or the beginning of it. *)
LEMMA WritesAppend ==
  ASSUME Types, NEW a \in Appenders, Write(a) \/ WriteFails(a)
  PROVE  /\ stamped[a] \in Entries /\ Line(stamped[a]) \in Segments /\ Torn \in Segments
         /\ Line(stamped[a]).kind = "entry" /\ Torn.kind # "entry"
         /\ Line(stamped[a]).id = stamped[a].id /\ Line(stamped[a]).ts = stamped[a].ts
         /\ \/ hot' = hot
            \/ /\ hot' \in Seq(Segments) /\ Len(hot') = Len(hot) + 1
               /\ \A i \in 1 .. Len(hot) : hot'[i] = hot[i]
               /\ hot'[Len(hot) + 1] \in {Line(stamped[a]), Torn}
         /\ Write(a) => Len(hot') = Len(hot) + 1 /\ hot'[Len(hot) + 1] = Line(stamped[a])
         /\ stamped' = [stamped EXCEPT ![a] = None]
         /\ UNCHANGED <<now, gz, job, stale, nextId>>
         /\ job.step = "idle"
<1>1. hot \in Seq(Segments) /\ stamped \in [Appenders -> Entries \union {None}] /\ stamped[a] # None
  BY DEF Types, Write, WriteFails
<1>2. stamped[a] \in Entries
  BY <1>1
<1>3. Line(stamped[a]) \in Segments /\ Torn \in Segments
  BY <1>2 DEF Line, Torn, Segments, Entries
<1>4. /\ Line(stamped[a]).kind = "entry" /\ Torn.kind # "entry"
      /\ Line(stamped[a]).id = stamped[a].id /\ Line(stamped[a]).ts = stamped[a].ts
  BY DEF Line, Torn
<1>5. ASSUME NEW l \in Segments, hot' = Append(hot, l)
      PROVE  /\ hot' \in Seq(Segments) /\ Len(hot') = Len(hot) + 1
             /\ \A i \in 1 .. Len(hot) : hot'[i] = hot[i]
             /\ hot'[Len(hot) + 1] = l
  BY <1>1, <1>5
<1>6. /\ stamped' = [stamped EXCEPT ![a] = None]
      /\ UNCHANGED <<now, gz, job, stale, nextId>>
      /\ job.step = "idle"
  BY DEF Write, WriteFails, MuFree, bounds
<1>7. \/ hot' = hot /\ ~Write(a)
      \/ hot' = Append(hot, Line(stamped[a]))
      \/ hot' = Append(hot, Torn) /\ ~Write(a)
  <2>1. CASE Write(a)
    BY <2>1 DEF Write
  <2>2. CASE ~Write(a)
    <3>1. PICK fault \in WriteFaults :
            hot' = CASE fault = "nothing" -> hot
                     [] fault = "torn" -> Append(hot, Torn)
                     [] fault = "unindexed" -> Append(hot, Line(stamped[a]))
      BY <2>2 DEF WriteFails
    <3>2. fault = "nothing" \/ fault = "torn" \/ fault = "unindexed"
      BY HistoryParameters
    <3>3. QED BY <2>2, <3>1, <3>2
  <2>3. QED BY <2>1, <2>2
<1> HIDE DEF Write
<1>8. QED BY <1>2, <1>3, <1>4, <1>5, <1>6, <1>7

(* The first of the days still to do is over. *)
LEMMA HeadIs ==
  ASSUME StoreInv, job.step = "merge"
  PROVE  Head(job.days) \in Days /\ Head(job.days) < Day(job.at)
<1> DEFINE ds == job.days
<1>1. ds \in Seq(Nat) /\ ds # <<>> /\ job.at \in Nat
  BY DEF StoreInv, Types, Rotating, Jobs
<1>2. Len(ds) \in Nat \ {0} /\ Head(ds) = ds[1] /\ 1 \in 1 .. Len(ds)
  <2> HIDE DEF ds
  <2>1. QED BY <1>1
<1>3. ds[1] \in DaysToRotate(job.at)
  BY <1>2 DEF StoreInv, Rotating
<1>4. hot \in Seq(Segments) /\ job.at <= MaxClock
  BY <1>1, HistoryParameters DEF StoreInv, Types
<1>5. QED BY <1>1, <1>2, <1>3, <1>4, RotatedIs

(* A merge takes the first of the days still to do, which is over. *)
LEMMA MergeIs ==
  ASSUME StoreInv, MergeDay
  PROVE  /\ Head(job.days) \in Days /\ Head(job.days) < Day(job.at)
         /\ gz' = [gz EXCEPT ![Head(job.days)] = Merged(Head(job.days))]
         /\ job' \in Jobs /\ job'.at = job.at /\ job'.days = Tail(job.days)
         /\ job'.step = IF Len(job.days) = 1 THEN "rewrite" ELSE "merge"
         /\ UNCHANGED <<now, hot, index, stamped, stale, nextId>>
         /\ Len(job.days) \in Nat \ {0} /\ Head(job.days) = job.days[1]
         /\ Len(job'.days) = Len(job.days) - 1
         /\ \A j \in 1 .. Len(job'.days) : job'.days[j] = job.days[j + 1]
<1> DEFINE ds == job.days
           st == IF Len(ds) = 1 THEN "rewrite" ELSE "merge"
<1>1. job \in Jobs /\ ds \in Seq(Nat) /\ ds # <<>> /\ job.step = "merge" /\ job.at \in Nat
  BY DEF StoreInv, Types, Rotating, MergeDay, Jobs
<1>2. /\ Len(ds) \in Nat \ {0} /\ Head(ds) = ds[1] /\ Tail(ds) \in Seq(Nat)
      /\ Len(Tail(ds)) = Len(ds) - 1 /\ \A j \in 1 .. Len(ds) - 1 : Tail(ds)[j] = ds[j + 1]
  <2> HIDE DEF ds
  <2>1. QED BY <1>1
<1>3. st \in Steps
  BY DEF Steps
<1>4. job' = [job EXCEPT !.days = Tail(ds), !.step = st]
  <2>1. job' = [job EXCEPT !.days = Tail(job.days), !.step = IF Len(job.days) = 1 THEN "rewrite" ELSE job.step]
    BY DEF MergeDay
  <2>2. QED BY <1>1, <2>1
<1>5. job' \in Jobs /\ job'.at = job.at /\ job'.days = Tail(ds) /\ job'.step = st
  <2> HIDE DEF ds, st
  <2>1. QED BY <1>1, <1>2, <1>3, <1>4, JobIs
<1>6. ds[1] \in Days /\ ds[1] < Day(job.at)
  BY <1>1, <1>2, HeadIs
<1>7. /\ gz' = [gz EXCEPT ![Head(ds)] = Merged(Head(ds))]
      /\ UNCHANGED <<now, hot, index, stamped, stale, nextId>>
  BY DEF MergeDay, bounds
<1>8. QED BY <1>2, <1>5, <1>6, <1>7

(* The days a rotation goes through, by their first lines, are all the days
   that are over. *)
LEMMA OrderedDaysIs ==
  ASSUME hot \in Seq(Segments), NEW t \in Nat, t <= MaxClock
  PROVE  /\ OrderedDays(t) \in Seq(Nat)
         /\ \A k \in 1 .. Len(OrderedDays(t)) : OrderedDays(t)[k] \in DaysToRotate(t)
         /\ \A d \in DaysToRotate(t) : \E k \in 1 .. Len(OrderedDays(t)) : OrderedDays(t)[k] = d
<1> DEFINE day(i) == Day(hot[i].ts)
           F == {i \in Rotated(t) : \A j \in Rotated(t) : j < i => day(j) # day(i)}
           m == Cardinality(F)
           s == InOrder(F)
           o == OrderedDays(t)
<1>1. Rotated(t) \subseteq 1 .. Len(hot) /\ Len(hot) \in Nat /\ Rotated(t) \in SUBSET Nat
  <2>1. Rotated(t) \subseteq Parsed /\ Len(hot) \in Nat
    BY DEF Rotated
  <2>2. \A i \in Parsed : i \in 1 .. Len(hot)
    BY RotatedIs
  <2>3. QED BY <2>1, <2>2
<1>2. F \in SUBSET Nat /\ IsFiniteSet(F) /\ m \in Nat
  <2>1. F \in SUBSET (1 .. Len(hot))
    BY <1>1
  <2> HIDE DEF F
  <2>2. IsFiniteSet(1 .. Len(hot))
    BY <1>1, FS_Interval
  <2>3. IsFiniteSet(F)
    BY <2>1, <2>2, FS_Subset
  <2>4. QED BY <2>1, <2>3, FS_CardinalityType
<1>3. \A i \in Rotated(t) : day(i) \in DaysToRotate(t)
  BY DEF DaysToRotate
<1>4. \A d \in DaysToRotate(t) : d \in Nat
  BY RotatedIs
<1>5. ASSUME NEW d \in DaysToRotate(t) PROVE \E i \in F : day(i) = d
  <2> DEFINE D == {i \in Rotated(t) : day(i) = d}
  <2>1. D \in SUBSET Nat /\ D # {}
    BY <1>1 DEF DaysToRotate
  <2>2. PICK i \in D : \A j \in D : i <= j
    BY <2>1, HasMin
  <2>3. ASSUME NEW j \in Rotated(t), j < i, day(j) = day(i) PROVE FALSE
    <3>1. j \in D
      BY <2>3
    <3>2. i <= j /\ i \in Nat /\ j \in Nat
      BY <1>1, <2>2, <3>1
    <3>3. QED BY <2>3, <3>2
  <2>4. QED BY <2>2, <2>3
<1>6. F \subseteq Rotated(t)
  OBVIOUS
<1>7. o = [k \in DOMAIN s |-> day(s[k])]
  BY DEF OrderedDays
<1> HIDE DEF F, day, o
<1>8. /\ s \in Seq(F) /\ Len(s) = m /\ \A k \in 1 .. m : s[k] \in F
      /\ \A x \in F : \E k \in 1 .. m : s[k] = x
  BY <1>2, OrderIs
<1>9. DOMAIN s = 1 .. m
  BY <1>8
<1> HIDE DEF s, m
<1>10. \A k \in 1 .. m : o[k] = day(s[k]) /\ o[k] \in DaysToRotate(t) /\ o[k] \in Nat
  BY <1>3, <1>4, <1>6, <1>7, <1>8, <1>9
<1>11. o \in Seq(Nat) /\ Len(o) = m
  <2>1. o \in [1 .. m -> Nat]
    BY <1>7, <1>9, <1>10
  <2>2. QED BY <1>2, <2>1
<1>12. ASSUME NEW d \in DaysToRotate(t) PROVE \E k \in 1 .. m : o[k] = d
  BY <1>5, <1>8, <1>10
<1>13. QED BY <1>10, <1>11, <1>12 DEF o

(* A prune starts with the days that are over, if it rotates at all. *)
LEMMA StartIs ==
  ASSUME StoreInv, StartPrune
  PROVE  /\ job' \in Jobs /\ job'.at = now /\ job'.step \in {"merge", "trim"}
         /\ job'.step = "merge" =>
              /\ CompressRotated /\ Len(job'.days) \in Nat \ {0} /\ job'.days # <<>>
              /\ \A k \in 1 .. Len(job'.days) : job'.days[k] \in DaysToRotate(now)
              /\ \A d \in DaysToRotate(now) : \E k \in 1 .. Len(job'.days) : job'.days[k] = d
         /\ UNCHANGED <<now, hot, gz, index, stamped, stale, nextId>>
<1> DEFINE S == DaysToRotate(now)
           ds == OrderedDays(now)
<1>1. hot \in Seq(Segments) /\ now \in Nat /\ now <= MaxClock
  BY DEF StoreInv, Types
<1>2. /\ ds \in Seq(Nat)
      /\ \A k \in 1 .. Len(ds) : ds[k] \in S
      /\ \A x \in S : \E k \in 1 .. Len(ds) : ds[k] = x
  BY <1>1, OrderedDaysIs
<1>3. UNCHANGED <<now, hot, gz, index, stamped, stale, nextId>>
  BY DEF StartPrune, bounds
<1> HIDE DEF S, ds
<1>4. CASE CompressRotated /\ S # {}
  <2>1. job' = [step |-> "merge", at |-> now, days |-> ds]
    BY <1>4 DEF StartPrune, S, ds
  <2>2. Len(ds) \in Nat \ {0} /\ ds # <<>>
    <3>1. PICK k \in 1 .. Len(ds) : TRUE
      BY <1>2, <1>4
    <3>2. QED BY <1>2, <3>1
  <2>3. "merge" \in Steps
    BY DEF Steps
  <2>4. QED BY <1>1, <1>2, <1>3, <1>4, <2>1, <2>2, <2>3 DEF Jobs, S
<1>5. CASE ~(CompressRotated /\ S # {})
  <2>1. job' = [step |-> "trim", at |-> now, days |-> <<>>]
    BY <1>5 DEF StartPrune, S
  <2>2. "trim" \in Steps /\ <<>> \in Seq(Nat)
    BY DEF Steps
  <2>3. QED BY <1>1, <1>3, <2>1, <2>2 DEF Jobs
<1>6. QED BY <1>4, <1>5

(* A step that only lets the rotation stop leads to the trim, or ends it. *)
LEMMA EndsIs ==
  ASSUME StoreInv, RotateFails \/ MergeFails \/ RewriteHotFails \/ Purge \/ PurgeFails \/ Trim \/ TrimFails \/ Crash
  PROVE  job' \in Jobs /\ (job' = Idle \/ (job'.step = "trim" /\ job'.at = job.at))
         /\ job'.at <= now
<1>1. job \in Jobs /\ job.at \in Nat /\ job.at <= now /\ now \in Nat
  BY DEF StoreInv, Types, Jobs
<1>2. job' = Idle \/ job' = Trimming
  BY DEF RotateFails, MergeFails, RewriteHotFails, Purge, PurgeFails, Trim, TrimFails, Crash
<1>3. /\ Trimming \in Jobs /\ Trimming.step = "trim" /\ Trimming.at = job.at
      /\ Idle \in Jobs /\ Idle.at = 0
  BY <1>1, JobIs
<1>4. CASE job' = Idle
  BY <1>1, <1>3, <1>4
<1>5. CASE job' = Trimming
  BY <1>1, <1>3, <1>5
<1>6. QED BY <1>2, <1>4, <1>5

LEMMA RewriteIs ==
  ASSUME StoreInv, RewriteHot
  PROVE  job' \in Jobs /\ job'.step = "purge" /\ job'.at = job.at
<1>1. job \in Jobs /\ "purge" \in Steps
  BY DEF StoreInv, Types, Steps
<1>2. job' = [job EXCEPT !.step = "purge"]
  BY DEF RewriteHot
<1>3. QED BY <1>1, <1>2 DEF Jobs

(* A merge that fails halfway leaves the day's file as it was, replaced by the
   merged one or gone, and touches no other day. *)
LEMMA MergeFailsIs ==
  ASSUME StoreInv, MergeFails
  PROVE  \E d \in Days :
           /\ d < Day(job.at)
           /\ gz' = [gz EXCEPT ![d] = <<>>] \/ gz' = [gz EXCEPT ![d] = Merged(d)]
           /\ backups' = backups \union Range(gz[d])
           /\ job.step = "merge" /\ CompressRotated
           /\ UNCHANGED <<now, hot, index, stamped, stale, nextId>>
<1> DEFINE d == Head(job.days)
<1>1. /\ job.step = "merge"
      /\ backups' = backups \union Range(gz[d])
      /\ gz' = [gz EXCEPT ![d] = <<>>] \/ gz' = [gz EXCEPT ![d] = Merged(d)]
      /\ UNCHANGED <<now, hot, index, stamped, stale, nextId>>
  BY DEF MergeFails
<1>2. CompressRotated
  BY <1>1 DEF StoreInv, Rotating
<1>3. d \in Days /\ d < Day(job.at)
  BY <1>1, HeadIs
<1> HIDE DEF d
<1>4. QED BY <1>1, <1>2, <1>3

LEMMA TypesKept ==
  ASSUME StoreInv, [Next]_vars
  PROVE  Types'
<1> USE DEF StoreInv
<1>1. /\ now \in Nat /\ now <= MaxClock /\ hot \in Seq(Segments)
      /\ gz \in [Days -> Seq(Entries)] /\ index \in Seq(IndexEntries)
      /\ stamped \in [Appenders -> Entries \union {None}]
      /\ job \in Jobs /\ job.at <= now /\ nextId \in Nat /\ stale \in BOOLEAN
      /\ job.at \in Nat /\ MaxClock \in Nat
  BY HistoryParameters DEF Types, Jobs
<1>2. CASE Tick
  <2>1. now' = now + 1 /\ now' \in Nat /\ now' <= MaxClock /\ job.at <= now'
    BY <1>1, <1>2 DEF Tick
  <2>2. QED BY <1>1, <1>2, <2>1 DEF Tick, bounds, Types
<1>3. ASSUME NEW a \in Appenders, Stamp(a) PROVE Types'
  <2>1. [id |-> nextId, ts |-> now] \in Entries
    BY <1>1 DEF Entries
  <2>2. stamped' \in [Appenders -> Entries \union {None}]
    BY <1>1, <1>3, <2>1 DEF Stamp
  <2>3. nextId' \in Nat
    BY <1>1, <1>3 DEF Stamp
  <2>4. UNCHANGED <<now, hot, gz, index, job, stale>>
    BY <1>3 DEF Stamp
  <2>5. QED BY <1>1, <2>2, <2>3, <2>4 DEF Types
<1>4. ASSUME NEW a \in Appenders, Write(a) \/ WriteFails(a) PROVE Types'
  <2>1. /\ stamped[a] \in Entries /\ (hot' = hot \/ hot' \in Seq(Segments))
        /\ stamped' = [stamped EXCEPT ![a] = None]
        /\ UNCHANGED <<now, gz, job, stale, nextId>>
    BY <1>4, WritesAppend
  <2>2. index' \in Seq(IndexEntries)
    <3>1. [ts |-> stamped[a].ts, off |-> Len(hot)] \in IndexEntries
      BY <1>1, <2>1 DEF Entries, IndexEntries
    <3>2. index' = index \/ index' = Append(index, [ts |-> stamped[a].ts, off |-> Len(hot)])
      BY <1>4 DEF Write, WriteFails
    <3>3. \A x \in IndexEntries : Append(index, x) \in Seq(IndexEntries)
      BY <1>1
    <3>4. QED BY <1>1, <3>1, <3>2, <3>3
  <2>3. stamped' \in [Appenders -> Entries \union {None}]
    BY <1>1, <2>1
  <2>4. QED BY <1>1, <2>1, <2>2, <2>3 DEF Types
<1>5. CASE BuildIndex
  <2>1. index' \in Seq(IndexEntries)
    BY <1>1, <1>5, BuiltIs DEF BuildIndex
  <2>2. UNCHANGED <<now, hot, gz, stamped, job, stale, nextId>>
    BY <1>5 DEF BuildIndex, bounds
  <2>3. QED BY <1>1, <2>1, <2>2 DEF Types
<1>6. CASE StartPrune
  <2>1. job' \in Jobs /\ job'.at = now /\ UNCHANGED <<now, hot, gz, index, stamped, stale, nextId>>
    BY <1>6, StartIs
  <2>2. QED BY <1>1, <2>1 DEF Types
<1>7. CASE MergeDay
  <2> DEFINE d == Head(job.days)
  <2>1. /\ d \in Days /\ gz' = [gz EXCEPT ![d] = Merged(d)] /\ job' \in Jobs /\ job'.at = job.at
        /\ UNCHANGED <<now, hot, index, stamped, stale, nextId>>
    BY <1>7, MergeIs
  <2> HIDE DEF d
  <2>2. Merged(d) \in Seq(Entries)
    BY <2>1, MergedIs DEF Daily
  <2>3. gz' \in [Days -> Seq(Entries)]
    BY <1>1, <2>1, <2>2
  <2>4. QED BY <1>1, <2>1, <2>3 DEF Types
<1>8. CASE RewriteHot \/ RewriteHotFails \/ Trim \/ TrimFails
  <2>1. hot' \in Seq(Segments) /\ UNCHANGED <<now, gz, stamped, nextId>>
    BY <1>8, RewritesDraw
  <2>2. job' \in Jobs /\ job'.at <= now
    BY <1>1, <1>8, RewriteIs, EndsIs
  <2>3. index' \in Seq(IndexEntries) /\ stale' \in BOOLEAN
    <3>1. (index' = index \/ index' = <<>>)
      BY <1>8 DEF RewriteHot, RewriteHotFails, Trim, TrimFails, Replace, ReplaceFails
    <3>2. stale' = stale \/ stale' = FALSE \/ \E fault \in ReplaceFaults : stale' = (stale \/ fault # "intact")
      BY <1>8 DEF RewriteHot, RewriteHotFails, Trim, TrimFails, Replace, ReplaceFails
    <3>3. <<>> \in Seq(IndexEntries)
      OBVIOUS
    <3>4. QED BY <1>1, <3>1, <3>2, <3>3
  <2>4. QED BY <1>1, <2>1, <2>2, <2>3 DEF Types
<1>9. CASE RotateFails
  <2>1. job' \in Jobs /\ job'.at <= now
    BY <1>9, EndsIs
  <2>2. UNCHANGED <<now, hot, gz, index, stamped, stale, nextId>>
    BY <1>9 DEF RotateFails
  <2>3. QED BY <1>1, <2>1, <2>2 DEF Types
<1>10. CASE Purge \/ PurgeFails
  <2>1. job' \in Jobs /\ job'.at <= now
    BY <1>10, EndsIs
  <2>2. gz' \in [Days -> Seq(Entries)]
    <3>1. CASE Purge
      BY <1>1, <3>1 DEF Purge
    <3>2. CASE PurgeFails
      <4>1. PICK kept : gz' = [d \in Days |-> IF Purged(d) /\ d \notin kept THEN <<>> ELSE gz[d]]
        BY <3>2 DEF PurgeFails
      <4>2. QED BY <1>1, <4>1
    <3>3. QED BY <1>10, <3>1, <3>2
  <2>3. UNCHANGED <<now, hot, index, stamped, stale, nextId>>
    BY <1>10 DEF Purge, PurgeFails, bounds
  <2>4. QED BY <1>1, <2>1, <2>2, <2>3 DEF Types
<1>11. CASE Crash
  <2>1. job' \in Jobs /\ job'.at <= now
    BY <1>11, EndsIs
  <2>2. stamped' \in [Appenders -> Entries \union {None}]
    BY <1>11 DEF Crash
  <2>3. index' \in Seq(IndexEntries)
    <3>1. index' = <<>> /\ <<>> \in Seq(IndexEntries)
      BY <1>11 DEF Crash
    <3>2. QED BY <3>1
  <2>4. stale' \in BOOLEAN /\ UNCHANGED <<now, hot, gz, nextId>>
    BY <1>11 DEF Crash
  <2>5. QED BY <1>1, <2>1, <2>2, <2>3, <2>4 DEF Types
<1>12. CASE UNCHANGED vars
  BY <1>1, <1>12 DEF vars, bounds, Types
<1>13. CASE MergeFails
  <2>1. job' \in Jobs /\ job'.at <= now
    BY <1>13, EndsIs
  <2>2. PICK d \in Days :
          /\ d < Day(job.at)
          /\ gz' = [gz EXCEPT ![d] = <<>>] \/ gz' = [gz EXCEPT ![d] = Merged(d)]
          /\ UNCHANGED <<now, hot, index, stamped, stale, nextId>>
    BY <1>13, MergeFailsIs
  <2>3. Merged(d) \in Seq(Entries) /\ <<>> \in Seq(Entries)
    BY <2>2, MergedIs DEF Daily
  <2>4. gz' \in [Days -> Seq(Entries)]
    BY <1>1, <2>2, <2>3
  <2>5. QED BY <1>1, <2>1, <2>2, <2>4 DEF Types
<1>14. QED
  BY <1>2, <1>3, <1>4, <1>5, <1>6, <1>7, <1>8, <1>9, <1>10, <1>11, <1>12, <1>13 DEF Next, Prune

LEMMA FreshKept ==
  ASSUME StoreInv, [Next]_vars
  PROVE  Fresh'
<1> USE DEF StoreInv
<1>1. hot \in Seq(Segments) /\ Len(hot) \in Nat /\ nextId \in Nat
      /\ stamped \in [Appenders -> Entries \union {None}]
  BY DEF Types
<1>2. ASSUME UNCHANGED <<hot, stamped, nextId>> PROVE Fresh'
  BY <1>2 DEF Fresh, IsEntry
<1>3. CASE Tick \/ BuildIndex \/ StartPrune \/ MergeDay \/ RotateFails \/ MergeFails \/ Purge \/ PurgeFails
  BY <1>2, <1>3 DEF Tick, BuildIndex, StartPrune, MergeDay, RotateFails, MergeFails, Purge, PurgeFails, bounds
<1>4. ASSUME NEW a \in Appenders, Stamp(a) PROVE Fresh'
  <2> DEFINE e == [id |-> nextId, ts |-> now]
  <2>1. /\ stamped' = [stamped EXCEPT ![a] = e] /\ nextId' = nextId + 1 /\ hot' = hot
        /\ e.id = nextId
    BY <1>4 DEF Stamp
  <2> HIDE DEF e
  <2>2. /\ \A i \in 1 .. Len(hot) : IsEntry(hot, i) => hot[i].id \in Nat /\ hot[i].id < nextId
        /\ \A b \in Appenders : stamped[b] # None => stamped[b].id \in Nat /\ stamped[b].id < nextId
    <3>1. \A i \in 1 .. Len(hot) : hot[i].id \in Nat
      <4>1. \A i \in 1 .. Len(hot) : hot[i] \in Segments
        BY <1>1
      <4>2. \A x \in Segments : x.id \in Nat
        BY DEF Segments
      <4>3. QED BY <4>1, <4>2
    <3>2. \A b \in Appenders : stamped[b] # None => stamped[b].id \in Nat
      BY <1>1 DEF Entries
    <3>3. QED BY <3>1, <3>2 DEF Fresh
  <2>3. /\ \A i \in 1 .. Len(hot) : IsEntry(hot, i) => hot[i].id < nextId'
        /\ \A i, j \in 1 .. Len(hot) :
             i # j /\ IsEntry(hot, i) /\ IsEntry(hot, j) => hot[i].id # hot[j].id
    BY <1>1, <2>1, <2>2 DEF Fresh
  <2>4. ASSUME NEW b \in Appenders, stamped'[b] # None
        PROVE  /\ stamped'[b].id < nextId'
               /\ \A i \in 1 .. Len(hot) : IsEntry(hot, i) => hot[i].id # stamped'[b].id
    <3>1. CASE b = a
      <4>1. stamped'[b].id = nextId
        BY <1>1, <2>1, <3>1
      <4>2. QED BY <1>1, <2>1, <2>2, <4>1
    <3>2. CASE b # a
      <4>1. stamped'[b] = stamped[b] /\ stamped[b] # None
        BY <1>1, <2>1, <2>4, <3>2
      <4>2. QED BY <1>1, <2>1, <2>2, <4>1 DEF Fresh
    <3>3. QED BY <3>1, <3>2
  <2>5. ASSUME NEW b \in Appenders, NEW c \in Appenders, c # b, stamped'[b] # None, stamped'[c] # None
        PROVE  stamped'[c].id # stamped'[b].id
    <3>1. \A x \in Appenders : x # a => stamped'[x] = stamped[x]
      BY <1>1, <2>1
    <3>2. stamped'[a].id = nextId
      BY <1>1, <2>1
    <3>3. QED BY <1>1, <2>2, <2>5, <3>1, <3>2 DEF Fresh
  <2>6. QED BY <2>1, <2>3, <2>4, <2>5 DEF Fresh, IsEntry
<1>5. ASSUME NEW a \in Appenders, Write(a) \/ WriteFails(a) PROVE Fresh'
  <2> DEFINE n == Len(hot)
  <2>1. stamped[a] # None /\ stamped[a] \in Entries
    BY <1>1, <1>5 DEF Write, WriteFails
  <2>2. nextId' = nextId /\ stamped' = [stamped EXCEPT ![a] = None]
    BY <1>5, WritesAppend
  <2>3. \A b \in Appenders : stamped'[b] # None => b # a /\ stamped'[b] = stamped[b]
    BY <1>1, <2>2
  <2>4. CASE hot' = hot
    BY <2>2, <2>3, <2>4 DEF Fresh, IsEntry
  <2>5. CASE hot' # hot
    <3>1. /\ Len(hot') = n + 1 /\ \A i \in 1 .. n : hot'[i] = hot[i]
          /\ IsEntry(hot', n + 1) => hot'[n + 1].id = stamped[a].id
      BY <1>5, <2>5, WritesAppend DEF IsEntry
    <3>2. \A i \in 1 .. Len(hot') : i \in 1 .. n \/ i = n + 1
      BY <1>1, <3>1
    <3>3. \A i \in 1 .. n : (IsEntry(hot', i) <=> IsEntry(hot, i)) /\ hot'[i].id = hot[i].id
      BY <3>1 DEF IsEntry
    <3> HIDE DEF n
    <3>4. ASSUME NEW i \in 1 .. Len(hot'), IsEntry(hot', i) PROVE hot'[i].id < nextId
      BY <2>1, <3>1, <3>2, <3>3, <3>4 DEF Fresh, n
    <3>5. \A i \in 1 .. n : IsEntry(hot', i) => hot'[i].id # stamped[a].id
      BY <2>1, <3>3 DEF Fresh, n
    <3>6. ASSUME NEW i \in 1 .. Len(hot'), NEW j \in 1 .. Len(hot'), i # j, IsEntry(hot', i), IsEntry(hot', j)
          PROVE  hot'[i].id # hot'[j].id
      <4>1. CASE i \in 1 .. n /\ j \in 1 .. n
        BY <3>3, <3>6, <4>1 DEF Fresh, n
      <4>2. CASE i \in 1 .. n /\ j = n + 1
        BY <3>1, <3>5, <3>6, <4>2
      <4>3. CASE i = n + 1 /\ j \in 1 .. n
        BY <3>1, <3>5, <3>6, <4>3
      <4>4. QED BY <3>2, <3>6, <4>1, <4>2, <4>3
    <3>7. ASSUME NEW b \in Appenders, stamped'[b] # None
          PROVE  /\ stamped'[b].id < nextId
                 /\ \A i \in 1 .. Len(hot') : IsEntry(hot', i) => hot'[i].id # stamped'[b].id
                 /\ \A c \in Appenders : c # b /\ stamped'[c] # None => stamped'[c].id # stamped'[b].id
      <4>1. b # a /\ stamped'[b] = stamped[b] /\ stamped[b] # None
        BY <2>3, <3>7
      <4>2. stamped[b].id < nextId /\ stamped[b].id # stamped[a].id
        BY <2>1, <4>1 DEF Fresh
      <4>3. ASSUME NEW i \in 1 .. Len(hot'), IsEntry(hot', i) PROVE hot'[i].id # stamped[b].id
        <5>1. CASE i \in 1 .. n
          BY <3>3, <4>1, <4>3, <5>1 DEF Fresh, n
        <5>2. CASE i = n + 1
          BY <3>1, <4>2, <4>3, <5>2
        <5>3. QED BY <3>2, <5>1, <5>2
      <4>4. ASSUME NEW c \in Appenders, c # b, stamped'[c] # None PROVE stamped'[c].id # stamped[b].id
        <5>1. stamped'[c] = stamped[c] /\ stamped[c] # None
          BY <2>3, <4>4
        <5>2. QED BY <4>1, <4>4, <5>1 DEF Fresh
      <4>5. QED BY <4>1, <4>2, <4>3, <4>4
    <3>8. QED BY <2>2, <3>4, <3>6, <3>7 DEF Fresh, IsEntry
  <2>6. QED BY <2>4, <2>5
<1>6. CASE RewriteHot \/ RewriteHotFails \/ Trim \/ TrimFails
  <2>1. UNCHANGED <<now, gz, stamped, nextId>>
    BY <1>6, RewritesDraw
  <2>2. PICK f \in Seq(Segments) : \E s : Drawn(f, hot, s) /\ hot' = f
    BY <1>6, RewritesDraw
  <2>3. QED BY <1>1, <2>1, <2>2, RewriteKeeps
<1>7. CASE Crash
  <2>1. hot' = hot /\ nextId' = nextId /\ \A a \in Appenders : stamped'[a] = None
    BY <1>7 DEF Crash
  <2>2. QED BY <2>1 DEF Fresh, IsEntry
<1>8. CASE UNCHANGED vars
  BY <1>2, <1>8 DEF vars, bounds
<1>9. QED BY <1>3, <1>4, <1>5, <1>6, <1>7, <1>8 DEF Next, Prune

LEMMA DailyKept ==
  ASSUME StoreInv, [Next]_vars
  PROVE  Daily'
<1> USE DEF StoreInv
<1>1. /\ now \in Nat /\ job \in Jobs /\ job.at \in Nat /\ job.at <= now
      /\ gz \in [Days -> Seq(Entries)]
  BY DEF Types, Jobs
<1>2. Day(now) \in Nat /\ Day(job.at) \in Nat /\ Day(job.at) <= Day(now) /\ Days \subseteq Nat
  <2>1. Day(now) \in Nat /\ Day(job.at) \in Nat /\ Day(job.at) <= Day(now)
    BY <1>1, DayIs
  <2>2. Days \subseteq Nat
    BY DEF Days
  <2>3. QED BY <2>1, <2>2
<1>3. ASSUME UNCHANGED gz, now' \in Nat, now <= now',
             job'.step # "idle" => (job.step # "idle" /\ job'.at = job.at)
      PROVE  Daily'
  <2>1. Day(now') \in Nat /\ Day(now) <= Day(now')
    BY <1>1, <1>3, DayIs
  <2>2. ASSUME NEW d \in Days, gz[d] # <<>>
        PROVE  CompressRotated /\ d < Day(now') /\ (job'.step # "idle" => d < Day(job'.at))
    <3>1. d < Day(now) /\ d \in Nat
      BY <1>2, <2>2 DEF Daily
    <3>2. d < Day(now')
      BY <1>2, <2>1, <3>1
    <3>3. QED BY <1>3, <2>2, <3>2 DEF Daily
  <2>3. QED BY <1>3, <2>2 DEF Daily, Day
<1>4. CASE Tick
  BY <1>1, <1>3, <1>4 DEF Tick
<1>5. ASSUME UNCHANGED <<now, gz, job>> PROVE Daily'
  BY <1>1, <1>3, <1>5
<1>6. ASSUME NEW a \in Appenders, Stamp(a) \/ Write(a) \/ WriteFails(a) PROVE Daily'
  <2>1. UNCHANGED <<now, gz, job>>
    BY <1>6 DEF Stamp, Write, WriteFails
  <2>2. QED BY <1>5, <2>1
<1>7. CASE BuildIndex
  <2>1. UNCHANGED <<now, gz, job>>
    BY <1>7 DEF BuildIndex
  <2>2. QED BY <1>5, <2>1
<1>8. CASE StartPrune
  <2>1. job'.at = now /\ UNCHANGED <<now, gz>>
    BY <1>8, StartIs
  <2>2. QED BY <2>1 DEF Daily, Day
<1>9. CASE MergeDay
  <2> DEFINE d == Head(job.days)
  <2>1. /\ d \in Days /\ d < Day(job.at) /\ gz' = [gz EXCEPT ![d] = Merged(d)]
        /\ job'.at = job.at /\ UNCHANGED now
    BY <1>9, MergeIs
  <2> HIDE DEF d
  <2>2. /\ \A i, j \in 1 .. Len(Merged(d)) : Merged(d)[i] = Merged(d)[j] => i = j
        /\ \A i \in 1 .. Len(Merged(d)) : Day(Merged(d)[i].ts) = d
    BY <2>1, MergedIs DEF Daily
  <2>3. job.step = "merge" /\ CompressRotated
    BY <1>9 DEF MergeDay, Rotating
  <2>4. gz'[d] = Merged(d) /\ \A x \in Days : x # d => gz'[x] = gz[x]
    BY <1>1, <2>1
  <2>5. d < Day(now)
    BY <1>2, <2>1
  <2>6. ASSUME NEW x \in Days
        PROVE  /\ \A i, j \in 1 .. Len(gz'[x]) : gz'[x][i] = gz'[x][j] => i = j
               /\ \A i \in 1 .. Len(gz'[x]) : Day(gz'[x][i].ts) = x
               /\ gz'[x] # <<>> => CompressRotated /\ x < Day(now) /\ x < Day(job.at)
    <3>1. CASE x = d
      BY <2>1, <2>2, <2>3, <2>4, <2>5, <3>1
    <3>2. CASE x # d
      BY <2>3, <2>4, <3>2 DEF Daily
    <3>3. QED BY <3>1, <3>2
  <2>7. QED BY <2>1, <2>6 DEF Daily, Day
<1>10. CASE RewriteHot
  <2>1. job.step = "rewrite" /\ job'.at = job.at /\ UNCHANGED <<now, gz>>
    BY <1>10, RewriteIs, RewritesDraw DEF RewriteHot
  <2>2. QED BY <1>1, <1>3, <2>1
<1>11. CASE RotateFails \/ RewriteHotFails \/ Trim \/ TrimFails \/ Crash
  <2>1. UNCHANGED <<now, gz>>
    BY <1>11, RewritesDraw DEF RotateFails, Crash
  <2>2. job' = Idle \/ (job'.step = "trim" /\ job'.at = job.at)
    BY <1>11, EndsIs
  <2>3. Idle.step = "idle" /\ (Crash => job' = Idle)
    BY DEF Idle, Crash
  <2>4. ~Crash => job.step # "idle"
    BY <1>11 DEF RotateFails, RewriteHotFails, Trim, TrimFails
  <2>5. job'.step # "idle" => (job.step # "idle" /\ job'.at = job.at)
    BY <2>2, <2>3, <2>4
  <2>6. QED BY <1>1, <1>3, <2>1, <2>5
<1>12. CASE Purge \/ PurgeFails
  <2>1. job' = Idle \/ (job'.step = "trim" /\ job'.at = job.at)
    BY <1>12, EndsIs
  <2>2. job.step # "idle" /\ Idle.step = "idle" /\ UNCHANGED now
    BY <1>12 DEF Purge, PurgeFails, Idle
  <2>3. \A d \in Days : gz'[d] = gz[d] \/ gz'[d] = <<>>
    BY <1>12 DEF Purge, PurgeFails
  <2>4. Len(<<>>) = 0 /\ \A i \in 1 .. 0 : FALSE
    OBVIOUS
  <2>5. ASSUME NEW d \in Days
        PROVE  /\ \A i, j \in 1 .. Len(gz'[d]) : gz'[d][i] = gz'[d][j] => i = j
               /\ \A i \in 1 .. Len(gz'[d]) : Day(gz'[d][i].ts) = d
               /\ gz'[d] # <<>> =>
                    CompressRotated /\ d < Day(now) /\ (job'.step # "idle" => d < Day(job'.at))
    <3>1. CASE gz'[d] = gz[d]
      BY <2>1, <2>2, <3>1 DEF Daily
    <3>2. CASE gz'[d] = <<>>
      BY <2>4, <3>2
    <3>3. QED BY <2>3, <3>1, <3>2
  <2>6. QED BY <2>2, <2>5 DEF Daily, Day
<1>13. CASE UNCHANGED vars
  <2>1. UNCHANGED <<now, gz, job>>
    BY <1>13 DEF vars
  <2>2. QED BY <1>5, <2>1
<1>14. CASE MergeFails
  <2>1. PICK d \in Days :
          /\ d < Day(job.at)
          /\ gz' = [gz EXCEPT ![d] = <<>>] \/ gz' = [gz EXCEPT ![d] = Merged(d)]
          /\ job.step = "merge" /\ CompressRotated /\ UNCHANGED now
    BY <1>14, MergeFailsIs
  <2>2. job' = Idle \/ (job'.step = "trim" /\ job'.at = job.at)
    BY <1>14, EndsIs
  <2>3. /\ \A i, j \in 1 .. Len(Merged(d)) : Merged(d)[i] = Merged(d)[j] => i = j
        /\ \A i \in 1 .. Len(Merged(d)) : Day(Merged(d)[i].ts) = d
    BY <2>1, MergedIs DEF Daily
  <2>4. /\ gz'[d] = <<>> \/ gz'[d] = Merged(d)
        /\ \A x \in Days : x # d => gz'[x] = gz[x]
    BY <1>1, <2>1
  <2>5. d < Day(now)
    BY <1>2, <2>1
  <2>6. Len(<<>>) = 0 /\ (\A i \in 1 .. 0 : FALSE) /\ Idle.step = "idle"
    BY DEF Idle
  <2>7. ASSUME NEW x \in Days
        PROVE  /\ \A i, j \in 1 .. Len(gz'[x]) : gz'[x][i] = gz'[x][j] => i = j
               /\ \A i \in 1 .. Len(gz'[x]) : Day(gz'[x][i].ts) = x
               /\ gz'[x] # <<>> => CompressRotated /\ x < Day(now) /\ x < Day(job.at)
    <3>1. CASE x = d /\ gz'[d] = Merged(d)
      BY <2>1, <2>3, <2>5, <3>1
    <3>2. CASE x = d /\ gz'[d] = <<>>
      BY <2>6, <3>2
    <3>3. CASE x # d
      BY <2>1, <2>4, <3>3 DEF Daily
    <3>4. QED BY <2>4, <3>1, <3>2, <3>3
  <2>8. QED BY <2>1, <2>2, <2>6, <2>7 DEF Daily, Day
<1>15. QED
  BY <1>4, <1>6, <1>7, <1>8, <1>9, <1>10, <1>11, <1>12, <1>13, <1>14 DEF Next, Prune

LEMMA RotatingKept ==
  ASSUME StoreInv, [Next]_vars
  PROVE  Rotating'
<1> USE DEF StoreInv
<1>1. hot \in Seq(Segments) /\ gz \in [Days -> Seq(Entries)] /\ job \in Jobs
  BY DEF Types
<1>2. ASSUME UNCHANGED <<hot, gz, job>> PROVE Rotating'
  BY <1>2 DEF Rotating, DaysToRotate, Rotated, Parsed, ParsedFrom, Day, EntryAt
<1>3. ASSUME job'.step \in {"idle", "trim"} PROVE Rotating'
  BY <1>3 DEF Rotating
<1>4. CASE Tick \/ BuildIndex
  BY <1>2, <1>4 DEF Tick, BuildIndex
<1>5. ASSUME NEW a \in Appenders, Stamp(a) \/ Write(a) \/ WriteFails(a) PROVE Rotating'
  <2>1. CASE Stamp(a)
    BY <1>2, <2>1 DEF Stamp
  <2>2. CASE Write(a) \/ WriteFails(a)
    BY <1>3, <2>2, WritesAppend
  <2>3. QED BY <1>5, <2>1, <2>2
<1>6. CASE StartPrune
  <2>1. /\ job'.at = now /\ job'.step \in {"merge", "trim"} /\ UNCHANGED <<hot, gz>>
        /\ job'.step = "merge" =>
              /\ CompressRotated /\ job'.days # <<>>
              /\ \A k \in 1 .. Len(job'.days) : job'.days[k] \in DaysToRotate(now)
              /\ \A d \in DaysToRotate(now) : \E k \in 1 .. Len(job'.days) : job'.days[k] = d
    BY <1>6, StartIs
  <2>2. CASE job'.step = "trim"
    BY <1>3, <2>2
  <2>3. CASE job'.step = "merge"
    <3>1. (DaysToRotate(job.at))' = DaysToRotate(now) /\ (Rotated(job.at))' = Rotated(now)
      BY <2>1 DEF DaysToRotate, Rotated, Parsed, ParsedFrom, Day
    <3>2. \A i \in Rotated(now) : Day(hot[i].ts) \in DaysToRotate(now)
      BY DEF DaysToRotate
    <3>3. \A i \in Rotated(now) : \E k \in 1 .. Len(job'.days) : job'.days[k] = Day(hot[i].ts)
      BY <2>1, <2>3, <3>2
    <3>4. QED BY <2>1, <2>3, <3>1, <3>3 DEF Rotating, Day
  <2>4. QED BY <2>1, <2>2, <2>3
<1>7. CASE MergeDay
  <2> DEFINE d == Head(job.days)
             n == Len(job.days)
  <2>1. /\ d \in Days /\ gz' = [gz EXCEPT ![d] = Merged(d)] /\ job'.at = job.at /\ UNCHANGED hot
        /\ job'.step = (IF n = 1 THEN "rewrite" ELSE "merge")
        /\ n \in Nat \ {0} /\ d = job.days[1] /\ Len(job'.days) = n - 1
        /\ \A j \in 1 .. n - 1 : job'.days[j] = job.days[j + 1]
        /\ job' \in Jobs
    BY <1>7, MergeIs
  <2>2. job.step = "merge" /\ CompressRotated
    BY <1>7 DEF MergeDay, Rotating
  <2>3. /\ \A i \in 1 .. n : job.days[i] \in DaysToRotate(job.at)
        /\ \A i \in Rotated(job.at) :
             \/ \E j \in 1 .. n : job.days[j] = Day(hot[i].ts)
             \/ EntryAt(i) \in Range(gz[Day(hot[i].ts)])
    BY <2>2 DEF Rotating
  <2> HIDE DEF d, n
  <2>4. /\ Range(gz[d]) \subseteq Range(Merged(d))
        /\ \A i \in DayLines(d) : EntryAt(i) \in Range(Merged(d))
    BY <2>1, MergedIs DEF Daily
  <2>5. gz'[d] = Merged(d) /\ \A x \in Days : x # d => gz'[x] = gz[x]
    BY <1>1, <2>1
  <2>6. /\ (DaysToRotate(job.at))' = DaysToRotate(job.at) /\ (Rotated(job.at))' = Rotated(job.at)
        /\ \A i : EntryAt(i)' = EntryAt(i)
    BY <2>1 DEF DaysToRotate, Rotated, Parsed, ParsedFrom, Day, EntryAt
  <2>7. ASSUME NEW i \in Rotated(job.at)
        PROVE  \/ \E j \in 1 .. n - 1 : job'.days[j] = Day(hot[i].ts)
               \/ EntryAt(i) \in Range(gz'[Day(hot[i].ts)])
    <3>1. Day(hot[i].ts) \in Days
      <4>1. Day(hot[i].ts) \in DaysToRotate(job.at)
        BY DEF DaysToRotate
      <4>2. job.at \in Nat /\ job.at <= MaxClock
        BY <1>1, HistoryParameters DEF Types, Jobs
      <4>3. QED BY <1>1, <4>1, <4>2, RotatedIs
    <3>2. CASE Day(hot[i].ts) = d
      <4>1. i \in DayLines(d)
        BY <3>2 DEF DayLines
      <4>2. QED BY <2>4, <2>5, <3>2, <4>1
    <3>3. CASE Day(hot[i].ts) # d
      <4>1. CASE EntryAt(i) \in Range(gz[Day(hot[i].ts)])
        BY <2>5, <3>1, <3>3, <4>1
      <4>2. CASE \E j \in 1 .. n : job.days[j] = Day(hot[i].ts)
        <5>1. PICK j \in 1 .. n : job.days[j] = Day(hot[i].ts)
          BY <4>2
        <5>2. j # 1
          BY <2>1, <3>3, <5>1
        <5>3. j - 1 \in 1 .. n - 1 /\ (j - 1) + 1 = j
          BY <2>1, <5>2
        <5>4. job'.days[j - 1] = job.days[j]
          BY <2>1, <5>3
        <5>5. QED BY <5>1, <5>3, <5>4
      <4>3. QED BY <2>3, <4>1, <4>2
    <3>4. QED BY <3>2, <3>3
  <2>8. \A j \in 1 .. n - 1 : job'.days[j] \in DaysToRotate(job.at)
    <3>1. \A j \in 1 .. n - 1 : j + 1 \in 1 .. n
      BY <2>1
    <3>2. QED BY <2>1, <2>3, <3>1
  <2>9. (n = 1 => job'.days = <<>>) /\ (n # 1 => job'.days # <<>>)
    <3>1. job'.days \in Seq(Nat)
      BY <2>1 DEF Jobs
    <3>2. QED BY <2>1, <3>1
  <2>10. QED BY <2>1, <2>2, <2>6, <2>7, <2>8, <2>9 DEF Rotating, Day
<1>8. CASE RewriteHot
  <2>1. job'.step = "purge" /\ job'.at = job.at /\ hot' = TodayLines /\ CompressRotated
    BY <1>8, RewriteIs DEF RewriteHot, Replace, Rotating
  <2> DEFINE Drop == Rotated(job.at)
             f == Kept(Drop)
  <2>2. PICK s : /\ Drawn(f, hot, s)
                 /\ \A i \in ParsedIn(f) : s[i] \notin Drop
    BY <1>1, KeptIs DEF Rotated
  <2>3. f \in Seq(Segments)
    BY <1>1, KeptIs DEF Rotated
  <2>4. hot' = f
    BY <2>1 DEF TodayLines
  <2> HIDE DEF f
  <2>5. (Parsed)' = ParsedIn(f)
    <3>1. hot' \in Seq(Segments) => Parsed' = ParsedIn(hot')
      BY DEF Parsed, ParsedFrom, ParsedIn, IsEntry
    <3>2. QED BY <2>3, <2>4, <3>1
  <2>6. ASSUME NEW i \in ParsedIn(f) PROVE ~(Day(f[i].ts) < Day(job.at))
    <3>1. s[i] \in Parsed /\ f[i] = hot[s[i]] /\ s[i] \notin Drop
      BY <1>1, <2>2, ParsedIs DEF Drawn, ParsedIn
    <3>2. QED BY <3>1 DEF Rotated
  <2>7. (Rotated(job.at))' = {}
    <3>1. (Rotated(job.at))' = {i \in Parsed' : Day(hot'[i].ts) < Day(job'.at)}
      BY DEF Rotated, Day
    <3>2. QED BY <2>1, <2>4, <2>5, <2>6, <3>1
  <2>8. QED BY <2>1, <2>7 DEF Rotating
<1>9. CASE RotateFails \/ MergeFails \/ RewriteHotFails \/ Purge \/ PurgeFails \/ Trim \/ TrimFails \/ Crash
  <2>1. job' = Idle \/ job'.step = "trim"
    BY <1>9, EndsIs
  <2>2. QED BY <1>3, <2>1 DEF Idle
<1>10. CASE UNCHANGED vars
  BY <1>2, <1>10 DEF vars
<1>11. QED
  BY <1>4, <1>5, <1>6, <1>7, <1>8, <1>9, <1>10 DEF Next, Prune

LEMMA IndexedKept ==
  ASSUME StoreInv, [Next]_vars
  PROVE  Indexed'
<1> USE DEF StoreInv
<1>1. hot \in Seq(Segments) /\ Len(hot) \in Nat /\ index \in Seq(IndexEntries) /\ Len(index) \in Nat
  BY DEF Types
<1>2. ASSUME ~stale' => (~stale /\ UNCHANGED <<hot, index>>) PROVE Indexed'
  BY <1>2 DEF Indexed, IsEntry
<1>3. ASSUME index' = <<>> PROVE Indexed'
  <2>1. Len(<<>>) = 0 /\ \A i \in 1 .. 0 : FALSE
    OBVIOUS
  <2>2. QED BY <1>3, <2>1 DEF Indexed
<1>4. CASE Tick \/ StartPrune \/ MergeDay \/ RotateFails \/ MergeFails \/ Purge \/ PurgeFails
  BY <1>2, <1>4 DEF Tick, StartPrune, MergeDay, RotateFails, MergeFails, Purge, PurgeFails
<1>5. ASSUME NEW a \in Appenders, Stamp(a) PROVE Indexed'
  BY <1>2, <1>5 DEF Stamp
<1>6. ASSUME NEW a \in Appenders, Write(a) \/ WriteFails(a) PROVE Indexed'
  <2> DEFINE n == Len(hot)
             new == [ts |-> stamped[a].ts, off |-> n]
             m == Len(index)
  <2>1. /\ stale' = stale
        /\ Line(stamped[a]).kind = "entry" /\ Line(stamped[a]).ts = stamped[a].ts
        /\ hot' = hot \/ (Len(hot') = n + 1 /\ \A i \in 1 .. n : hot'[i] = hot[i])
        /\ Write(a) => Len(hot') = n + 1 /\ hot'[n + 1] = Line(stamped[a])
    BY <1>6, WritesAppend
  <2>2. new.ts = stamped[a].ts /\ new.off = n
    OBVIOUS
  <2> HIDE DEF n, new
  <2>3. ASSUME NEW i \in 1 .. m, ~stale
        PROVE  /\ index[i].off < Len(hot') /\ IsEntry(hot', index[i].off + 1)
               /\ hot'[index[i].off + 1].ts = index[i].ts
    <3> DEFINE o == index[i].off
    <3>1. o \in Nat
      <4>1. index[i] \in IndexEntries
        BY <1>1
      <4>2. QED BY <4>1 DEF IndexEntries
    <3>2. o < n /\ IsEntry(hot, o + 1) /\ hot[o + 1].ts = index[i].ts
      BY <2>3 DEF Indexed, n
    <3> HIDE DEF o
    <3>3. o + 1 \in 1 .. n /\ n \in Nat
      BY <1>1, <3>1, <3>2 DEF n
    <3>4. hot'[o + 1] = hot[o + 1] /\ o < Len(hot')
      <4>1. CASE hot' = hot
        BY <3>2, <4>1 DEF n
      <4>2. CASE hot' # hot
        BY <2>1, <3>1, <3>2, <3>3, <4>2
      <4>3. QED BY <4>1, <4>2
    <3>5. QED BY <3>2, <3>4 DEF IsEntry, o
  <2>4. CASE Write(a)
    <3>1. index' = Append(index, new)
      BY <2>4 DEF Write, new, n
    <3>2. Len(index') = m + 1 /\ (\A i \in 1 .. m : index'[i] = index[i]) /\ index'[m + 1] = new
      BY <1>1, <3>1
    <3>3. \A i \in 1 .. m + 1 : i \in 1 .. m \/ i = m + 1
      BY <1>1
    <3>4. n < Len(hot') /\ IsEntry(hot', n + 1) /\ hot'[n + 1].ts = new.ts
      BY <1>1, <2>1, <2>2, <2>4 DEF n, IsEntry
    <3> HIDE DEF m
    <3>5. QED BY <2>1, <2>2, <2>3, <3>2, <3>3, <3>4 DEF Indexed, IsEntry
  <2>5. CASE ~Write(a)
    <3>1. index' = index
      BY <1>6, <2>5 DEF WriteFails
    <3>2. QED BY <2>1, <2>3, <3>1 DEF Indexed, IsEntry
  <2>6. QED BY <2>4, <2>5
<1>7. CASE BuildIndex
  <2>1. index' = BuiltIndex /\ hot' = hot
    BY <1>7 DEF BuildIndex
  <2>2. QED BY <1>1, <2>1, BuiltIs DEF Indexed, IsEntry
<1>8. CASE RewriteHot \/ RewriteHotFails \/ Trim \/ TrimFails
  <2>1. ~stale' => index' = <<>> \/ (~stale /\ UNCHANGED <<hot, index>>)
    BY <1>8, RewritesDraw
  <2>2. CASE index' = <<>>
    BY <1>3, <2>2
  <2>3. CASE index' # <<>>
    BY <1>2, <2>1, <2>3
  <2>4. QED BY <2>2, <2>3
<1>9. CASE Crash
  BY <1>3, <1>9 DEF Crash
<1>10. CASE UNCHANGED vars
  BY <1>2, <1>10 DEF vars
<1>11. QED
  BY <1>4, <1>5, <1>6, <1>7, <1>8, <1>9, <1>10 DEF Next, Prune

LEMMA OrderedKept ==
  ASSUME OneAppender, StoreInv, Ordered, [Next]_vars
  PROVE  Ordered'
<1> USE DEF StoreInv
<1>1. /\ hot \in Seq(Segments) /\ Len(hot) \in Nat /\ now \in Nat
      /\ stamped \in [Appenders -> Entries \union {None}]
      /\ \A i \in 1 .. Len(hot) : hot[i].ts \in Nat
      /\ \A a \in Appenders : stamped[a] # None => stamped[a].ts \in Nat
  <2>1. /\ hot \in Seq(Segments) /\ Len(hot) \in Nat /\ now \in Nat
        /\ stamped \in [Appenders -> Entries \union {None}]
    BY DEF Types
  <2>2. \A i \in 1 .. Len(hot) : hot[i] \in Segments
    BY <2>1
  <2>3. (\A x \in Segments : x.ts \in Nat) /\ (\A x \in Entries : x.ts \in Nat)
    BY DEF Segments, Entries
  <2>4. \A a \in Appenders : stamped[a] # None => stamped[a] \in Entries
    BY <2>1
  <2>5. QED BY <2>1, <2>2, <2>3, <2>4
<1>2. ASSUME UNCHANGED <<hot, stamped, now>> PROVE Ordered'
  BY <1>2 DEF Ordered, IsEntry
<1>3. CASE BuildIndex \/ StartPrune \/ MergeDay \/ RotateFails \/ MergeFails \/ Purge \/ PurgeFails
  BY <1>2, <1>3 DEF BuildIndex, StartPrune, MergeDay, RotateFails, MergeFails, Purge, PurgeFails
<1>4. CASE Tick
  <2>1. now' = now + 1 /\ UNCHANGED <<hot, stamped>>
    BY <1>4 DEF Tick
  <2>2. \A x \in Nat : x <= now => x <= now'
    BY <1>1, <2>1
  <2>3. \A i \in 1 .. Len(hot) : IsEntry(hot, i) => hot[i].ts <= now'
    BY <1>1, <2>2 DEF Ordered
  <2>4. \A a \in Appenders : stamped[a] # None => stamped[a].ts <= now'
    BY <1>1, <2>2 DEF Ordered
  <2>5. QED BY <2>1, <2>3, <2>4 DEF Ordered, IsEntry
<1>5. ASSUME NEW a \in Appenders, Stamp(a) PROVE Ordered'
  <2> DEFINE e == [id |-> nextId, ts |-> now]
  <2>1. stamped' = [stamped EXCEPT ![a] = e] /\ e.ts = now /\ UNCHANGED <<hot, now>>
    BY <1>5 DEF Stamp
  <2> HIDE DEF e
  <2>2. \A b \in Appenders : stamped'[b].ts = now
    <3>1. \A b \in Appenders : b = a
      BY DEF OneAppender
    <3>2. QED BY <1>1, <2>1, <3>1
  <2>3. now <= now
    BY <1>1
  <2>4. QED BY <2>1, <2>2, <2>3 DEF Ordered, IsEntry
<1>6. ASSUME NEW a \in Appenders, Write(a) \/ WriteFails(a) PROVE Ordered'
  <2> DEFINE n == Len(hot)
             t == stamped[a].ts
  <2>1. stamped[a] # None
    BY <1>6 DEF Write, WriteFails
  <2>2. /\ stamped' = [stamped EXCEPT ![a] = None] /\ UNCHANGED now
        /\ \/ hot' = hot
           \/ /\ Len(hot') = n + 1 /\ \A i \in 1 .. n : hot'[i] = hot[i]
              /\ IsEntry(hot', n + 1) => hot'[n + 1].ts = t
    BY <1>6, WritesAppend DEF IsEntry
  <2>3. \A b \in Appenders : stamped'[b] = None
    <3>1. \A b \in Appenders : b = a
      BY DEF OneAppender
    <3>2. QED BY <1>1, <2>2, <3>1
  <2>4. t \in Nat /\ t <= now /\ \A i \in 1 .. n : IsEntry(hot, i) => hot[i].ts <= t
    BY <1>1, <2>1 DEF Ordered
  <2> HIDE DEF n, t
  <2>5. CASE hot' = hot
    BY <2>2, <2>3, <2>5 DEF Ordered, IsEntry
  <2>6. CASE hot' # hot
    <3>1. Len(hot') = n + 1 /\ \A i \in 1 .. n + 1 : i \in 1 .. n \/ i = n + 1
      BY <1>1, <2>2, <2>6 DEF n
    <3>2. \A i \in 1 .. n : (IsEntry(hot', i) <=> IsEntry(hot, i)) /\ hot'[i].ts = hot[i].ts
      BY <2>2, <2>6 DEF IsEntry
    <3>3. IsEntry(hot', n + 1) => hot'[n + 1].ts = t
      BY <2>2, <2>6
    <3>4. ASSUME NEW i \in 1 .. n + 1, IsEntry(hot', i) PROVE hot'[i].ts <= now
      <4>1. CASE i \in 1 .. n
        BY <3>2, <3>4, <4>1 DEF Ordered, n
      <4>2. CASE i = n + 1
        BY <2>4, <3>3, <3>4, <4>2
      <4>3. QED BY <3>1, <4>1, <4>2
    <3>5. ASSUME NEW i \in 1 .. n + 1, NEW j \in 1 .. n + 1, i <= j, IsEntry(hot', i), IsEntry(hot', j)
          PROVE  hot'[i].ts <= hot'[j].ts
      <4>1. CASE i \in 1 .. n /\ j \in 1 .. n
        BY <3>2, <3>5, <4>1 DEF Ordered, n
      <4>2. CASE i \in 1 .. n /\ j = n + 1
        BY <2>4, <3>2, <3>3, <3>5, <4>2
      <4>3. CASE i = n + 1 /\ j = n + 1
        BY <2>4, <3>3, <3>5, <4>3
      <4>4. ~(i = n + 1 /\ j \in 1 .. n)
        BY <1>1, <3>5 DEF n
      <4>5. QED BY <3>1, <4>1, <4>2, <4>3, <4>4
    <3>6. QED BY <2>2, <2>3, <3>1, <3>4, <3>5 DEF Ordered, IsEntry
  <2>7. QED BY <2>5, <2>6
<1>7. CASE RewriteHot \/ RewriteHotFails \/ Trim \/ TrimFails
  <2>1. UNCHANGED <<now, gz, stamped, nextId>>
    BY <1>7, RewritesDraw
  <2>2. PICK f \in Seq(Segments) : \E s : Drawn(f, hot, s) /\ hot' = f
    BY <1>7, RewritesDraw
  <2>3. QED BY <1>1, <2>1, <2>2, RewriteKeeps
<1>8. CASE Crash
  <2>1. hot' = hot /\ now' = now /\ \A a \in Appenders : stamped'[a] = None
    BY <1>8 DEF Crash
  <2>2. QED BY <2>1 DEF Ordered, IsEntry
<1>9. CASE UNCHANGED vars
  BY <1>2, <1>9 DEF vars
<1>10. QED
  BY <1>3, <1>4, <1>5, <1>6, <1>7, <1>8, <1>9 DEF Next, Prune

LEMMA StoreStarts == Init => StoreInv /\ Ordered
<1> SUFFICES ASSUME Init PROVE StoreInv /\ Ordered
  OBVIOUS
<1>1. /\ now = 1 /\ hot = <<>> /\ gz = [d \in Days |-> <<>>] /\ index = <<>> /\ job = Idle
      /\ stamped = [a \in Appenders |-> None] /\ stale = FALSE /\ nextId = 1
  BY DEF Init
<1>2. Len(<<>>) = 0 /\ \A i \in 1 .. 0 : FALSE
  OBVIOUS
<1>3. Idle \in Jobs /\ Idle.at = 0 /\ Idle.step = "idle"
  BY DEF Idle, Jobs, Steps
<1>4. Types
  <2>1. 1 \in Nat /\ 1 <= MaxClock /\ 0 <= 1
    BY HistoryParameters
  <2>2. gz \in [Days -> Seq(Entries)]
    BY <1>1
  <2>3. stamped \in [Appenders -> Entries \union {None}]
    BY <1>1
  <2>4. hot \in Seq(Segments) /\ index \in Seq(IndexEntries)
    <3>1. \A S : <<>> \in Seq(S)
      OBVIOUS
    <3>2. QED BY <1>1, <3>1
  <2>5. QED BY <1>1, <1>3, <2>1, <2>2, <2>3, <2>4 DEF Types
<1>5. \A a \in Appenders : stamped[a] = None
  BY <1>1
<1>6. \A d \in Days : gz[d] = <<>>
  BY <1>1
<1>7. Fresh /\ Ordered
  BY <1>1, <1>2, <1>5 DEF Fresh, Ordered
<1>8. Daily
  BY <1>2, <1>6 DEF Daily
<1>9. Rotating
  BY <1>1, <1>3 DEF Rotating
<1>10. Indexed
  BY <1>1, <1>2 DEF Indexed
<1>11. QED BY <1>4, <1>7, <1>8, <1>9, <1>10 DEF StoreInv

THEOREM StoreInvHolds == Spec => []StoreInv
<1>1. Init => StoreInv
  BY StoreStarts
<1>2. StoreInv /\ [Next]_vars => StoreInv'
  <2> SUFFICES ASSUME StoreInv, [Next]_vars PROVE StoreInv'
    OBVIOUS
  <2>1. Types' /\ Fresh' /\ Daily' /\ Rotating' /\ Indexed'
    BY TypesKept, FreshKept, DailyKept, RotatingKept, IndexedKept
  <2>2. QED BY <2>1 DEF StoreInv
<1>3. QED BY <1>1, <1>2, PTL DEF Spec

LEMMA OrderedHolds == ASSUME OneAppender PROVE Spec => [](StoreInv /\ Ordered)
<1>1. Init => StoreInv /\ Ordered
  BY StoreStarts
<1>2. StoreInv /\ Ordered /\ [Next]_vars => (StoreInv /\ Ordered)'
  <2> SUFFICES ASSUME StoreInv, Ordered, [Next]_vars PROVE StoreInv' /\ Ordered'
    OBVIOUS
  <2>1. Types' /\ Fresh' /\ Daily' /\ Rotating' /\ Indexed'
    BY TypesKept, FreshKept, DailyKept, RotatingKept, IndexedKept
  <2>2. Ordered'
    BY OrderedKept
  <2>3. QED BY <2>1, <2>2 DEF StoreInv
<1>3. QED BY <1>1, <1>2, PTL DEF Spec

----------------------------------------------------------------------------
(* "This ensures idempotent daily rotation" (history.go:764), for any number
   of appenders, failures and restarts: a daily file holds an entry once, and
   a rotation that completes leaves no entry in both places. *)
THEOREM RotationIsIdempotentHolds == Spec => []RotationIsIdempotent
<1>1. StoreInv => RotationIsIdempotent
  <2> SUFFICES ASSUME StoreInv PROVE RotationIsIdempotent
    OBVIOUS
  <2>1. hot \in Seq(Segments) /\ gz \in [Days -> Seq(Entries)]
    BY DEF StoreInv, Types
  <2>2. ASSUME NEW d \in Days PROVE IsInjective(gz[d])
    <3>1. DOMAIN gz[d] = 1 .. Len(gz[d])
      BY <2>1
    <3>2. \A i, j \in 1 .. Len(gz[d]) : gz[d][i] = gz[d][j] => i = j
      BY DEF StoreInv, Daily
    <3>3. QED BY <3>1, <3>2 DEF IsInjective
  <2>3. ASSUME job.step = "purge", NEW x \in HotEntries, x \in GzEntries PROVE FALSE
    <3>1. PICK i \in Parsed : x = EntryAt(i)
      BY <2>3 DEF HotEntries
    <3>2. PICK d \in Days : x \in Range(gz[d])
      BY <2>3 DEF GzEntries
    <3>3. PICK k \in 1 .. Len(gz[d]) : x = gz[d][k]
      BY <2>1, <3>2 DEF Range
    <3>4. gz[d] # <<>>
      BY <3>3
    <3>5. Day(x.ts) = d /\ d < Day(job.at)
      BY <2>3, <3>3, <3>4 DEF StoreInv, Daily
    <3>6. ~(Day(hot[i].ts) < Day(job.at))
      BY <2>3 DEF StoreInv, Rotating, Rotated
    <3>7. x.ts = hot[i].ts
      BY <3>1 DEF EntryAt
    <3>8. QED BY <3>5, <3>6, <3>7
  <2>4. QED BY <2>2, <2>3 DEF RotationIsIdempotent
<1>2. QED BY <1>1, StoreInvHolds, PTL

(* Query returns every stored entry of its window, whatever mixture of
   appends, torn writes, rebuilt indexes, prunes, rotations and restarts made
   the file and the index, when one goroutine appends: the binary search over
   the index and its step back land at or before the first line of the window,
   because lines stand in the order of their stamps (history.go:137-201). *)
THEOREM QueryMissesNothingHolds == ASSUME OneAppender PROVE Spec => []QueryMissesNothing
<1>1. StoreInv /\ Ordered => QueryMissesNothing
  <2> SUFFICES ASSUME StoreInv, Ordered, ~stale, NEW cutoff \in 1 .. MaxClock + 1,
                      NEW e \in Stored, e.ts >= cutoff
               PROVE  e \in QueryResult(cutoff)
    BY DEF QueryMissesNothing
  <2>1. /\ hot \in Seq(Segments) /\ Len(hot) \in Nat /\ gz \in [Days -> Seq(Entries)]
        /\ index \in Seq(IndexEntries)
    BY DEF StoreInv, Types
  <2>2. cutoff \in Int
    OBVIOUS
  <2>3. CASE e \in HotEntries
    <3>1. PICK i \in Parsed : e = EntryAt(i)
      BY <2>3 DEF HotEntries
    <3> DEFINE idx == UsedIndex
               lo == Search(idx, cutoff)
               start == StartOffset(idx, cutoff)
    <3>2. /\ idx \in Seq(IndexEntries)
          /\ \A k \in 1 .. Len(idx) :
               /\ idx[k].off < Len(hot)
               /\ IsEntry(hot, idx[k].off + 1) /\ hot[idx[k].off + 1].ts = idx[k].ts
      <4>1. CASE index = <<>>
        BY <2>1, <4>1, BuiltIs DEF UsedIndex
      <4>2. CASE index # <<>>
        BY <2>1, <4>2 DEF UsedIndex, StoreInv, Indexed
      <4>3. QED BY <4>1, <4>2
    <3> HIDE DEF idx
    <3>3. lo \in 0 .. Len(idx) /\ (lo > 0 => idx[lo].ts < cutoff)
      BY <2>2, <3>2, SearchIs
    <3>4. start = IF lo > 0 THEN idx[lo].off ELSE 0
      BY DEF StartOffset
    <3> HIDE DEF lo, start
    <3>5. /\ i \in 1 .. Len(hot) /\ IsEntry(hot, i) /\ (i = 1 \/ hot[i - 1].kind # "torn")
          /\ hot[i].ts >= cutoff /\ hot[i].ts \in Nat
      <4>1. i \in 1 .. Len(hot) /\ IsEntry(hot, i) /\ (i = 1 \/ hot[i - 1].kind # "torn")
        BY <2>1, ParsedIs DEF ParsedIn
      <4>2. e.ts = hot[i].ts
        BY <3>1 DEF EntryAt
      <4>3. hot[i] \in Segments
        BY <2>1, <4>1
      <4>4. QED BY <4>1, <4>2, <4>3 DEF Segments
    <3>6. i \in ParsedFrom(start)
      <4>1. CASE lo = 0
        <5>1. start = 0
          BY <3>4, <4>1
        <5>2. QED BY <5>1 DEF Parsed
      <4>2. CASE lo # 0
        <5>1. lo \in 1 .. Len(idx) /\ idx[lo].ts < cutoff /\ start = idx[lo].off
          BY <3>2, <3>3, <3>4, <4>2
        <5>2. start \in Nat /\ idx[lo].ts \in Nat
          <6>1. idx[lo] \in IndexEntries
            BY <3>2, <5>1
          <6>2. QED BY <5>1, <6>1 DEF IndexEntries
        <5>3. start < Len(hot) /\ IsEntry(hot, start + 1) /\ hot[start + 1].ts < cutoff
          BY <3>2, <5>1
        <5>4. start + 1 \in 1 .. Len(hot) /\ hot[start + 1].ts = idx[lo].ts
          <6>1. hot[start + 1].ts = idx[lo].ts
            BY <3>2, <5>1
          <6>2. Len(hot) \in Nat
            BY <2>1
          <6>3. QED BY <5>2, <5>3, <6>1, <6>2
        <5>5. ~(i <= start + 1)
          <6>1. i <= start + 1 => hot[i].ts <= hot[start + 1].ts
            BY <3>5, <5>3, <5>4 DEF Ordered
          <6>2. ~(hot[i].ts <= hot[start + 1].ts)
            BY <2>2, <3>5, <5>1, <5>2, <5>4
          <6>3. QED BY <6>1, <6>2
        <5>6. i > start /\ i # 1
          BY <2>1, <3>5, <5>2, <5>5
        <5>7. QED BY <2>1, <3>5, <5>2, <5>6, ParsedIs
      <4>3. QED BY <4>1, <4>2
    <3>7. i \in HotResult(cutoff)
      BY <3>5, <3>6 DEF HotResult, start, idx
    <3>8. QED BY <3>1, <3>7 DEF QueryResult
  <2>4. CASE e \in GzEntries
    <3>1. PICK d \in Days : e \in Range(gz[d])
      BY <2>4 DEF GzEntries
    <3>2. PICK k \in 1 .. Len(gz[d]) : e = gz[d][k]
      BY <2>1, <3>1 DEF Range
    <3>3. gz[d] # <<>> /\ e \in Entries
      BY <2>1, <3>2
    <3>4. CompressRotated /\ Day(e.ts) = d
      BY <3>2, <3>3 DEF StoreInv, Daily
    <3>5. e.ts \in Nat
      BY <3>3 DEF Entries
    <3>6. e.ts < (d + 1) * DayLen
      BY <3>4, <3>5, DayIs
    <3>7. (d + 1) * DayLen >= cutoff
      <4> DEFINE x == (d + 1) * DayLen
      <4>1. x \in Nat
        <5>1. d + 1 \in Nat /\ DayLen \in Nat
          <6>1. d \in Nat
            BY <3>4, <3>5, DayIs
          <6>2. QED BY <6>1, HistoryParameters
        <5>2. \A a, b \in Nat : a * b \in Nat
          OBVIOUS
        <5>3. QED BY <5>1, <5>2
      <4>2. e.ts < x
        BY <3>6
      <4> HIDE DEF x
      <4>3. x >= cutoff
        BY <2>2, <3>5, <4>1, <4>2
      <4>4. QED BY <4>3 DEF x
    <3>8. e \in GzResult(cutoff)
      BY <3>1, <3>4, <3>7 DEF GzResult
    <3>9. QED BY <3>8 DEF QueryResult
  <2>5. QED BY <2>3, <2>4 DEF Stored
<1>2. QED BY <1>1, OrderedHolds, PTL

(* Nothing of the code removes a backup file once it was left behind. *)
LEMMA BackupsStay == ASSUME Next PROVE backups \subseteq backups'
<1>1. CASE UNCHANGED backups
  BY <1>1
<1>2. CASE MergeFails \/ RewriteHotFails \/ TrimFails
  BY <1>2 DEF MergeFails, RewriteHotFails, TrimFails, ReplaceFails
<1>3. ASSUME ~(MergeFails \/ RewriteHotFails \/ TrimFails) PROVE UNCHANGED backups
  BY <1>3 DEF Next, Prune, Tick, Stamp, Write, WriteFails, BuildIndex, StartPrune, MergeDay,
     RotateFails, RewriteHot, Purge, PurgeFails, Trim, Crash
<1>4. QED BY <1>1, <1>2, <1>3

(* An entry leaves the disk only from age, to meet the size cap (the newest are
   kept), or with a daily file past its retention; a rotation that fails or is
   cut short by a crash at any point, and a swap of a file that fails halfway,
   lose nothing: a backup file holds what no other does (history.go:625-760,
   849, 859-889).  One goroutine appends. *)
Expires(e) ==
  \/ job.step = "trim" /\ e.ts <= now - TrimAge
  \/ job.step = "trim" /\ Len(hot) > MaxSize /\ \A x \in HotEntries' : x.ts >= e.ts
  \/ job.step = "purge" /\ Day(job.at) - Day(e.ts) >= MaxRotatedDays

THEOREM StoredUntilExpiredHolds == ASSUME OneAppender PROVE Spec => StoredUntilExpired
<1>1. ASSUME StoreInv, Ordered, StoreInv', Next, NEW e \in OnDisk \ OnDisk' PROVE Expires(e)
  <2>1. /\ hot \in Seq(Segments) /\ Len(hot) \in Nat /\ gz \in [Days -> Seq(Entries)]
        /\ now \in Nat /\ job \in Jobs /\ job.at \in Nat /\ stale \in BOOLEAN
    BY <1>1 DEF StoreInv, Types, Jobs
  <2>2. ASSUME UNCHANGED <<hot, gz>> PROVE FALSE
    <3>1. Stored' = Stored
      BY <2>2 DEF Stored, HotEntries, GzEntries, Parsed, ParsedFrom, EntryAt
    <3>2. backups \subseteq backups'
      BY <1>1, BackupsStay
    <3>3. QED BY <1>1, <3>1, <3>2 DEF OnDisk
  <2>3. \A x \in HotEntries : \E i \in Parsed : x = EntryAt(i)
    BY DEF HotEntries
  <2>4. \A x \in GzEntries : \E d \in Days : x \in Range(gz[d])
    BY DEF GzEntries
  <2>5. /\ e \in HotEntries \/ e \in GzEntries
        /\ e \notin HotEntries' /\ e \notin GzEntries' /\ e \notin backups'
    <3>1. backups \subseteq backups'
      BY <1>1, BackupsStay
    <3>2. /\ e \in HotEntries \/ e \in GzEntries \/ e \in backups
          /\ e \notin HotEntries' /\ e \notin GzEntries' /\ e \notin backups'
      BY <1>1 DEF OnDisk, Stored
    <3>3. QED BY <3>1, <3>2
  <2>6. ASSUME UNCHANGED gz PROVE e \in HotEntries
    BY <2>5, <2>6 DEF GzEntries
  <2>7. CASE Tick \/ BuildIndex \/ StartPrune \/ RotateFails \/ Crash
    BY <2>2, <2>7 DEF Tick, BuildIndex, StartPrune, RotateFails, Crash
  <2>8. ASSUME NEW a \in Appenders, Stamp(a) \/ Write(a) \/ WriteFails(a) PROVE FALSE
    <3>1. CASE Stamp(a)
      BY <2>2, <3>1 DEF Stamp
    <3>2. CASE Write(a) \/ WriteFails(a)
      <4>1. /\ UNCHANGED gz
            /\ \/ hot' = hot
               \/ /\ hot' \in Seq(Segments) /\ Len(hot') = Len(hot) + 1
                  /\ \A i \in 1 .. Len(hot) : hot'[i] = hot[i]
        BY <1>1, <3>2, WritesAppend DEF StoreInv
      <4>2. PICK i \in Parsed : e = EntryAt(i)
        BY <2>3, <2>6, <4>1
      <4>3. CASE hot' = hot
        BY <2>2, <4>1, <4>3
      <4>4. CASE hot' # hot
        <5>1. i \in 1 .. Len(hot) /\ IsEntry(hot, i) /\ (i = 1 \/ hot[i - 1].kind # "torn")
          BY <2>1, ParsedIs DEF ParsedIn
        <5>2. i \in 1 .. Len(hot') /\ (i # 1 => i - 1 \in 1 .. Len(hot))
          BY <2>1, <4>1, <4>4, <5>1
        <5>3. hot'[i] = hot[i] /\ (i # 1 => hot'[i - 1] = hot[i - 1])
          BY <4>1, <4>4, <5>1, <5>2
        <5>4. i \in Parsed' /\ EntryAt(i)' = EntryAt(i)
          <6>1. Parsed' = ParsedIn(hot')
            BY DEF Parsed, ParsedFrom, ParsedIn, IsEntry
          <6>2. i \in ParsedIn(hot')
            BY <5>1, <5>2, <5>3 DEF ParsedIn, IsEntry
          <6>3. EntryAt(i)' = EntryAt(i)
            BY <5>3 DEF EntryAt
          <6>4. QED BY <6>1, <6>2, <6>3
        <5>5. e \in HotEntries'
          BY <4>2, <5>4 DEF HotEntries
        <5>6. QED BY <2>5, <5>5
      <4>5. QED BY <4>3, <4>4
    <3>3. QED BY <2>8, <3>1, <3>2
  <2>9. CASE MergeDay
    <3> DEFINE d == Head(job.days)
    <3>1. d \in Days /\ gz' = [gz EXCEPT ![d] = Merged(d)] /\ UNCHANGED hot
      BY <1>1, <2>9, MergeIs
    <3> HIDE DEF d
    <3>2. Range(gz[d]) \subseteq Range(Merged(d))
      BY <1>1, <3>1, MergedIs DEF StoreInv, Daily
    <3>3. HotEntries' = HotEntries
      BY <3>1 DEF HotEntries, Parsed, ParsedFrom, EntryAt
    <3>4. PICK x \in Days : e \in Range(gz[x])
      BY <2>4, <2>5, <3>3
    <3>5. e \in Range(gz'[x])
      BY <2>1, <3>1, <3>2, <3>4
    <3>6. e \in GzEntries'
      BY <3>4, <3>5 DEF GzEntries, Days, Day
    <3>7. QED BY <2>5, <3>6
  <2>10. ASSUME NEW f \in Seq(Segments), NEW s, hot' = f, NEW i \in ParsedIn(f), NEW j \in Parsed,
                Drawn(f, hot, s), s[i] = j, e = EntryAt(j)
         PROVE  FALSE
    <3>1. Parsed' = ParsedIn(f)
      BY <2>10 DEF Parsed, ParsedFrom, ParsedIn, IsEntry
    <3>2. f[i] = hot[j]
      BY <2>10 DEF Drawn, ParsedIn
    <3>3. EntryAt(i)' = EntryAt(j)
      BY <2>10, <3>2 DEF EntryAt
    <3>4. e \in HotEntries'
      BY <2>10, <3>1, <3>3 DEF HotEntries
    <3>5. QED BY <2>5, <3>4
  <2>11. CASE RewriteHot
    <3>1. UNCHANGED gz /\ hot' = TodayLines
      BY <2>11 DEF RewriteHot, Replace
    <3>2. PICK j \in Parsed : e = EntryAt(j)
      BY <2>3, <2>6, <3>1
    <3>3. job.step = "rewrite" /\ job.days = <<>>
      BY <1>1, <2>11 DEF RewriteHot, StoreInv, Rotating
    <3>4. CASE j \in Rotated(job.at)
      <4>1. EntryAt(j) \in Range(gz[Day(hot[j].ts)])
        <5>1. ~ \E k \in 1 .. Len(job.days) : job.days[k] = Day(hot[j].ts)
          <6>1. Len(<<>>) = 0 /\ \A k \in 1 .. 0 : FALSE
            OBVIOUS
          <6>2. QED BY <3>3, <6>1
        <5>2. QED BY <1>1, <3>3, <3>4, <5>1 DEF StoreInv, Rotating
      <4>2. Day(hot[j].ts) \in Days
        <5>1. Day(hot[j].ts) \in DaysToRotate(job.at)
          BY <3>4 DEF DaysToRotate
        <5>2. job.at <= MaxClock
          BY <1>1, <2>1, HistoryParameters DEF StoreInv, Types
        <5>3. QED BY <2>1, <5>1, <5>2, RotatedIs
      <4>3. e \in GzEntries /\ GzEntries' = GzEntries
        BY <3>1, <3>2, <4>1, <4>2 DEF GzEntries
      <4>4. QED BY <2>5, <4>3
    <3>5. CASE j \notin Rotated(job.at)
      <4> DEFINE Drop == Rotated(job.at)
                 f == Kept(Drop)
      <4>1. Drop \in SUBSET Parsed
        BY DEF Rotated
      <4>2. f \in Seq(Segments) /\ hot' = f
        BY <2>1, <3>1, <4>1, KeptIs DEF TodayLines
      <4>3. PICK s : /\ Drawn(f, hot, s)
                     /\ \A x \in Parsed \ Drop : \E i \in ParsedIn(f) : s[i] = x
        BY <2>1, <4>1, KeptIs
      <4> HIDE DEF f
      <4>4. PICK i \in ParsedIn(f) : s[i] = j
        BY <3>5, <4>3
      <4>5. QED BY <2>10, <3>2, <4>2, <4>3, <4>4
    <3>6. QED BY <3>4, <3>5
  <2>12. CASE RewriteHotFails \/ TrimFails
    <3>1. UNCHANGED gz
      BY <2>12 DEF RewriteHotFails, TrimFails
    <3>2. e \in HotEntries
      BY <2>6, <3>1
    <3>3. PICK fault \in ReplaceFaults : \E new : ReplaceFails(fault, new)
      BY <2>12 DEF RewriteHotFails, TrimFails
    <3>4. CASE fault = "intact"
      <4>1. UNCHANGED hot
        BY <3>3, <3>4 DEF ReplaceFails
      <4>2. QED BY <2>2, <3>1, <4>1
    <3>5. CASE fault # "intact"
      <4>1. backups' = backups \union HotEntries
        BY <3>3, <3>5 DEF ReplaceFails
      <4>2. QED BY <2>5, <3>2, <4>1
    <3>6. QED BY <3>4, <3>5
  <2>13. CASE Purge \/ PurgeFails
    <3>1. UNCHANGED hot /\ job.step = "purge" /\ \A d \in Days : ~Purged(d) => gz'[d] = gz[d]
      BY <2>13 DEF Purge, PurgeFails
    <3>2. HotEntries' = HotEntries
      BY <3>1 DEF HotEntries, Parsed, ParsedFrom, EntryAt
    <3>3. PICK d \in Days : e \in Range(gz[d])
      BY <2>4, <2>5, <3>2
    <3>4. gz'[d] # gz[d]
      <4>1. gz'[d] = gz[d] => e \in GzEntries'
        BY <3>3 DEF GzEntries, Days, Day
      <4>2. QED BY <2>5, <4>1
    <3>5. Purged(d)
      BY <3>1, <3>4
    <3>6. PICK k \in 1 .. Len(gz[d]) : e = gz[d][k]
      BY <2>1, <3>3 DEF Range
    <3>7. Day(e.ts) = d /\ d \in Nat
      <4>1. Day(e.ts) = d
        BY <1>1, <3>6 DEF StoreInv, Daily
      <4>2. QED BY <4>1 DEF Days
    <3>8. Day(job.at) \in Nat /\ \A x \in Nat : x * DayLen <= job.at => x <= Day(job.at)
      BY <2>1, DayIs
    <3>9. (d + MaxRotatedDays) * DayLen <= job.at
      <4> DEFINE x == d * DayLen
                 y == MaxRotatedDays * DayLen
                 z == (d + MaxRotatedDays) * DayLen
      <4>1. MaxRotatedDays \in Nat /\ DayLen \in Nat
        BY HistoryParameters
      <4>2. z = x + y /\ x \in Nat /\ y \in Nat
        BY <3>7, <4>1
      <4>3. x < job.at - y
        BY <3>5 DEF Purged
      <4> HIDE DEF x, y, z
      <4>4. z <= job.at
        BY <2>1, <4>2, <4>3
      <4>5. QED BY <4>4 DEF z
    <3>10. d + MaxRotatedDays <= Day(job.at) /\ MaxRotatedDays \in Nat
      <4>1. MaxRotatedDays \in Nat
        BY HistoryParameters
      <4>2. QED BY <3>7, <3>8, <3>9, <4>1
    <3>11. Day(job.at) - Day(e.ts) >= MaxRotatedDays
      <4> DEFINE t == Day(job.at)
      <4>1. t \in Nat /\ d \in Nat /\ d + MaxRotatedDays <= t /\ MaxRotatedDays \in Nat
        BY <3>7, <3>8, <3>10
      <4> HIDE DEF t
      <4>2. t - d >= MaxRotatedDays
        BY <4>1
      <4>3. QED BY <3>7, <4>2 DEF t
    <3>12. QED BY <3>1, <3>11 DEF Expires
  <2>14. CASE Trim
    <3>1. UNCHANGED gz /\ job.step = "trim"
      BY <2>14 DEF Trim
    <3>2. hot # <<>> /\ hot' = TrimmedLines
      <4>1. hot = <<>> => UNCHANGED hot
        BY <2>14 DEF Trim
      <4>2. hot # <<>>
        BY <2>2, <3>1, <4>1
      <4>3. QED BY <2>14, <4>2 DEF Trim, Replace
    <3>3. PICK j \in Parsed : e = EntryAt(j)
      BY <2>3, <2>6, <3>1
    <3>4. e.ts = hot[j].ts
      BY <3>3 DEF EntryAt
    <3> DEFINE f == TrimmedLines
    <3>5. f \in Seq(Segments)
      BY <2>1, TrimmedIs
    <3>6. PICK s : /\ Drawn(f, hot, s)
                   /\ \A k \in Parsed : ~(hot[k].ts <= now - TrimAge) =>
                        \/ \E i \in ParsedIn(f) : s[i] = k
                        \/ Len(hot) > MaxSize /\ \A i \in ParsedIn(f) : k < s[i]
      BY <2>1, TrimmedIs
    <3> HIDE DEF f
    <3>7. hot' = f
      BY <3>2 DEF f
    <3>8. CASE hot[j].ts <= now - TrimAge
      BY <3>1, <3>4, <3>8 DEF Expires
    <3>9. CASE ~(hot[j].ts <= now - TrimAge)
      <4>1. ~ \E i \in ParsedIn(f) : s[i] = j
        BY <2>10, <3>3, <3>5, <3>6, <3>7
      <4>2. Len(hot) > MaxSize /\ \A i \in ParsedIn(f) : j < s[i]
        BY <3>6, <3>9, <4>1
      <4>3. ASSUME NEW x \in HotEntries' PROVE x.ts >= e.ts
        <5>1. Parsed' = ParsedIn(f) /\ HotEntries' = {EntryAt(i)' : i \in Parsed'}
          BY <3>7 DEF HotEntries, Parsed, ParsedFrom, ParsedIn, IsEntry
        <5>2. PICK i \in ParsedIn(f) : x = EntryAt(i)'
          BY <5>1
        <5>3. x.ts = f[i].ts
          BY <3>7, <5>2 DEF EntryAt
        <5>4. f[i] = hot[s[i]] /\ s[i] \in ParsedIn(hot) /\ j < s[i]
          BY <3>6, <4>2 DEF Drawn, ParsedIn
        <5>5. j \in ParsedIn(hot)
          BY <2>1, ParsedIs
        <5>6. /\ j \in 1 .. Len(hot) /\ IsEntry(hot, j)
              /\ s[i] \in 1 .. Len(hot) /\ IsEntry(hot, s[i])
          BY <5>4, <5>5 DEF ParsedIn
        <5>7. j <= s[i]
          BY <2>1, <5>4, <5>6
        <5>8. hot[j].ts <= hot[s[i]].ts
          BY <1>1, <5>6, <5>7 DEF Ordered
        <5>9. hot[j].ts \in Nat /\ hot[s[i]].ts \in Nat
          <6>1. hot[j] \in Segments /\ hot[s[i]] \in Segments
            BY <2>1, <5>6
          <6>2. QED BY <6>1 DEF Segments
        <5>10. QED BY <3>4, <5>3, <5>4, <5>8, <5>9
      <4>4. QED BY <3>1, <4>2, <4>3 DEF Expires
    <3>10. QED BY <3>8, <3>9
  <2>15. CASE MergeFails
    <3>1. PICK d \in Days :
            /\ gz' = [gz EXCEPT ![d] = <<>>] \/ gz' = [gz EXCEPT ![d] = Merged(d)]
            /\ backups' = backups \union Range(gz[d]) /\ UNCHANGED hot
      BY <1>1, <2>15, MergeFailsIs
    <3>2. HotEntries' = HotEntries
      BY <3>1 DEF HotEntries, Parsed, ParsedFrom, EntryAt
    <3>3. PICK x \in Days : e \in Range(gz[x])
      BY <2>4, <2>5, <3>2
    <3>4. x # d
      BY <2>5, <3>1, <3>3
    <3>5. gz'[x] = gz[x]
      BY <2>1, <3>1, <3>4
    <3>6. e \in GzEntries'
      BY <3>3, <3>5 DEF GzEntries, Days, Day
    <3>7. QED BY <2>5, <3>6
  <2>16. QED
    BY <1>1, <2>7, <2>8, <2>9, <2>11, <2>12, <2>13, <2>14, <2>15 DEF Next, Prune
<1>2. StoreInv /\ Ordered /\ StoreInv' /\ [Next]_vars =>
        [\A e \in OnDisk \ OnDisk' : Expires(e)]_vars
  BY <1>1
<1>3. StoredUntilExpired <=> [][\A e \in OnDisk \ OnDisk' : Expires(e)]_vars
  BY DEF StoredUntilExpired, Expires
<1>4. QED BY <1>2, <1>3, OrderedHolds, PTL DEF Spec

----------------------------------------------------------------------------
(* The "50 MB cap" of docs/configuration.md:194, as far as one step can say it: a prune that completes leaves no more than MaxSize, in
   whatever state failed writes and earlier prunes left the file.  That a prune
   does complete is the liveness property PruneBoundsFile. *)
THEOREM TrimIsCapped == Spec => [][Trim => Len(hot') <= MaxSize]_vars
<1>1. StoreInv => (Trim => Len(hot') <= MaxSize)
  <2> SUFFICES ASSUME StoreInv, Trim PROVE Len(hot') <= MaxSize
    OBVIOUS
  <2>1. hot \in Seq(Segments) /\ MaxSize \in Nat
    BY HistoryParameters DEF StoreInv, Types
  <2>2. CASE hot = <<>>
    BY <2>1, <2>2 DEF Trim
  <2>3. CASE hot # <<>>
    <3> DEFINE Drop == {i \in Parsed : hot[i].ts <= now - TrimAge}
               f == Kept(Drop)
    <3>1. Drop \in SUBSET Parsed
      OBVIOUS
    <3>2. hot' = HardCap(f)
      BY <2>3 DEF Trim, Replace, TrimmedLines
    <3> HIDE DEF Drop
    <3>3. f \in Seq(Segments) /\ \A i \in 1 .. Len(f) : i = Len(f) => f[i].kind # "torn"
      BY <2>1, <3>1, KeptIs
    <3> HIDE DEF f
    <3>4. QED BY <3>2, <3>3, CapIs
  <2>4. QED BY <2>2, <2>3
<1>2. QED BY <1>1, StoreInvHolds, PTL
=============================================================================
