---------------------------- MODULE CaptureProofs ----------------------------
(* Theorems about Capture for every set of connections, every capacity of   *)
(* the channels and every number of packets: where a packet and a hello can  *)
(* be, in which order the packets are queued, and that the drops that are    *)
(* reported never exceed the drops there were.                               *)
EXTENDS Capture, FiniteSetTheorems, SequenceTheorems, TLAPS

(* What was counted is no more than the kernel's counter was at the last
   sample, of which lastDrops knows the rest modulo Wrap only. *)
DropsInv ==
  /\ drops \in Nat /\ counted \in Nat /\ lastDrops \in 0 .. Wrap - 1
  /\ counted <= drops
  /\ counted <= Wrap * (drops \div Wrap) + lastDrops

(* What the proof needs of the division of a count by the modulus of the counter. *)
LEMMA Division ==
  ASSUME NEW n \in Nat
  PROVE  /\ n % Wrap \in 0 .. Wrap - 1
         /\ n = Wrap * (n \div Wrap) + (n % Wrap)
         /\ n \div Wrap \in Nat
         /\ Wrap \in Nat /\ Wrap > 0
<1>1. Wrap \in Nat /\ Wrap > 0
  BY CaptureParameters
<1>2. QED BY <1>1

(* One more drop never makes the counter wrap fewer times. *)
LEMMA DivisionGrows ==
  ASSUME NEW n \in Nat
  PROVE  Wrap * (n \div Wrap) <= Wrap * ((n + 1) \div Wrap)
<1>1. /\ n \div Wrap \in Nat /\ (n + 1) \div Wrap \in Nat
      /\ Wrap \in Nat /\ Wrap > 0
  <2>1. n + 1 \in Nat
    OBVIOUS
  <2>2. QED BY <2>1, Division
<1>2. n \div Wrap <= (n + 1) \div Wrap
  BY <1>1
<1>3. \A x, y \in Nat : x <= y => Wrap * x <= Wrap * y
  BY <1>1
<1>4. QED BY <1>1, <1>2, <1>3

(* Only a drop of the kernel and a sample that is read change the counters; a
   sample adds what the counter of libpcap grew by since the last one. *)
LEMMA StepDrops == DropsInv /\ [Next]_vars => DropsInv'
<1> SUFFICES ASSUME DropsInv, [Next]_vars PROVE DropsInv'
  OBVIOUS
<1>1. /\ drops \in Nat /\ counted \in Nat /\ lastDrops \in 0 .. Wrap - 1
      /\ counted <= drops
      /\ counted <= Wrap * (drops \div Wrap) + lastDrops
      /\ drops \div Wrap \in Nat /\ Wrap \in Nat
      /\ Wrap * (drops \div Wrap) \in Nat
  <2>1. drops \div Wrap \in Nat /\ Wrap \in Nat
    BY Division DEF DropsInv
  <2>2. Wrap * (drops \div Wrap) \in Nat
    BY <2>1
  <2>3. QED BY <2>1, <2>2 DEF DropsInv
<1>2. CASE UNCHANGED counters
  BY <1>2 DEF counters, DropsInv
<1>3. CASE KernelDrops
  <2>1. drops' = drops + 1 /\ counted' = counted /\ lastDrops' = lastDrops
    BY <1>3 DEF KernelDrops
  <2>2. /\ Wrap * (drops \div Wrap) <= Wrap * (drops' \div Wrap)
        /\ drops' \div Wrap \in Nat /\ Wrap * (drops' \div Wrap) \in Nat
    BY <1>1, <2>1, Division, DivisionGrows
  <2>3. QED BY <1>1, <2>1, <2>2 DEF DropsInv
<1>4. CASE TakeStats
  <2> DEFINE current == drops % Wrap
  <2>1. /\ drops' = drops
        /\ \/ /\ counted' = IF current > lastDrops THEN counted + (current - lastDrops) ELSE counted
              /\ lastDrops' = current
           \/ counted' = counted /\ lastDrops' = lastDrops
    BY <1>4 DEF TakeStats
  <2>2. current \in 0 .. Wrap - 1 /\ drops = Wrap * (drops \div Wrap) + current
    BY <1>1, Division
  <2> HIDE DEF current
  <2>3. QED BY <1>1, <2>1, <2>2 DEF DropsInv
<1>5. CASE Cancel \/ Tick \/ Receive
  BY <1>2, <1>5 DEF Cancel, Tick, Receive, counters
<1>6. CASE CapturePackets \/ ReadFile \/ Forward \/ SeeDone \/ TakeFlush \/ NoneReady
  BY <1>2, <1>6 DEF CapturePackets, ReadFile, Forward, SeeDone, TakeFlush, NoneReady, Finish, counters
<1>7. ASSUME NEW p \in Packets, ReadPacket(p) PROVE DropsInv'
  BY <1>2, <1>7 DEF ReadPacket
<1>8. CASE EndOfFile \/ ReadFails \/ Send \/ GiveUpSend \/ Return
  BY <1>2, <1>8 DEF EndOfFile, ReadFails, Send, GiveUpSend, Return, Finish, TryAgain, counters
<1>9. CASE UNCHANGED vars
  BY <1>2, <1>9 DEF vars
<1>10. QED
  BY <1>3, <1>4, <1>5, <1>6, <1>7, <1>8, <1>9 DEF Next, DrainPacketSource

(* However many samples fail, and however often the counter of libpcap wraps
   between two of them, no drop is reported that did not happen
   (capture.go:188-206). *)
THEOREM DropsNotOvercountedHolds == Spec => []DropsNotOvercounted
<1>1. Init => DropsInv
  <2> SUFFICES ASSUME Init PROVE DropsInv
    OBVIOUS
  <2>1. drops = 0 /\ counted = 0 /\ lastDrops = 0
    BY DEF Init
  <2>2. /\ 0 % Wrap \in 0 .. Wrap - 1 /\ 0 \div Wrap \in Nat /\ Wrap \in Nat /\ Wrap > 0
    BY Division
  <2>3. Wrap * (0 \div Wrap) \in Nat
    BY <2>2
  <2>4. QED BY <2>1, <2>2, <2>3 DEF DropsInv
<1>2. DropsInv => DropsNotOvercounted
  BY DEF DropsInv, DropsNotOvercounted
<1>3. QED BY StepDrops, <1>1, <1>2, PTL DEF Spec

----------------------------------------------------------------------------
(* Counting the packets at the head of a channel. *)
PacketsIn(s, n) == Cardinality({i \in 1 .. n : s[i] # Hello})

LEMMA CountBounds ==
  ASSUME NEW s, NEW n \in Nat
  PROVE  PacketsIn(s, n) \in 0 .. n
<1>1. IsFiniteSet(1 .. n) /\ Cardinality(1 .. n) = n
  BY FS_Interval
<1>2. {i \in 1 .. n : s[i] # Hello} \in SUBSET (1 .. n)
  OBVIOUS
<1>3. QED
  BY <1>1, <1>2, FS_Subset, FS_CardinalityType DEF PacketsIn

(* An event at the end of a channel is counted last. *)
LEMMA CountAppend ==
  ASSUME NEW S, NEW s \in Seq(S), NEW e \in S
  PROVE  /\ \A n \in 0 .. Len(s) : PacketsIn(Append(s, e), n) = PacketsIn(s, n)
         /\ PacketsIn(Append(s, e), Len(s) + 1) =
              PacketsIn(s, Len(s)) + (IF e = Hello THEN 0 ELSE 1)
<1> DEFINE t == Append(s, e)
           P(n) == {i \in 1 .. n : s[i] # Hello}
<1>1. /\ Len(s) \in Nat
      /\ \A i \in 1 .. Len(s) : t[i] = s[i]
      /\ t[Len(s) + 1] = e
  OBVIOUS
<1> HIDE DEF t
<1>2. \A n \in 0 .. Len(s) : {i \in 1 .. n : t[i] # Hello} = P(n)
  BY <1>1
<1>3. {i \in 1 .. Len(s) + 1 : t[i] # Hello} =
        IF e = Hello THEN P(Len(s)) ELSE P(Len(s)) \union {Len(s) + 1}
  BY <1>1
<1>4. IsFiniteSet(P(Len(s))) /\ Len(s) + 1 \notin P(Len(s))
  <2>1. IsFiniteSet(1 .. Len(s))
    BY <1>1, FS_Interval
  <2>2. P(Len(s)) \in SUBSET (1 .. Len(s))
    OBVIOUS
  <2>3. QED BY <1>1, <2>1, <2>2, FS_Subset
<1>5. /\ Cardinality(P(Len(s))) \in Nat
      /\ Cardinality(P(Len(s)) \union {Len(s) + 1}) = Cardinality(P(Len(s))) + 1
  BY <1>4, FS_AddElement, FS_CardinalityType
<1>6. /\ \A n \in 0 .. Len(s) : PacketsIn(t, n) = PacketsIn(s, n)
      /\ PacketsIn(t, Len(s) + 1) = PacketsIn(s, Len(s)) + (IF e = Hello THEN 0 ELSE 1)
  <2>1. ASSUME NEW n \in 0 .. Len(s) PROVE PacketsIn(t, n) = PacketsIn(s, n)
    <3>1. {i \in 1 .. n : t[i] # Hello} = {i \in 1 .. n : s[i] # Hello}
      BY <1>2
    <3>2. QED BY <3>1 DEF PacketsIn
  <2>2. PacketsIn(s, Len(s)) = Cardinality(P(Len(s)))
    BY DEF PacketsIn
  <2>3. PacketsIn(t, Len(s) + 1) =
          Cardinality(IF e = Hello THEN P(Len(s)) ELSE P(Len(s)) \union {Len(s) + 1})
    BY <1>3 DEF PacketsIn
  <2> HIDE DEF P
  <2>4. CASE e = Hello
    BY <1>5, <2>1, <2>2, <2>3, <2>4
  <2>5. CASE e # Hello
    BY <1>5, <2>1, <2>2, <2>3, <2>5
  <2>6. QED BY <2>4, <2>5
<1>7. QED BY <1>6 DEF t

(* The event at the head of a channel is counted first. *)
LEMMA CountTail ==
  ASSUME NEW S, NEW s \in Seq(S), s # <<>>, NEW n \in 0 .. Len(s) - 1
  PROVE  PacketsIn(s, n + 1) = PacketsIn(Tail(s), n) + (IF Head(s) = Hello THEN 0 ELSE 1)
<1> DEFINE t == Tail(s)
           A == {i \in 1 .. n : t[i] # Hello}
           B == {i \in 2 .. n + 1 : s[i] # Hello}
<1>1. /\ Len(s) \in Nat /\ n \in Nat /\ Len(t) = Len(s) - 1
      /\ \A i \in 1 .. Len(s) - 1 : t[i] = s[i + 1]
      /\ Head(s) = s[1]
  BY HeadTailProperties
<1> HIDE DEF t
<1>2. IsFiniteSet(A) /\ IsFiniteSet(B)
  <2>1. IsFiniteSet(1 .. n) /\ IsFiniteSet(2 .. n + 1)
    BY <1>1, FS_Interval
  <2>2. A \in SUBSET (1 .. n) /\ B \in SUBSET (2 .. n + 1)
    OBVIOUS
  <2>3. QED BY <2>1, <2>2, FS_Subset
<1>3. ExistsBijection(A, B)
  <2> DEFINE f == [i \in A |-> i + 1]
  <2>1. f \in [A -> B]
    BY <1>1
  <2>2. \A i, j \in A : f[i] = f[j] => i = j
    BY <1>1
  <2>3. \A j \in B : \E i \in A : f[i] = j
    <3> SUFFICES ASSUME NEW j \in B PROVE \E i \in A : f[i] = j
      OBVIOUS
    <3>1. j - 1 \in A /\ f[j - 1] = j
      BY <1>1
    <3>2. QED BY <3>1
  <2>4. f \in Bijection(A, B)
    BY <2>1, <2>2, <2>3 DEF Bijection, Injection, IsInjective, Surjection
  <2>5. QED BY <2>4 DEF ExistsBijection
<1>4. Cardinality(B) = Cardinality(A) /\ Cardinality(A) \in Nat
  BY <1>2, <1>3, FS_Bijection, FS_CardinalityType
<1>5. {i \in 1 .. n + 1 : s[i] # Hello} = IF Head(s) = Hello THEN B ELSE B \union {1}
  BY <1>1
<1>6. 1 \notin B
  OBVIOUS
<1>7. Cardinality(B \union {1}) = Cardinality(B) + 1
  BY <1>2, <1>6, FS_AddElement
<1>8. PacketsIn(s, n + 1) = PacketsIn(t, n) + (IF Head(s) = Hello THEN 0 ELSE 1)
  <2>1. PacketsIn(s, n + 1) = Cardinality(IF Head(s) = Hello THEN B ELSE B \union {1})
    BY <1>5 DEF PacketsIn
  <2>2. PacketsIn(t, n) = Cardinality(A)
    BY DEF PacketsIn
  <2> HIDE DEF A, B
  <2>3. CASE Head(s) = Hello
    BY <1>4, <2>1, <2>2, <2>3
  <2>4. CASE Head(s) # Hello
    BY <1>4, <1>7, <2>1, <2>2, <2>4
  <2>5. QED BY <2>3, <2>4
<1>9. QED BY <1>8 DEF t

----------------------------------------------------------------------------
(* The inductive invariant, in four parts: the values of the variables, ... *)
Event == [kind : {"packet"}, number : Nat] \union {Hello}
Streams == [got : SUBSET Nat, done : BOOLEAN]

TypeInv ==
  /\ offline \in BOOLEAN /\ cancelled \in BOOLEAN /\ closed \in BOOLEAN
  /\ statsTick \in BOOLEAN /\ flushTick \in BOOLEAN /\ stuck \in BOOLEAN
  /\ source \in {"none", "open", "closed"}
  /\ pc \in {"open", "failed", "forward", "select", "read", "send", "return", "ended"}
  /\ packet = None \/ (decoded > 0 /\ packet = [kind |-> "packet", number |-> decoded])
  /\ stream \in [Conns -> Streams]
  /\ \A c \in Conns : stream[c].got \subseteq SYN .. HelloLen[c]
  /\ reads \in Nat /\ decoded \in Nat /\ decoded <= reads

(* ... the channels and what has been counted of them, ... *)
QueueInv ==
  /\ sniCh \in Seq({Hello}) /\ Len(sniCh) <= SniCap
  /\ ch \in Seq(Event) /\ Len(ch) <= Capacity
  /\ hellos \in Nat /\ refused \in Nat /\ unread \in Nat
  /\ received \in [packets : Nat, hellos : Nat]

(* ... where the loop can go from each of its places, ... *)
ControlInv ==
  /\ after \in {"select", "read", "return", "ended"}
  /\ pc \in {"open", "failed", "select", "read", "send"} => after \in {"select", "read"}
  /\ pc = "forward" => after \in {"select", "read", "return"}
  /\ pc \in {"return", "ended"} => after = pc /\ sniCh = <<>>
  /\ pc = "send" <=> packet # None
  /\ closed <=> pc = "ended"

(* ... and where the packets are, and the hellos. *)
Missing == decoded - (received.packets + PacketsIn(ch, Len(ch)) + Held)
PacketInv ==
  /\ Missing = 0 \/ (Missing = 1 /\ cancelled /\ after \in {"return", "ended"})
  /\ \A i \in 1 .. Len(ch) : ch[i] # Hello => ch[i].number = received.packets + PacketsIn(ch, i)
HelloInv == hellos = received.hellos + refused + unread + Len(sniCh) + (Len(ch) - PacketsIn(ch, Len(ch)))

CaptureInv == TypeInv /\ QueueInv /\ ControlInv /\ PacketInv /\ HelloInv

LEMMA CapacityBounds == Capacity \in Nat \ {0} /\ Capacity \in MinBuf .. MaxBuf
  BY CaptureParameters DEF Capacity

(* What is emitted is in the reassembler's channel, was refused by it, or made no
   event; and what was refused left the channel full. *)
SniInv == sniCh \in Seq({Hello}) /\ Len(sniCh) <= SniCap
StreamInv ==
  /\ stream \in [Conns -> Streams]
  /\ \A c \in Conns : stream[c].got \subseteq SYN .. HelloLen[c]

EmitsWell ==
  /\ SniInv'
  /\ hellos' \in Nat /\ refused' \in Nat /\ unread' \in Nat
  /\ hellos' - hellos = (refused' - refused) + (unread' - unread) + (Len(sniCh') - Len(sniCh))
  /\ refused' # refused => Len(sniCh') = SniCap

Silent == {c \in Conns : ~Named(c) /\ stream'[c] # stream[c]}

LEMMA EmitsCounts ==
  ASSUME NEW cs \in SUBSET Conns, QueueInv, Emits(cs)
  PROVE  EmitsWell /\ unread' - unread = Cardinality({c \in cs : ~Named(c)})
<1> DEFINE named == {c \in cs : Named(c)}
           silent == {c \in cs : ~Named(c)}
           all == Cardinality(cs)
           room == SniCap - Len(sniCh)
           n == Cardinality(named)
           m == Cardinality(silent)
           sent == IF n <= room THEN n ELSE room
           new == [i \in 1 .. sent |-> Hello]
           waited == Len(sniCh)
<1>1. /\ SniCap \in Nat
      /\ sniCh \in Seq({Hello}) /\ waited \in Nat /\ waited <= SniCap
      /\ hellos \in Nat /\ refused \in Nat /\ unread \in Nat
  BY CaptureParameters, LenProperties DEF QueueInv
<1>2. n \in Nat /\ m \in Nat /\ all = n + m
  <2>1. IsFiniteSet(cs) /\ IsFiniteSet(named) /\ IsFiniteSet(silent)
    BY CaptureParameters, FS_Subset
  <2>2. named \cap silent = {} /\ named \union silent = cs
    OBVIOUS
  <2>3. all = n + m - Cardinality({})
    BY <2>1, <2>2, FS_Union
  <2>4. n \in Nat /\ m \in Nat /\ Cardinality({}) = 0
    BY <2>1, FS_CardinalityType, FS_EmptySet
  <2> HIDE DEF all, n, m
  <2>5. QED BY <2>3, <2>4
<1>3. /\ sniCh' = sniCh \o new /\ hellos' = hellos + all /\ refused' = refused + (n - sent)
      /\ unread' = unread + m
  <2>1. cs \ named = silent
    OBVIOUS
  <2>2. QED BY <2>1 DEF Emits
<1> HIDE DEF n, m, all
<1>4. sent \in Nat /\ sent <= n /\ sent <= room /\ (sent # n => sent = room)
  BY <1>1, <1>2
<1> HIDE DEF sent
<1>5. new \in Seq({Hello}) /\ Len(new) = sent
  BY <1>4
<1> HIDE DEF new
<1>6. sniCh' \in Seq({Hello}) /\ Len(sniCh') = waited + sent
  <2>1. sniCh \o new \in Seq({Hello}) /\ Len(sniCh \o new) = Len(sniCh) + Len(new)
    BY <1>1, <1>5, ConcatProperties
  <2>2. QED BY <1>3, <1>5, <2>1
<1> HIDE DEF waited
<1>7. room = SniCap - waited
  BY DEF waited
<1> HIDE DEF room
<1>8. waited + sent <= SniCap /\ (sent # n => waited + sent = SniCap)
  BY <1>1, <1>2, <1>4, <1>7
<1>9. SniInv'
  BY <1>6, <1>8 DEF SniInv
<1>10. hellos' \in Nat /\ refused' \in Nat /\ unread' \in Nat /\ unread' - unread = m
  BY <1>1, <1>2, <1>3, <1>4
<1>11. hellos' - hellos = (refused' - refused) + (unread' - unread) + ((waited + sent) - waited)
  BY <1>1, <1>2, <1>3, <1>4
<1>12. refused' # refused => sent # n
  BY <1>1, <1>2, <1>3, <1>4
<1>13. EmitsWell
  BY <1>6, <1>8, <1>9, <1>10, <1>11, <1>12 DEF EmitsWell, waited
<1>14. QED BY <1>10, <1>13 DEF m

(* A flush moves the streams it closes, and makes no event of those it finds
   whole but without a name. *)
LEMMA FlushCounts ==
  ASSUME NEW cs \in SUBSET Conns, StreamInv, QueueInv, Flush(cs)
  PROVE  EmitsWell /\ StreamInv' /\ unread' - unread <= Cardinality(Silent)
<1> DEFINE done == {c \in cs : ~stream[c].done /\ SYN \notin stream[c].got
                                 /\ 1 .. HelloLen[c] \subseteq stream[c].got}
           silent == {c \in done : ~Named(c)}
<1>1. done \in SUBSET Conns /\ Emits(done)
  BY DEF Flush
<1>2. stream' = [c \in Conns |-> IF c \in cs THEN NewStream ELSE stream[c]]
  BY DEF Flush
<1>3. StreamInv'
  BY <1>2 DEF StreamInv, NewStream, Streams
<1>4. silent \in SUBSET Silent
  <2> SUFFICES ASSUME NEW c \in silent PROVE c \in Silent
    OBVIOUS
  <2>1. c \in Conns /\ c \in cs /\ ~Named(c) /\ 1 .. HelloLen[c] \subseteq stream[c].got
    OBVIOUS
  <2>2. 1 \in stream[c].got
    <3>1. HelloLen[c] \in Nat \ {0}
      BY <2>1, CaptureParameters
    <3>2. 1 \in 1 .. HelloLen[c]
      BY <3>1
    <3>3. QED BY <2>1, <3>2
  <2>3. stream'[c].got = {}
    BY <1>2, <2>1 DEF NewStream
  <2>4. QED BY <2>1, <2>2, <2>3 DEF Silent
<1>5. Cardinality(silent) <= Cardinality(Silent)
  <2>1. IsFiniteSet(Silent)
    BY CaptureParameters, FS_Subset DEF Silent
  <2>2. QED BY <1>4, <2>1, FS_Subset
<1> HIDE DEF done
<1>6. EmitsWell /\ unread' - unread = Cardinality(silent)
  BY <1>1, EmitsCounts
<1>7. QED BY <1>3, <1>5, <1>6

LEMMA AddCounts ==
  ASSUME NEW c \in Conns, NEW s \in SYN .. HelloLen[c], StreamInv, QueueInv, Add(c, s)
  PROVE  EmitsWell /\ StreamInv' /\ unread' - unread <= Cardinality(Silent)
<1> DEFINE got == stream[c].got \union {s}
           complete == ~stream[c].done /\ s \notin stream[c].got /\ SYN .. HelloLen[c] \subseteq got
           cs == IF complete THEN {c} ELSE {}
           new == [got |-> got, done |-> stream[c].done \/ (complete /\ Named(c))]
           silent == {x \in cs : ~Named(x)}
<1>1. stream' = [stream EXCEPT ![c] = new] /\ cs \in SUBSET Conns /\ Emits(cs)
  BY DEF Add
<1>2. s \in Nat
  BY CaptureParameters DEF SYN
<1>3. /\ stream \in [Conns -> Streams]
      /\ \A x \in Conns : stream[x].got \subseteq SYN .. HelloLen[x]
  BY DEF StreamInv
<1>4. got \in SUBSET Nat /\ got \subseteq SYN .. HelloLen[c]
  BY <1>2, <1>3 DEF Streams
<1>5. (stream[c].done \/ (complete /\ Named(c))) \in BOOLEAN
  OBVIOUS
<1>6. new \in Streams /\ new.got = got
  <2> HIDE DEF got, complete
  <2>1. QED BY <1>4, <1>5 DEF Streams
<1>7. silent \in SUBSET Silent
  <2> SUFFICES ASSUME NEW x \in silent PROVE x \in Silent
    OBVIOUS
  <2>1. x = c /\ ~Named(c) /\ s \notin stream[c].got /\ s \in got
    OBVIOUS
  <2>2. stream'[c].got = got
    <3> HIDE DEF got, new
    <3>1. QED BY <1>1, <1>3, <1>6
  <2>3. stream'[c] # stream[c]
    <3> HIDE DEF got
    <3>1. QED BY <2>1, <2>2
  <2>4. QED BY <2>1, <2>3 DEF Silent
<1>8. Cardinality(silent) <= Cardinality(Silent)
  <2>1. IsFiniteSet(Silent)
    BY CaptureParameters, FS_Subset DEF Silent
  <2>2. QED BY <1>7, <2>1, FS_Subset
<1>9. StreamInv'
  <2> HIDE DEF got, new
  <2>1. QED BY <1>1, <1>3, <1>4, <1>6 DEF StreamInv
<1> HIDE DEF cs
<1>10. EmitsWell /\ unread' - unread = Cardinality(silent)
  BY <1>1, EmitsCounts
<1>11. QED BY <1>8, <1>9, <1>10

LEMMA QueueNumbers ==
  ASSUME QueueInv, TypeInv
  PROVE  /\ Len(sniCh) \in Nat /\ Len(ch) \in Nat /\ PacketsIn(ch, Len(ch)) \in Nat
         /\ decoded \in Nat /\ hellos \in Nat /\ refused \in Nat /\ unread \in Nat
         /\ received.packets \in Nat /\ received.hellos \in Nat
         /\ Held \in {0, 1}
<1>1. /\ ch \in Seq(Event) /\ sniCh \in Seq({Hello}) /\ decoded \in Nat
      /\ hellos \in Nat /\ refused \in Nat /\ unread \in Nat
      /\ received.packets \in Nat /\ received.hellos \in Nat
  BY DEF QueueInv, TypeInv
<1>2. Len(sniCh) \in Nat /\ Len(ch) \in Nat
  BY <1>1, LenProperties
<1>3. Held \in {0, 1}
  BY DEF Held
<1>4. QED BY <1>1, <1>2, <1>3, CountBounds

LEMMA EmitKeepsHellos ==
  ASSUME CaptureInv, ch' = ch, received' = received, EmitsWell
  PROVE  HelloInv'
<1> DEFINE queued == PacketsIn(ch, Len(ch))
           heard == received.hellos
           waited == Len(sniCh)
           waits == Len(sniCh')
           inCh == Len(ch)
           made == hellos'
           lost == refused'
           mute == unread'
<1>1. /\ waited \in Nat /\ waits \in Nat /\ inCh \in Nat /\ queued \in Nat /\ heard \in Nat
      /\ hellos \in Nat /\ refused \in Nat /\ unread \in Nat
      /\ made \in Nat /\ lost \in Nat /\ mute \in Nat
      /\ made - hellos = (lost - refused) + (mute - unread) + (waits - waited)
      /\ hellos = heard + refused + unread + waited + (inCh - queued)
  BY QueueNumbers, LenProperties DEF CaptureInv, HelloInv, EmitsWell, SniInv
<1>2. made = heard + lost + mute + waits + (inCh - queued)
  <2> HIDE DEF queued, heard, waited, waits, inCh, made, lost, mute
  <2>1. QED BY <1>1
<1>3. QED BY <1>2 DEF HelloInv, PacketsIn

(* Every way out of the loop: the packet being sent, if there is one, is lost. *)
LEMMA FinishKeeps ==
  ASSUME CaptureInv, Finish, pc \in {"select", "read", "send"},
         pc = "send" => cancelled
  PROVE  CaptureInv'
<1>1. EmitsWell /\ StreamInv'
  <2>1. Conns \in SUBSET Conns /\ Flush(Conns) /\ StreamInv /\ QueueInv
    BY DEF Finish, CaptureInv, TypeInv, StreamInv
  <2>2. QED BY <2>1, FlushCounts
<1>2. /\ packet' = None /\ pc' = "forward" /\ after' = "return"
      /\ UNCHANGED <<offline, cancelled, source, closed, ch, counters, tickers, input, received>>
  BY DEF Finish, GoTo
<1>3. TypeInv'
  BY <1>1, <1>2 DEF CaptureInv, TypeInv, StreamInv, tickers, input
<1>4. QueueInv'
  BY <1>1, <1>2 DEF CaptureInv, QueueInv, EmitsWell, SniInv, Capacity
<1>5. ControlInv'
  BY <1>2 DEF CaptureInv, ControlInv
<1>6. PacketInv'
  <2> DEFINE queued == PacketsIn(ch, Len(ch))
             taken == received.packets
  <2>1. queued \in Nat /\ taken \in Nat /\ decoded \in Nat
    BY QueueNumbers DEF CaptureInv
  <2>2. /\ ch' = ch /\ received' = received /\ decoded' = decoded /\ cancelled' = cancelled
        /\ Held' = 0 /\ after' = "return"
    BY <1>2 DEF Held, input
  <2>3. Missing = 0 /\ Held \in {0, 1} /\ (Held = 1 => cancelled)
    BY DEF CaptureInv, ControlInv, PacketInv, Held
  <2>4. Missing = decoded - (taken + queued + Held)
    BY DEF Missing
  <2>5. Missing' = decoded - (taken + queued + 0)
    BY <2>2 DEF Missing, PacketsIn
  <2>6. Missing' = 0 \/ (Missing' = 1 /\ cancelled' /\ after' \in {"return", "ended"})
    <3> HIDE DEF queued, taken
    <3>1. Missing' = Missing + Held
      BY <2>1, <2>3, <2>4, <2>5
    <3>2. QED BY <2>2, <2>3, <3>1
  <2>7. QED
    BY <2>2, <2>6 DEF PacketInv, PacketsIn, CaptureInv
<1>7. HelloInv'
  BY <1>1, <1>2, EmitKeepsHellos
<1>8. QED BY <1>3, <1>4, <1>5, <1>6, <1>7 DEF CaptureInv

(* A step that leaves the packets where they are. *)
LEMMA StillPackets ==
  ASSUME CaptureInv, UNCHANGED <<ch, received, decoded, packet>>, cancelled => cancelled',
         after \in {"return", "ended"} => after' \in {"return", "ended"}
  PROVE  PacketInv'
<1>1. Missing' = Missing
  BY DEF Missing, PacketsIn, Held
<1>2. QED BY <1>1 DEF CaptureInv, PacketInv, PacketsIn

LEMMA StillHellos ==
  ASSUME CaptureInv, UNCHANGED <<ch, received, sniCh, history>>
  PROVE  HelloInv'
  BY DEF CaptureInv, HelloInv, PacketsIn, history

(* The steps outside the loop, and those of the loop that move no event. *)
LEMMA QuietSteps ==
  ASSUME CaptureInv,
         \/ Cancel \/ Tick \/ KernelDrops \/ CapturePackets \/ ReadFile
         \/ TakeStats \/ NoneReady \/ Return \/ UNCHANGED vars
         \/ pc = "read" /\ TryAgain /\ reads' \in {reads, reads + 1} /\ stuck' \in BOOLEAN
  PROVE  CaptureInv'
<1>1. /\ UNCHANGED <<offline, packet, stream, sniCh, ch, received, decoded, hellos, refused, unread>>
      /\ reads' \in {reads, reads + 1} /\ stuck' \in BOOLEAN
      /\ cancelled' \in BOOLEAN /\ (cancelled => cancelled')
      /\ statsTick' \in BOOLEAN /\ flushTick' \in BOOLEAN
  BY DEF CaptureInv, TypeInv, Cancel, Tick, KernelDrops, CapturePackets, ReadFile, Started, TakeStats,
         NoneReady, Return, TryAgain, Loop, GoTo, vars, reader, queues, history, counters, tickers, input
<1>2. TypeInv' /\ ControlInv'
  <2>1. CASE Cancel \/ Tick \/ KernelDrops \/ UNCHANGED vars
    <3>1. UNCHANGED <<source, pc, after, closed>>
      BY <2>1 DEF Cancel, Tick, KernelDrops, vars, reader
    <3>2. QED BY <1>1, <3>1 DEF CaptureInv, TypeInv, ControlInv
  <2>2. CASE CapturePackets \/ ReadFile
    <3>1. /\ pc = "open" /\ pc' \in {"forward", "failed"} /\ after' = after /\ closed' = closed
          /\ source' \in {"none", "open", "closed"}
      BY <2>2 DEF CapturePackets, ReadFile, Started
    <3>2. QED BY <1>1, <3>1 DEF CaptureInv, TypeInv, ControlInv
  <2>3. CASE TakeStats \/ NoneReady
    <3>1. /\ pc = "select" /\ pc' = "read" /\ after' = after
          /\ UNCHANGED <<source, closed>>
      BY <2>3 DEF TakeStats, NoneReady, GoTo
    <3>2. QED BY <1>1, <3>1 DEF CaptureInv, TypeInv, ControlInv
  <2>4. CASE Return
    <3>1. /\ pc = "return" /\ pc' = "ended" /\ after' = "ended"
          /\ source' = "closed" /\ closed' = TRUE
      BY <2>4 DEF Return, GoTo
    <3>2. QED BY <1>1, <3>1 DEF CaptureInv, TypeInv, ControlInv
  <2>5. CASE pc = "read" /\ TryAgain
    <3>1. /\ pc = "read" /\ pc' = "forward" /\ after' = "select"
          /\ UNCHANGED <<source, closed>>
      BY <2>5 DEF TryAgain, Loop, GoTo
    <3>2. QED BY <1>1, <3>1 DEF CaptureInv, TypeInv, ControlInv
  <2>6. QED BY <2>1, <2>2, <2>3, <2>4, <2>5
<1>3. QueueInv'
  BY <1>1 DEF CaptureInv, QueueInv, Capacity
<1>4. PacketInv'
  <2>1. after \in {"return", "ended"} => after' \in {"return", "ended"}
    BY DEF CaptureInv, ControlInv, Cancel, Tick, KernelDrops, CapturePackets, ReadFile, TakeStats,
           NoneReady, Return, TryAgain, Loop, GoTo, vars, reader
  <2>2. QED BY <1>1, <2>1, StillPackets
<1>5. HelloInv'
  BY <1>1, StillHellos DEF history
<1>6. QED BY <1>2, <1>3, <1>4, <1>5 DEF CaptureInv

(* The steps that only the reassembler sees. *)
LEMMA TakeFlushKeeps ==
  ASSUME CaptureInv, TakeFlush
  PROVE  CaptureInv'
<1>1. PICK idle \in SUBSET Conns : Flush(idle)
  BY DEF TakeFlush
<1>2. /\ pc = "select" /\ pc' = "forward" /\ after' = "read" /\ flushTick' = FALSE
      /\ UNCHANGED <<offline, cancelled, source, packet, closed, ch, counters, statsTick,
                     ticks, reads, decoded, stuck, received>>
  BY DEF TakeFlush, GoTo, input
<1>3. TypeInv /\ QueueInv /\ ControlInv
  BY DEF CaptureInv
<1>4. EmitsWell /\ StreamInv'
  BY <1>1, <1>3, FlushCounts DEF TypeInv, StreamInv
<1>5. TypeInv'
  BY <1>2, <1>3, <1>4 DEF TypeInv, StreamInv
<1>6. QueueInv'
  BY <1>2, <1>3, <1>4 DEF QueueInv, EmitsWell, SniInv, Capacity
<1>7. ControlInv'
  BY <1>2, <1>3 DEF ControlInv
<1>8. PacketInv'
  BY <1>2, <1>3, StillPackets DEF ControlInv
<1>9. HelloInv'
  BY <1>2, <1>4, EmitKeepsHellos
<1>10. QED BY <1>5, <1>6, <1>7, <1>8, <1>9 DEF CaptureInv

(* A packet that can be decoded is in the sender's hands. *)
LEMMA ReadPacketKeeps ==
  ASSUME CaptureInv, NEW p \in Packets, p.kind = "tcp", ReadPacket(p)
  PROVE  CaptureInv'
<1>1. TypeInv /\ QueueInv /\ ControlInv
  BY DEF CaptureInv
<1>2. p.conn \in Conns /\ p.seg \in SYN .. HelloLen[p.conn]
  BY DEF Packets, Segments
<1>3. /\ pc = "read" /\ reads' = reads + 1 /\ Add(p.conn, p.seg) /\ decoded' = decoded + 1
      /\ packet' = [kind |-> "packet", number |-> decoded + 1]
      /\ pc' = "send" /\ after' = after
      /\ UNCHANGED <<offline, cancelled, source, closed, ch, counters, tickers, stuck, received>>
  BY DEF ReadPacket, GoTo
<1>4. EmitsWell /\ StreamInv'
  BY <1>1, <1>2, <1>3, AddCounts DEF TypeInv, StreamInv
<1>5. packet' # None /\ packet = None
  <2>1. packet' \in [kind : {"packet"}, number : Nat]
    BY <1>1, <1>3 DEF TypeInv
  <2>2. QED BY <1>1, <1>3, <2>1, CaptureParameters DEF ControlInv
<1>6. TypeInv'
  <2>1. /\ decoded' > 0 /\ packet' = [kind |-> "packet", number |-> decoded']
        /\ reads' \in Nat /\ decoded' \in Nat /\ decoded' <= reads'
    BY <1>1, <1>3 DEF TypeInv
  <2>2. QED BY <1>1, <1>3, <1>4, <2>1 DEF TypeInv, StreamInv, tickers
<1>7. QueueInv'
  BY <1>1, <1>3, <1>4 DEF QueueInv, EmitsWell, SniInv, Capacity
<1>8. ControlInv'
  BY <1>1, <1>3, <1>5 DEF ControlInv
<1>9. PacketInv'
  <2> DEFINE queued == PacketsIn(ch, Len(ch))
             taken == received.packets
  <2>1. queued \in Nat /\ taken \in Nat /\ decoded \in Nat
    BY <1>1, QueueNumbers
  <2>2. Held = 0 /\ Held' = 1
    BY <1>5 DEF Held
  <2>3. Missing = decoded - (taken + queued + 0)
    BY <2>2 DEF Missing
  <2>4. Missing' = (decoded + 1) - (taken + queued + 1)
    <3>1. PacketsIn(ch', Len(ch')) = queued /\ received'.packets = taken
      BY <1>3
    <3>2. Missing' = decoded' - (received'.packets + PacketsIn(ch', Len(ch')) + Held')
      BY DEF Missing
    <3>3. decoded' = decoded + 1 /\ Held' = 1
      BY <1>3, <2>2
    <3> HIDE DEF queued, taken
    <3>4. QED BY <3>1, <3>2, <3>3
  <2>5. Missing = 0
    BY <1>1, <1>3 DEF CaptureInv, PacketInv, ControlInv
  <2>6. Missing' = 0
    <3> HIDE DEF queued, taken
    <3>1. QED BY <2>1, <2>3, <2>4, <2>5
  <2>7. QED BY <1>3, <2>6 DEF PacketInv, CaptureInv, PacketsIn
<1>10. HelloInv'
  BY <1>3, <1>4, EmitKeepsHellos
<1>11. QED BY <1>6, <1>7, <1>8, <1>9, <1>10 DEF CaptureInv

(* It goes to the end of the channel, behind those decoded before it. *)
LEMMA SendKeeps ==
  ASSUME CaptureInv, Send
  PROVE  CaptureInv'
<1> DEFINE n == Len(ch)
           queued == PacketsIn(ch, n)
           taken == received.packets
           heard == received.hellos
           waited == Len(sniCh)
<1>1. TypeInv /\ QueueInv /\ ControlInv /\ PacketInv /\ HelloInv
  BY DEF CaptureInv
<1>2. /\ pc = "send" /\ n < Capacity /\ ch' = Append(ch, packet) /\ packet' = None
      /\ pc' = "forward" /\ after' = "select"
      /\ UNCHANGED <<offline, cancelled, source, closed, stream, sniCh, hellos, refused, unread,
                     counters, tickers, reads, decoded, stuck, received>>
  BY DEF Send, Loop, GoTo, history, input
<1>3. /\ packet = [kind |-> "packet", number |-> decoded] /\ decoded \in Nat
      /\ packet \in Event /\ packet # Hello /\ Held = 1 /\ Held' = 0
  BY <1>1, <1>2 DEF TypeInv, ControlInv, Event, Hello, Held
<1>4. /\ n \in Nat /\ queued \in Nat /\ taken \in Nat /\ heard \in Nat /\ waited \in Nat
      /\ hellos \in Nat /\ refused \in Nat /\ unread \in Nat
  BY <1>1, QueueNumbers
<1>5. /\ ch \in Seq(Event) /\ ch' \in Seq(Event) /\ Len(ch') = n + 1
      /\ \A i \in 1 .. n : ch'[i] = ch[i]
      /\ ch'[n + 1] = packet
  BY <1>1, <1>2, <1>3 DEF QueueInv
<1>6. /\ \A i \in 0 .. n : PacketsIn(ch', i) = PacketsIn(ch, i)
      /\ PacketsIn(ch', n + 1) = queued + 1
  BY <1>2, <1>3, <1>5, CountAppend
<1>7. TypeInv'
  BY <1>1, <1>2 DEF TypeInv, tickers
<1>8. QueueInv'
  <2>1. n + 1 <= Capacity
    BY <1>2, <1>4, CapacityBounds
  <2>2. QED BY <1>1, <1>2, <1>5, <2>1 DEF QueueInv, Capacity
<1>9. ControlInv'
  BY <1>1, <1>2 DEF ControlInv
<1>10. decoded = taken + queued + 1
  <2>1. Missing = 0
    BY <1>1, <1>2 DEF PacketInv, ControlInv
  <2>2. decoded - (taken + queued + 1) = 0
    BY <1>3, <2>1 DEF Missing
  <2> HIDE DEF taken, queued
  <2>3. QED BY <1>3, <1>4, <2>2
<1>11. PacketInv'
  <2>1. Missing' = decoded - (taken + (queued + 1) + 0)
    BY <1>2, <1>3, <1>5, <1>6 DEF Missing
  <2>2. Missing' = 0
    <3> HIDE DEF taken, queued
    <3>1. QED BY <1>3, <1>4, <1>10, <2>1
  <2>3. ASSUME NEW i \in 1 .. n + 1, ch'[i] # Hello
        PROVE  ch'[i].number = taken + PacketsIn(ch', i)
    <3>1. CASE i \in 1 .. n
      BY <1>1, <1>4, <1>5, <1>6, <2>3, <3>1 DEF PacketInv
    <3>2. CASE i = n + 1
      <4>1. ch'[i].number = decoded
        BY <1>3, <1>5, <3>2
      <4>2. PacketsIn(ch', i) = queued + 1
        BY <1>6, <3>2
      <4> HIDE DEF taken, queued
      <4>3. QED BY <1>3, <1>4, <1>10, <4>1, <4>2
    <3>3. QED BY <1>4, <3>1, <3>2
  <2>4. \A i \in 1 .. Len(ch') : ch'[i] # Hello => ch'[i].number = received.packets' + PacketsIn(ch', i)
    BY <1>2, <1>5, <2>3
  <2>5. QED BY <2>2, <2>4 DEF PacketInv
<1>12. HelloInv'
  <2>1. hellos = heard + refused + unread + waited + (n - queued)
    BY <1>1 DEF HelloInv
  <2>2. hellos = heard + refused + unread + waited + ((n + 1) - (queued + 1))
    <3> HIDE DEF heard, waited, n, queued
    <3>1. QED BY <1>4, <2>1
  <2>3. Len(ch') = n + 1 /\ PacketsIn(ch', Len(ch')) = queued + 1
    BY <1>5, <1>6
  <2>4. QED BY <1>2, <2>2, <2>3 DEF HelloInv
<1>13. QED BY <1>7, <1>8, <1>9, <1>11, <1>12 DEF CaptureInv

(* The consumer takes the oldest event. *)
LEMMA ReceiveKeeps ==
  ASSUME CaptureInv, Receive
  PROVE  CaptureInv'
<1> DEFINE n == Len(ch)
           queued == PacketsIn(ch, n)
           left == PacketsIn(Tail(ch), n - 1)
           taken == received.packets
           heard == received.hellos
           waited == Len(sniCh)
           one == IF Head(ch) = Hello THEN 0 ELSE 1
<1>1. TypeInv /\ QueueInv /\ ControlInv /\ PacketInv /\ HelloInv
  BY DEF CaptureInv
<1>2. /\ ch # <<>> /\ ch' = Tail(ch)
      /\ received' = IF Head(ch) = Hello THEN [received EXCEPT !.hellos = @ + 1]
                     ELSE [received EXCEPT !.packets = @ + 1]
      /\ UNCHANGED <<offline, cancelled, source, pc, after, packet, closed, stream, sniCh, hellos,
                     refused, unread, counters, tickers, reads, decoded, stuck>>
  BY DEF Receive, reader, history, input
<1>3. /\ n \in Nat /\ queued \in Nat /\ taken \in Nat /\ heard \in Nat /\ waited \in Nat
      /\ hellos \in Nat /\ refused \in Nat /\ unread \in Nat /\ decoded \in Nat /\ Held \in {0, 1}
  BY <1>1, QueueNumbers
<1>4. /\ ch \in Seq(Event) /\ n # 0
      /\ ch' \in Seq(Event) /\ Len(ch') = n - 1
      /\ \A i \in 1 .. n - 1 : ch'[i] = ch[i + 1]
  <2>1. ch \in Seq(Event)
    BY <1>1 DEF QueueInv
  <2>2. QED BY <1>2, <2>1, HeadTailProperties, EmptySeq
<1>5. ASSUME NEW i \in 0 .. n - 1 PROVE PacketsIn(ch, i + 1) = PacketsIn(ch', i) + one
  BY <1>2, <1>4, CountTail
<1>6. left \in Nat /\ queued = left + one /\ one \in {0, 1} /\ n - 1 \in Nat
  <2>1. n - 1 \in Nat /\ n - 1 \in 0 .. n - 1 /\ (n - 1) + 1 = n
    BY <1>3, <1>4
  <2>2. left \in Nat
    BY <2>1, CountBounds
  <2>3. queued = left + one
    BY <1>2, <1>5, <2>1
  <2>4. QED BY <2>1, <2>2, <2>3
<1>7. received'.packets = taken + one /\ received'.hellos = heard + (1 - one)
      /\ received' \in [packets : Nat, hellos : Nat]
  BY <1>1, <1>2, <1>3, SMTT(30) DEF QueueInv
<1>8. TypeInv'
  BY <1>1, <1>2 DEF TypeInv, tickers
<1>9. QueueInv'
  <2>1. n - 1 <= Capacity
    BY <1>1, <1>3, CapacityBounds DEF QueueInv
  <2>2. QED BY <1>1, <1>2, <1>4, <1>7, <2>1 DEF QueueInv, Capacity
<1>10. ControlInv'
  BY <1>1, <1>2 DEF ControlInv
<1>11. PacketInv'
  <2>1. Missing = decoded - (taken + queued + Held)
    BY DEF Missing
  <2>2. Missing' = decoded - ((taken + one) + left + Held)
    BY <1>2, <1>4, <1>7 DEF Missing, Held
  <2>3. Missing' = Missing
    <3> HIDE DEF taken, queued, left, one
    <3>1. QED BY <1>3, <1>6, <2>1, <2>2
  <2>4. ASSUME NEW i \in 1 .. n - 1, ch'[i] # Hello
        PROVE  ch'[i].number = (taken + one) + PacketsIn(ch', i)
    <3> DEFINE k == PacketsIn(ch', i)
    <3>1. ch'[i].number = taken + PacketsIn(ch, i + 1)
      BY <1>1, <1>3, <1>4, <2>4 DEF PacketInv
    <3>2. PacketsIn(ch, i + 1) = k + one
      BY <1>5
    <3>3. k \in Nat
      BY CountBounds
    <3> HIDE DEF k, taken, one
    <3>4. taken + (k + one) = (taken + one) + k
      BY <1>3, <1>6, <3>3
    <3>5. QED BY <3>1, <3>2, <3>4 DEF k
  <2>5. \A i \in 1 .. Len(ch') : ch'[i] # Hello => ch'[i].number = received'.packets + PacketsIn(ch', i)
    BY <1>4, <1>7, <2>4
  <2>6. QED BY <1>1, <1>2, <2>3, <2>5 DEF PacketInv
<1>12. HelloInv'
  <2>1. hellos = heard + refused + unread + waited + (n - queued)
    BY <1>1 DEF HelloInv
  <2>2. hellos = (heard + (1 - one)) + refused + unread + waited + ((n - 1) - left)
    <3> HIDE DEF heard, waited, n, queued, left, one
    <3>1. QED BY <1>3, <1>6, <2>1
  <2>3. Len(ch') = n - 1 /\ PacketsIn(ch', Len(ch')) = left
    BY <1>2, <1>4
  <2>4. QED BY <1>2, <1>7, <2>2, <2>3 DEF HelloInv
<1>13. QED BY <1>8, <1>9, <1>10, <1>11, <1>12 DEF CaptureInv

(* A hello changes its channel, or is given up. *)
LEMMA ForwardKeeps ==
  ASSUME CaptureInv, Forward
  PROVE  CaptureInv'
<1> DEFINE n == Len(ch)
           queued == PacketsIn(ch, n)
           heard == received.hellos
           waited == Len(sniCh)
<1>1. TypeInv /\ QueueInv /\ ControlInv /\ PacketInv /\ HelloInv
  BY DEF CaptureInv
<1>2. /\ pc = "forward" /\ after' = after
      /\ UNCHANGED <<offline, cancelled, source, packet, closed, stream, hellos, unread, counters,
                     tickers, reads, decoded, stuck, received>>
  BY DEF Forward, GoTo, input
<1>3. TypeInv'
  <2>1. pc' \in {"forward", after}
    BY DEF Forward, GoTo
  <2>2. QED BY <1>1, <1>2, <2>1 DEF TypeInv, ControlInv, tickers
<1>4. CASE sniCh = <<>>
  <2>1. pc' = after /\ UNCHANGED <<sniCh, ch, refused>>
    BY <1>4 DEF Forward, GoTo
  <2>2. QueueInv'
    BY <1>1, <1>2, <2>1 DEF QueueInv, Capacity
  <2>3. ControlInv'
    BY <1>1, <1>2, <1>4, <2>1 DEF ControlInv
  <2>4. PacketInv' /\ HelloInv'
    BY <1>2, <2>1, StillPackets, StillHellos DEF history
  <2>5. QED BY <1>3, <2>2, <2>3, <2>4 DEF CaptureInv
<1>5. CASE sniCh # <<>>
  <2>1. /\ sniCh' = Tail(sniCh) /\ pc' = "forward"
        /\ IF n < Capacity THEN ch' = Append(ch, Hello) /\ refused' = refused
           ELSE ch' = ch /\ refused' = refused + 1
    BY <1>5 DEF Forward, GoTo
  <2>2. /\ n \in Nat /\ queued \in Nat /\ heard \in Nat /\ waited \in Nat
        /\ hellos \in Nat /\ refused \in Nat /\ unread \in Nat
    BY <1>1, QueueNumbers
  <2>3. /\ sniCh' \in Seq({Hello}) /\ Len(sniCh') = waited - 1 /\ waited - 1 \in Nat
    <3>1. sniCh \in Seq({Hello})
      BY <1>1 DEF QueueInv
    <3>2. QED BY <1>5, <2>1, <3>1, HeadTailProperties, EmptySeq, LenProperties
  <2>4. ControlInv'
    BY <1>1, <1>2, <2>1 DEF ControlInv
  <2>5. waited - 1 <= SniCap
    BY <1>1, <2>2, CaptureParameters DEF QueueInv
  <2>6. hellos = heard + refused + unread + waited + (n - queued)
    BY <1>1 DEF HelloInv
  <2>7. CASE n < Capacity
    <3>1. /\ ch \in Seq(Event) /\ Hello \in Event
          /\ ch' = Append(ch, Hello)
      BY <1>1, <2>1, <2>7 DEF QueueInv, Event
    <3>2. /\ ch' \in Seq(Event) /\ Len(ch') = n + 1 /\ refused' = refused
          /\ \A i \in 1 .. n : ch'[i] = ch[i]
          /\ ch'[n + 1] = Hello
      BY <2>1, <2>7, <3>1
    <3>3. /\ \A i \in 0 .. n : PacketsIn(ch', i) = PacketsIn(ch, i)
          /\ PacketsIn(ch', n + 1) = queued + 0
      BY <3>1, CountAppend
    <3>4. QueueInv'
      <4>1. n + 1 <= Capacity
        BY <2>2, <2>7, CapacityBounds
      <4>2. QED BY <1>1, <1>2, <2>3, <2>5, <3>2, <4>1 DEF QueueInv, Capacity
    <3>5. PacketInv'
      <4>1. Missing' = Missing
        BY <1>2, <2>2, <3>2, <3>3 DEF Missing, Held
      <4>2. ASSUME NEW i \in 1 .. n + 1, ch'[i] # Hello
            PROVE  ch'[i].number = received.packets + PacketsIn(ch', i)
        BY <1>1, <2>2, <3>2, <3>3, <4>2 DEF PacketInv
      <4>3. \A i \in 1 .. Len(ch') : ch'[i] # Hello => ch'[i].number = received.packets' + PacketsIn(ch', i)
        BY <1>2, <3>2, <4>2
      <4>4. QED BY <1>1, <1>2, <4>1, <4>3 DEF PacketInv
    <3>6. HelloInv'
      <4>1. hellos = heard + refused + unread + (waited - 1) + ((n + 1) - queued)
        <5> HIDE DEF heard, waited, n, queued
        <5>1. QED BY <2>2, <2>6
      <4>2. PacketsIn(ch', Len(ch')) = queued
        BY <2>2, <3>2, <3>3
      <4>3. QED BY <1>2, <2>3, <3>2, <4>1, <4>2 DEF HelloInv
    <3>7. QED BY <1>3, <2>4, <3>4, <3>5, <3>6 DEF CaptureInv
  <2>8. CASE ~(n < Capacity)
    <3>1. ch' = ch /\ refused' = refused + 1
      BY <2>1, <2>8
    <3>2. QueueInv'
      BY <1>1, <1>2, <2>2, <2>3, <2>5, <3>1 DEF QueueInv, Capacity
    <3>3. PacketInv'
      BY <1>2, <3>1, StillPackets
    <3>4. HelloInv'
      <4>1. hellos = heard + (refused + 1) + unread + (waited - 1) + (n - queued)
        <5> HIDE DEF heard, waited, n, queued
        <5>1. QED BY <2>2, <2>6
      <4>2. QED BY <1>2, <2>3, <3>1, <4>1 DEF HelloInv, PacketsIn
    <3>5. QED BY <1>3, <2>4, <3>2, <3>3, <3>4 DEF CaptureInv
  <2>9. QED BY <2>7, <2>8
<1>6. QED BY <1>4, <1>5
----------------------------------------------------------------------------
LEMMA StepCapture == CaptureInv /\ [Next]_vars => CaptureInv'
<1> SUFFICES ASSUME CaptureInv, [Next]_vars PROVE CaptureInv'
  OBVIOUS
<1>1. CASE \/ Cancel \/ Tick \/ KernelDrops \/ CapturePackets \/ ReadFile
           \/ TakeStats \/ NoneReady \/ Return \/ UNCHANGED vars
  BY <1>1, QuietSteps
<1>2. CASE Receive
  BY <1>2, ReceiveKeeps
<1>3. CASE Forward
  BY <1>3, ForwardKeeps
<1>4. CASE TakeFlush
  BY <1>4, TakeFlushKeeps
<1>5. CASE Send
  BY <1>5, SendKeeps
<1>6. CASE SeeDone \/ EndOfFile \/ GiveUpSend
  <2>1. Finish /\ pc \in {"select", "read", "send"} /\ (pc = "send" => cancelled)
    BY <1>6 DEF SeeDone, EndOfFile, GiveUpSend
  <2>2. QED BY <2>1, FinishKeeps
<1>7. CASE ReadFails
  <2>1. CASE cancelled /\ Finish
    <3>1. pc = "read"
      BY <1>7 DEF ReadFails
    <3>2. QED BY <2>1, <3>1, FinishKeeps
  <2>2. CASE ~cancelled
    <3>1. pc = "read" /\ TryAgain /\ reads' \in {reads, reads + 1} /\ stuck' \in BOOLEAN
      BY <1>7, <2>2 DEF ReadFails, CaptureInv, TypeInv
    <3>2. QED BY <3>1, QuietSteps
  <2>3. QED BY <1>7, <2>1, <2>2 DEF ReadFails
<1>8. ASSUME NEW p \in Packets, ReadPacket(p) PROVE CaptureInv'
  <2>1. CASE p.kind = "tcp"
    BY <1>8, <2>1, ReadPacketKeeps
  <2>2. CASE p.kind = "undecodable"
    <3>1. pc = "read" /\ TryAgain /\ reads' \in {reads, reads + 1} /\ stuck' \in BOOLEAN
      BY <1>8, <2>2 DEF ReadPacket, TryAgain, queues, CaptureInv, TypeInv
    <3>2. QED BY <3>1, QuietSteps
  <2>3. QED BY <1>8, <2>1, <2>2 DEF ReadPacket
<1>9. QED
  BY <1>1, <1>2, <1>3, <1>4, <1>5, <1>6, <1>7, <1>8 DEF Next, DrainPacketSource

LEMMA InitCapture == Init => CaptureInv
<1> SUFFICES ASSUME Init PROVE CaptureInv
  OBVIOUS
<1>1. /\ offline \in BOOLEAN /\ cancelled = FALSE /\ source = "none" /\ closed = FALSE
      /\ pc = "open" /\ after = "select" /\ packet = None
      /\ stream = [c \in Conns |-> NewStream]
      /\ sniCh = <<>> /\ ch = <<>> /\ hellos = 0 /\ refused = 0 /\ unread = 0
      /\ statsTick = FALSE /\ flushTick = FALSE /\ stuck = FALSE
      /\ reads = 0 /\ decoded = 0
      /\ received = [packets |-> 0, hellos |-> 0]
  BY DEF Init
<1>2. TypeInv
  <2>1. NewStream \in Streams /\ NewStream.got = {}
    BY DEF NewStream, Streams
  <2>2. /\ stream \in [Conns -> Streams]
        /\ \A c \in Conns : stream[c].got \subseteq SYN .. HelloLen[c]
    BY <1>1, <2>1
  <2>3. reads \in Nat /\ decoded \in Nat /\ decoded <= reads
    BY <1>1
  <2>4. QED BY <1>1, <2>2, <2>3, Zenon DEF TypeInv
<1>3. QueueInv
  BY <1>1, CapacityBounds, CaptureParameters DEF QueueInv
<1>4. ControlInv
  BY <1>1 DEF ControlInv
<1>5. PacketsIn(ch, Len(ch)) = 0 /\ Len(ch) = 0 /\ Len(sniCh) = 0
  <2>1. Len(ch) = 0 /\ Len(sniCh) = 0
    BY <1>1
  <2>2. QED BY <2>1, CountBounds
<1>6. PacketInv
  BY <1>1, <1>5 DEF PacketInv, Missing, Held
<1>7. HelloInv
  BY <1>1, <1>5 DEF HelloInv
<1>8. QED BY <1>2, <1>3, <1>4, <1>6, <1>7 DEF CaptureInv

LEMMA CaptureInvHolds == Spec => []CaptureInv
  BY InitCapture, StepCapture, PTL DEF Spec

(* The loop, its channels and its counts stay within their types and sizes
   for every capacity and every traffic. *)
THEOREM TypeCorrect == Spec => []TypeOK
<1>1. CaptureInv => TypeOK
  <2> SUFFICES ASSUME CaptureInv PROVE TypeOK
    OBVIOUS
  <2>1. TypeInv /\ QueueInv /\ ControlInv /\ HelloInv
    BY DEF CaptureInv
  <2>2. packet = None \/ packet \in [kind : {"packet"}, number : 1 .. decoded]
    BY <2>1 DEF TypeInv
  <2>3. Len(sniCh) <= SniCap /\ Capacity \in MinBuf .. MaxBuf /\ Len(ch) <= Capacity
    BY <2>1, CapacityBounds DEF QueueInv
  <2>4. refused + unread <= hellos
    <3> DEFINE n == Len(ch)
               queued == PacketsIn(ch, n)
               heard == received.hellos
               waited == Len(sniCh)
    <3>1. /\ n \in Nat /\ queued \in 0 .. n /\ heard \in Nat /\ waited \in Nat
          /\ hellos \in Nat /\ refused \in Nat /\ unread \in Nat
      BY <2>1, QueueNumbers, CountBounds
    <3>2. hellos = heard + refused + unread + waited + (n - queued)
      BY <2>1 DEF HelloInv
    <3> HIDE DEF n, queued, heard, waited
    <3>3. QED BY <3>1, <3>2
  <2>5. \A c \in Conns : stream[c].got \subseteq SYN .. HelloLen[c] /\ stream[c].done \in BOOLEAN
    BY <2>1 DEF TypeInv, Streams
  <2>6. QED BY <2>1, <2>2, <2>3, <2>4, <2>5 DEF TypeOK, TypeInv, ControlInv
<1>2. QED BY CaptureInvHolds, <1>1, PTL

(* Every packet that could be decoded is with the consumer, in the channel, in
   order, or being sent, for any number of packets and any capacity; only a
   cancelled capture loses one (capture.go:215-260). *)
THEOREM PacketsAccountedHolds == Spec => []PacketsAccounted
<1>1. CaptureInv => PacketsAccounted
  BY DEF CaptureInv, PacketInv, PacketsAccounted, Missing, PacketsIn, Queued
<1>2. QED BY CaptureInvHolds, <1>1, PTL

(* What a step may lose of the hellos. *)
LEMMA StepLosses == CaptureInv /\ [Next]_vars => [HelloLosses]_vars
<1> SUFFICES ASSUME CaptureInv, Next PROVE HelloLosses
  BY DEF vars
<1>1. TypeInv /\ QueueInv /\ ControlInv
  BY DEF CaptureInv
<1>2. StreamInv
  BY <1>1 DEF TypeInv, StreamInv
<1>3. ASSUME UNCHANGED unread, refused' # refused => Len(ch) = Capacity \/ Len(sniCh') = SniCap
      PROVE  HelloLosses
  <2>1. IsFiniteSet(Silent)
    BY CaptureParameters, FS_Subset DEF Silent
  <2>2. Cardinality(Silent) \in Nat /\ unread \in Nat
    BY <1>1, <2>1, FS_CardinalityType DEF QueueInv
  <2>3. unread' - unread <= Cardinality(Silent)
    BY <1>3, <2>2
  <2>4. QED BY <1>3, <2>3 DEF HelloLosses, Silent
<1>4. ASSUME EmitsWell, unread' - unread <= Cardinality(Silent) PROVE HelloLosses
  BY <1>4 DEF HelloLosses, Silent, EmitsWell
<1>5. ASSUME NEW cs \in SUBSET Conns, Flush(cs) PROVE HelloLosses
  BY <1>1, <1>2, <1>4, <1>5, FlushCounts
<1>6. CASE Forward
  <2>1. /\ UNCHANGED unread
        /\ refused' # refused => ~(Len(ch) < Capacity)
    BY <1>6 DEF Forward
  <2>2. Len(ch) \in Nat /\ Len(ch) <= Capacity /\ Capacity \in Nat
    BY <1>1, LenProperties, CapacityBounds DEF QueueInv
  <2>3. QED BY <1>3, <2>1, <2>2
<1>7. CASE TakeFlush
  BY <1>5, <1>7 DEF TakeFlush
<1>8. CASE Finish
  BY <1>5, <1>8 DEF Finish
<1>9. CASE SeeDone \/ EndOfFile \/ GiveUpSend
  BY <1>8, <1>9 DEF SeeDone, EndOfFile, GiveUpSend
<1>10. CASE TryAgain
  BY <1>3, <1>10 DEF TryAgain, queues, history
<1>11. CASE ReadFails
  BY <1>8, <1>10, <1>11 DEF ReadFails
<1>12. ASSUME NEW p \in Packets, ReadPacket(p) PROVE HelloLosses
  <2>1. CASE p.kind = "tcp"
    <3>1. p.conn \in Conns /\ p.seg \in SYN .. HelloLen[p.conn]
      BY <2>1 DEF Packets, Segments
    <3>2. Add(p.conn, p.seg)
      BY <1>12, <2>1 DEF ReadPacket
    <3>3. QED BY <1>1, <1>2, <1>4, <3>1, <3>2, AddCounts
  <2>2. CASE p.kind # "tcp"
    BY <1>3, <1>12, <2>2 DEF ReadPacket, history
  <2>3. QED BY <2>1, <2>2
<1>13. CASE \/ Cancel \/ Tick \/ KernelDrops \/ Receive \/ CapturePackets \/ ReadFile
            \/ TakeStats \/ NoneReady \/ Send \/ Return
  <2>1. UNCHANGED <<refused, unread>>
    BY <1>13 DEF Cancel, Tick, KernelDrops, Receive, CapturePackets, ReadFile, TakeStats, NoneReady,
                 Send, Return, queues, history
  <2>2. QED BY <1>3, <2>1
<1>14. QED
  BY <1>6, <1>7, <1>9, <1>11, <1>12, <1>13 DEF Next, DrainPacketSource

(* A hello that was put together and names a server is with the consumer or in
   one of the channels, or met a full channel, and none is left behind when the
   capture has ended; one without a name makes no event (reassembly.go:76-140,
   capture.go:170-187). *)
THEOREM HellosAccountedHolds == Spec => HellosAccounted
<1>1. CaptureInv' => HelloCounts'
  BY DEF CaptureInv, HelloInv, ControlInv, HelloCounts, PacketsIn, Queued
<1>2. CaptureInv /\ CaptureInv' /\ [Next]_vars => [HelloCounts' /\ HelloLosses]_vars
  BY <1>1, StepLosses
<1>3. QED BY CaptureInvHolds, <1>2, PTL DEF Spec, HellosAccounted
=============================================================================
