------------------------------ MODULE Capture ------------------------------
(***************************************************************************)
(* internal/capture/capture.go, reassembly.go and reader.go: one goroutine *)
(* reads a source, feeds every packet to the TCP reassembler, decodes it   *)
(* and sends it on a bounded channel to the goroutine that aggregates.  A  *)
(* ClientHello that was split over segments is put together on the side    *)
(* and sent as an event of its own, on a second channel that the same      *)
(* goroutine empties, and both sends give up on a full channel.  A live    *)
(* source is read until ctx is done, a file until its end.                 *)
(*                                                                         *)
(* A packet is the SYN of a connection, a segment of its ClientHello, or   *)
(* one that parsePacket cannot use; the fields of its event are            *)
(* FlowTable's subject.  tcpassembly is external: it delivers the          *)
(* contiguous segments of a connection whose SYN was seen at once, those   *)
(* of another one when it is flushed, and a flush closes the stream.  A    *)
(* hello with a hole in it is not recognised.                              *)
(***************************************************************************)
EXTENDS Integers, Sequences, FiniteSets

CONSTANTS
  Conns,         \* connections
  HelloLen,      \* segments of a connection's ClientHello
  WithSNI,       \* the connections whose ClientHello names a server
  MaxStreamBuf,  \* maxStreamBuf, in segments
  SniCap,        \* capacity of the reassembler's channel (512)
  Configured, DefaultBuf, MinBuf, MaxBuf,   \* capture.packet_buffer_size and its limits
  Wrap,          \* the drop counter of libpcap is kept modulo 2^32
  MaxReads, MaxTicks, MaxDrops,   \* bounds of the model
  None

ASSUME CaptureParameters ==
  /\ IsFiniteSet(Conns)
  /\ HelloLen \in [Conns -> Nat \ {0}] /\ WithSNI \subseteq Conns
  /\ {SniCap, DefaultBuf, MinBuf, MaxBuf, Wrap} \subseteq Nat \ {0}
  /\ MinBuf <= DefaultBuf /\ DefaultBuf <= MaxBuf /\ Configured \in Nat
  /\ None \notin [kind : {"packet"}, number : Nat]

VARIABLES
  offline,    \* the source is a file
  source,     \* the handle or file: "none", "open" or "closed"
  cancelled,  \* ctx is done
  pc,         \* where drainPacketSource stands
  after,      \* where it goes on when sniCh has been emptied
  packet,     \* the decoded packet it is sending, or None
  stream,     \* the reassembler's stream of every connection
  sniCh, ch,  \* the two channels
  closed,     \* ch is closed
  statsTick, flushTick,   \* a tick is waiting in the ticker's channel
  lastDrops, counted,     \* lastKernelDrops and droppedPackets
  reads, ticks,
  stuck,      \* every further read of the file fails with the same error
  drops,      \* packets the kernel dropped on this handle
  received,   \* history: [packets, hellos] the consumer has taken
  decoded,    \* history: packets parsePacket could use
  hellos,     \* history: ClientHellos put together
  refused,    \* history: of those, the events that were given up
  unread      \* history: of those, the ones no event was made of

reader == <<source, pc, after, packet, closed>>
history == <<hellos, refused, unread>>
queues == <<stream, sniCh, ch, history>>
counters == <<lastDrops, counted, drops>>
tickers == <<statsTick, flushTick, ticks>>
input == <<reads, decoded, stuck>>
vars == <<offline, cancelled, reader, queues, counters, tickers, input, received>>

Capacity_Unlimited == IF offline THEN DefaultBuf ELSE IF Configured = 0 THEN DefaultBuf ELSE Configured

(* The capacity of ch: the configured one within its limits, fixed for a file. *)
Capacity ==
  IF offline THEN DefaultBuf ELSE
  LET size == IF Configured = 0 THEN DefaultBuf ELSE Configured
  IN IF size < MinBuf THEN MinBuf ELSE IF size > MaxBuf THEN MaxBuf ELSE size

SYN == 0
Segments == UNION {{[kind |-> "tcp", conn |-> c, seg |-> s] : s \in SYN .. HelloLen[c]} : c \in Conns}
Packets == Segments \union {[kind |-> "undecodable"]}
Hello == [kind |-> "reassembled", number |-> 0]
NewStream == [got |-> {}, done |-> FALSE]
----------------------------------------------------------------------------
Init ==
  /\ offline \in BOOLEAN
  /\ cancelled = FALSE
  /\ source = "none" /\ closed = FALSE
  /\ pc = "open" /\ after = "select" /\ packet = None
  /\ stream = [c \in Conns |-> NewStream]
  /\ sniCh = <<>> /\ ch = <<>> /\ hellos = 0 /\ refused = 0 /\ unread = 0
  /\ statsTick = FALSE /\ flushTick = FALSE /\ ticks = 0
  /\ lastDrops = 0 /\ counted = 0 /\ drops = 0
  /\ reads = 0 /\ decoded = 0 /\ stuck = FALSE
  /\ received = [packets |-> 0, hellos |-> 0]

Cancel ==
  /\ ~cancelled
  /\ cancelled' = TRUE
  /\ UNCHANGED <<offline, reader, queues, counters, tickers, input, received>>

(* The tickers of a live capture; a tick that was not taken yet is not doubled. *)
Tick ==
  /\ ~offline /\ ticks < MaxTicks
  /\ ticks' = ticks + 1
  /\ \/ statsTick' = TRUE /\ UNCHANGED flushTick
     \/ flushTick' = TRUE /\ UNCHANGED statsTick
  /\ UNCHANGED <<offline, cancelled, reader, queues, counters, input, received>>

KernelDrops ==
  /\ ~offline /\ drops < MaxDrops
  /\ drops' = drops + 1
  /\ UNCHANGED <<offline, cancelled, reader, queues, lastDrops, counted, tickers, input, received>>

(* The consumer's loop over the channel, which ends when it is closed. *)
Receive ==
  /\ ch # <<>>
  /\ ch' = Tail(ch)
  /\ received' = IF Head(ch) = Hello THEN [received EXCEPT !.hellos = @ + 1]
                 ELSE [received EXCEPT !.packets = @ + 1]
  /\ UNCHANGED <<offline, cancelled, reader, stream, sniCh, history, counters, tickers, input>>

----------------------------------------------------------------------------
(* CapturePackets and OfflineReader.Read: open the source and prepare it (a
   filter, a file header); when either fails the source is closed again and
   there is no channel.  The goroutine starts with the loop's forward. *)
Started == source' = "open" /\ pc' = "forward"

CapturePackets ==
  /\ pc = "open" /\ ~offline
  /\ \/ Started
     \/ \E left \in {"none", "closed"} : source' = left /\ pc' = "failed"
  /\ UNCHANGED <<offline, cancelled, after, packet, closed, queues, counters, tickers, input, received>>

ReadFile ==
  /\ pc = "open" /\ offline
  /\ \/ Started
     \/ \E left \in {"none", "closed"} : source' = left /\ pc' = "failed"
  /\ UNCHANGED <<offline, cancelled, after, packet, closed, queues, counters, tickers, input, received>>

----------------------------------------------------------------------------
(* Reassembled: a stream that is not done tries with what it has been given, of
   which it keeps MaxStreamBuf, and is done when it has found a server name,
   whether or not the event finds room.  A hello without a name, or longer than
   what is kept, makes no event, although its fingerprint could be taken. *)
Named(c) == c \in WithSNI /\ HelloLen[c] <= MaxStreamBuf

Emits(cs) ==
  LET named == {c \in cs : Named(c)}
      room == SniCap - Len(sniCh)
      sent == IF Cardinality(named) <= room THEN Cardinality(named) ELSE room
  IN /\ sniCh' = sniCh \o [i \in 1 .. sent |-> Hello]
     /\ hellos' = hellos + Cardinality(cs)
     /\ refused' = refused + (Cardinality(named) - sent)
     /\ unread' = unread + Cardinality(cs \ named)

(* reassembler.Add: without a SYN nothing is delivered before a flush, and a
   segment that was there before delivers nothing. *)
Add(c, s) ==
  LET got == stream[c].got \union {s}
      complete == ~stream[c].done /\ s \notin stream[c].got /\ SYN .. HelloLen[c] \subseteq got
  IN /\ stream' = [stream EXCEPT ![c] = [got |-> got, done |-> @.done \/ (complete /\ Named(c))]]
     /\ Emits(IF complete THEN {c} ELSE {})

(* FlushOlderThan and FlushAll: what was held back is delivered, and the next
   segment begins a new stream. *)
Flush(cs) ==
  /\ stream' = [c \in Conns |-> IF c \in cs THEN NewStream ELSE stream[c]]
  /\ Emits({c \in cs : ~stream[c].done /\ SYN \notin stream[c].got
                       /\ 1 .. HelloLen[c] \subseteq stream[c].got})

----------------------------------------------------------------------------
GoTo(place, then) == pc' = place /\ after' = then

Forward_KeepsOneFree ==
  /\ pc = "forward"
  /\ \/ /\ sniCh # <<>>
        /\ sniCh' = Tail(sniCh)
        /\ IF Len(ch) + 1 < Capacity THEN ch' = Append(ch, Hello) /\ UNCHANGED refused
           ELSE UNCHANGED ch /\ refused' = refused + 1
        /\ GoTo("forward", after)
     \/ /\ sniCh = <<>>
        /\ GoTo(after, after)
        /\ UNCHANGED <<sniCh, ch, refused>>
  /\ UNCHANGED <<offline, cancelled, source, packet, closed, stream, hellos, unread, counters, tickers, input, received>>

(* forward: one event from the reassembler's channel, given up when ch is full,
   until there is none. *)
Forward ==
  /\ pc = "forward"
  /\ \/ /\ sniCh # <<>>
        /\ sniCh' = Tail(sniCh)
        /\ IF Len(ch) < Capacity THEN ch' = Append(ch, Hello) /\ UNCHANGED refused
           ELSE UNCHANGED ch /\ refused' = refused + 1
        /\ GoTo("forward", after)
     \/ /\ sniCh = <<>>
        /\ GoTo(after, after)
        /\ UNCHANGED <<sniCh, ch, refused>>
  /\ UNCHANGED <<offline, cancelled, source, packet, closed, stream, hellos, unread, counters, tickers, input, received>>

(* FlushAll, forward and return, on every way out of the loop. *)
Finish_NoForward ==
  /\ Flush(Conns)
  /\ packet' = None
  /\ GoTo("return", "return")
  /\ UNCHANGED <<offline, cancelled, source, closed, ch, counters, tickers, input, received>>
Finish ==
  /\ Flush(Conns)
  /\ packet' = None
  /\ GoTo("forward", "return")
  /\ UNCHANGED <<offline, cancelled, source, closed, ch, counters, tickers, input, received>>

(* The select at the head of the loop: any case that is ready. *)
SeeDone == pc = "select" /\ cancelled /\ Finish

TakeStats_ForgetsLast ==
  /\ pc = "select" /\ statsTick
  /\ statsTick' = FALSE
  /\ LET current == drops % Wrap
     IN counted' = IF current > lastDrops THEN counted + (current - lastDrops) ELSE counted
  /\ GoTo("read", after)
  /\ UNCHANGED <<offline, cancelled, source, packet, closed, queues, drops, lastDrops, flushTick, ticks, input, received>>
TakeStats ==
  /\ pc = "select" /\ statsTick
  /\ statsTick' = FALSE
  /\ \/ LET current == drops % Wrap
        IN /\ counted' = IF current > lastDrops THEN counted + (current - lastDrops) ELSE counted
           /\ lastDrops' = current
     \/ UNCHANGED <<counted, lastDrops>>      \* the statistics cannot be read
  /\ GoTo("read", after)
  /\ UNCHANGED <<offline, cancelled, source, packet, closed, queues, drops, flushTick, ticks, input, received>>

TakeFlush ==
  /\ pc = "select" /\ flushTick
  /\ flushTick' = FALSE
  /\ \E idle \in SUBSET Conns : Flush(idle)
  /\ GoTo("forward", "read")
  /\ UNCHANGED <<offline, cancelled, source, packet, closed, ch, counters, statsTick, ticks, input, received>>

NoneReady ==
  /\ pc = "select" /\ ~cancelled /\ ~statsTick /\ ~flushTick
  /\ GoTo("read", after)
  /\ UNCHANGED <<offline, cancelled, source, packet, closed, queues, counters, tickers, input, received>>

(* NextPacket: the packet goes to the reassembler first and is then decoded. *)
Loop == GoTo("forward", "select")

ReadPacket(p) ==
  /\ pc = "read" /\ ~stuck /\ reads < MaxReads
  /\ reads' = reads + 1
  /\ \/ /\ p.kind = "tcp"
        /\ Add(p.conn, p.seg)
        /\ decoded' = decoded + 1
        /\ packet' = [kind |-> "packet", number |-> decoded + 1]
        /\ GoTo("send", after)
     \/ /\ p.kind = "undecodable"
        /\ Loop
        /\ UNCHANGED <<stream, sniCh, history, decoded, packet>>
  /\ UNCHANGED <<offline, cancelled, source, closed, ch, counters, tickers, stuck, received>>

(* An error: the end of a file ends the capture, anything else is tried again
   unless ctx is done.  A live source times out whenever nothing arrives.  A
   file fails for one record, or from there on whenever it is read: a disk
   error, or a compressed file that was cut. *)
TryAgain ==
  /\ Loop
  /\ UNCHANGED <<offline, cancelled, source, packet, closed, queues, counters, tickers, decoded, received>>

EndOfFile_TryAgain == pc = "read" /\ offline /\ ~stuck /\ TryAgain /\ UNCHANGED <<reads, stuck>>
EndOfFile == pc = "read" /\ offline /\ ~stuck /\ Finish

ReadFails ==
  /\ pc = "read"
  /\ \/ cancelled /\ Finish
     \/ ~cancelled /\ (offline => stuck) /\ TryAgain /\ UNCHANGED <<reads, stuck>>
     \/ /\ ~cancelled /\ offline /\ ~stuck /\ reads < MaxReads
        /\ TryAgain
        /\ reads' = reads + 1 /\ stuck' \in BOOLEAN

(* The send of a packet waits for room, or for ctx. *)
Send_DropsWhenFull ==
  /\ pc = "send"
  /\ ch' = IF Len(ch) < Capacity THEN Append(ch, packet) ELSE ch
  /\ packet' = None
  /\ Loop
  /\ UNCHANGED <<offline, cancelled, source, closed, stream, sniCh, history, counters, tickers, input, received>>
Send ==
  /\ pc = "send" /\ Len(ch) < Capacity
  /\ ch' = Append(ch, packet)
  /\ packet' = None
  /\ Loop
  /\ UNCHANGED <<offline, cancelled, source, closed, stream, sniCh, history, counters, tickers, input, received>>

GiveUpSend == pc = "send" /\ cancelled /\ Finish

(* The deferred calls: the source and the channel are closed. *)
Return ==
  /\ pc = "return"
  /\ source' = "closed" /\ closed' = TRUE
  /\ GoTo("ended", "ended")
  /\ UNCHANGED <<offline, cancelled, packet, queues, counters, tickers, input, received>>

DrainPacketSource ==
  \/ CapturePackets \/ ReadFile
  \/ Forward \/ SeeDone \/ TakeStats \/ TakeFlush \/ NoneReady
  \/ \E p \in Packets : ReadPacket(p)
  \/ EndOfFile \/ ReadFails \/ Send \/ GiveUpSend \/ Return

Next == Cancel \/ Tick \/ KernelDrops \/ Receive \/ DrainPacketSource

(* Both goroutines are scheduled: a read returns within the 100 ms timeout of
   the handle, a file that can be read has an end, and the consumer does nothing
   but receive. *)
Spec == Init /\ [][Next]_vars /\ WF_vars(DrainPacketSource) /\ WF_vars(Receive)

----------------------------------------------------------------------------
(* Type invariant. *)
TypeOK ==
  /\ {offline, cancelled, closed, statsTick, flushTick, stuck} \subseteq BOOLEAN
  /\ source \in {"none", "open", "closed"}
  /\ pc \in {"open", "failed", "forward", "select", "read", "send", "return", "ended"}
  /\ after \in {"select", "read", "return", "ended"}
  /\ packet = None \/ packet \in [kind : {"packet"}, number : 1 .. decoded]
  /\ \A c \in Conns : stream[c].got \subseteq SYN .. HelloLen[c] /\ stream[c].done \in BOOLEAN
  /\ Len(sniCh) <= SniCap
  /\ Capacity \in MinBuf .. MaxBuf /\ Len(ch) <= Capacity
  /\ decoded <= reads /\ refused + unread <= hellos

(* The packets, as opposed to the hellos, among the first n events of ch. *)
Queued(n) == Cardinality({i \in 1 .. n : ch[i] # Hello})
Held == IF packet = None THEN 0 ELSE 1

(* Every packet the capture could decode is in exactly one of its places, the
   consumer, the channel or the sender that waits, and those in the channel
   are in the order the kernel delivered them.  Only a capture that was
   cancelled loses one, and never more than the one it was sending: a slow
   consumer slows the reader down, it never costs a packet here. *)
PacketsAccounted ==
  LET missing == decoded - (received.packets + Queued(Len(ch)) + Held)
  IN /\ missing = 0 \/ (missing = 1 /\ cancelled /\ after \in {"return", "ended"})
     /\ \A i \in 1 .. Len(ch) :
          ch[i] # Hello => ch[i].number = received.packets + Queued(i)

(* Where the ClientHellos that were put together are: each is with the consumer
   or in a channel, was refused, or made no event; and the flush at the end of a
   capture is forwarded like the others. *)
HelloCounts ==
  /\ hellos = received.hellos + refused + unread + Len(sniCh) + (Len(ch) - Queued(Len(ch)))
  /\ closed => sniCh = <<>>

(* One is refused only when a channel is full, and makes no event only when it
   names no server or is longer than the buffer, once for every connection. *)
HelloLosses ==
  /\ refused' # refused => Len(ch) = Capacity \/ Len(sniCh') = SniCap
  /\ unread' - unread <= Cardinality({c \in Conns : ~Named(c) /\ stream'[c] # stream[c]})

(* A ClientHello that was put together and names a server reaches the consumer
   unless a channel was full at that moment.  One without a name makes no event,
   and when it was split nothing else reads it: docs/architecture.md:163
   ("ensuring no handshake is missed due to TCP segmentation") promises more. *)
HellosAccounted == [][HelloCounts' /\ HelloLosses]_vars

(* The number of lost packets that the capture reports never exceeds what the
   kernel dropped, whatever sample of its cumulative counter fails and however
   often the counter wraps. *)
DropsNotOvercounted == counted <= drops

(* A capture whose context is done, or whose source is a file, ends: the
   source is closed, also when it could not be prepared, the channel is closed
   and the consumer has emptied it, although the sender may be waiting for room
   and the reader for a packet.  The exception is a file that fails whenever it
   is read: only io.EOF ends the loop, so it spins until ctx is done. *)
Ended == source # "open" /\ (pc = "failed" \/ (closed /\ ch = <<>>))
CaptureEnds ==
  /\ cancelled ~> Ended
  /\ offline ~> (Ended \/ stuck)
=============================================================================
