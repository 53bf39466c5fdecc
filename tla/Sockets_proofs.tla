-------------------------- MODULE Sockets_proofs ---------------------------
(***************************************************************************)
(* Proofs about the UDP socket of the app, for any number of messages, and *)
(* about tcpreceive, for any numbers of objects, peers and descriptors.    *)
(*                                                                         *)
(* A message leaves at most once and in its order, and has one fate: it is *)
(* at one place at a time, and the places follow each other.  Those that   *)
(* are settled were given before the current send, this before those in    *)
(* the socket's queue, these before those whose block is still to run, and *)
(* these before the one that is being handed over.                         *)
(*                                                                         *)
(* What tcpreceive's tables say of a descriptor is so: a connection has    *)
(* one descriptor or one place in a backlog, a descriptor one slot or one  *)
(* object that listens on it, and one entry in the poll list.  The walk    *)
(* comes to the listening sockets first; until it has, nothing select()    *)
(* spoke of is closed, so no number it spoke of is given out again.        *)
(***************************************************************************)
EXTENDS GCDAsyncUdpSocket, TcpReceive, FiniteSetTheorems, BasicLemmas

-----------------------------------------------------------------------------
(* The UDP socket of the app.                                              *)

Blocks ==
  [block : {"enqueue", "resolved", "closeAfterSending"}, packet : Packets \cup {None},
   result : {Found, NotFound}]

\* The places.
Current == {currentSend} \ {None}
Queued == Range(sendQueue)
Enqueues(blocks) == {i \in DOMAIN blocks : blocks[i].block = "enqueue"}
EnqueuedIn(blocks) == {blocks[i].packet : i \in Enqueues(blocks)}
ToBeQueued == EnqueuedIn(socketQueue)
HandedOver == IF Len(dispatching) = 2 THEN given - 1 ELSE given

Increasing(s) == \A i, j \in DOMAIN s : i < j => s[i] < s[j]
InOrder(blocks) ==
  \A i, j \in Enqueues(blocks) : i < j => blocks[i].packet < blocks[j].packet

\* All of the one before all of the other.
Precede(S, T) == \A s \in S, t \in T : s < t

UTypeOK ==
  /\ given \in Nat /\ given <= MaxPackets
  /\ dispatching \in {<<>>, <<CloseBlock>>, <<EnqueueBlock(given), CloseBlock>>}
  /\ Len(dispatching) = 2 => given > 0
  /\ resolving \subseteq Packets
  /\ socketQueue \in Seq(Blocks)
  /\ \A i \in DOMAIN socketQueue :
       socketQueue[i].block # "closeAfterSending" => socketQueue[i].packet \in Packets
  /\ packet \in [Packets -> {Resolving, Found, NotFound}]
  /\ sendQueue \in Seq(Packets)
  /\ currentSend \in Packets \cup {None}
  /\ sendTimer \in BOOLEAN
  /\ onWire \in Seq(Packets)
  /\ notSent \in Seq(Packets)
  /\ discarded \subseteq Packets

OrderInv ==
  /\ Increasing(sendQueue) /\ InOrder(socketQueue)
  /\ Precede(Current, Queued) /\ Precede(Current, ToBeQueued) /\ Precede(Queued, ToBeQueued)
  /\ \A p \in Current \cup Queued \cup ToBeQueued \cup Settled : p <= HandedOver
  /\ Precede(Settled, Current) /\ Precede(Settled, Queued) /\ Precede(Settled, ToBeQueued)

FateInv ==
  /\ Increasing(onWire) /\ Increasing(notSent)
  /\ Range(onWire) \cap (Range(notSent) \cup discarded) = {}
  /\ Range(notSent) \cap discarded = {}
  /\ forgotten = {}

CallInv ==
  /\ calls \in {"doPreSend", "doSend"} => currentSend # None
  /\ calls = "doSend" => ~packet[currentSend].resolveInProgress
  /\ sendTimer => currentSend # None /\ ~packet[currentSend].resolveInProgress

UInv == UTypeOK /\ OrderInv /\ FateInv /\ CallInv

-----------------------------------------------------------------------------
(* Sequences.                                                              *)

LEMMA IncreasingTail ==
  ASSUME NEW s \in Seq(Packets), s # <<>>, Increasing(s)
  PROVE  /\ Tail(s) \in Seq(Packets) /\ Increasing(Tail(s))
         /\ Head(s) \in Packets
         /\ Range(s) = Range(Tail(s)) \cup {Head(s)}
         /\ \A p \in Range(Tail(s)) : Head(s) < p
<1>1. /\ Tail(s) \in Seq(Packets) /\ Len(Tail(s)) = Len(s) - 1
      /\ \A i \in 1..Len(Tail(s)) : Tail(s)[i] = s[i + 1]
  BY HeadTailProperties
<1>2. Head(s) = s[1] /\ Len(s) \in Nat /\ Len(s) > 0
      /\ DOMAIN s = 1..Len(s) /\ DOMAIN Tail(s) = 1..Len(Tail(s))
  BY <1>1, EmptySeq, LenProperties
<1>3. Increasing(Tail(s))
  BY <1>1, <1>2 DEF Increasing
<1>4. Head(s) \in Packets
  BY <1>2, ElementOfSeq
<1>5. Range(s) = Range(Tail(s)) \cup {Head(s)}
  <2>1. ASSUME NEW i \in DOMAIN s
        PROVE  s[i] \in Range(Tail(s)) \cup {Head(s)}
    <3>1. CASE i = 1
      BY <1>2, <3>1
    <3>2. CASE i # 1
      <4>1. i - 1 \in DOMAIN Tail(s) /\ Tail(s)[i - 1] = s[i]
        BY <1>1, <1>2, <3>2
      <4> QED
        BY <4>1 DEF Range
    <3> QED
      BY <3>1, <3>2
  <2>2. ASSUME NEW i \in DOMAIN Tail(s)
        PROVE  Tail(s)[i] \in Range(s)
    <3>1. i + 1 \in DOMAIN s /\ Tail(s)[i] = s[i + 1]
      BY <1>1, <1>2
    <3> QED
      BY <3>1 DEF Range
  <2>3. Head(s) \in Range(s)
    <3>1. 1 \in DOMAIN s
      BY <1>2
    <3> QED
      BY <1>2, <3>1 DEF Range
  <2> QED
    BY <2>1, <2>2, <2>3 DEF Range
<1>6. ASSUME NEW p \in Range(Tail(s))
      PROVE  Head(s) < p
  <2>1. PICK i \in DOMAIN Tail(s) : p = Tail(s)[i]
    BY DEF Range
  <2>2. 1 \in DOMAIN s /\ i + 1 \in DOMAIN s /\ 1 < i + 1 /\ p = s[i + 1]
    BY <1>1, <1>2, <2>1
  <2> QED
    BY <1>2, <2>2 DEF Increasing
<1> QED
  BY <1>1, <1>3, <1>4, <1>5, <1>6

LEMMA IncreasingAppend ==
  ASSUME NEW s \in Seq(Packets), Increasing(s),
         NEW p \in Packets, \A q \in Range(s) : q < p
  PROVE  /\ Append(s, p) \in Seq(Packets) /\ Increasing(Append(s, p))
         /\ Range(Append(s, p)) = Range(s) \cup {p}
<1>1. /\ Append(s, p) \in Seq(Packets) /\ Len(Append(s, p)) = Len(s) + 1
      /\ \A i \in 1..Len(s) : Append(s, p)[i] = s[i]
      /\ Append(s, p)[Len(s) + 1] = p
  BY AppendProperties
<1>2. /\ Len(s) \in Nat /\ DOMAIN s = 1..Len(s) /\ DOMAIN Append(s, p) = 1..(Len(s) + 1)
  BY <1>1, LenProperties
<1>3. ASSUME NEW i \in DOMAIN Append(s, p), NEW j \in DOMAIN Append(s, p), i < j
      PROVE  Append(s, p)[i] < Append(s, p)[j]
  <2>1. i \in DOMAIN s /\ Append(s, p)[i] = s[i] /\ s[i] \in Range(s)
    BY <1>1, <1>2, <1>3 DEF Range
  <2>2. CASE j = Len(s) + 1
    BY <1>1, <2>1, <2>2
  <2>3. CASE j # Len(s) + 1
    <3>1. j \in DOMAIN s /\ Append(s, p)[j] = s[j]
      BY <1>1, <1>2, <2>3
    <3> QED
      BY <1>3, <2>1, <3>1 DEF Increasing
  <2> QED
    BY <2>2, <2>3
<1>4. Range(Append(s, p)) = Range(s) \cup {p}
  <2>1. \A i \in DOMAIN s : i \in DOMAIN Append(s, p) /\ Append(s, p)[i] = s[i]
    BY <1>1, <1>2
  <2>2. Len(s) + 1 \in DOMAIN Append(s, p)
    BY <1>2
  <2>3. \A i \in DOMAIN Append(s, p) : i \in DOMAIN s \/ i = Len(s) + 1
    BY <1>2
  <2> QED
    BY <1>1, <2>1, <2>2, <2>3 DEF Range
<1> QED
  BY <1>1, <1>3, <1>4 DEF Increasing

\* What is increasing holds nothing twice.
LEMMA IncreasingIsInjective ==
  ASSUME NEW s \in Seq(Packets), Increasing(s)
  PROVE  IsInjective(s)
<1>1. SUFFICES ASSUME NEW i \in DOMAIN s, NEW j \in DOMAIN s, s[i] = s[j]
               PROVE  i = j
  BY DEF IsInjective
<1>2. DOMAIN s = 1..Len(s) /\ Len(s) \in Nat
  BY LenProperties
<1>3. s[i] \in Nat /\ s[j] \in Nat
  BY <1>2, ElementOfSeq, UdpSocketAssumption DEF Packets
<1>4. ~(i < j) /\ ~(j < i)
  BY <1>1, <1>3 DEF Increasing
<1> QED
  BY <1>2, <1>4

LEMMA BlockAppended ==
  ASSUME NEW s \in Seq(Blocks), InOrder(s), NEW b \in Blocks,
         \A i \in Enqueues(s) : s[i].packet \in Packets,
         b.block = "enqueue" => \A q \in EnqueuedIn(s) : q < b.packet
  PROVE  /\ Append(s, b) \in Seq(Blocks) /\ InOrder(Append(s, b))
         /\ EnqueuedIn(Append(s, b)) =
              EnqueuedIn(s) \cup (IF b.block = "enqueue" THEN {b.packet} ELSE {})
         /\ \A i \in DOMAIN Append(s, b) : Append(s, b)[i] = b \/ (i \in DOMAIN s /\ Append(s, b)[i] = s[i])
<1> DEFINE t == Append(s, b)
<1>1. /\ t \in Seq(Blocks) /\ Len(t) = Len(s) + 1
      /\ \A i \in 1..Len(s) : t[i] = s[i]
      /\ t[Len(s) + 1] = b
  BY AppendProperties
<1>2. Len(s) \in Nat /\ DOMAIN s = 1..Len(s) /\ DOMAIN t = 1..(Len(s) + 1)
  BY <1>1, LenProperties
<1> HIDE DEF t
<1>3. ASSUME NEW i \in Enqueues(t), NEW j \in Enqueues(t), i < j
      PROVE  t[i].packet < t[j].packet
  <2>1. i \in Enqueues(s) /\ t[i] = s[i] /\ s[i].packet \in EnqueuedIn(s)
    BY <1>1, <1>2, <1>3 DEF Enqueues, EnqueuedIn
  <2>2. CASE j = Len(s) + 1
    BY <1>1, <2>1, <2>2 DEF Enqueues
  <2>3. CASE j # Len(s) + 1
    <3>1. j \in Enqueues(s) /\ t[j] = s[j]
      BY <1>1, <1>2, <2>3 DEF Enqueues
    <3> QED
      BY <1>3, <2>1, <3>1 DEF InOrder
  <2> QED
    BY <2>2, <2>3
<1>4. EnqueuedIn(t) = EnqueuedIn(s) \cup (IF b.block = "enqueue" THEN {b.packet} ELSE {})
  <2>1. \A i \in DOMAIN s : i \in DOMAIN t /\ t[i] = s[i]
    BY <1>1, <1>2
  <2>2. Len(s) + 1 \in DOMAIN t
    BY <1>2
  <2>3. \A i \in DOMAIN t : i \in DOMAIN s \/ i = Len(s) + 1
    BY <1>2
  <2> QED
    BY <1>1, <2>1, <2>2, <2>3 DEF EnqueuedIn, Enqueues
<1>5. \A i \in DOMAIN t : t[i] = b \/ (i \in DOMAIN s /\ t[i] = s[i])
  BY <1>1, <1>2
<1> QED
  BY <1>1, <1>3, <1>4, <1>5 DEF InOrder, t

LEMMA BlockTaken ==
  ASSUME NEW s \in Seq(Blocks), InOrder(s), s # <<>>,
         \A i \in Enqueues(s) : s[i].packet \in Packets
  PROVE  /\ Tail(s) \in Seq(Blocks) /\ InOrder(Tail(s)) /\ Head(s) \in Blocks
         /\ EnqueuedIn(Tail(s)) \subseteq EnqueuedIn(s)
         /\ Head(s).block = "enqueue" =>
              /\ Head(s).packet \in EnqueuedIn(s)
              /\ \A p \in EnqueuedIn(Tail(s)) : Head(s).packet < p
         /\ \A i \in DOMAIN Tail(s) : i + 1 \in DOMAIN s /\ Tail(s)[i] = s[i + 1]
         /\ 1 \in DOMAIN s /\ Head(s) = s[1]
<1> DEFINE t == Tail(s)
<1>1. /\ t \in Seq(Blocks) /\ Len(t) = Len(s) - 1
      /\ \A i \in 1..Len(t) : t[i] = s[i + 1]
  BY HeadTailProperties
<1>2. /\ Head(s) = s[1] /\ Len(s) \in Nat /\ Len(s) > 0
      /\ DOMAIN s = 1..Len(s) /\ DOMAIN t = 1..Len(t)
  BY <1>1, EmptySeq, LenProperties
<1> HIDE DEF t
<1>3. \A i \in DOMAIN t : i + 1 \in DOMAIN s /\ t[i] = s[i + 1]
  BY <1>1, <1>2
<1>4. 1 \in DOMAIN s /\ Head(s) = s[1] /\ Head(s) \in Blocks
  BY <1>2, ElementOfSeq
<1>5. \A i \in Enqueues(t) : i + 1 \in Enqueues(s) /\ t[i] = s[i + 1] /\ i \in Nat /\ i > 0
  BY <1>2, <1>3, <1>1 DEF Enqueues
<1>6. InOrder(t)
  BY <1>5 DEF InOrder
<1>7. EnqueuedIn(t) \subseteq EnqueuedIn(s)
  BY <1>5 DEF EnqueuedIn
<1>8. ASSUME Head(s).block = "enqueue"
      PROVE  /\ Head(s).packet \in EnqueuedIn(s)
             /\ \A p \in EnqueuedIn(t) : Head(s).packet < p
  <2>1. 1 \in Enqueues(s)
    BY <1>4, <1>8 DEF Enqueues
  <2>2. ASSUME NEW p \in EnqueuedIn(t)
        PROVE  Head(s).packet < p
    <3>1. PICK i \in Enqueues(t) : p = t[i].packet
      BY DEF EnqueuedIn
    <3>2. i + 1 \in Enqueues(s) /\ 1 < i + 1 /\ p = s[i + 1].packet
      BY <1>5, <3>1
    <3> QED
      BY <1>4, <2>1, <3>2 DEF InOrder
  <2> QED
    BY <1>4, <2>1, <2>2 DEF EnqueuedIn
<1> QED
  BY <1>1, <1>3, <1>4, <1>6, <1>7, <1>8 DEF t

-----------------------------------------------------------------------------
(* The steps.                                                              *)

LEMMA PlacesHavePackets ==
  ASSUME UTypeOK
  PROVE  /\ Packets \subseteq Nat /\ None \notin Packets
         /\ Current \subseteq Packets /\ Queued \subseteq Packets /\ ToBeQueued \subseteq Packets
         /\ Settled \subseteq Packets
         /\ \A i \in Enqueues(socketQueue) : socketQueue[i].packet \in Packets
         /\ HandedOver \in Nat
<1>1. Packets \subseteq Nat /\ None \notin Packets
  BY UdpSocketAssumption DEF Packets, None
<1>2. \A i \in Enqueues(socketQueue) : socketQueue[i].packet \in Packets
  BY DEF UTypeOK, Enqueues
<1>3. ToBeQueued \subseteq Packets
  BY <1>2 DEF ToBeQueued, EnqueuedIn
<1>4. \A s \in Seq(Packets) : Range(s) \subseteq Packets
  BY DEF Range
<1>5. HandedOver \in Nat
  BY DEF UTypeOK, HandedOver
<1> QED
  BY <1>1, <1>2, <1>3, <1>4, <1>5 DEF UTypeOK, Current, Queued, Settled

LEMMA SocketBegins == UInit => UInv
<1> SUFFICES ASSUME UInit PROVE UInv
  OBVIOUS
<1>1. UTypeOK
  <2>1. given \in Nat /\ given <= MaxPackets /\ Len(dispatching) # 2
    BY UdpSocketAssumption DEF UInit
  <2>2. packet \in [Packets -> {Resolving, Found, NotFound}]
    BY DEF UInit
  <2>3. socketQueue = <<>> /\ socketQueue \in Seq(Blocks) /\ DOMAIN socketQueue = {}
    BY DEF UInit
  <2>4. sendQueue \in Seq(Packets) /\ onWire \in Seq(Packets) /\ notSent \in Seq(Packets)
    BY DEF UInit
  <2> QED
    BY <2>1, <2>2, <2>3, <2>4 DEF UInit, UTypeOK
<1>2. /\ Current = {} /\ Queued = {} /\ ToBeQueued = {} /\ Settled = {}
      /\ Increasing(sendQueue) /\ InOrder(socketQueue)
      /\ Increasing(onWire) /\ Increasing(notSent)
  BY DEF UInit, Current, Queued, ToBeQueued, EnqueuedIn, Enqueues, Settled, Range, Increasing, InOrder
<1>3. OrderInv
  BY <1>2 DEF OrderInv, Precede
<1>4. FateInv
  BY <1>2 DEF FateInv, UInit, Range
<1>5. CallInv
  BY DEF CallInv, UInit
<1> QED
  BY <1>1, <1>3, <1>4, <1>5 DEF UInv

\* Nothing but the blocks changes, and no packet is on its way to the queue by them
\* that was not.
LEMMA BlocksChange ==
  ASSUME UInv, UTypeOK', UNCHANGED <<sendQueue, currentSend, onWire, notSent, discarded>>,
         InOrder(socketQueue)', ToBeQueued' \subseteq ToBeQueued, HandedOver' = HandedOver
  PROVE  OrderInv'
<1>1. Current' = Current /\ Queued' = Queued /\ Settled' = Settled
  BY DEF Current, Queued, Settled
<1> QED
  BY <1>1 DEF UInv, OrderInv, Precede, Increasing

LEMMA SendPacketStep ==
  ASSUME UInv, SendPacket PROVE UInv'
<1>1. /\ dispatching = <<>> /\ given < MaxPackets /\ given' = given + 1
      /\ dispatching' = <<EnqueueBlock(given'), CloseBlock>>
      /\ UNCHANGED <<socketvars, fate>>
      /\ \/ resolving' = resolving \cup {given + 1} /\ UNCHANGED socketQueue
         \/ socketQueue' = Append(socketQueue, ResolvedBlock(given + 1, NotFound)) /\ UNCHANGED resolving
  BY DEF SendPacket
<1>0. UTypeOK /\ OrderInv
  BY DEF UInv
<1>2. given + 1 \in Packets /\ given \in Nat
  BY <1>1, UdpSocketAssumption DEF UInv, UTypeOK, Packets
<1>3. HandedOver' = HandedOver
  BY <1>1, <1>2 DEF HandedOver
<1>4. /\ socketQueue' \in Seq(Blocks) /\ InOrder(socketQueue)' /\ ToBeQueued' = ToBeQueued
      /\ \A i \in DOMAIN socketQueue' :
           socketQueue'[i].block # "closeAfterSending" => socketQueue'[i].packet \in Packets
  <2>1. CASE UNCHANGED socketQueue
    BY <2>1 DEF UInv, UTypeOK, OrderInv, InOrder, ToBeQueued
  <2>2. CASE socketQueue' = Append(socketQueue, ResolvedBlock(given + 1, NotFound))
    <3> DEFINE b == ResolvedBlock(given + 1, NotFound)
    <3>1. b \in Blocks /\ b.block = "resolved" /\ b.packet = given + 1
      BY <1>2 DEF ResolvedBlock, Blocks
    <3> HIDE DEF b
    <3>2. /\ Append(socketQueue, b) \in Seq(Blocks) /\ InOrder(Append(socketQueue, b))
          /\ EnqueuedIn(Append(socketQueue, b)) = EnqueuedIn(socketQueue) \cup {}
          /\ \A i \in DOMAIN Append(socketQueue, b) :
               Append(socketQueue, b)[i] = b
               \/ (i \in DOMAIN socketQueue /\ Append(socketQueue, b)[i] = socketQueue[i])
      <4>1. /\ socketQueue \in Seq(Blocks) /\ InOrder(socketQueue)
            /\ \A i \in Enqueues(socketQueue) : socketQueue[i].packet \in Packets
        BY <1>0, PlacesHavePackets DEF UTypeOK, OrderInv
      <4>2. b.block # "enqueue"
        BY <3>1
      <4> QED
        BY <3>1, <4>1, <4>2, BlockAppended
    <3>3. socketQueue' = Append(socketQueue, b)
      BY <2>2 DEF b
    <3> QED
      BY <1>2, <3>1, <3>2, <3>3 DEF UInv, UTypeOK, ToBeQueued
  <2> QED
    BY <1>1, <2>1, <2>2
<1>5. UTypeOK'
  BY <1>1, <1>2, <1>4, UdpSocketAssumption DEF UInv, UTypeOK, socketvars, fate
<1>6. OrderInv'
  BY <1>1, <1>3, <1>4, <1>5, BlocksChange DEF socketvars, fate
<1>7. FateInv' /\ CallInv'
  BY <1>1 DEF UInv, FateInv, CallInv, socketvars, fate, Increasing
<1> QED
  BY <1>5, <1>6, <1>7 DEF UInv

LEMMA DispatchStep ==
  ASSUME UInv, Dispatch PROVE UInv'
<1>1. /\ dispatching # <<>> /\ socketQueue' = Append(socketQueue, Head(dispatching))
      /\ dispatching' = Tail(dispatching) /\ UNCHANGED <<given, resolving, socketvars, fate>>
  BY DEF Dispatch
<1>2. UTypeOK /\ OrderInv
  BY DEF UInv
<1>5. /\ socketQueue \in Seq(Blocks) /\ InOrder(socketQueue)
      /\ \A i \in Enqueues(socketQueue) : socketQueue[i].packet \in Packets
  BY <1>2, PlacesHavePackets DEF UTypeOK, OrderInv
<1>3. CASE dispatching = <<CloseBlock>>
  <2>1. /\ socketQueue' = Append(socketQueue, CloseBlock) /\ dispatching' = <<>>
        /\ CloseBlock \in Blocks /\ CloseBlock.block = "closeAfterSending"
        /\ HandedOver' = HandedOver
    BY <1>1, <1>3 DEF CloseBlock, Blocks, HandedOver
  <2>2. /\ socketQueue' \in Seq(Blocks) /\ InOrder(socketQueue)' /\ ToBeQueued' = ToBeQueued \cup {}
        /\ \A i \in DOMAIN socketQueue' :
             socketQueue'[i] = CloseBlock \/ (i \in DOMAIN socketQueue /\ socketQueue'[i] = socketQueue[i])
    <3>1. CloseBlock.block # "enqueue"
      BY <2>1
    <3> QED
      BY <1>5, <2>1, <3>1, BlockAppended DEF ToBeQueued
  <2>3. UTypeOK'
    <3>1. given \in Nat /\ dispatching' \in {<<>>, <<CloseBlock>>, <<EnqueueBlock(given), CloseBlock>>}
          /\ Len(dispatching') # 2
      BY <1>2, <2>1 DEF UTypeOK
    <3>2. \A i \in DOMAIN socketQueue' :
            socketQueue'[i].block # "closeAfterSending" => socketQueue'[i].packet \in Packets
      BY <1>2, <2>1, <2>2 DEF UTypeOK
    <3> QED
      BY <1>1, <1>2, <2>2, <3>1, <3>2 DEF UTypeOK, socketvars, fate
  <2>4. OrderInv'
    BY <1>1, <2>1, <2>2, <2>3, BlocksChange DEF socketvars, fate
  <2> QED
    BY <1>1, <2>3, <2>4 DEF UInv, FateInv, CallInv, socketvars, fate, Increasing
<1>4. CASE dispatching = <<EnqueueBlock(given), CloseBlock>>
  <2> DEFINE b == EnqueueBlock(given)
  <2>1. /\ Len(dispatching) = 2 /\ given \in Packets /\ given \in Nat
        /\ socketQueue' = Append(socketQueue, b) /\ dispatching' = <<CloseBlock>>
    BY <1>1, <1>2, <1>4, UdpSocketAssumption DEF UTypeOK, Packets
  <2>2. b \in Blocks /\ b.block = "enqueue" /\ b.packet = given
    BY <2>1 DEF EnqueueBlock, Blocks
  <2> HIDE DEF b
  <2>3. HandedOver = given - 1 /\ HandedOver' = given
    <3>1. Len(dispatching') # 2
      BY <2>1
    <3>2. given' = given
      BY <1>1
    <3> QED
      BY <2>1, <3>1, <3>2 DEF HandedOver
  <2>4. \A p \in Current \cup Queued \cup ToBeQueued \cup Settled : p \in Nat /\ p < given
    <3>1. \A p \in Current \cup Queued \cup ToBeQueued \cup Settled : p \in Nat
      BY <1>2, PlacesHavePackets
    <3>2. \A p \in Current \cup Queued \cup ToBeQueued \cup Settled : p <= HandedOver
      BY <1>2 DEF OrderInv
    <3> QED
      BY <2>1, <2>3, <3>1, <3>2
  <2>5. /\ socketQueue' \in Seq(Blocks) /\ InOrder(socketQueue)' /\ ToBeQueued' = ToBeQueued \cup {given}
        /\ \A i \in DOMAIN socketQueue' :
             socketQueue'[i] = b \/ (i \in DOMAIN socketQueue /\ socketQueue'[i] = socketQueue[i])
    <3>1. \A q \in EnqueuedIn(socketQueue) : q < b.packet
      BY <2>2, <2>4 DEF ToBeQueued
    <3> QED
      BY <1>5, <2>1, <2>2, <3>1, BlockAppended DEF ToBeQueued
  <2>6. UTypeOK'
    <3>1. dispatching' \in {<<>>, <<CloseBlock>>, <<EnqueueBlock(given), CloseBlock>>}
          /\ Len(dispatching') # 2
      BY <2>1
    <3>2. \A i \in DOMAIN socketQueue' :
            socketQueue'[i].block # "closeAfterSending" => socketQueue'[i].packet \in Packets
      BY <1>2, <2>1, <2>2, <2>5 DEF UTypeOK
    <3> QED
      BY <1>1, <1>2, <2>5, <3>1, <3>2 DEF UTypeOK, socketvars, fate
  <2>7. Current' = Current /\ Queued' = Queued /\ Settled' = Settled /\ sendQueue' = sendQueue
    BY <1>1 DEF Current, Queued, Settled, socketvars, fate
  <2>8. \A p \in Current \cup Queued \cup Settled \cup ToBeQueued \cup {given} : p <= given
    BY <2>1, <2>4
  <2>9. OrderInv'
    BY <1>2, <2>3, <2>4, <2>5, <2>7, <2>8 DEF OrderInv, Precede, Increasing
  <2> QED
    BY <1>1, <2>6, <2>9 DEF UInv, FateInv, CallInv, socketvars, fate, Increasing
<1> QED
  BY <1>1, <1>2, <1>3, <1>4 DEF UTypeOK

\* No block comes or goes: what the socket does by itself, and what a lookup does.
LEMMA BlocksStay ==
  ASSUME UInv, UNCHANGED <<given, dispatching, socketQueue>>
  PROVE  /\ HandedOver' = HandedOver /\ ToBeQueued' = ToBeQueued /\ InOrder(socketQueue)'
         /\ \A i \in DOMAIN socketQueue' :
              socketQueue'[i].block # "closeAfterSending" => socketQueue'[i].packet \in Packets
BY DEF UInv, UTypeOK, OrderInv, HandedOver, ToBeQueued, InOrder, Enqueues

LEMMA ResolveStep ==
  ASSUME UInv, NEW p \in Packets, Resolve(p) PROVE UInv'
<1>1. PICK result \in {Found, NotFound} : socketQueue' = Append(socketQueue, ResolvedBlock(p, result))
  BY DEF Resolve
<1>2. resolving' = resolving \ {p} /\ UNCHANGED <<given, dispatching, socketvars, fate>>
  BY DEF Resolve
<1>3. UTypeOK /\ OrderInv
  BY DEF UInv
<1>4. /\ socketQueue \in Seq(Blocks) /\ InOrder(socketQueue)
      /\ \A i \in Enqueues(socketQueue) : socketQueue[i].packet \in Packets
  BY <1>3, PlacesHavePackets DEF UTypeOK, OrderInv
<1> DEFINE b == ResolvedBlock(p, result)
<1>5. b \in Blocks /\ b.block = "resolved" /\ b.block # "enqueue" /\ b.packet = p
  BY DEF ResolvedBlock, Blocks
<1>6. socketQueue' = Append(socketQueue, b)
  BY <1>1
<1> HIDE DEF b
<1>7. /\ socketQueue' \in Seq(Blocks) /\ InOrder(socketQueue)' /\ ToBeQueued' = ToBeQueued \cup {}
      /\ \A i \in DOMAIN socketQueue' :
           socketQueue'[i] = b \/ (i \in DOMAIN socketQueue /\ socketQueue'[i] = socketQueue[i])
  BY <1>4, <1>5, <1>6, BlockAppended DEF ToBeQueued
<1>8. UTypeOK'
  <2>1. \A i \in DOMAIN socketQueue' :
          socketQueue'[i].block # "closeAfterSending" => socketQueue'[i].packet \in Packets
    BY <1>3, <1>5, <1>7 DEF UTypeOK
  <2> QED
    BY <1>2, <1>3, <1>7, <2>1 DEF UTypeOK, socketvars, fate
<1>9. OrderInv'
  BY <1>2, <1>7, <1>8, BlocksChange DEF socketvars, fate, HandedOver
<1> QED
  BY <1>2, <1>8, <1>9 DEF UInv, FateInv, CallInv, socketvars, fate, Increasing

\* The first block is run.
LEMMA BlockRun ==
  ASSUME UInv, socketQueue # <<>>, socketQueue' = Tail(socketQueue), UNCHANGED <<given, dispatching>>
  PROVE  /\ socketQueue' \in Seq(Blocks) /\ InOrder(socketQueue)' /\ ToBeQueued' \subseteq ToBeQueued
         /\ \A i \in DOMAIN socketQueue' :
              socketQueue'[i].block # "closeAfterSending" => socketQueue'[i].packet \in Packets
         /\ Head(socketQueue) \in Blocks
         /\ Head(socketQueue).block # "closeAfterSending" => Head(socketQueue).packet \in Packets
         /\ Head(socketQueue).block = "enqueue" =>
              /\ Head(socketQueue).packet \in ToBeQueued
              /\ \A p \in ToBeQueued' : Head(socketQueue).packet < p
         /\ HandedOver' = HandedOver
<1>1. UTypeOK /\ OrderInv
  BY DEF UInv
<1>2. /\ socketQueue \in Seq(Blocks) /\ InOrder(socketQueue)
      /\ \A i \in Enqueues(socketQueue) : socketQueue[i].packet \in Packets
  BY <1>1, PlacesHavePackets DEF UTypeOK, OrderInv
<1>3. \A i \in DOMAIN socketQueue :
        socketQueue[i].block # "closeAfterSending" => socketQueue[i].packet \in Packets
  BY <1>1 DEF UTypeOK
<1>4. HandedOver' = HandedOver
  BY DEF HandedOver
<1> QED
  BY <1>2, <1>3, <1>4, BlockTaken DEF ToBeQueued

LEMMA EnqueueStep ==
  ASSUME UInv, Enqueue PROVE UInv'
<1> DEFINE p == Head(socketQueue).packet
<1>1. /\ socketQueue # <<>> /\ Head(socketQueue).block = "enqueue"
      /\ sendQueue' = Append(sendQueue, p) /\ socketQueue' = Tail(socketQueue)
      /\ calls' = "maybeDequeueSend"
      /\ UNCHANGED <<given, dispatching, resolving, packet, currentSend, flags, sendTimer, fate>>
  BY DEF Enqueue
<1>2. UTypeOK /\ OrderInv /\ FateInv /\ CallInv
  BY DEF UInv
<1>3. /\ socketQueue' \in Seq(Blocks) /\ InOrder(socketQueue)' /\ ToBeQueued' \subseteq ToBeQueued
      /\ \A i \in DOMAIN socketQueue' :
           socketQueue'[i].block # "closeAfterSending" => socketQueue'[i].packet \in Packets
      /\ p \in Packets /\ p \in ToBeQueued
      /\ \A q \in ToBeQueued' : p < q
      /\ HandedOver' = HandedOver
  BY <1>1, BlockRun
<1> HIDE DEF p
<1>4. sendQueue \in Seq(Packets) /\ Increasing(sendQueue) /\ \A q \in Range(sendQueue) : q < p
  BY <1>2, <1>3 DEF UTypeOK, OrderInv, Precede, Queued
<1>5. sendQueue' \in Seq(Packets) /\ Increasing(sendQueue)' /\ Queued' = Queued \cup {p}
  BY <1>1, <1>3, <1>4, IncreasingAppend DEF Queued, Increasing
<1>6. UTypeOK'
  BY <1>1, <1>2, <1>3, <1>5 DEF UTypeOK, fate
<1>7. Current' = Current /\ Settled' = Settled
  BY <1>1 DEF Current, Settled, fate
<1>8. OrderInv'
  BY <1>2, <1>3, <1>5, <1>7 DEF OrderInv, Precede
<1> QED
  BY <1>1, <1>2, <1>6, <1>8 DEF UInv, FateInv, CallInv, fate, Increasing

\* Every packet stays where it is.
LEMMA PacketsStay ==
  ASSUME UInv, UTypeOK', InOrder(socketQueue)', ToBeQueued' \subseteq ToBeQueued,
         HandedOver' = HandedOver,
         UNCHANGED <<sendQueue, currentSend, onWire, notSent, discarded, forgotten>>
  PROVE  OrderInv' /\ FateInv'
<1>1. OrderInv'
  BY BlocksChange
<1> QED
  BY <1>1 DEF UInv, FateInv, Increasing

\* A close with nothing to send throws nothing away.
LEMMA ClosesWithNothing ==
  ASSUME closeWithError(FALSE), sendQueue = <<>>, currentSend = None, forgotten = {}
  PROVE  sendTimer' = FALSE
         /\ UNCHANGED <<sendQueue, currentSend, discarded, forgotten>>
<1>1. Range(sendQueue) = {} /\ {currentSend} \ {None} = {}
  BY DEF Range
<1> QED
  BY <1>1 DEF closeWithError

LEMMA ResolvedStep ==
  ASSUME UInv, Resolved PROVE UInv'
<1> DEFINE p == Head(socketQueue).packet
           result == Head(socketQueue).result
<1>1. /\ calls = "none" /\ socketQueue # <<>> /\ Head(socketQueue).block = "resolved"
      /\ packet' = [packet EXCEPT ![p] = result] /\ socketQueue' = Tail(socketQueue)
      /\ calls' = IF currentSend = p THEN "doPreSend" ELSE "none"
      /\ UNCHANGED <<given, dispatching, resolving, sendQueue, currentSend, flags, sendTimer, fate>>
  BY DEF Resolved
<1>2. UTypeOK /\ OrderInv /\ FateInv /\ CallInv
  BY DEF UInv
<1>3. /\ socketQueue' \in Seq(Blocks) /\ InOrder(socketQueue)' /\ ToBeQueued' \subseteq ToBeQueued
      /\ \A i \in DOMAIN socketQueue' :
           socketQueue'[i].block # "closeAfterSending" => socketQueue'[i].packet \in Packets
      /\ Head(socketQueue) \in Blocks /\ p \in Packets
      /\ HandedOver' = HandedOver
  BY <1>1, BlockRun
<1>4. result \in {Found, NotFound} /\ ~result.resolveInProgress
  BY <1>3 DEF Blocks, Found, NotFound
<1> HIDE DEF p, result
<1>5. packet' \in [Packets -> {Resolving, Found, NotFound}]
  BY <1>1, <1>2, <1>3, <1>4 DEF UTypeOK
<1>6. UTypeOK'
  BY <1>1, <1>2, <1>3, <1>5 DEF UTypeOK, fate
<1>7. OrderInv' /\ FateInv'
  BY <1>1, <1>3, <1>6, PacketsStay DEF fate
<1>8. CallInv'
  <2>1. currentSend \in Packets =>
          (~packet[currentSend].resolveInProgress => ~packet'[currentSend].resolveInProgress)
    BY <1>1, <1>2, <1>3, <1>4 DEF UTypeOK
  <2>2. None \notin Packets
    BY <1>2, PlacesHavePackets
  <2> QED
    BY <1>1, <1>2, <1>3, <2>1, <2>2 DEF CallInv, UTypeOK
<1> QED
  BY <1>6, <1>7, <1>8 DEF UInv

LEMMA CloseAfterSendingStep ==
  ASSUME UInv, CloseAfterSending PROVE UInv'
<1>1. /\ socketQueue # <<>> /\ socketQueue' = Tail(socketQueue)
      /\ UNCHANGED <<given, dispatching, resolving, packet, calls, onWire, notSent>>
      /\ calls = "none"
  BY DEF CloseAfterSending
<1>2. UTypeOK /\ OrderInv /\ FateInv /\ CallInv
  BY DEF UInv
<1>3. /\ UNCHANGED <<sendQueue, currentSend, discarded, forgotten>>
      /\ sendTimer' = FALSE \/ sendTimer' = sendTimer
  BY <1>2, ClosesWithNothing DEF CloseAfterSending, FateInv
<1>4. /\ socketQueue' \in Seq(Blocks) /\ InOrder(socketQueue)' /\ ToBeQueued' \subseteq ToBeQueued
      /\ \A i \in DOMAIN socketQueue' :
           socketQueue'[i].block # "closeAfterSending" => socketQueue'[i].packet \in Packets
      /\ HandedOver' = HandedOver
  BY <1>1, BlockRun
<1>5. UTypeOK'
  BY <1>1, <1>2, <1>3, <1>4 DEF UTypeOK
<1>6. OrderInv' /\ FateInv'
  BY <1>1, <1>3, <1>4, <1>5, PacketsStay
<1>7. CallInv'
  <2>1. CASE sendTimer' = FALSE
    BY <1>1, <2>1 DEF CallInv
  <2>2. CASE sendTimer' = sendTimer
    BY <1>1, <1>2, <1>3, <2>2 DEF CallInv
  <2> QED
    BY <1>3, <2>1, <2>2
<1> QED
  BY <1>5, <1>6, <1>7 DEF UInv

\* A step of the socket that moves no packet.
LEMMA SocketStays ==
  ASSUME UInv, UNCHANGED <<queuevars, packet, onWire, notSent, discarded, forgotten>>,
         UNCHANGED <<sendQueue, currentSend>>, sendTimer' \in BOOLEAN
  PROVE  UTypeOK' /\ OrderInv' /\ FateInv'
<1>1. UTypeOK
  BY DEF UInv
<1>2. UTypeOK'
  BY <1>1 DEF UTypeOK, queuevars
<1>3. /\ HandedOver' = HandedOver /\ ToBeQueued' = ToBeQueued /\ InOrder(socketQueue)'
  BY BlocksStay DEF queuevars
<1> QED
  BY <1>2, <1>3, PacketsStay

\* A close for an error throws away all that is queued.
LEMMA SocketCloses ==
  ASSUME UInv, closeWithError(TRUE), UNCHANGED <<queuevars, packet, onWire, notSent>>,
         calls' \in {"none", "maybeDequeueSend"}
  PROVE  UInv'
<1>1. UTypeOK /\ OrderInv /\ FateInv
  BY DEF UInv
<1>2. /\ currentSend' = None /\ sendTimer' = FALSE /\ sendQueue' = <<>>
      /\ discarded' = discarded \cup (Queued \cup Current) /\ forgotten' = forgotten
  BY DEF closeWithError, Queued, Current
<1>3. /\ HandedOver' = HandedOver /\ ToBeQueued' = ToBeQueued /\ InOrder(socketQueue)'
  BY BlocksStay DEF queuevars
<1>4. Current' = {} /\ Queued' = {} /\ Settled' = Settled \cup Queued \cup Current
      /\ Increasing(sendQueue)'
  BY <1>2 DEF Current, Queued, Settled, Range, Increasing
<1>5. Queued \cup Current \subseteq Packets
  BY <1>1, PlacesHavePackets
<1>6. UTypeOK'
  <2>1. sendQueue' \in Seq(Packets) /\ discarded' \subseteq Packets
    BY <1>1, <1>2, <1>5 DEF UTypeOK
  <2> QED
    BY <1>1, <1>2, <2>1 DEF UTypeOK, queuevars
<1>7. OrderInv'
  BY <1>1, <1>3, <1>4 DEF OrderInv, Precede
<1>8. FateInv'
  <2>1. (Queued \cup Current) \cap Settled = {}
    <3>1. SUFFICES ASSUME NEW q \in Settled, q \in Queued \cup Current
                   PROVE  FALSE
      OBVIOUS
    <3>2. q \in Nat
      BY <1>1, PlacesHavePackets
    <3>3. q < q
      BY <1>1, <3>1 DEF OrderInv, Precede
    <3> QED
      BY <3>2, <3>3
  <2> QED
    BY <1>1, <1>2, <2>1 DEF FateInv, Settled, Increasing
<1> QED
  BY <1>2, <1>6, <1>7, <1>8 DEF UInv, CallInv

\* A packet that is before all others gets its fate: it has left, or is reported.
LEMMA PacketSettles ==
  ASSUME UInv, NEW p \in Packets, \A q \in Settled : q < p,
         \/ onWire' = Append(onWire, p) /\ UNCHANGED notSent
         \/ notSent' = Append(notSent, p) /\ UNCHANGED onWire,
         UNCHANGED <<discarded, forgotten>>
  PROVE  /\ onWire' \in Seq(Packets) /\ notSent' \in Seq(Packets)
         /\ Settled' = Settled \cup {p} /\ FateInv'
<1>1. UTypeOK /\ FateInv
  BY DEF UInv
<1>2. p \notin Settled
  <2>1. p \in Nat
    BY <1>1, PlacesHavePackets
  <2> QED
    BY <2>1
<1>3. onWire \in Seq(Packets) /\ notSent \in Seq(Packets) /\ Increasing(onWire) /\ Increasing(notSent)
      /\ (\A q \in Range(onWire) : q < p) /\ (\A q \in Range(notSent) : q < p)
  BY <1>1 DEF UTypeOK, FateInv, Settled
<1>4. CASE onWire' = Append(onWire, p) /\ UNCHANGED notSent
  <2>1. onWire' \in Seq(Packets) /\ Increasing(onWire') /\ Range(onWire') = Range(onWire) \cup {p}
    BY <1>3, <1>4, IncreasingAppend
  <2> QED
    BY <1>1, <1>2, <1>3, <1>4, <2>1 DEF FateInv, Settled, Increasing
<1>5. CASE notSent' = Append(notSent, p) /\ UNCHANGED onWire
  <2>1. notSent' \in Seq(Packets) /\ Increasing(notSent') /\ Range(notSent') = Range(notSent) \cup {p}
    BY <1>3, <1>5, IncreasingAppend
  <2> QED
    BY <1>1, <1>2, <1>3, <1>5, <2>1 DEF FateInv, Settled, Increasing
<1> QED
  BY <1>4, <1>5

\* The current send ends.
LEMMA CurrentSettles ==
  ASSUME UInv, currentSend # None, endCurrentSend, calls' = "maybeDequeueSend",
         UNCHANGED <<queuevars, packet, sendQueue, discarded, forgotten>>,
         \/ onWire' = Append(onWire, currentSend) /\ UNCHANGED notSent
         \/ notSent' = Append(notSent, currentSend) /\ UNCHANGED onWire
  PROVE  UInv'
<1>1. UTypeOK /\ OrderInv
  BY DEF UInv
<1>2. currentSend \in Packets /\ currentSend \in Current /\ Current = {currentSend}
  BY <1>1 DEF UTypeOK, Current
<1>3. \A q \in Settled : q < currentSend
  BY <1>1, <1>2 DEF OrderInv, Precede
<1>4. /\ onWire' \in Seq(Packets) /\ notSent' \in Seq(Packets)
      /\ Settled' = Settled \cup {currentSend} /\ FateInv'
  BY <1>2, <1>3, PacketSettles
<1>5. currentSend' = None /\ sendTimer' = FALSE /\ Current' = {} /\ Queued' = Queued
  BY DEF endCurrentSend, Current, Queued
<1>6. /\ HandedOver' = HandedOver /\ ToBeQueued' = ToBeQueued /\ InOrder(socketQueue)'
  BY BlocksStay DEF queuevars
<1>7. UTypeOK'
  BY <1>1, <1>4, <1>5 DEF UTypeOK, queuevars
<1>8. OrderInv'
  BY <1>1, <1>2, <1>4, <1>5, <1>6 DEF OrderInv, Precede, Increasing
<1> QED
  BY <1>4, <1>5, <1>7, <1>8 DEF UInv, CallInv

LEMMA SkipUnresolvedStep ==
  ASSUME UInv, SkipUnresolved PROVE UInv'
<1>1. /\ calls = "maybeDequeueSend" /\ currentSend = None /\ sendQueue # <<>>
      /\ notSent' = Append(notSent, Head(sendQueue)) /\ sendQueue' = Tail(sendQueue)
      /\ UNCHANGED <<queuevars, packet, currentSend, flags, sendTimer, calls, onWire, discarded,
                     forgotten>>
  BY DEF SkipUnresolved, Ready, NotSendingNow
<1>2. UTypeOK /\ OrderInv /\ CallInv
  BY DEF UInv
<1>3. /\ sendQueue' \in Seq(Packets) /\ Increasing(sendQueue)' /\ Head(sendQueue) \in Packets
      /\ Queued = Queued' \cup {Head(sendQueue)}
      /\ \A q \in Queued' : Head(sendQueue) < q
  BY <1>1, <1>2, IncreasingTail DEF UTypeOK, OrderInv, Queued, Increasing
<1>4. \A q \in Settled : q < Head(sendQueue)
  BY <1>2, <1>3 DEF OrderInv, Precede
<1>5. /\ notSent' \in Seq(Packets) /\ Settled' = Settled \cup {Head(sendQueue)} /\ FateInv'
  BY <1>1, <1>3, <1>4, PacketSettles
<1>6. /\ HandedOver' = HandedOver /\ ToBeQueued' = ToBeQueued /\ InOrder(socketQueue)'
  BY <1>1, BlocksStay DEF queuevars
<1>7. Current = {} /\ Current' = {}
  BY <1>1 DEF Current
<1>8. UTypeOK'
  BY <1>1, <1>2, <1>3, <1>5 DEF UTypeOK, queuevars
<1>9. OrderInv'
  BY <1>2, <1>3, <1>5, <1>6, <1>7 DEF OrderInv, Precede
<1> QED
  BY <1>1, <1>2, <1>5, <1>8, <1>9 DEF UInv, CallInv

LEMMA TakeNextStep ==
  ASSUME UInv, TakeNext PROVE UInv'
<1>1. /\ currentSend = None /\ sendQueue # <<>>
      /\ currentSend' = Head(sendQueue) /\ sendQueue' = Tail(sendQueue) /\ calls' = "doPreSend"
      /\ UNCHANGED <<queuevars, packet, flags, sendTimer, fate>>
  BY DEF TakeNext, Ready
<1>2. UTypeOK /\ OrderInv /\ FateInv /\ CallInv
  BY DEF UInv
<1>3. /\ sendQueue' \in Seq(Packets) /\ Increasing(sendQueue)' /\ Head(sendQueue) \in Packets
      /\ Queued = Queued' \cup {Head(sendQueue)}
      /\ \A q \in Queued' : Head(sendQueue) < q
  BY <1>1, <1>2, IncreasingTail DEF UTypeOK, OrderInv, Queued, Increasing
<1>4. currentSend' # None /\ Current' = {Head(sendQueue)}
  BY <1>1, <1>2, <1>3, PlacesHavePackets DEF Current
<1>5. Settled' = Settled
  BY <1>1 DEF Settled, fate
<1>6. /\ HandedOver' = HandedOver /\ ToBeQueued' = ToBeQueued /\ InOrder(socketQueue)'
  BY <1>1, BlocksStay DEF queuevars
<1>7. UTypeOK'
  BY <1>1, <1>2, <1>3 DEF UTypeOK, queuevars, fate
<1>8. OrderInv'
  BY <1>2, <1>3, <1>4, <1>5, <1>6 DEF OrderInv, Precede
<1>9. FateInv'
  BY <1>1, <1>2 DEF FateInv, fate, Increasing
<1>10. CallInv'
  BY <1>1, <1>2, <1>4 DEF CallInv
<1> QED
  BY <1>7, <1>8, <1>9, <1>10 DEF UInv

LEMMA DequeueStep ==
  ASSUME UInv, maybeDequeueSend PROVE UInv'
<1>1. UTypeOK /\ FateInv /\ CallInv
  BY DEF UInv
<1>2. CASE LeaveQueue
  <2>1. /\ UNCHANGED <<queuevars, packet, sendQueue, currentSend, sendTimer, fate>> /\ calls' = "none"
    BY <1>2 DEF LeaveQueue
  <2>2. UTypeOK' /\ OrderInv' /\ FateInv'
    BY <1>1, <2>1, SocketStays DEF UTypeOK, fate
  <2> QED
    BY <1>1, <2>1, <2>2 DEF UInv, CallInv
<1>3. CASE createSockets
  <2>1. /\ UNCHANGED <<queuevars, packet, onWire, notSent>>
        /\ \/ UNCHANGED <<sendQueue, currentSend, sendTimer, discarded, forgotten, calls>>
           \/ closeWithError(TRUE) /\ calls' = "none"
    BY <1>3 DEF createSockets
  <2>2. CASE closeWithError(TRUE) /\ calls' = "none"
    BY <2>1, <2>2, SocketCloses
  <2>3. CASE UNCHANGED <<sendQueue, currentSend, sendTimer, discarded, forgotten, calls>>
    <3>1. UTypeOK' /\ OrderInv' /\ FateInv'
      BY <1>1, <2>1, <2>3, SocketStays DEF UTypeOK
    <3> QED
      BY <1>1, <2>1, <2>3, <3>1 DEF UInv, CallInv
  <2> QED
    BY <2>1, <2>2, <2>3
<1>4. CASE QueueIsEmpty
  <2>1. /\ UNCHANGED <<queuevars, packet, onWire, notSent>> /\ calls' = "none"
        /\ sendQueue = <<>> /\ currentSend = None
        /\ \/ closeWithError(FALSE)
           \/ UNCHANGED <<sendQueue, currentSend, sendTimer, discarded, forgotten>>
    BY <1>4 DEF QueueIsEmpty, Ready
  <2>2. sendTimer = FALSE
    BY <1>1, <2>1 DEF CallInv, UTypeOK
  <2>3. sendTimer' = FALSE /\ UNCHANGED <<sendQueue, currentSend, discarded, forgotten>>
    BY <1>1, <2>1, <2>2, ClosesWithNothing DEF FateInv
  <2>4. UTypeOK' /\ OrderInv' /\ FateInv'
    BY <2>1, <2>3, SocketStays
  <2> QED
    BY <2>1, <2>3, <2>4 DEF UInv, CallInv
<1> QED
  BY <1>2, <1>3, <1>4, SkipUnresolvedStep, TakeNextStep DEF maybeDequeueSend

LEMMA PreSendStep ==
  ASSUME UInv, doPreSend PROVE UInv'
<1>1. /\ calls = "doPreSend"
      /\ UNCHANGED <<queuevars, packet, sendQueue, flags, onWire, discarded, forgotten>>
  BY DEF doPreSend
<1>2. UTypeOK /\ CallInv /\ currentSend # None
  BY <1>1 DEF UInv, CallInv
<1>3. CASE endCurrentSend /\ NotSendingNow(currentSend) /\ calls' = "maybeDequeueSend"
  BY <1>1, <1>2, <1>3, CurrentSettles DEF NotSendingNow
<1>4. CASE /\ UNCHANGED <<currentSend, sendTimer, notSent>>
           /\ \/ calls' = "none"
              \/ calls' = "doSend" /\ ~packet[currentSend].resolveInProgress
  <2>1. UTypeOK' /\ OrderInv' /\ FateInv'
    BY <1>1, <1>2, <1>4, SocketStays DEF UTypeOK
  <2> QED
    BY <1>1, <1>2, <1>4, <2>1 DEF UInv, CallInv
<1> QED
  BY <1>1, <1>3, <1>4 DEF doPreSend

LEMMA SendStep ==
  ASSUME UInv, doSend PROVE UInv'
<1>1. calls = "doSend" /\ UNCHANGED <<queuevars, packet>>
  BY DEF doSend
<1>2. CallInv /\ currentSend # None /\ ~packet[currentSend].resolveInProgress
  BY <1>1 DEF UInv, CallInv
<1>3. CASE SendsIt
  BY <1>1, <1>2, <1>3, CurrentSettles DEF SendsIt
<1>4. CASE WaitsForRoom
  <2>1. UTypeOK' /\ OrderInv' /\ FateInv'
    BY <1>1, <1>4, SocketStays DEF WaitsForRoom, fate
  <2> QED
    BY <1>1, <1>2, <1>4, <2>1 DEF WaitsForRoom, UInv, CallInv
<1>5. CASE SendRefused
  BY <1>1, <1>5, SocketCloses DEF SendRefused
<1> QED
  BY <1>3, <1>4, <1>5 DEF doSend

LEMMA TimeoutStep ==
  ASSUME UInv, doSendTimeout PROVE UInv'
<1>1. /\ sendTimer /\ notSent' = Append(notSent, currentSend) /\ endCurrentSend
      /\ calls' = "maybeDequeueSend"
      /\ UNCHANGED <<queuevars, packet, sendQueue, flags, onWire, discarded, forgotten>>
  BY DEF doSendTimeout, NotSendingNow
<1>2. currentSend # None
  BY <1>1 DEF UInv, CallInv
<1> QED
  BY <1>1, <1>2, CurrentSettles

LEMMA SocketStep == UInv /\ [UNext]_gvars => UInv'
<1> SUFFICES ASSUME UInv, [UNext]_gvars PROVE UInv'
  OBVIOUS
<1>1. CASE OnSocketQueue
  BY <1>1, EnqueueStep, ResolvedStep, CloseAfterSendingStep, DequeueStep, PreSendStep, SendStep
  DEF OnSocketQueue
<1>2. CASE UNCHANGED gvars
  <2>1. UTypeOK' /\ OrderInv' /\ FateInv'
    BY <1>2, SocketStays DEF gvars, socketvars, fate, UInv, UTypeOK
  <2> QED
    BY <1>2, <2>1 DEF UInv, CallInv, gvars, socketvars
<1> QED
  BY <1>1, <1>2, SendPacketStep, DispatchStep, ResolveStep, TimeoutStep DEF UNext

-----------------------------------------------------------------------------
(* The theorem.                                                            *)

\* Datagrams leave in the order in which their messages were given to F53OSCClient, each
\* once; a message has one of the fates sent, reported and discarded for an error; and
\* none is lost to closeAfterSending, which is asked for after each message: at every
\* time, for any number of messages, in every order in which the lookups answer and the
\* kernel takes, defers or refuses what is sent.
THEOREM MessagesLeaveOnceInOrder == USpec => []SentOnceInOrder
<1>1. UInv => SentOnceInOrder
  <2> SUFFICES ASSUME UInv PROVE SentOnceInOrder
    OBVIOUS
  <2>1. IsInjective(notSent)
    BY IncreasingIsInjective DEF UInv, UTypeOK, FateInv
  <2> QED
    BY <2>1 DEF UInv, FateInv, CallInv, Increasing, SentOnceInOrder
<1> QED
  BY <1>1, SocketBegins, SocketStep, PTL DEF USpec

-----------------------------------------------------------------------------
(* tcpreceive.                                                             *)

PollEntry == [fd : Fds, fn : {"connectpoll", "read"}, obj : Objs]

ReceiveTypeOK ==
  /\ sys_fdpoll \in Seq(PollEntry)
  /\ readset \subseteq Fds /\ at \in Nat
  /\ x_connectsocket \in [Objs -> Fds \cup {NoSocket}]
  /\ x_nconnections \in [Objs -> Nat]
  /\ x_connection \in [Objs -> [Slots -> [socket : Fds \cup {NoSocket}, addr : Conns \cup {NoConn}]]]
  /\ backlog \in [Objs -> Seq(Conns)]
  /\ fdconn \in [Fds -> Conns \cup {NoConn, Listening}]
  /\ peer \in [Conns -> {"idle", "connected", "closed"}]
  /\ unread \subseteq Conns

\* A connection has one descriptor, or one place in one backlog.
ConnInv ==
  /\ \A fd, g \in Fds : fdconn[fd] \in Conns /\ fdconn[fd] = fdconn[g] => fd = g
  /\ \A o, p \in Objs : \A i \in DOMAIN backlog[o], j \in DOMAIN backlog[p] :
       backlog[o][i] = backlog[p][j] => o = p /\ i = j
  /\ \A o \in Objs : \A i \in DOMAIN backlog[o] : \A fd \in Fds : fdconn[fd] # backlog[o][i]
  /\ \A c \in Conns : peer[c] = "idle" =>
       (\A fd \in Fds : fdconn[fd] # c) /\ (\A o \in Objs : \A i \in DOMAIN backlog[o] : backlog[o][i] # c)

ListenInv ==
  /\ \A o \in Objs : x_connectsocket[o] # NoSocket => fdconn[x_connectsocket[o]] = Listening
  /\ \A o, p \in Objs : x_connectsocket[o] = x_connectsocket[p] /\ x_connectsocket[o] # NoSocket => o = p
  /\ \A fd \in Fds : fdconn[fd] = Listening => \E o \in Objs : x_connectsocket[o] = fd
  /\ \A o \in Objs : x_connectsocket[o] = NoSocket => backlog[o] = <<>>

TableInv ==
  /\ \A o \in Objs : x_nconnections[o] = Cardinality(Used(o))
  /\ \A o \in Objs : \A i \in Used(o) :
       x_connection[o][i].addr \in Conns /\ fdconn[x_connection[o][i].socket] = x_connection[o][i].addr
  /\ \A fd \in Fds : fdconn[fd] \in Conns =>
       \E o \in Objs : \E i \in Used(o) : x_connection[o][i].socket = fd
  /\ \A o, p \in Objs : \A i \in Used(o), j \in Used(p) :
       x_connection[o][i].socket = x_connection[p][j].socket => o = p /\ i = j

PollInv ==
  /\ \A k \in DOMAIN sys_fdpoll : LET e == sys_fdpoll[k] IN
       IF e.fn = "connectpoll" THEN x_connectsocket[e.obj] = e.fd
       ELSE \E i \in Used(e.obj) : x_connection[e.obj][i].socket = e.fd
  /\ \A k, l \in DOMAIN sys_fdpoll : sys_fdpoll[k].fd = sys_fdpoll[l].fd => k = l
  /\ \A fd \in Fds : fdconn[fd] # NoConn => \E k \in DOMAIN sys_fdpoll : sys_fdpoll[k].fd = fd
  /\ \A k, l \in DOMAIN sys_fdpoll :
       k < l /\ sys_fdpoll[k].fn = "read" => sys_fdpoll[l].fn = "read"

\* The walk comes to the listening sockets first: until it has, nothing that
\* select() spoke of is closed.
WalkInv ==
  /\ at = 0 => readset = {}
  /\ \A k \in DOMAIN sys_fdpoll :
       k >= at /\ sys_fdpoll[k].fd \in readset => Readable(sys_fdpoll[k].fd)
  /\ \A k \in DOMAIN sys_fdpoll : k >= at /\ sys_fdpoll[k].fn = "connectpoll" =>
       \A fd \in readset : fdconn[fd] # NoConn

ReceiveInv == ReceiveTypeOK /\ ConnInv /\ ListenInv /\ TableInv /\ PollInv /\ WalkInv

-----------------------------------------------------------------------------
(* The list without entries.                                               *)

LEMMA UnregisteredProperties ==
  ASSUME NEW S, NEW list \in Seq(S), NEW fd
  PROVE  \/ /\ Unregistered(list, fd) = list
            /\ \A i \in DOMAIN list : list[i].fd # fd
         \/ \E k \in DOMAIN list :
              /\ list[k].fd = fd
              /\ Unregistered(list, fd) = RemoveAt(list, k)
<1> DEFINE I == {i \in 1..Len(list) : list[i].fd = fd}
<1>1. DOMAIN list = 1..Len(list) /\ Len(list) \in Nat
  BY LenProperties
<1>2. Unregistered(list, fd) = IF \E i \in 1..Len(list) : list[i].fd = fd
                               THEN RemoveAt(list, IF I # {} THEN Min(I) ELSE 0) ELSE list
  BY DEF Unregistered, RemoveFirstMatch, SelectInSeq
<1>3. CASE I = {}
  BY <1>1, <1>2, <1>3
<1>4. CASE I # {}
  <2>1. I \subseteq Nat
    BY <1>1
  <2>2. Min(I) \in I
    BY <1>4, <2>1, LeastElement
  <2> QED
    BY <1>1, <1>2, <1>4, <2>2
<1> QED
  BY <1>3, <1>4

\* new is what stays of list without the entries for gone: ix says where it was.
Shrunk(new, list, gone, ix) ==
  /\ new \in Seq(PollEntry)
  /\ ix \in [1..Len(new) -> 1..Len(list)]
  /\ \A j, k \in 1..Len(new) : j < k => ix[j] < ix[k]
  /\ \A j \in 1..Len(new) : new[j] = list[ix[j]] /\ list[ix[j]].fd \notin gone
  /\ \A i \in 1..Len(list) : list[i].fd \notin gone => \E j \in 1..Len(new) : ix[j] = i

LEMMA UnregisteredIsShrunk ==
  ASSUME NEW list \in Seq(PollEntry), NEW fd,
         \A k, l \in DOMAIN list : list[k].fd = list[l].fd => k = l
  PROVE  \E ix : /\ Shrunk(Unregistered(list, fd), list, {fd}, ix)
                 /\ \A j \in 1..Len(Unregistered(list, fd)) : ix[j] >= j
<1> DEFINE new == Unregistered(list, fd)
           n == Len(list)
<1>0. DOMAIN list = 1..n /\ n \in Nat
  BY LenProperties
<1>1. CASE new = list /\ \A i \in DOMAIN list : list[i].fd # fd
  <2> HIDE DEF new
  <2> DEFINE ix == [j \in 1..n |-> j]
  <2>1. Shrunk(new, list, {fd}, ix) /\ \A j \in 1..Len(new) : ix[j] >= j
    BY <1>0, <1>1 DEF Shrunk
  <2> QED
    BY <2>1 DEF new
<1>2. ASSUME NEW k \in DOMAIN list, list[k].fd = fd, new = RemoveAt(list, k)
      PROVE  \E ix : Shrunk(new, list, {fd}, ix) /\ \A j \in 1..Len(new) : ix[j] >= j
  <2> HIDE DEF new
  <2> DEFINE ix == [j \in 1..(n - 1) |-> IF j < k THEN j ELSE j + 1]
  <2>1. /\ new \in Seq(PollEntry) /\ Len(new) = n - 1
        /\ \A i \in 1..(n - 1) : new[i] = IF i < k THEN list[i] ELSE list[i + 1]
    BY <1>0, <1>2, RemoveAtProperties
  <2>2. k \in 1..n
    BY <1>0, <1>2
  <2>3. /\ ix \in [1..(n - 1) -> 1..n]
        /\ \A j \in 1..(n - 1) : ix[j] >= j /\ ix[j] # k
        /\ \A i, j \in 1..(n - 1) : i < j => ix[i] < ix[j]
        /\ \A i \in 1..n : i # k => \E j \in 1..(n - 1) : ix[j] = i
    <3>1. ASSUME NEW i \in 1..n, i # k PROVE \E j \in 1..(n - 1) : ix[j] = i
      <4> DEFINE j == IF i < k THEN i ELSE i - 1
      <4>1. j \in 1..(n - 1) /\ ix[j] = i
        BY <1>0, <2>2, <3>1
      <4> QED
        BY <4>1
    <3> QED
      BY <1>0, <2>2, <3>1
  <2>4. \A j \in 1..(n - 1) : new[j] = list[ix[j]]
    BY <2>1
  <2> HIDE DEF ix
  <2>5. Shrunk(new, list, {fd}, ix)
    BY <1>0, <1>2, <2>1, <2>2, <2>3, <2>4 DEF Shrunk
  <2> QED
    BY <2>1, <2>3, <2>5
<1> QED
  BY <1>1, <1>2, UnregisteredProperties

LEMMA AllUnregisteredIsShrunk ==
  ASSUME NEW list \in Seq(PollEntry), NEW gone
  PROVE  \E ix : Shrunk(AllUnregistered(list, gone), list, gone, ix)
<1> DEFINE new == AllUnregistered(list, gone)
           away == {i \in DOMAIN list : list[i].fd \in gone}
<1>1. new = Omit(list, away)
  BY DEF AllUnregistered
<1>2. new \in Seq(PollEntry)
  BY <1>1, OmitProperties
<1>3. PICK ix : Picks(ix, new, list, away)
  BY <1>1, OmitProperties
<1> HIDE DEF new
<1>4. \A i \in 1..Len(list) : i \in away <=> list[i].fd \in gone
  BY LenProperties
<1> HIDE DEF away
<1>5. Shrunk(new, list, gone, ix)
  BY <1>2, <1>3, <1>4 DEF Shrunk, Picks
<1> QED
  BY <1>5 DEF new

-----------------------------------------------------------------------------
(* The initial state.                                                      *)

\* What is used of the assumption.
LEMMA ReceiveConstants ==
  /\ NoConn \notin Conns /\ Listening \notin Conns /\ NoConn # Listening
  /\ NoSocket = -1 /\ NoSocket \notin Fds /\ Fds \subseteq Nat \ {0}
  /\ IsFiniteSet(Objs) /\ Cardinality(Objs) \in Nat \ {0} /\ Cardinality(Objs) <= MaxFd
  /\ IsFiniteSet(Slots) /\ Slots \subseteq Nat
<1>1. Cardinality(Objs) \in Nat /\ Cardinality(Objs) # 0
  BY TcpReceiveAssumption, FS_CardinalityType, FS_EmptySet
<1>2. IsFiniteSet(0..(MAX_CONNECTIONS - 1))
  BY TcpReceiveAssumption, FS_Interval
<1> QED
  BY <1>1, <1>2, TcpReceiveAssumption DEF NoConn, Listening, NoSocket, Fds, Slots

LEMMA SocketsAreGivenOut ==
  LET n == Cardinality(Objs)
      f == CHOOSE g \in [Objs -> 1..n] : IsInjective(g)
  IN  /\ f \in [Objs -> 1..n]
      /\ \A o, p \in Objs : f[o] = f[p] => o = p
      /\ \A i \in 1..n : \E o \in Objs : f[o] = i
<1> DEFINE n == Cardinality(Objs)
           f == CHOOSE g \in [Objs -> 1..n] : IsInjective(g)
<1>1. IsFiniteSet(Objs) /\ n \in Nat
  BY ReceiveConstants
<1>2. IsFiniteSet(1..n) /\ Cardinality(1..n) = n
  <2> HIDE DEF n
  <2> QED
    BY <1>1, FS_Interval
<1>3. \E g \in [Objs -> 1..n] : IsInjective(g)
  <2>1. ExistsBijection(Objs, 1..n)
    BY <1>1, <1>2, FS_SameCardinalityBij
  <2> QED
    BY <2>1 DEF ExistsBijection, Bijection, Injection
<1>4. f \in Injection(Objs, 1..n)
  BY <1>3 DEF Injection
<1> HIDE DEF f
<1>5. f \in Surjection(Objs, 1..n)
  BY <1>1, <1>2, <1>4, FS_Injection
<1> QED
  BY <1>4, <1>5 DEF Injection, Surjection, IsInjective, f

LEMMA ReceiveBegins == Init => ReceiveInv
<1> SUFFICES ASSUME Init PROVE ReceiveInv
  OBVIOUS
<1> DEFINE n == Cardinality(Objs)
<1>1. /\ x_connectsocket \in [Objs -> 1..n]
      /\ \A o, p \in Objs : x_connectsocket[o] = x_connectsocket[p] => o = p
      /\ \A i \in 1..n : \E o \in Objs : x_connectsocket[o] = i
  BY SocketsAreGivenOut DEF Init
<1>2. /\ sys_fdpoll = [i \in 1..n |-> [fd |-> i, fn |-> "connectpoll",
                                       obj |-> CHOOSE o \in Objs : x_connectsocket[o] = i]]
      /\ readset = {} /\ at = 0
      /\ x_nconnections = [o \in Objs |-> 0]
      /\ x_connection = [o \in Objs |-> [i \in Slots |-> FreeSlot]]
      /\ backlog = [o \in Objs |-> <<>>]
      /\ fdconn = [fd \in Fds |-> IF fd <= n THEN Listening ELSE NoConn]
      /\ peer = [c \in Conns |-> "idle"]
      /\ unread = {}
  BY DEF Init, PollInit
<1>3. n \in Nat /\ 1..n \subseteq Fds
  BY ReceiveConstants, TcpReceiveAssumption DEF Fds
<1> HIDE DEF n
<1>4. \A i \in 1..n : /\ sys_fdpoll[i] \in PollEntry
                       /\ sys_fdpoll[i].fd = i /\ sys_fdpoll[i].fn = "connectpoll"
                       /\ sys_fdpoll[i].obj \in Objs /\ x_connectsocket[sys_fdpoll[i].obj] = i
  <2>1. ASSUME NEW i \in 1..n
        PROVE  /\ (CHOOSE o \in Objs : x_connectsocket[o] = i) \in Objs
               /\ x_connectsocket[CHOOSE o \in Objs : x_connectsocket[o] = i] = i
    BY <1>1
  <2> QED
    BY <1>2, <1>3, <2>1 DEF PollEntry
<1>5. DOMAIN sys_fdpoll = 1..n /\ sys_fdpoll \in Seq(PollEntry)
  <2>1. sys_fdpoll \in [1..n -> PollEntry]
    BY <1>2, <1>4
  <2> QED
    BY <1>3, <2>1, IsASeq
<1>6. \A o \in Objs : Used(o) = {}
  BY <1>2 DEF Used, FreeSlot
<1>7. ReceiveTypeOK
  BY <1>1, <1>2, <1>3, <1>5 DEF ReceiveTypeOK, FreeSlot
<1>8. ConnInv
  <2>1. \A fd \in Fds : fdconn[fd] \notin Conns
    BY <1>2, ReceiveConstants
  <2>2. \A o \in Objs : DOMAIN backlog[o] = {}
    BY <1>2
  <2> QED
    BY <2>1, <2>2 DEF ConnInv
<1>9. ListenInv
  BY <1>1, <1>2, <1>3, ReceiveConstants DEF ListenInv
<1>10. TableInv
  <2>1. \A fd \in Fds : fdconn[fd] \notin Conns
    BY <1>2, ReceiveConstants
  <2> QED
    BY <1>2, <1>6, <2>1, FS_EmptySet DEF TableInv
<1>11. PollInv
  <2>1. \A fd \in Fds : fdconn[fd] # NoConn => fd \in 1..n
    BY <1>2, <1>3 DEF Fds
  <2> QED
    BY <1>4, <1>5, <2>1 DEF PollInv
<1>12. WalkInv
  BY <1>2 DEF WalkInv
<1> QED
  BY <1>7, <1>8, <1>9, <1>10, <1>11, <1>12 DEF ReceiveInv

-----------------------------------------------------------------------------
(* Peers and kernel.                                                       *)

LEMMA EntryIs ==
  ASSUME ReceiveTypeOK, NEW k \in DOMAIN sys_fdpoll
  PROVE  /\ k \in Nat \ {0} /\ sys_fdpoll[k] \in PollEntry
         /\ sys_fdpoll[k].fd \in Fds /\ sys_fdpoll[k].obj \in Objs
         /\ sys_fdpoll[k].fn \in {"connectpoll", "read"}
<1>1. k \in 1..Len(sys_fdpoll) /\ Len(sys_fdpoll) \in Nat
  BY LenProperties DEF ReceiveTypeOK
<1>2. sys_fdpoll[k] \in PollEntry
  BY <1>1, ElementOfSeq DEF ReceiveTypeOK
<1> QED
  BY <1>1, <1>2 DEF PollEntry

\* Where nothing but what is to be received changes, and what can be read stays so.
LEMMA MoreIsReadable ==
  ASSUME ReceiveInv, UNCHANGED <<pollvars, tablevars, x_connectsocket, fdconn>>,
         \A fd \in Fds : Readable(fd) => Readable(fd)'
  PROVE  TableInv' /\ PollInv' /\ WalkInv'
<1>1. UNCHANGED <<sys_fdpoll, readset, at, x_nconnections, x_connection, x_connectsocket, fdconn>>
  BY DEF pollvars, tablevars
<1>2. TableInv' /\ PollInv'
  BY <1>1 DEF ReceiveInv, TableInv, PollInv, Used
<1>3. WalkInv'
  <2>1. \A k \in DOMAIN sys_fdpoll : sys_fdpoll[k].fd \in Fds
    BY EntryIs DEF ReceiveInv
  <2> QED
    BY <1>1, <2>1 DEF ReceiveInv, WalkInv
<1> QED
  BY <1>2, <1>3

LEMMA PeerConnectStep ==
  ASSUME ReceiveInv, NEW c \in Conns, NEW o \in Objs, PeerConnect(c, o)
  PROVE  ReceiveInv'
<1> DEFINE b == backlog[o]
           n == Len(b)
<1>1. /\ peer[c] = "idle" /\ x_connectsocket[o] # NoSocket
      /\ backlog' = [backlog EXCEPT ![o] = Append(b, c)]
      /\ peer' = [peer EXCEPT ![c] = "connected"]
      /\ UNCHANGED <<sys_fdpoll, readset, at, x_nconnections, x_connection, x_connectsocket, fdconn, unread>>
  BY DEF PeerConnect, pollvars, tablevars
<1>2. b \in Seq(Conns)
  BY DEF ReceiveInv, ReceiveTypeOK
<1>3. /\ Append(b, c) \in Seq(Conns) /\ n \in Nat
      /\ DOMAIN b = 1..n /\ DOMAIN Append(b, c) = 1..n \cup {n + 1}
      /\ \A i \in 1..n : Append(b, c)[i] = b[i]
      /\ Append(b, c)[n + 1] = c
      /\ Append(b, c) # <<>>
  <2>1. 1..(n + 1) = 1..n \cup {n + 1}
    BY <1>2, LenProperties
  <2> QED
    BY <1>2, <2>1, AppendProperties, LenProperties
<1>4. /\ backlog'[o] = Append(b, c)
      /\ \A p \in Objs : p # o => backlog'[p] = backlog[p]
  BY <1>1 DEF ReceiveInv, ReceiveTypeOK
<1> HIDE DEF b, n
<1>5. ReceiveTypeOK'
  BY <1>1, <1>3 DEF ReceiveInv, ReceiveTypeOK
<1>6. \A p \in Objs : \A i \in DOMAIN backlog'[p] :
        IF p = o /\ i = n + 1 THEN backlog'[p][i] = c
        ELSE i \in DOMAIN backlog[p] /\ backlog'[p][i] = backlog[p][i]
  BY <1>3, <1>4 DEF b
<1>7. /\ \A fd \in Fds : fdconn[fd] # c
      /\ \A p \in Objs : \A i \in DOMAIN backlog[p] : backlog[p][i] # c
  BY <1>1 DEF ReceiveInv, ConnInv
<1>8. ConnInv'
  <2>1. ASSUME NEW p \in Objs, NEW q \in Objs, NEW i \in DOMAIN backlog'[p], NEW j \in DOMAIN backlog'[q],
               backlog'[p][i] = backlog'[q][j]
        PROVE  p = q /\ i = j
    BY <1>6, <1>7, <2>1 DEF ReceiveInv, ConnInv
  <2>2. \A p \in Objs : \A i \in DOMAIN backlog'[p] : \A fd \in Fds : fdconn[fd] # backlog'[p][i]
    BY <1>6, <1>7 DEF ReceiveInv, ConnInv
  <2>3. ASSUME NEW d \in Conns, peer'[d] = "idle"
        PROVE  /\ \A fd \in Fds : fdconn[fd] # d
               /\ \A p \in Objs : \A i \in DOMAIN backlog'[p] : backlog'[p][i] # d
    <3>1. d # c /\ peer[d] = "idle"
      BY <1>1, <2>3 DEF ReceiveInv, ReceiveTypeOK
    <3> QED
      BY <1>6, <3>1 DEF ReceiveInv, ConnInv
  <2>4. \A fd, g \in Fds : fdconn[fd] \in Conns /\ fdconn[fd] = fdconn[g] => fd = g
    BY DEF ReceiveInv, ConnInv
  <2> QED
    BY <1>1, <2>1, <2>2, <2>3, <2>4 DEF ConnInv
<1>9. ListenInv'
  BY <1>1, <1>4 DEF ReceiveInv, ListenInv
<1>10. \A fd \in Fds : Readable(fd) => Readable(fd)'
  <2>1. \A p \in Objs : backlog[p] # <<>> => backlog'[p] # <<>>
    BY <1>3, <1>4
  <2>2. \A d \in Conns : peer[d] = "closed" => peer'[d] = "closed"
    BY <1>1 DEF ReceiveInv, ReceiveTypeOK
  <2>3. \A fd \in Fds : fdconn[fd] \in Conns \cup {NoConn, Listening}
    BY DEF ReceiveInv, ReceiveTypeOK
  <2> QED
    BY <1>1, <2>1, <2>2, <2>3 DEF Readable
<1> QED
  BY <1>1, <1>5, <1>8, <1>9, <1>10, MoreIsReadable DEF ReceiveInv, pollvars, tablevars

LEMMA PeerStep ==
  ASSUME ReceiveInv, NEW c \in Conns, PeerSend(c) \/ PeerClose(c)
  PROVE  ReceiveInv'
<1>1. UNCHANGED <<sys_fdpoll, readset, at, x_nconnections, x_connection, x_connectsocket, backlog, fdconn>>
  BY DEF PeerSend, PeerClose, pollvars, tablevars
<1>2. /\ peer[c] = "connected"
      /\ \/ unread' = unread \cup {c} /\ peer' = peer
         \/ peer' = [peer EXCEPT ![c] = "closed"] /\ unread' \in {unread, unread \ {c}}
  BY DEF PeerSend, PeerClose
<1>3. ReceiveTypeOK'
  BY <1>1, <1>2 DEF ReceiveInv, ReceiveTypeOK
<1>4. ConnInv' /\ ListenInv'
  <2>1. \A d \in Conns : peer'[d] = "idle" => peer[d] = "idle"
    BY <1>2 DEF ReceiveInv, ReceiveTypeOK
  <2> QED
    BY <1>1, <2>1 DEF ReceiveInv, ConnInv, ListenInv
<1>5. \A fd \in Fds : Readable(fd) => Readable(fd)'
  <2>1. \A d \in Conns : d \in unread \/ peer[d] = "closed" => d \in unread' \/ peer'[d] = "closed"
    BY <1>2 DEF ReceiveInv, ReceiveTypeOK
  <2>2. \A fd \in Fds : fdconn[fd] \in Conns \cup {NoConn, Listening}
    BY DEF ReceiveInv, ReceiveTypeOK
  <2> QED
    BY <1>1, <2>1, <2>2 DEF Readable
<1> QED
  BY <1>1, <1>3, <1>4, <1>5, MoreIsReadable DEF ReceiveInv, pollvars, tablevars

-----------------------------------------------------------------------------
(* The walk.                                                               *)

\* An entry is passed, or called without effect on what others can read.
LEMMA WalkGoesOn ==
  ASSUME ReceiveTypeOK, WalkInv, sys_fdpoll' = sys_fdpoll, readset' = readset, at' = at + 1,
         x_connectsocket' = x_connectsocket, fdconn' = fdconn,
         \A k \in DOMAIN sys_fdpoll :
           k > at /\ Readable(sys_fdpoll[k].fd) => Readable(sys_fdpoll[k].fd)'
  PROVE  WalkInv'
<1>1. at \in Nat /\ at' \in Nat /\ at' # 0
  BY DEF ReceiveTypeOK
<1>2. \A k \in DOMAIN sys_fdpoll : k >= at' => k > at /\ k >= at
  BY <1>1, EntryIs
<1> QED
  BY <1>1, <1>2 DEF WalkInv

LEMMA NothingMoves ==
  ASSUME ReceiveInv,
         UNCHANGED <<sys_fdpoll, x_nconnections, x_connection, x_connectsocket, backlog, fdconn, peer>>
  PROVE  ConnInv' /\ ListenInv' /\ TableInv' /\ PollInv'
<1>1. ConnInv'
  BY DEF ReceiveInv, ConnInv
<1>2. ListenInv'
  BY DEF ReceiveInv, ListenInv
<1>3. TableInv' /\ PollInv'
  BY DEF ReceiveInv, TableInv, PollInv, Used
<1> QED
  BY <1>1, <1>2, <1>3

LEMMA SameTables ==
  ASSUME TableInv, PollInv, UNCHANGED <<sys_fdpoll, x_nconnections, x_connection, x_connectsocket, fdconn>>
  PROVE  TableInv' /\ PollInv'
<1>1. TableInv'
  <2>1. \A o : Used(o)' = Used(o)
    BY DEF Used
  <2>2. \A o \in Objs : x_nconnections'[o] = Cardinality(Used(o)')
    BY <2>1 DEF TableInv
  <2>3. /\ \A o \in Objs : \A i \in Used(o)' :
             x_connection'[o][i].addr \in Conns /\ fdconn'[x_connection'[o][i].socket] = x_connection'[o][i].addr
        /\ \A fd \in Fds : fdconn'[fd] \in Conns =>
             \E o \in Objs : \E i \in Used(o)' : x_connection'[o][i].socket = fd
        /\ \A o, p \in Objs : \A i \in Used(o)', j \in Used(p)' :
             x_connection'[o][i].socket = x_connection'[p][j].socket => o = p /\ i = j
    BY <2>1 DEF TableInv
  <2> QED
    BY <2>2, <2>3 DEF TableInv
<1>2. PollInv'
  BY DEF PollInv, Used
<1> QED
  BY <1>1, <1>2

\* A descriptor that stays what it is stays readable.
LEMMA StaysReadable ==
  ASSUME NEW fd, Readable(fd), fdconn[fd] \in Conns \cup {NoConn, Listening},
         fdconn'[fd] = fdconn[fd],
         \A p \in Objs : x_connectsocket[p] = fd /\ backlog[p] # <<>> =>
           x_connectsocket'[p] = fd /\ backlog'[p] # <<>>,
         fdconn[fd] \in Conns =>
           /\ fdconn[fd] \in unread => fdconn[fd] \in unread'
           /\ peer[fdconn[fd]] = "closed" => peer'[fdconn[fd]] = "closed"
  PROVE  Readable(fd)'
  BY ReceiveConstants DEF Readable

LEMMA LoopStep ==
  ASSUME ReceiveInv,
         Select({fd \in Fds : Readable(fd)}) \/ Pass \/ EndRound,
         UNCHANGED <<tablevars, x_connectsocket, kernelvars>>
  PROVE  ReceiveInv'
<1>1. UNCHANGED <<sys_fdpoll, x_nconnections, x_connection, x_connectsocket, backlog, fdconn, peer, unread>>
  BY DEF Select, Pass, EndRound, tablevars, kernelvars
<1>2. ConnInv' /\ ListenInv' /\ TableInv' /\ PollInv'
  BY <1>1, NothingMoves
<1>3. \A fd \in Fds : Readable(fd)' <=> Readable(fd)
  BY <1>1 DEF Readable
<1>4. CASE Select({fd \in Fds : Readable(fd)})
  <2>1. at' = 1 /\ readset' = {fd \in Fds : Readable(fd)} \cap PollFds
    BY <1>4 DEF Select
  <2>2. ReceiveTypeOK'
    BY <1>1, <2>1 DEF ReceiveInv, ReceiveTypeOK
  <2>3. \A fd \in Fds : Readable(fd) => fdconn[fd] # NoConn
    BY ReceiveConstants DEF Readable
  <2>4. WalkInv'
    BY <1>1, <1>3, <2>1, <2>3 DEF WalkInv
  <2> QED
    BY <1>2, <2>2, <2>4 DEF ReceiveInv
<1>5. CASE Pass
  <2>1. at' = at + 1 /\ readset' = readset
    BY <1>5 DEF Pass
  <2>2. ReceiveTypeOK'
    BY <1>1, <2>1 DEF ReceiveInv, ReceiveTypeOK
  <2>3. WalkInv'
    BY <1>1, <1>3, <2>1, WalkGoesOn, EntryIs DEF ReceiveInv
  <2> QED
    BY <1>2, <2>2, <2>3 DEF ReceiveInv
<1>6. CASE EndRound
  <2>1. at' = 0 /\ readset' = {}
    BY <1>6 DEF EndRound
  <2> QED
    BY <1>1, <1>2, <2>1 DEF ReceiveInv, ReceiveTypeOK, WalkInv
<1> QED
  BY <1>4, <1>5, <1>6

LEMMA AcceptFailsStep ==
  ASSUME ReceiveInv, NEW o \in Objs, AcceptFails(o)
  PROVE  ReceiveInv'
<1>1. /\ at' = at + 1
      /\ UNCHANGED <<sys_fdpoll, readset, x_nconnections, x_connection, x_connectsocket, backlog, fdconn,
                     peer, unread>>
  BY DEF AcceptFails, Called, tablevars, kernelvars
<1>2. ConnInv' /\ ListenInv' /\ TableInv' /\ PollInv'
  BY <1>1, NothingMoves
<1>3. \A fd \in Fds : Readable(fd)' <=> Readable(fd)
  BY <1>1 DEF Readable
<1>4. ReceiveTypeOK'
  BY <1>1 DEF ReceiveInv, ReceiveTypeOK
<1>5. WalkInv'
  BY <1>1, <1>3, WalkGoesOn, EntryIs DEF ReceiveInv
<1> QED
  BY <1>2, <1>4, <1>5 DEF ReceiveInv

\* The entry called is for o's listening socket, which no other entry is for.
LEMMA AtListening ==
  ASSUME ReceiveInv, NEW o \in Objs, AtReadable,
         sys_fdpoll[at].fn = "connectpoll", sys_fdpoll[at].obj = o
  PROVE  /\ x_connectsocket[o] = sys_fdpoll[at].fd /\ x_connectsocket[o] # NoSocket
         /\ \A k \in DOMAIN sys_fdpoll : k > at => sys_fdpoll[k].fd # x_connectsocket[o]
<1>1. at \in DOMAIN sys_fdpoll
  BY DEF AtReadable
<1>2. x_connectsocket[o] = sys_fdpoll[at].fd
  BY <1>1 DEF ReceiveInv, PollInv
<1>3. x_connectsocket[o] # NoSocket /\ at \in Nat
  BY <1>1, <1>2, EntryIs, ReceiveConstants DEF ReceiveInv
<1>4. ASSUME NEW k \in DOMAIN sys_fdpoll, k > at PROVE sys_fdpoll[k].fd # sys_fdpoll[at].fd
  <2>1. k # at
    BY <1>3, <1>4
  <2> QED
    BY <1>1, <2>1 DEF ReceiveInv, PollInv
<1> QED
  BY <1>2, <1>3, <1>4

\* A connection leaves the backlog: what is left of the connections' places.
LEMMA BacklogShortens ==
  ASSUME ReceiveTypeOK, ConnInv, NEW o \in Objs, backlog[o] # <<>>,
         backlog' = [backlog EXCEPT ![o] = Tail(@)]
  PROVE  /\ Head(backlog[o]) \in Conns
         /\ backlog' \in [Objs -> Seq(Conns)]
         /\ \A p \in Objs : p # o => backlog'[p] = backlog[p]
         /\ \A p, q \in Objs : \A i \in DOMAIN backlog'[p], j \in DOMAIN backlog'[q] :
              backlog'[p][i] = backlog'[q][j] => p = q /\ i = j
         /\ \A p \in Objs : \A i \in DOMAIN backlog'[p] :
              /\ backlog'[p][i] # Head(backlog[o])
              /\ \E j \in DOMAIN backlog[p] : backlog[p][j] = backlog'[p][i]
         /\ \A fd \in Fds : fdconn[fd] # Head(backlog[o])
<1> DEFINE b == backlog[o]
           n == Len(b)
<1>1. b \in Seq(Conns)
  BY DEF ReceiveTypeOK
<1>2. /\ Head(b) \in Conns /\ Tail(b) \in Seq(Conns)
      /\ n \in Nat \ {0} /\ Len(Tail(b)) = n - 1
      /\ \A i \in 1..(n - 1) : Tail(b)[i] = b[i + 1]
      /\ Head(b) = b[1]
  BY <1>1, HeadTailProperties, LenProperties, EmptySeq, ElementOfSeq
<1>3. DOMAIN b = 1..n /\ DOMAIN Tail(b) = 1..(n - 1)
  BY <1>1, <1>2, LenProperties
<1>4. backlog'[o] = Tail(b) /\ \A p \in Objs : p # o => backlog'[p] = backlog[p]
  BY DEF ReceiveTypeOK
<1>5. backlog' \in [Objs -> Seq(Conns)]
  BY <1>2, <1>4 DEF ReceiveTypeOK
<1> DEFINE From(p, i) == IF p = o THEN i + 1 ELSE i
<1>6. ASSUME NEW p \in Objs, NEW i \in DOMAIN backlog'[p]
      PROVE  /\ From(p, i) \in DOMAIN backlog[p] /\ backlog[p][From(p, i)] = backlog'[p][i]
             /\ p = o => From(p, i) # 1 /\ i \in Nat
  <2>1. CASE p = o
    <3>1. i \in 1..(n - 1)
      BY <1>3, <1>4, <2>1
    <3> HIDE DEF n, b
    <3>2. i + 1 \in 1..n /\ i + 1 # 1 /\ i \in Nat
      BY <1>2, <3>1
    <3> QED
      BY <1>2, <1>3, <1>4, <2>1, <3>1, <3>2 DEF b
  <2>2. CASE p # o
    BY <1>4, <2>2
  <2> QED
    BY <2>1, <2>2
<1>7. 1 \in DOMAIN b
  BY <1>2, <1>3
<1>8. ASSUME NEW p \in Objs, NEW q \in Objs, NEW i \in DOMAIN backlog'[p], NEW j \in DOMAIN backlog'[q],
             backlog'[p][i] = backlog'[q][j]
      PROVE  p = q /\ i = j
  <2>1. p = q /\ From(p, i) = From(q, j)
    BY <1>6, <1>8 DEF ConnInv
  <2>2. p = o => i \in Nat /\ j \in Nat
    BY <1>6, <2>1
  <2> QED
    BY <2>1, <2>2
<1>9. ASSUME NEW p \in Objs, NEW i \in DOMAIN backlog'[p] PROVE backlog'[p][i] # Head(b)
  <2>1. backlog[p][From(p, i)] = backlog'[p][i] /\ From(p, i) \in DOMAIN backlog[p]
    BY <1>6
  <2>2. ~(p = o /\ From(p, i) = 1)
    BY <1>6
  <2> HIDE DEF From
  <2> QED
    BY <1>2, <1>7, <2>1, <2>2 DEF ConnInv
<1>10. \A fd \in Fds : fdconn[fd] # Head(b)
  BY <1>2, <1>7 DEF ConnInv
<1> QED
  BY <1>2, <1>4, <1>5, <1>6, <1>8, <1>9, <1>10

\* The peers of the connections cs are idle again.
LEMMA IdleAgain ==
  ASSUME ReceiveTypeOK, NEW cs, Gone(cs)
  PROVE  /\ peer' \in [Conns -> {"idle", "connected", "closed"}] /\ unread' \subseteq Conns
         /\ \A c \in Conns : peer'[c] = "idle" => c \in cs \/ peer[c] = "idle"
         /\ \A c \in Conns : c \notin cs => peer'[c] = peer[c] /\ (c \in unread <=> c \in unread')
  BY DEF Gone, ReceiveTypeOK

LEMMA TooManyStep ==
  ASSUME ReceiveInv, NEW o \in Objs, ConnectPoll(o), TooMany(o)
  PROVE  ReceiveInv'
<1> DEFINE c == Head(backlog[o])
<1>1. /\ AtReadable /\ sys_fdpoll[at].fn = "connectpoll" /\ sys_fdpoll[at].obj = o
      /\ backlog[o] # <<>>
      /\ backlog' = [backlog EXCEPT ![o] = Tail(@)]
      /\ at' = at + 1
      /\ UNCHANGED <<sys_fdpoll, readset, x_nconnections, x_connection, x_connectsocket, fdconn>>
      /\ Gone({c})
  BY DEF ConnectPoll, TooMany, Called, tablevars
<1>2. /\ c \in Conns
      /\ backlog' \in [Objs -> Seq(Conns)]
      /\ \A p \in Objs : p # o => backlog'[p] = backlog[p]
      /\ \A p, q \in Objs : \A i \in DOMAIN backlog'[p], j \in DOMAIN backlog'[q] :
           backlog'[p][i] = backlog'[q][j] => p = q /\ i = j
      /\ \A p \in Objs : \A i \in DOMAIN backlog'[p] :
           /\ backlog'[p][i] # c
           /\ \E j \in DOMAIN backlog[p] : backlog[p][j] = backlog'[p][i]
      /\ \A fd \in Fds : fdconn[fd] # c
  BY <1>1, BacklogShortens DEF ReceiveInv
<1>3. /\ peer' \in [Conns -> {"idle", "connected", "closed"}] /\ unread' \subseteq Conns
      /\ \A d \in Conns : peer'[d] = "idle" => d \in {c} \/ peer[d] = "idle"
      /\ \A d \in Conns : d \notin {c} => peer'[d] = peer[d] /\ (d \in unread <=> d \in unread')
  BY <1>1, IdleAgain DEF ReceiveInv
<1> HIDE DEF c
<1>4. ReceiveTypeOK'
  BY <1>1, <1>2, <1>3 DEF ReceiveInv, ReceiveTypeOK
<1>5. ConnInv'
  <2>1. ASSUME NEW d \in Conns, peer'[d] = "idle"
        PROVE  /\ \A fd \in Fds : fdconn[fd] # d
               /\ \A p \in Objs : \A i \in DOMAIN backlog'[p] : backlog'[p][i] # d
    BY <1>2, <1>3, <2>1 DEF ReceiveInv, ConnInv
  <2>2. \A p \in Objs : \A i \in DOMAIN backlog'[p] : \A fd \in Fds : fdconn[fd] # backlog'[p][i]
    BY <1>2 DEF ReceiveInv, ConnInv
  <2>3. \A fd, g \in Fds : fdconn[fd] \in Conns /\ fdconn[fd] = fdconn[g] => fd = g
    BY DEF ReceiveInv, ConnInv
  <2> QED
    BY <1>1, <1>2, <2>1, <2>2, <2>3 DEF ConnInv
<1>6. /\ x_connectsocket[o] = sys_fdpoll[at].fd /\ x_connectsocket[o] # NoSocket
      /\ \A k \in DOMAIN sys_fdpoll : k > at => sys_fdpoll[k].fd # x_connectsocket[o]
  BY <1>1, AtListening
<1>7. ListenInv'
  <2>1. \A p \in Objs : x_connectsocket[p] = NoSocket => p # o
    BY <1>6
  <2> QED
    BY <1>1, <1>2, <2>1 DEF ReceiveInv, ListenInv
<1>8. TableInv' /\ PollInv'
  BY <1>1, SameTables DEF ReceiveInv
<1>9. ASSUME NEW fd \in Fds, fd # x_connectsocket[o], Readable(fd)
      PROVE  Readable(fd)'
  <2>1. fdconn[fd] # c /\ fdconn[fd] \in Conns \cup {NoConn, Listening}
    BY <1>2 DEF ReceiveInv, ReceiveTypeOK
  <2>2. \A p \in Objs : x_connectsocket[p] = fd => p # o /\ backlog'[p] = backlog[p]
    BY <1>2, <1>9
  <2> QED
    BY <1>1, <1>3, <1>9, <2>1, <2>2, StaysReadable
<1>10. WalkInv'
  <2>1. \A k \in DOMAIN sys_fdpoll : k > at /\ Readable(sys_fdpoll[k].fd) => Readable(sys_fdpoll[k].fd)'
    <3>1. SUFFICES ASSUME NEW k \in DOMAIN sys_fdpoll, k > at, Readable(sys_fdpoll[k].fd)
                   PROVE  Readable(sys_fdpoll[k].fd)'
      OBVIOUS
    <3>2. \A fd \in Fds : fd = sys_fdpoll[k].fd => Readable(fd)'
      BY <1>6, <1>9, <3>1
    <3>3. sys_fdpoll[k].fd \in Fds
      BY EntryIs DEF ReceiveInv
    <3> QED
      BY <1>1, <3>2, <3>3 DEF Readable
  <2> QED
    BY <1>1, <2>1, WalkGoesOn DEF ReceiveInv
<1> QED
  BY <1>4, <1>5, <1>7, <1>8, <1>10 DEF ReceiveInv

\* What is polled is open.
LEMMA PolledIsOpen ==
  ASSUME ReceiveInv, NEW k \in DOMAIN sys_fdpoll
  PROVE  /\ sys_fdpoll[k].fd \in Fds /\ sys_fdpoll[k].obj \in Objs
         /\ sys_fdpoll[k].fn = "connectpoll" => fdconn[sys_fdpoll[k].fd] = Listening
         /\ sys_fdpoll[k].fn # "connectpoll" =>
              sys_fdpoll[k].fn = "read" /\ fdconn[sys_fdpoll[k].fd] \in Conns
         /\ fdconn[sys_fdpoll[k].fd] # NoConn
<1>1. /\ sys_fdpoll[k].fd \in Fds /\ sys_fdpoll[k].obj \in Objs
      /\ sys_fdpoll[k].fn \in {"connectpoll", "read"}
  BY EntryIs DEF ReceiveInv
<1>2. CASE sys_fdpoll[k].fn = "connectpoll"
  <2>1. x_connectsocket[sys_fdpoll[k].obj] = sys_fdpoll[k].fd
    BY <1>2 DEF ReceiveInv, PollInv
  <2>2. fdconn[sys_fdpoll[k].fd] = Listening
    BY <1>1, <2>1, ReceiveConstants DEF ReceiveInv, ListenInv
  <2> QED
    BY <1>1, <1>2, <2>2, ReceiveConstants
<1>3. CASE sys_fdpoll[k].fn # "connectpoll"
  <2>1. PICK i \in Used(sys_fdpoll[k].obj) : x_connection[sys_fdpoll[k].obj][i].socket = sys_fdpoll[k].fd
    BY <1>3 DEF ReceiveInv, PollInv
  <2>2. fdconn[sys_fdpoll[k].fd] \in Conns
    BY <1>1, <2>1 DEF ReceiveInv, TableInv
  <2> QED
    BY <1>1, <1>3, <2>2, ReceiveConstants
<1> QED
  BY <1>2, <1>3

\* A free descriptor and a free slot are taken.
LEMMA LowestAreFree ==
  ASSUME NEW o \in Objs, FreeFds # {}, Used(o) # Slots
  PROVE  /\ (CHOOSE f \in FreeFds : \A g \in FreeFds : f <= g) \in FreeFds
         /\ (CHOOSE j \in Slots \ Used(o) : \A k \in Slots \ Used(o) : j <= k) \in Slots \ Used(o)
<1>1. FreeFds \subseteq Nat /\ Slots \ Used(o) \subseteq Nat
  BY ReceiveConstants DEF FreeFds
<1>2. Slots \ Used(o) # {}
  BY DEF Used
<1>3. \E f \in FreeFds : \A g \in FreeFds : f <= g
  <2> DEFINE S == FreeFds
  <2>1. S \subseteq Nat /\ S # {}
    BY <1>1
  <2> HIDE DEF S
  <2>2. \E f \in S : \A g \in S : f <= g
    BY <2>1, LeastNatural
  <2> QED
    BY <2>2 DEF S
<1>4. \E j \in Slots \ Used(o) : \A k \in Slots \ Used(o) : j <= k
  <2> DEFINE S == Slots \ Used(o)
  <2>1. S \subseteq Nat /\ S # {}
    BY <1>1, <1>2
  <2> HIDE DEF S
  <2>2. \E f \in S : \A g \in S : f <= g
    BY <2>1, LeastNatural
  <2> QED
    BY <2>2 DEF S
<1> QED
  BY <1>3, <1>4

LEMMA ConnectionStep ==
  ASSUME ReceiveInv, NEW o \in Objs, ConnectPoll(o), Connection(o)
  PROVE  ReceiveInv'
<1> DEFINE c == Head(backlog[o])
           fd == CHOOSE f \in FreeFds : \A g \in FreeFds : f <= g
           s == CHOOSE j \in Slots \ Used(o) : \A k \in Slots \ Used(o) : j <= k
           n == Len(sys_fdpoll)
           e == [fd |-> fd, fn |-> "read", obj |-> o]
<1>1. /\ AtReadable /\ sys_fdpoll[at].fn = "connectpoll" /\ sys_fdpoll[at].obj = o
      /\ backlog[o] # <<>>
      /\ backlog' = [backlog EXCEPT ![o] = Tail(@)]
      /\ at' = at + 1
      /\ readset' = readset /\ x_connectsocket' = x_connectsocket
      /\ peer' = peer /\ unread' = unread
      /\ fdconn' = [fdconn EXCEPT ![fd] = c]
      /\ x_connection' = [x_connection EXCEPT ![o][s] = [socket |-> fd, addr |-> c]]
      /\ sys_fdpoll' = Append(sys_fdpoll, e)
      /\ x_nconnections' = [x_nconnections EXCEPT ![o] = @ + 1]
  BY DEF ConnectPoll, Connection, Called, Added, Registered
<1>2. fd \in FreeFds /\ s \in Slots \ Used(o)
  BY LowestAreFree DEF ConnectPoll, Connection
<1>3. /\ c \in Conns
      /\ backlog' \in [Objs -> Seq(Conns)]
      /\ \A p \in Objs : p # o => backlog'[p] = backlog[p]
      /\ \A p, q \in Objs : \A i \in DOMAIN backlog'[p], j \in DOMAIN backlog'[q] :
           backlog'[p][i] = backlog'[q][j] => p = q /\ i = j
      /\ \A p \in Objs : \A i \in DOMAIN backlog'[p] :
           /\ backlog'[p][i] # c
           /\ \E j \in DOMAIN backlog[p] : backlog[p][j] = backlog'[p][i]
      /\ \A g \in Fds : fdconn[g] # c
  BY <1>1, BacklogShortens DEF ReceiveInv
<1>4. peer[c] # "idle"
  <2>1. backlog[o] \in Seq(Conns)
    BY DEF ReceiveInv, ReceiveTypeOK
  <2>2. 1 \in DOMAIN backlog[o] /\ backlog[o][1] = c
    BY <1>1, <2>1, HeadTailProperties, LenProperties, EmptySeq
  <2> QED
    BY <1>3, <2>2 DEF ReceiveInv, ConnInv
<1>5. /\ x_connectsocket[o] = sys_fdpoll[at].fd /\ x_connectsocket[o] # NoSocket
      /\ \A k \in DOMAIN sys_fdpoll : k > at => sys_fdpoll[k].fd # x_connectsocket[o]
  BY <1>1, AtListening
<1>6. /\ fd \in Fds /\ fdconn[fd] = NoConn /\ s \in Slots /\ s \notin Used(o)
      /\ fd # NoSocket
  BY <1>2, ReceiveConstants DEF FreeFds
<1>7. sys_fdpoll \in Seq(PollEntry) /\ e \in PollEntry
  BY <1>6 DEF ReceiveInv, ReceiveTypeOK, PollEntry
<1> HIDE DEF c, fd, s
<1>8. /\ n \in Nat /\ DOMAIN sys_fdpoll = 1..n
      /\ sys_fdpoll' \in Seq(PollEntry) /\ DOMAIN sys_fdpoll' = 1..n \cup {n + 1}
      /\ \A k \in 1..n : sys_fdpoll'[k] = sys_fdpoll[k]
      /\ sys_fdpoll'[n + 1] = e
  <2>1. n \in Nat /\ 1..(n + 1) = 1..n \cup {n + 1}
    BY <1>7, LenProperties
  <2> HIDE DEF e
  <2> QED
    BY <1>1, <1>7, <2>1, AppendProperties, LenProperties
<1> HIDE DEF n
<1>9. /\ fdconn'[fd] = c
      /\ \A g \in Fds : g # fd => fdconn'[g] = fdconn[g]
      /\ x_connection'[o][s] = [socket |-> fd, addr |-> c]
      /\ \A p \in Objs : \A i \in Slots : ~(p = o /\ i = s) => x_connection'[p][i] = x_connection[p][i]
      /\ x_nconnections'[o] = x_nconnections[o] + 1
      /\ \A p \in Objs : p # o => x_nconnections'[p] = x_nconnections[p]
  BY <1>1, <1>6 DEF ReceiveInv, ReceiveTypeOK
<1>10. /\ Used(o)' = Used(o) \cup {s}
       /\ \A p \in Objs : p # o => Used(p)' = Used(p)
  BY <1>6, <1>9 DEF Used
<1>11. ReceiveTypeOK'
  <2>1. x_connection' \in [Objs -> [Slots -> [socket : Fds \cup {NoSocket}, addr : Conns \cup {NoConn}]]]
    BY <1>1, <1>3, <1>6 DEF ReceiveInv, ReceiveTypeOK
  <2>2. fdconn' \in [Fds -> Conns \cup {NoConn, Listening}]
    BY <1>1, <1>3 DEF ReceiveInv, ReceiveTypeOK
  <2>3. x_nconnections' \in [Objs -> Nat]
    BY <1>1 DEF ReceiveInv, ReceiveTypeOK
  <2> QED
    BY <1>1, <1>3, <1>8, <2>1, <2>2, <2>3 DEF ReceiveInv, ReceiveTypeOK
<1>12. ConnInv'
  <2>1. \A f, g \in Fds : fdconn'[f] \in Conns /\ fdconn'[f] = fdconn'[g] => f = g
    BY <1>3, <1>9 DEF ReceiveInv, ConnInv
  <2>2. \A p \in Objs : \A i \in DOMAIN backlog'[p] : \A g \in Fds : fdconn'[g] # backlog'[p][i]
    BY <1>3, <1>9 DEF ReceiveInv, ConnInv
  <2>3. ASSUME NEW d \in Conns, peer'[d] = "idle"
        PROVE  /\ \A g \in Fds : fdconn'[g] # d
               /\ \A p \in Objs : \A i \in DOMAIN backlog'[p] : backlog'[p][i] # d
    <3>1. d # c /\ peer[d] = "idle"
      BY <1>1, <1>4, <2>3
    <3> QED
      BY <1>3, <1>9, <3>1 DEF ReceiveInv, ConnInv
  <2> QED
    BY <1>3, <2>1, <2>2, <2>3 DEF ConnInv
<1>13. ListenInv'
  <2>1. \A p \in Objs : x_connectsocket[p] = NoSocket => p # o
    BY <1>5
  <2>2. \A p \in Objs : x_connectsocket[p] # NoSocket => x_connectsocket[p] \in Fds /\ x_connectsocket[p] # fd
    BY <1>6, ReceiveConstants DEF ReceiveInv, ReceiveTypeOK, ListenInv
  <2>3. \A g \in Fds : fdconn'[g] = Listening => fdconn[g] = Listening
    BY <1>3, <1>9, ReceiveConstants
  <2> QED
    BY <1>1, <1>3, <1>9, <2>1, <2>2, <2>3 DEF ReceiveInv, ListenInv
<1>14. \A p \in Objs : \A i \in Used(p) :
         /\ i \in Slots /\ x_connection'[p][i] = x_connection[p][i]
         /\ x_connection[p][i].socket \in Fds /\ x_connection[p][i].socket # fd
  <2>1. SUFFICES ASSUME NEW p \in Objs, NEW i \in Used(p)
                 PROVE  /\ i \in Slots /\ x_connection'[p][i] = x_connection[p][i]
                        /\ x_connection[p][i].socket \in Fds /\ x_connection[p][i].socket # fd
    OBVIOUS
  <2>2. i \in Slots /\ x_connection[p][i].socket # NoSocket
    BY DEF Used
  <2>3. x_connection[p][i].socket \in Fds
    BY <2>2 DEF ReceiveInv, ReceiveTypeOK
  <2>4. fdconn[x_connection[p][i].socket] \in Conns
    BY DEF ReceiveInv, TableInv
  <2> QED
    BY <1>6, <1>9, <2>2, <2>3, <2>4, ReceiveConstants
<1>15. TableInv'
  <2>1. \A p \in Objs : x_nconnections'[p] = Cardinality(Used(p)')
    <3>1. IsFiniteSet(Used(o))
      BY ReceiveConstants, FS_Subset DEF Used
    <3>2. Cardinality(Used(o) \cup {s}) = Cardinality(Used(o)) + 1
      BY <1>6, <3>1, FS_AddElement
    <3>3. \A p \in Objs : x_nconnections[p] = Cardinality(Used(p))
      BY DEF ReceiveInv, TableInv
    <3>4. Cardinality(Used(o)') = Cardinality(Used(o) \cup {s})
      BY <1>10
    <3>5. x_nconnections'[o] = Cardinality(Used(o)')
      BY <1>9, <3>2, <3>3, <3>4
    <3>6. ASSUME NEW p \in Objs, p # o PROVE x_nconnections'[p] = Cardinality(Used(p)')
      BY <1>9, <1>10, <3>3, <3>6
    <3> QED
      BY <3>5, <3>6
  <2>2. \A p \in Objs : \A i \in Used(p)' : IF p = o /\ i = s THEN TRUE ELSE i \in Used(p)
    BY <1>10
  <2>3. \A p \in Objs : \A i \in Used(p)' :
             x_connection'[p][i].addr \in Conns /\ fdconn'[x_connection'[p][i].socket] = x_connection'[p][i].addr
    <3>1. \A p \in Objs : \A i \in Used(p) :
             x_connection'[p][i].addr \in Conns /\ fdconn'[x_connection'[p][i].socket] = x_connection'[p][i].addr
      BY <1>9, <1>14 DEF ReceiveInv, TableInv
    <3>2. x_connection'[o][s].addr \in Conns /\ fdconn'[x_connection'[o][s].socket] = x_connection'[o][s].addr
      BY <1>3, <1>9
    <3> QED
      BY <2>2, <3>1, <3>2
  <2>4. ASSUME NEW g \in Fds, fdconn'[g] \in Conns
        PROVE  \E p \in Objs : \E i \in Used(p)' : x_connection'[p][i].socket = g
    <3>1. CASE g = fd
      <4>1. s \in Used(o)' /\ x_connection'[o][s].socket = g
        BY <1>9, <1>10, <3>1
      <4> QED
        BY <4>1
    <3>2. CASE g # fd
      <4>0. PICK p \in Objs : \E i \in Used(p) : x_connection[p][i].socket = g
        BY <1>9, <2>4, <3>2 DEF ReceiveInv, TableInv
      <4>1. PICK i \in Used(p) : x_connection[p][i].socket = g
        BY <4>0
      <4>2. i \in Used(p)' /\ x_connection'[p][i].socket = g
        BY <1>10, <1>14, <4>1
      <4> QED
        BY <4>2
    <3> QED
      BY <3>1, <3>2
  <2>5. \A p, q \in Objs : \A i \in Used(p)', j \in Used(q)' :
             x_connection'[p][i].socket = x_connection'[q][j].socket => p = q /\ i = j
    <3>1. x_connection'[o][s].socket = fd
      BY <1>9
    <3>2. \A p, q \in Objs : \A i \in Used(p), j \in Used(q) :
             x_connection'[p][i].socket = x_connection'[q][j].socket => p = q /\ i = j
      BY <1>14 DEF ReceiveInv, TableInv
    <3>3. \A p \in Objs : \A i \in Used(p) : x_connection'[p][i].socket # fd
      BY <1>14
    <3> QED
      BY <2>2, <3>1, <3>2, <3>3
  <2> QED
    BY <2>1, <2>3, <2>4, <2>5 DEF TableInv
<1>16. \A k \in 1..n : /\ sys_fdpoll[k].fd \in Fds /\ sys_fdpoll[k].obj \in Objs /\ sys_fdpoll[k].fd # fd
                       /\ k \in Nat
  BY <1>6, <1>8, PolledIsOpen, EntryIs DEF ReceiveInv
<1>17. PollInv'
  <2>1. ASSUME NEW k \in DOMAIN sys_fdpoll', NEW p, p = sys_fdpoll'[k].obj
        PROVE  IF sys_fdpoll'[k].fn = "connectpoll" THEN x_connectsocket'[p] = sys_fdpoll'[k].fd
               ELSE \E i \in Used(p)' : x_connection'[p][i].socket = sys_fdpoll'[k].fd
    <3>1. CASE k \in 1..n
      <4>1. sys_fdpoll'[k] = sys_fdpoll[k] /\ p \in Objs
        BY <1>8, <1>16, <2>1, <3>1
      <4>2. IF sys_fdpoll[k].fn = "connectpoll" THEN x_connectsocket[p] = sys_fdpoll[k].fd
            ELSE \E i \in Used(p) : x_connection[p][i].socket = sys_fdpoll[k].fd
        BY <1>8, <2>1, <3>1, <4>1 DEF ReceiveInv, PollInv
      <4>3. \A i \in Used(p) : i \in Used(p)' /\ x_connection'[p][i].socket = x_connection[p][i].socket
        BY <1>10, <1>14, <4>1
      <4> QED
        BY <1>1, <4>1, <4>2, <4>3
    <3>2. CASE k = n + 1
      <4>1. s \in Used(o)' /\ x_connection'[o][s].socket = fd
        BY <1>9, <1>10
      <4>2. sys_fdpoll'[k].fn = "read" /\ sys_fdpoll'[k].fd = fd /\ p = o
        BY <1>8, <2>1, <3>2
      <4> QED
        BY <4>1, <4>2
    <3> QED
      BY <1>8, <3>1, <3>2
  <2>2. \A k, l \in DOMAIN sys_fdpoll' : sys_fdpoll'[k].fd = sys_fdpoll'[l].fd => k = l
    BY <1>8, <1>16 DEF ReceiveInv, PollInv
  <2>3. ASSUME NEW g \in Fds, fdconn'[g] # NoConn
        PROVE  \E k \in DOMAIN sys_fdpoll' : sys_fdpoll'[k].fd = g
    <3>1. CASE g = fd
      BY <1>8, <3>1
    <3>2. CASE g # fd
      <4>1. PICK k \in DOMAIN sys_fdpoll : sys_fdpoll[k].fd = g
        BY <1>9, <2>3, <3>2 DEF ReceiveInv, PollInv
      <4> QED
        BY <1>8, <4>1
    <3> QED
      BY <3>1, <3>2
  <2>4. \A k, l \in DOMAIN sys_fdpoll' :
          k < l /\ sys_fdpoll'[k].fn = "read" => sys_fdpoll'[l].fn = "read"
    <3>1. SUFFICES ASSUME NEW k \in DOMAIN sys_fdpoll', NEW l \in DOMAIN sys_fdpoll',
                          k < l, sys_fdpoll'[k].fn = "read"
                   PROVE  sys_fdpoll'[l].fn = "read"
      OBVIOUS
    <3>2. CASE l = n + 1
      BY <1>8, <3>2
    <3>3. CASE l \in 1..n
      <4>1. k \in 1..n
        BY <1>8, <3>1, <3>3
      <4> QED
        BY <1>8, <3>1, <3>3, <4>1 DEF ReceiveInv, PollInv
    <3> QED
      BY <1>8, <3>2, <3>3
  <2> QED
    BY <2>1, <2>2, <2>3, <2>4 DEF PollInv
<1>18. fd \notin readset /\ \A g \in readset : g \in Fds /\ fdconn[g] # NoConn
  <2>1. at \in DOMAIN sys_fdpoll /\ at >= at
    BY <1>1, EntryIs DEF AtReadable, ReceiveInv, ReceiveTypeOK
  <2> QED
    BY <1>1, <1>6, <2>1 DEF ReceiveInv, WalkInv, ReceiveTypeOK
<1>19. WalkInv'
  <2>1. at' \in Nat /\ at' # 0 /\ \A k \in 1..n : k >= at' => k > at /\ k >= at
    BY <1>1 DEF ReceiveInv, ReceiveTypeOK
  <2>2. ASSUME NEW g \in Fds, Readable(g), g # x_connectsocket[o], g # fd
        PROVE  Readable(g)'
    <3>1. fdconn[g] \in Conns \cup {NoConn, Listening} /\ fdconn'[g] = fdconn[g]
      BY <1>9, <2>2 DEF ReceiveInv, ReceiveTypeOK
    <3>2. \A p \in Objs : x_connectsocket[p] = g => p # o /\ backlog'[p] = backlog[p]
      BY <1>3, <2>2
    <3> QED
      BY <1>1, <2>2, <3>1, <3>2, StaysReadable
  <2>3. ASSUME NEW k \in DOMAIN sys_fdpoll', k >= at', sys_fdpoll'[k].fd \in readset'
        PROVE  Readable(sys_fdpoll[k].fd)' /\ k \in 1..n
    <3>1. k \in 1..n
      BY <1>1, <1>8, <1>18, <2>3
    <3>2. sys_fdpoll'[k] = sys_fdpoll[k] /\ k > at /\ k >= at
      BY <1>8, <2>1, <2>3, <3>1
    <3>3. Readable(sys_fdpoll[k].fd) /\ sys_fdpoll[k].fd # x_connectsocket[o]
      BY <1>1, <1>5, <1>8, <2>3, <3>1, <3>2 DEF ReceiveInv, WalkInv
    <3>4. \A g \in Fds : g = sys_fdpoll[k].fd => Readable(g)'
      BY <1>16, <2>2, <3>1, <3>3
    <3>5. sys_fdpoll'[k].fd \in Fds
      BY <1>16, <3>1, <3>2
    <3> QED
      BY <3>1, <3>2, <3>4, <3>5 DEF Readable
  <2>4. \A g \in readset' : fdconn'[g] # NoConn
    BY <1>1, <1>9, <1>18
  <2> QED
    BY <2>1, <2>3, <2>4 DEF WalkInv
<1> QED
  BY <1>11, <1>12, <1>13, <1>15, <1>17, <1>19 DEF ReceiveInv

LEMMA ReadDataStep ==
  ASSUME ReceiveInv, NEW o \in Objs, NEW fd \in Fds, Read(o, fd), ReadData(fd)
  PROVE  ReceiveInv'
<1>1. /\ at \in DOMAIN sys_fdpoll
      /\ sys_fdpoll[at] = [fd |-> fd, fn |-> "read", obj |-> o]
      /\ unread' = unread \ {fdconn[fd]}
      /\ at' = at + 1
      /\ UNCHANGED <<sys_fdpoll, readset, x_nconnections, x_connection, x_connectsocket, backlog, fdconn, peer>>
  BY DEF Read, ReadData, Called, tablevars, AtReadable
<1>2. ConnInv' /\ ListenInv' /\ TableInv' /\ PollInv'
  BY <1>1, NothingMoves
<1>3. ReceiveTypeOK'
  BY <1>1 DEF ReceiveInv, ReceiveTypeOK
<1>4. fdconn[fd] \in Conns
  BY <1>1, PolledIsOpen
<1>5. ASSUME NEW g \in Fds, g # fd, Readable(g) PROVE Readable(g)'
  <2>1. fdconn[g] \in Conns \cup {NoConn, Listening} /\ fdconn[g] # fdconn[fd]
    BY <1>4, <1>5 DEF ReceiveInv, ReceiveTypeOK, ConnInv
  <2> QED
    BY <1>1, <1>5, <2>1, StaysReadable
<1>6. ASSUME NEW k \in DOMAIN sys_fdpoll, k > at, Readable(sys_fdpoll[k].fd)
      PROVE  Readable(sys_fdpoll[k].fd)'
  <2>1. sys_fdpoll[k].fd \in Fds /\ sys_fdpoll[k].fd # fd
    <3>1. k # at
      BY <1>6 DEF ReceiveInv, ReceiveTypeOK
    <3> QED
      BY <1>1, <3>1, EntryIs DEF ReceiveInv, PollInv
  <2>2. \A g \in Fds : g = sys_fdpoll[k].fd => Readable(g)'
    BY <1>5, <1>6, <2>1
  <2> QED
    BY <1>1, <2>1, <2>2 DEF Readable
<1>7. WalkInv'
  BY <1>1, <1>6, WalkGoesOn DEF ReceiveInv
<1> QED
  BY <1>2, <1>3, <1>7 DEF ReceiveInv

LEMMA ReadEndStep ==
  ASSUME ReceiveInv, NEW o \in Objs, NEW fd \in Fds, Read(o, fd), ReadEnd(o, fd)
  PROVE  ReceiveInv'
<1> DEFINE c == fdconn[fd]
           n == Len(sys_fdpoll)
           m == Len(sys_fdpoll')
<1>1. /\ at \in DOMAIN sys_fdpoll
      /\ sys_fdpoll[at] = [fd |-> fd, fn |-> "read", obj |-> o]
      /\ sys_fdpoll' = Unregistered(sys_fdpoll, fd)
      /\ fdconn' = [fdconn EXCEPT ![fd] = NoConn]
      /\ x_connection' =
           [x_connection EXCEPT ![o] = [i \in Slots |-> IF @[i].socket = fd THEN FreeSlot ELSE @[i]]]
      /\ x_nconnections' = [x_nconnections EXCEPT ![o] = @ - 1]
      /\ Gone({c})
      /\ at' = at + 1
      /\ readset' = readset /\ x_connectsocket' = x_connectsocket /\ backlog' = backlog
  BY DEF Read, ReadEnd, Removed, Called, AtReadable
<1>2. c \in Conns
  BY <1>1, PolledIsOpen
<1>3. PICK s \in Used(o) : x_connection[o][s].socket = fd
  BY <1>1 DEF ReceiveInv, PollInv
<1>4. /\ peer' \in [Conns -> {"idle", "connected", "closed"}] /\ unread' \subseteq Conns
      /\ \A d \in Conns : peer'[d] = "idle" => d \in {c} \/ peer[d] = "idle"
      /\ \A d \in Conns : d \notin {c} => peer'[d] = peer[d] /\ (d \in unread <=> d \in unread')
  BY <1>1, IdleAgain DEF ReceiveInv
<1>5. PICK ix : /\ Shrunk(sys_fdpoll', sys_fdpoll, {fd}, ix)
                /\ \A j \in 1..m : ix[j] >= j
  <2>1. sys_fdpoll \in Seq(PollEntry)
    BY DEF ReceiveInv, ReceiveTypeOK
  <2> QED
    BY <1>1, <2>1, UnregisteredIsShrunk DEF ReceiveInv, PollInv
<1>6. /\ n \in Nat /\ DOMAIN sys_fdpoll = 1..n
      /\ m \in Nat /\ DOMAIN sys_fdpoll' = 1..m /\ sys_fdpoll' \in Seq(PollEntry)
      /\ ix \in [1..m -> 1..n]
      /\ \A j, k \in 1..m : j < k => ix[j] < ix[k]
      /\ \A j \in 1..m : sys_fdpoll'[j] = sys_fdpoll[ix[j]] /\ sys_fdpoll[ix[j]].fd # fd
      /\ \A i \in 1..n : sys_fdpoll[i].fd # fd => \E j \in 1..m : ix[j] = i
  BY <1>5, LenProperties DEF ReceiveInv, ReceiveTypeOK, Shrunk
<1> HIDE DEF c, n, m
<1>7. /\ fdconn'[fd] = NoConn
      /\ \A g \in Fds : g # fd => fdconn'[g] = fdconn[g]
      /\ \A i \in Slots : x_connection'[o][i] = IF x_connection[o][i].socket = fd THEN FreeSlot
                                                ELSE x_connection[o][i]
      /\ \A p \in Objs : p # o => x_connection'[p] = x_connection[p]
      /\ x_nconnections'[o] = x_nconnections[o] - 1
      /\ \A p \in Objs : p # o => x_nconnections'[p] = x_nconnections[p]
  BY <1>1 DEF ReceiveInv, ReceiveTypeOK
<1>8. \A p \in Objs : \A i \in Used(p) :
        x_connection[p][i].socket = fd => p = o /\ i = s
  BY <1>3 DEF ReceiveInv, TableInv
<1>9. /\ Used(o)' = Used(o) \ {s}
      /\ \A p \in Objs : p # o => Used(p)' = Used(p)
  <2>1. \A i \in Slots : x_connection'[o][i].socket # NoSocket <=> i \in Used(o) /\ i # s
    <3>1. FreeSlot.socket = NoSocket /\ fd # NoSocket
      BY ReceiveConstants DEF FreeSlot
    <3>2. \A i \in Slots : i \in Used(o) <=> x_connection[o][i].socket # NoSocket
      BY DEF Used
    <3> QED
      BY <1>3, <1>7, <1>8, <3>1, <3>2
  <2>2. Used(o) \subseteq Slots
    BY DEF Used
  <2>3. Used(o)' = {i \in Slots : x_connection'[o][i].socket # NoSocket}
    BY DEF Used
  <2>4. \A p \in Objs : p # o => Used(p)' = Used(p)
    BY <1>7 DEF Used
  <2> QED
    BY <2>1, <2>2, <2>3, <2>4
<1>10. \A p \in Objs : \A i \in Used(p)' :
         i \in Used(p) /\ x_connection'[p][i] = x_connection[p][i] /\ x_connection[p][i].socket # fd
       /\ x_connection[p][i].socket \in Fds
  <2>1. SUFFICES ASSUME NEW p \in Objs, NEW i \in Used(p)'
                 PROVE  i \in Used(p) /\ x_connection'[p][i] = x_connection[p][i]
                        /\ x_connection[p][i].socket # fd /\ x_connection[p][i].socket \in Fds
    OBVIOUS
  <2>2. i \in Used(p) /\ x_connection[p][i].socket # fd
    BY <1>8, <1>9
  <2>3. i \in Slots /\ x_connection[p][i].socket \in Fds
    BY <2>2 DEF Used, ReceiveInv, ReceiveTypeOK
  <2> QED
    BY <1>7, <2>2, <2>3
<1>11. IsFiniteSet(Used(o)) /\ Cardinality(Used(o) \ {s}) = Cardinality(Used(o)) - 1
       /\ Cardinality(Used(o) \ {s}) \in Nat
  <2>1. IsFiniteSet(Used(o))
    BY ReceiveConstants, FS_Subset DEF Used
  <2> QED
    BY <1>3, <2>1, FS_RemoveElement, FS_CardinalityType
<1>12. x_nconnections'[o] = Cardinality(Used(o) \ {s})
  BY <1>7, <1>11 DEF ReceiveInv, TableInv
<1>13. ReceiveTypeOK'
  <2>1. fdconn' \in [Fds -> Conns \cup {NoConn, Listening}]
    BY <1>1 DEF ReceiveInv, ReceiveTypeOK
  <2>2. x_nconnections' \in [Objs -> Nat]
    BY <1>1, <1>7, <1>11, <1>12 DEF ReceiveInv, ReceiveTypeOK
  <2>3. x_connection' \in [Objs -> [Slots -> [socket : Fds \cup {NoSocket}, addr : Conns \cup {NoConn}]]]
    BY <1>1 DEF ReceiveInv, ReceiveTypeOK, FreeSlot
  <2> QED
    BY <1>1, <1>4, <1>6, <2>1, <2>2, <2>3 DEF ReceiveInv, ReceiveTypeOK
<1>14. ConnInv'
  <2>1. \A f, g \in Fds : fdconn'[f] \in Conns /\ fdconn'[f] = fdconn'[g] => f = g
    BY <1>7, ReceiveConstants DEF ReceiveInv, ConnInv
  <2>2. /\ \A p, q \in Objs : \A i \in DOMAIN backlog'[p], j \in DOMAIN backlog'[q] :
             backlog'[p][i] = backlog'[q][j] => p = q /\ i = j
        /\ \A p \in Objs : \A i \in DOMAIN backlog'[p] : backlog'[p][i] # c
    BY <1>1 DEF ReceiveInv, ConnInv, c
  <2>3. \A p \in Objs : \A i \in DOMAIN backlog'[p] : \A g \in Fds : fdconn'[g] # backlog'[p][i]
    <3>1. \A p \in Objs : \A i \in DOMAIN backlog[p] : backlog[p][i] # NoConn
      <4>1. ASSUME NEW p \in Objs, NEW i \in DOMAIN backlog[p] PROVE backlog[p][i] \in Conns
        <5>1. backlog[p] \in Seq(Conns)
          BY DEF ReceiveInv, ReceiveTypeOK
        <5> QED
          BY <5>1, LenProperties, ElementOfSeq
      <4> QED
        BY <4>1, ReceiveConstants
    <3> QED
      BY <1>1, <1>7, <3>1 DEF ReceiveInv, ConnInv
  <2>4. ASSUME NEW d \in Conns, peer'[d] = "idle"
        PROVE  /\ \A g \in Fds : fdconn'[g] # d
               /\ \A p \in Objs : \A i \in DOMAIN backlog'[p] : backlog'[p][i] # d
    <3>1. CASE d = c
      <4>1. \A g \in Fds : fdconn'[g] # c
        BY <1>2, <1>7, ReceiveConstants DEF ReceiveInv, ConnInv, c
      <4> QED
        BY <2>2, <3>1, <4>1
    <3>2. CASE d # c
      <4>1. peer[d] = "idle"
        BY <1>4, <2>4, <3>2
      <4> QED
        BY <1>1, <1>7, <4>1, ReceiveConstants DEF ReceiveInv, ConnInv
    <3> QED
      BY <3>1, <3>2
  <2> QED
    BY <2>1, <2>2, <2>3, <2>4 DEF ConnInv
<1>15. ListenInv'
  <2>1. \A p \in Objs : x_connectsocket[p] # NoSocket => x_connectsocket[p] \in Fds /\ x_connectsocket[p] # fd
    BY <1>2, ReceiveConstants DEF ReceiveInv, ReceiveTypeOK, ListenInv, c
  <2>2. \A g \in Fds : fdconn'[g] = Listening => fdconn[g] = Listening
    BY <1>7, ReceiveConstants
  <2> QED
    BY <1>1, <1>7, <2>1, <2>2 DEF ReceiveInv, ListenInv
<1>16. TableInv'
  <2>1. \A p \in Objs : x_nconnections'[p] = Cardinality(Used(p)')
    <3>1. \A p \in Objs : x_nconnections[p] = Cardinality(Used(p))
      BY DEF ReceiveInv, TableInv
    <3>2. x_nconnections'[o] = Cardinality(Used(o)')
      BY <1>9, <1>12
    <3>3. ASSUME NEW p \in Objs, p # o PROVE x_nconnections'[p] = Cardinality(Used(p)')
      BY <1>7, <1>9, <3>1, <3>3
    <3> QED
      BY <3>2, <3>3
  <2>2. \A p \in Objs : \A i \in Used(p)' :
             x_connection'[p][i].addr \in Conns /\ fdconn'[x_connection'[p][i].socket] = x_connection'[p][i].addr
    BY <1>7, <1>10 DEF ReceiveInv, TableInv
  <2>3. ASSUME NEW g \in Fds, fdconn'[g] \in Conns
        PROVE  \E p \in Objs : \E i \in Used(p)' : x_connection'[p][i].socket = g
    <3>1. g # fd /\ fdconn[g] \in Conns
      BY <1>7, <2>3, ReceiveConstants
    <3>2. PICK p \in Objs : \E i \in Used(p) : x_connection[p][i].socket = g
      BY <3>1 DEF ReceiveInv, TableInv
    <3>3. PICK i \in Used(p) : x_connection[p][i].socket = g
      BY <3>2
    <3>4. i \in Used(p)'
      BY <1>3, <1>9, <3>1, <3>3
    <3> QED
      BY <1>10, <3>3, <3>4
  <2>4. \A p, q \in Objs : \A i \in Used(p)', j \in Used(q)' :
             x_connection'[p][i].socket = x_connection'[q][j].socket => p = q /\ i = j
    BY <1>10 DEF ReceiveInv, TableInv
  <2> QED
    BY <2>1, <2>2, <2>3, <2>4 DEF TableInv
<1>17. \A j \in 1..m : ix[j] \in 1..n /\ sys_fdpoll[ix[j]].obj \in Objs /\ sys_fdpoll[ix[j]].fd \in Fds
  BY <1>6, EntryIs DEF ReceiveInv
<1>18. PollInv'
  <2>1. ASSUME NEW j \in DOMAIN sys_fdpoll', NEW p, p = sys_fdpoll'[j].obj
        PROVE  IF sys_fdpoll'[j].fn = "connectpoll" THEN x_connectsocket'[p] = sys_fdpoll'[j].fd
               ELSE \E i \in Used(p)' : x_connection'[p][i].socket = sys_fdpoll'[j].fd
    <3>1. /\ sys_fdpoll'[j] = sys_fdpoll[ix[j]] /\ p \in Objs /\ p = sys_fdpoll[ix[j]].obj
          /\ ix[j] \in DOMAIN sys_fdpoll /\ sys_fdpoll[ix[j]].fd # fd
      BY <1>6, <1>17, <2>1
    <3>2. IF sys_fdpoll[ix[j]].fn = "connectpoll" THEN x_connectsocket[p] = sys_fdpoll[ix[j]].fd
          ELSE \E i \in Used(p) : x_connection[p][i].socket = sys_fdpoll[ix[j]].fd
      BY <3>1 DEF ReceiveInv, PollInv
    <3>3. \A i \in Used(p) : x_connection[p][i].socket # fd => i \in Used(p)'
      BY <1>3, <1>9, <3>1
    <3>4. \A i \in Used(p)' : x_connection'[p][i].socket = x_connection[p][i].socket
      BY <1>10, <3>1
    <3> QED
      BY <1>1, <3>1, <3>2, <3>3, <3>4
  <2>2. ASSUME NEW k \in DOMAIN sys_fdpoll', NEW l \in DOMAIN sys_fdpoll', sys_fdpoll'[k].fd = sys_fdpoll'[l].fd
        PROVE  k = l
    <3>1. ix[k] = ix[l] /\ k \in Nat /\ l \in Nat /\ ix[k] \in Nat /\ ix[l] \in Nat
      BY <1>6, <1>17, <2>2 DEF ReceiveInv, PollInv
    <3> QED
      BY <1>6, <3>1
  <2>3. ASSUME NEW g \in Fds, fdconn'[g] # NoConn
        PROVE  \E j \in DOMAIN sys_fdpoll' : sys_fdpoll'[j].fd = g
    <3>1. g # fd /\ fdconn[g] # NoConn
      BY <1>7, <2>3
    <3>2. PICK k \in DOMAIN sys_fdpoll : sys_fdpoll[k].fd = g
      BY <3>1 DEF ReceiveInv, PollInv
    <3>3. PICK j \in 1..m : ix[j] = k
      BY <1>6, <3>1, <3>2
    <3> QED
      BY <1>6, <3>2, <3>3
  <2>4. \A k, l \in DOMAIN sys_fdpoll' :
          k < l /\ sys_fdpoll'[k].fn = "read" => sys_fdpoll'[l].fn = "read"
    BY <1>6, <1>17 DEF ReceiveInv, PollInv
  <2> QED
    BY <2>1, <2>2, <2>3, <2>4 DEF PollInv
<1>19. WalkInv'
  <2>1. at \in Nat /\ at' \in Nat /\ at' # 0
    BY <1>1 DEF ReceiveInv, ReceiveTypeOK
  <2>2. ASSUME NEW j \in 1..m, j >= at'
        PROVE  /\ ix[j] \in DOMAIN sys_fdpoll /\ ix[j] > at /\ ix[j] >= at
               /\ sys_fdpoll'[j] = sys_fdpoll[ix[j]] /\ sys_fdpoll[ix[j]].fn = "read"
    <3>1. ix[j] \in 1..n /\ ix[j] >= j /\ j \in Nat
      BY <1>5, <1>6, <1>17 DEF m
    <3>2. ix[j] > at /\ ix[j] >= at
      BY <1>1, <2>1, <2>2, <3>1
    <3>3. sys_fdpoll[ix[j]].fn = "read"
      BY <1>1, <1>6, <3>1, <3>2 DEF ReceiveInv, PollInv
    <3> QED
      BY <1>6, <3>1, <3>2, <3>3
  <2>3. ASSUME NEW g \in Fds, g # fd, Readable(g) PROVE Readable(g)'
    <3>1. fdconn[g] \in Conns \cup {NoConn, Listening} /\ fdconn[g] # c /\ fdconn'[g] = fdconn[g]
      BY <1>2, <1>7, <2>3 DEF ReceiveInv, ReceiveTypeOK, ConnInv, c
    <3> QED
      BY <1>1, <1>4, <2>3, <3>1, StaysReadable
  <2>4. ASSUME NEW j \in DOMAIN sys_fdpoll', j >= at', sys_fdpoll'[j].fd \in readset'
        PROVE  Readable(sys_fdpoll[j].fd)'
    <3>1. sys_fdpoll'[j] = sys_fdpoll[ix[j]] /\ sys_fdpoll[ix[j]].fd \in Fds /\ sys_fdpoll[ix[j]].fd # fd
      BY <1>6, <1>17
    <3>2. Readable(sys_fdpoll[ix[j]].fd)
      BY <1>1, <1>6, <2>2, <2>4, <3>1 DEF ReceiveInv, WalkInv
    <3>3. \A g \in Fds : g = sys_fdpoll[ix[j]].fd => Readable(g)'
      BY <2>3, <3>1, <3>2
    <3>4. sys_fdpoll'[j].fd \in Fds
      BY <3>1
    <3> QED
      BY <3>1, <3>3, <3>4 DEF Readable
  <2>5. \A j \in DOMAIN sys_fdpoll' : j >= at' => sys_fdpoll'[j].fn # "connectpoll"
    BY <1>6, <2>2
  <2> QED
    BY <2>1, <2>4, <2>5 DEF WalkInv
<1> QED
  BY <1>13, <1>14, <1>15, <1>16, <1>18, <1>19 DEF ReceiveInv

-----------------------------------------------------------------------------
(* The object is freed.                                                    *)

LEMMA FreeStep ==
  ASSUME ReceiveInv, NEW o \in Objs, Free(o)
  PROVE  ReceiveInv'
<1> DEFINE gone == SocketsOf(o)
           cs == Range(backlog[o]) \cup {x_connection[o][i].addr : i \in Used(o)}
           n == Len(sys_fdpoll)
           m == Len(sys_fdpoll')
<1>1. /\ at = 0 /\ at' = at /\ readset' = readset
      /\ x_connectsocket[o] # NoSocket
      /\ sys_fdpoll' = AllUnregistered(sys_fdpoll, gone)
      /\ fdconn' = [fd \in Fds |-> IF fd \in gone THEN NoConn ELSE fdconn[fd]]
      /\ x_connectsocket' = [x_connectsocket EXCEPT ![o] = NoSocket]
      /\ x_connection' = [x_connection EXCEPT ![o] = [i \in Slots |-> FreeSlot]]
      /\ x_nconnections' = [x_nconnections EXCEPT ![o] = 0]
      /\ backlog' = [backlog EXCEPT ![o] = <<>>]
      /\ Gone(cs)
  BY DEF Free
<1>2. readset = {} /\ readset' = {} /\ at' = 0
  BY <1>1 DEF ReceiveInv, WalkInv
<1>3. PICK ix : Shrunk(sys_fdpoll', sys_fdpoll, gone, ix)
  BY <1>1, AllUnregisteredIsShrunk DEF ReceiveInv, ReceiveTypeOK
<1>4. /\ n \in Nat /\ DOMAIN sys_fdpoll = 1..n
      /\ m \in Nat /\ DOMAIN sys_fdpoll' = 1..m /\ sys_fdpoll' \in Seq(PollEntry)
      /\ ix \in [1..m -> 1..n]
      /\ \A j, k \in 1..m : j < k => ix[j] < ix[k]
      /\ \A j \in 1..m : sys_fdpoll'[j] = sys_fdpoll[ix[j]] /\ sys_fdpoll[ix[j]].fd \notin gone
      /\ \A i \in 1..n : sys_fdpoll[i].fd \notin gone => \E j \in 1..m : ix[j] = i
  BY <1>3, LenProperties DEF ReceiveInv, ReceiveTypeOK, Shrunk
<1>5. /\ peer' \in [Conns -> {"idle", "connected", "closed"}] /\ unread' \subseteq Conns
      /\ \A d \in Conns : peer'[d] = "idle" => d \in cs \/ peer[d] = "idle"
      /\ \A d \in Conns : d \notin cs => peer'[d] = peer[d] /\ (d \in unread <=> d \in unread')
  BY <1>1, IdleAgain DEF ReceiveInv
<1>6. /\ x_connectsocket[o] \in gone
      /\ \A i \in Used(o) : x_connection[o][i].socket \in gone
      /\ \A fd \in gone : fd = x_connectsocket[o] \/ \E i \in Used(o) : fd = x_connection[o][i].socket
  BY DEF SocketsOf
<1>7. \A d : d \in cs <=> (\E i \in DOMAIN backlog[o] : d = backlog[o][i]) \/ \E i \in Used(o) : d = x_connection[o][i].addr
  BY DEF Range
<1> HIDE DEF gone, cs, n, m
<1>8. /\ \A fd \in Fds : fdconn'[fd] = IF fd \in gone THEN NoConn ELSE fdconn[fd]
      /\ x_connectsocket'[o] = NoSocket
      /\ \A p \in Objs : p # o => x_connectsocket'[p] = x_connectsocket[p]
      /\ \A i \in Slots : x_connection'[o][i] = FreeSlot
      /\ \A p \in Objs : p # o => x_connection'[p] = x_connection[p]
      /\ x_nconnections'[o] = 0
      /\ \A p \in Objs : p # o => x_nconnections'[p] = x_nconnections[p]
      /\ backlog'[o] = <<>>
      /\ \A p \in Objs : p # o => backlog'[p] = backlog[p]
  BY <1>1 DEF ReceiveInv, ReceiveTypeOK
<1>9. Used(o)' = {} /\ \A p \in Objs : p # o => Used(p)' = Used(p)
  BY <1>8 DEF Used, FreeSlot
\* What the others have is not among what is closed.
<1>10. \A p \in Objs : p # o => \A i \in Used(p) :
         x_connection[p][i].socket \in Fds /\ x_connection[p][i].socket \notin gone
  <2>1. SUFFICES ASSUME NEW p \in Objs, p # o, NEW i \in Used(p)
                 PROVE  x_connection[p][i].socket \in Fds /\ x_connection[p][i].socket \notin gone
    OBVIOUS
  <2>2. x_connection[p][i].socket \in Fds /\ fdconn[x_connection[p][i].socket] \in Conns
    BY DEF Used, ReceiveInv, ReceiveTypeOK, TableInv
  <2>3. x_connection[p][i].socket # x_connectsocket[o]
    BY <1>1, <2>2, ReceiveConstants DEF ReceiveInv, ListenInv
  <2>4. \A j \in Used(o) : x_connection[p][i].socket # x_connection[o][j].socket
    BY <2>1 DEF ReceiveInv, TableInv
  <2> QED
    BY <1>6, <2>2, <2>3, <2>4
<1>11. \A p \in Objs : p # o /\ x_connectsocket[p] # NoSocket =>
         x_connectsocket[p] \in Fds /\ x_connectsocket[p] \notin gone
  <2>1. SUFFICES ASSUME NEW p \in Objs, p # o, x_connectsocket[p] # NoSocket
                 PROVE  x_connectsocket[p] \in Fds /\ x_connectsocket[p] \notin gone
    OBVIOUS
  <2>2. x_connectsocket[p] \in Fds /\ fdconn[x_connectsocket[p]] = Listening
    BY <2>1 DEF ReceiveInv, ReceiveTypeOK, ListenInv
  <2>3. x_connectsocket[p] # x_connectsocket[o]
    BY <2>1 DEF ReceiveInv, ListenInv
  <2>4. \A j \in Used(o) : x_connectsocket[p] # x_connection[o][j].socket
    BY <2>2, ReceiveConstants DEF ReceiveInv, TableInv
  <2> QED
    BY <1>6, <2>2, <2>3, <2>4
\* and no connection that is over has a descriptor left.
<1>12. \A fd \in Fds : fdconn[fd] \in cs => fd \in gone
  <2>1. SUFFICES ASSUME NEW fd \in Fds, fdconn[fd] \in cs PROVE fd \in gone
    OBVIOUS
  <2>2. PICK i \in Used(o) : fdconn[fd] = x_connection[o][i].addr
    BY <1>7, <2>1 DEF ReceiveInv, ConnInv
  <2>3. x_connection[o][i].socket \in Fds
    BY DEF Used, ReceiveInv, ReceiveTypeOK
  <2>4. fd = x_connection[o][i].socket
    BY <2>2, <2>3 DEF ReceiveInv, TableInv, ConnInv
  <2> QED
    BY <1>6, <2>4
<1>13. ReceiveTypeOK'
  <2>1. fdconn' \in [Fds -> Conns \cup {NoConn, Listening}]
    BY <1>1 DEF ReceiveInv, ReceiveTypeOK
  <2>2. x_connection' \in [Objs -> [Slots -> [socket : Fds \cup {NoSocket}, addr : Conns \cup {NoConn}]]]
    BY <1>1 DEF ReceiveInv, ReceiveTypeOK, FreeSlot
  <2>3. x_nconnections' \in [Objs -> Nat]
    BY <1>1 DEF ReceiveInv, ReceiveTypeOK
  <2>4. backlog' \in [Objs -> Seq(Conns)]
    <3>1. <<>> \in Seq(Conns)
      BY EmptySeq
    <3> QED
      BY <1>1, <3>1 DEF ReceiveInv, ReceiveTypeOK
  <2>5. x_connectsocket' \in [Objs -> Fds \cup {NoSocket}]
    BY <1>1 DEF ReceiveInv, ReceiveTypeOK
  <2> QED
    BY <1>2, <1>4, <1>5, <2>1, <2>2, <2>3, <2>4, <2>5 DEF ReceiveTypeOK
<1>14. ConnInv'
  <2>0. DOMAIN backlog'[o] = {}
    BY <1>8
  <2>1. \A f, g \in Fds : fdconn'[f] \in Conns /\ fdconn'[f] = fdconn'[g] => f = g
    BY <1>8, ReceiveConstants DEF ReceiveInv, ConnInv
  <2>2. \A p, q \in Objs : \A i \in DOMAIN backlog'[p], j \in DOMAIN backlog'[q] :
             backlog'[p][i] = backlog'[q][j] => p = q /\ i = j
    BY <1>8, <2>0 DEF ReceiveInv, ConnInv
  <2>3. \A p \in Objs : \A i \in DOMAIN backlog'[p] : \A g \in Fds : fdconn'[g] # backlog'[p][i]
    <3>1. ASSUME NEW p \in Objs, NEW i \in DOMAIN backlog[p] PROVE backlog[p][i] # NoConn
      <4>1. backlog[p] \in Seq(Conns)
        BY DEF ReceiveInv, ReceiveTypeOK
      <4> QED
        BY <4>1, LenProperties, ElementOfSeq, ReceiveConstants
    <3> QED
      BY <1>8, <2>0, <3>1 DEF ReceiveInv, ConnInv
  <2>4. ASSUME NEW d \in Conns, peer'[d] = "idle"
        PROVE  /\ \A g \in Fds : fdconn'[g] # d
               /\ \A p \in Objs : \A i \in DOMAIN backlog'[p] : backlog'[p][i] # d
    <3>1. CASE d \in cs
      <4>1. \A g \in Fds : fdconn'[g] # d
        BY <1>8, <1>12, <3>1, ReceiveConstants
      <4>2. ASSUME NEW p \in Objs, NEW i \in DOMAIN backlog'[p], backlog'[p][i] = d PROVE FALSE
        <5>1. p # o /\ i \in DOMAIN backlog[p] /\ backlog[p][i] = d
          BY <1>8, <2>0, <4>2
        <5>2. CASE \E j \in DOMAIN backlog[o] : d = backlog[o][j]
          BY <5>1, <5>2 DEF ReceiveInv, ConnInv
        <5>3. ASSUME NEW j \in Used(o), d = x_connection[o][j].addr PROVE FALSE
          <6>1. x_connection[o][j].socket \in Fds
            BY DEF Used, ReceiveInv, ReceiveTypeOK
          <6> QED
            BY <5>1, <5>3, <6>1 DEF ReceiveInv, ConnInv, TableInv
        <5> QED
          BY <1>7, <3>1, <5>2, <5>3
      <4> QED
        BY <4>1, <4>2
    <3>2. CASE d \notin cs
      <4>1. peer[d] = "idle"
        BY <1>5, <2>4, <3>2
      <4> QED
        BY <1>8, <2>0, <4>1, ReceiveConstants DEF ReceiveInv, ConnInv
    <3> QED
      BY <3>1, <3>2
  <2> QED
    BY <2>1, <2>2, <2>3, <2>4 DEF ConnInv
<1>15. ListenInv'
  <2>1. \A p \in Objs : x_connectsocket'[p] # NoSocket => fdconn'[x_connectsocket'[p]] = Listening
    BY <1>8, <1>11 DEF ReceiveInv, ListenInv
  <2>2. \A p, q \in Objs : x_connectsocket'[p] = x_connectsocket'[q] /\ x_connectsocket'[p] # NoSocket => p = q
    BY <1>8 DEF ReceiveInv, ListenInv
  <2>3. ASSUME NEW fd \in Fds, fdconn'[fd] = Listening PROVE \E p \in Objs : x_connectsocket'[p] = fd
    <3>1. fd \notin gone /\ fdconn[fd] = Listening
      BY <1>8, <2>3, ReceiveConstants
    <3>2. PICK p \in Objs : x_connectsocket[p] = fd
      BY <3>1 DEF ReceiveInv, ListenInv
    <3>3. p # o
      BY <1>6, <3>1, <3>2
    <3> QED
      BY <1>8, <3>2, <3>3
  <2>4. \A p \in Objs : x_connectsocket'[p] = NoSocket => backlog'[p] = <<>>
    BY <1>8 DEF ReceiveInv, ListenInv
  <2> QED
    BY <2>1, <2>2, <2>3, <2>4 DEF ListenInv
<1>16. TableInv'
  <2>1. \A p \in Objs : x_nconnections'[p] = Cardinality(Used(p)')
    <3>1. \A p \in Objs : x_nconnections[p] = Cardinality(Used(p))
      BY DEF ReceiveInv, TableInv
    <3>2. x_nconnections'[o] = Cardinality(Used(o)')
      BY <1>8, <1>9, FS_EmptySet
    <3>3. ASSUME NEW p \in Objs, p # o PROVE x_nconnections'[p] = Cardinality(Used(p)')
      BY <1>8, <1>9, <3>1, <3>3
    <3> QED
      BY <3>2, <3>3
  <2>2. \A p \in Objs : \A i \in Used(p)' : p # o /\ i \in Used(p)
    BY <1>9
  <2>3. \A p \in Objs : \A i \in Used(p)' :
             x_connection'[p][i].addr \in Conns /\ fdconn'[x_connection'[p][i].socket] = x_connection'[p][i].addr
    BY <1>8, <1>10, <2>2 DEF ReceiveInv, TableInv
  <2>4. ASSUME NEW g \in Fds, fdconn'[g] \in Conns
        PROVE  \E p \in Objs : \E i \in Used(p)' : x_connection'[p][i].socket = g
    <3>1. g \notin gone /\ fdconn[g] \in Conns
      BY <1>8, <2>4, ReceiveConstants
    <3>2. PICK p \in Objs : \E i \in Used(p) : x_connection[p][i].socket = g
      BY <3>1 DEF ReceiveInv, TableInv
    <3>3. p # o
      BY <1>6, <3>1, <3>2
    <3> QED
      BY <1>8, <1>9, <3>2, <3>3
  <2>5. \A p, q \in Objs : \A i \in Used(p)', j \in Used(q)' :
             x_connection'[p][i].socket = x_connection'[q][j].socket => p = q /\ i = j
    BY <1>8, <2>2 DEF ReceiveInv, TableInv
  <2> QED
    BY <2>1, <2>3, <2>4, <2>5 DEF TableInv
<1>17. \A j \in 1..m : ix[j] \in DOMAIN sys_fdpoll /\ sys_fdpoll[ix[j]].obj \in Objs /\ sys_fdpoll[ix[j]].fd \in Fds
  BY <1>4, EntryIs DEF ReceiveInv
<1>18. PollInv'
  <2>1. ASSUME NEW j \in DOMAIN sys_fdpoll', NEW p, p = sys_fdpoll'[j].obj
        PROVE  IF sys_fdpoll'[j].fn = "connectpoll" THEN x_connectsocket'[p] = sys_fdpoll'[j].fd
               ELSE \E i \in Used(p)' : x_connection'[p][i].socket = sys_fdpoll'[j].fd
    <3>1. /\ sys_fdpoll'[j] = sys_fdpoll[ix[j]] /\ p \in Objs /\ p = sys_fdpoll[ix[j]].obj
          /\ ix[j] \in DOMAIN sys_fdpoll /\ sys_fdpoll[ix[j]].fd \notin gone
      BY <1>4, <1>17, <2>1
    <3>2. IF sys_fdpoll[ix[j]].fn = "connectpoll" THEN x_connectsocket[p] = sys_fdpoll[ix[j]].fd
          ELSE \E i \in Used(p) : x_connection[p][i].socket = sys_fdpoll[ix[j]].fd
      BY <3>1 DEF ReceiveInv, PollInv
    <3>3. p # o
      BY <1>6, <3>1, <3>2
    <3> QED
      BY <1>8, <1>9, <3>1, <3>2, <3>3
  <2>2. ASSUME NEW k \in DOMAIN sys_fdpoll', NEW l \in DOMAIN sys_fdpoll', sys_fdpoll'[k].fd = sys_fdpoll'[l].fd
        PROVE  k = l
    <3>1. ix[k] = ix[l] /\ k \in Nat /\ l \in Nat /\ ix[k] \in Nat /\ ix[l] \in Nat
      BY <1>4, <1>17, <2>2 DEF ReceiveInv, PollInv
    <3> QED
      BY <1>4, <3>1
  <2>3. ASSUME NEW g \in Fds, fdconn'[g] # NoConn
        PROVE  \E j \in DOMAIN sys_fdpoll' : sys_fdpoll'[j].fd = g
    <3>1. g \notin gone /\ fdconn[g] # NoConn
      BY <1>8, <2>3
    <3>2. PICK k \in DOMAIN sys_fdpoll : sys_fdpoll[k].fd = g
      BY <3>1 DEF ReceiveInv, PollInv
    <3>3. PICK j \in 1..m : ix[j] = k
      BY <1>4, <3>1, <3>2
    <3> QED
      BY <1>4, <3>2, <3>3
  <2>4. \A k, l \in DOMAIN sys_fdpoll' :
          k < l /\ sys_fdpoll'[k].fn = "read" => sys_fdpoll'[l].fn = "read"
    BY <1>4, <1>17 DEF ReceiveInv, PollInv
  <2> QED
    BY <2>1, <2>2, <2>3, <2>4 DEF PollInv
<1>19. WalkInv'
  BY <1>2 DEF WalkInv
<1> QED
  BY <1>13, <1>14, <1>15, <1>16, <1>18, <1>19 DEF ReceiveInv

-----------------------------------------------------------------------------
(* What follows.                                                           *)

LEMMA ReceiveInvHolds == Spec => []ReceiveInv
<1>1. ReceiveInv /\ [Next]_vars => ReceiveInv'
  <2> SUFFICES ASSUME ReceiveInv, [Next]_vars PROVE ReceiveInv'
    OBVIOUS
  <2>1. ASSUME NEW c \in Conns, NEW o \in Objs, PeerConnect(c, o) PROVE ReceiveInv'
    BY <2>1, PeerConnectStep
  <2>2. ASSUME NEW c \in Conns, PeerSend(c) \/ PeerClose(c) PROVE ReceiveInv'
    BY <2>2, PeerStep
  <2>3. CASE Round
    <3>1. ASSUME NEW o \in Objs, ConnectPoll(o) PROVE ReceiveInv'
      <4>1. Connection(o) \/ TooMany(o)
        BY <3>1 DEF ConnectPoll
      <4> QED
        BY <3>1, <4>1, ConnectionStep, TooManyStep
    <3>2. ASSUME NEW o \in Objs, NEW fd \in Fds, Read(o, fd) PROVE ReceiveInv'
      <4>1. ReadData(fd) \/ ReadEnd(o, fd)
        BY <3>2 DEF Read
      <4> QED
        BY <3>2, <4>1, ReadDataStep, ReadEndStep
    <3> QED
      BY <2>3, <3>1, <3>2, LoopStep, AcceptFailsStep DEF Round
  <2>4. ASSUME NEW o \in Objs, Free(o) PROVE ReceiveInv'
    BY <2>4, FreeStep
  <2>5. CASE UNCHANGED vars
    <3>1. UNCHANGED <<sys_fdpoll, readset, at, x_nconnections, x_connection, x_connectsocket, backlog,
                      fdconn, peer, unread>>
      BY <2>5 DEF vars, pollvars, tablevars, kernelvars
    <3>2. ConnInv' /\ ListenInv' /\ TableInv' /\ PollInv'
      BY <3>1, NothingMoves
    <3>3. ReceiveTypeOK'
      BY <3>1 DEF ReceiveInv, ReceiveTypeOK
    <3>4. \A fd \in Fds : Readable(fd)' <=> Readable(fd)
      BY <3>1 DEF Readable
    <3>5. WalkInv'
      BY <3>1, <3>4, EntryIs DEF ReceiveInv, WalkInv
    <3> QED
      BY <3>2, <3>3, <3>5 DEF ReceiveInv
  <2> QED
    BY <2>1, <2>2, <2>3, <2>4, <2>5 DEF Next
<1> QED
  BY <1>1, ReceiveBegins, PTL DEF Spec

LEMMA EachIsPolledOnce ==
  ASSUME ReceiveInv
  PROVE  Len(sys_fdpoll) = Cardinality(PollFds)
<1> DEFINE n == Len(sys_fdpoll)
           f == [i \in 1..n |-> sys_fdpoll[i].fd]
<1>1. n \in Nat /\ DOMAIN sys_fdpoll = 1..n
  BY LenProperties DEF ReceiveInv, ReceiveTypeOK
<1>2. f \in Bijection(1..n, PollFds)
  <2>1. f \in Injection(1..n, PollFds)
    BY <1>1 DEF ReceiveInv, PollInv, Injection, IsInjective, PollFds
  <2>2. f \in Surjection(1..n, PollFds)
    BY <1>1 DEF Surjection, PollFds
  <2> QED
    BY <2>1, <2>2 DEF Bijection
<1>3. IsFiniteSet(1..n) /\ Cardinality(1..n) = n
  <2> HIDE DEF n
  <2> QED
    BY <1>1, FS_Interval
<1>4. Cardinality(1..n) = Cardinality(PollFds)
  BY <1>2, <1>3, FS_Bijection DEF ExistsBijection
<1> QED
  BY <1>3, <1>4

LEMMA OpenIsPolled ==
  ASSUME ReceiveInv
  PROVE  /\ PollFds = Fds \ FreeFds
         /\ PollFds = (UNION {SocketsOf(o) : o \in Objs}) \ {NoSocket}
<1>1. \A fd : fd \in PollFds <=> \E k \in DOMAIN sys_fdpoll : sys_fdpoll[k].fd = fd
  BY DEF PollFds
<1>2. PollFds = Fds \ FreeFds
  BY <1>1, PolledIsOpen DEF FreeFds, ReceiveInv, PollInv
<1>3. ASSUME NEW fd \in Fds, fdconn[fd] # NoConn
      PROVE  \E o \in Objs : fd \in SocketsOf(o)
  <2>1. fdconn[fd] = Listening \/ fdconn[fd] \in Conns
    BY <1>3 DEF ReceiveInv, ReceiveTypeOK
  <2>2. CASE fdconn[fd] = Listening
    BY <2>2 DEF ReceiveInv, ListenInv, SocketsOf
  <2>3. CASE fdconn[fd] \in Conns
    BY <2>3 DEF ReceiveInv, TableInv, SocketsOf
  <2> QED
    BY <2>1, <2>2, <2>3
<1>4. ASSUME NEW o \in Objs, NEW fd \in SocketsOf(o), fd # NoSocket
      PROVE  fd \in Fds /\ fdconn[fd] # NoConn
  <2>1. CASE fd = x_connectsocket[o]
    BY <1>4, <2>1, ReceiveConstants DEF ReceiveInv, ReceiveTypeOK, ListenInv
  <2>2. ASSUME NEW i \in Used(o), fd = x_connection[o][i].socket PROVE fd \in Fds /\ fdconn[fd] # NoConn
    <3>1. fdconn[fd] \in Conns
      BY <2>2 DEF ReceiveInv, TableInv
    <3>2. fd \in Fds
      BY <2>2 DEF Used, ReceiveInv, ReceiveTypeOK
    <3> QED
      BY <3>1, <3>2, ReceiveConstants
  <2> QED
    BY <1>4, <2>1, <2>2 DEF SocketsOf
<1>5. \A fd : fd \in Fds \ FreeFds <=> fd \in Fds /\ fdconn[fd] # NoConn
  BY DEF FreeFds
<1>6. \A fd : fd \in (UNION {SocketsOf(o) : o \in Objs}) \ {NoSocket} <=>
              fd # NoSocket /\ \E o \in Objs : fd \in SocketsOf(o)
  OBVIOUS
<1> QED
  BY <1>2, <1>3, <1>4, <1>5, <1>6, ReceiveConstants

LEMMA ReceiveInvImplies == ReceiveInv => DescriptorsAreTrue
<1> SUFFICES ASSUME ReceiveInv PROVE DescriptorsAreTrue
  OBVIOUS
<1>1. \A o \in Objs : \A i \in Used(o) :
        x_connection[o][i].socket \in Fds /\ fdconn[x_connection[o][i].socket] \in Conns
  BY DEF Used, ReceiveInv, ReceiveTypeOK, TableInv
<1>2. ASSUME NEW o \in Objs, NEW i \in Used(o)
      PROVE  \E k \in DOMAIN sys_fdpoll :
               sys_fdpoll[k] = [fd |-> x_connection[o][i].socket, fn |-> "read", obj |-> o]
  <2> DEFINE fd == x_connection[o][i].socket
  <2>1. PICK k \in DOMAIN sys_fdpoll : sys_fdpoll[k].fd = fd
    <3>1. fd \in Fds /\ fdconn[fd] # NoConn
      BY <1>1, <1>2, ReceiveConstants
    <3> HIDE DEF fd
    <3> QED
      BY <3>1 DEF ReceiveInv, PollInv
  <2>2. sys_fdpoll[k].fn = "read"
    BY <1>1, <1>2, <2>1, PolledIsOpen, ReceiveConstants
  <2>3. PICK j \in Used(sys_fdpoll[k].obj) : x_connection[sys_fdpoll[k].obj][j].socket = fd
    BY <2>1, <2>2 DEF ReceiveInv, PollInv
  <2>4. sys_fdpoll[k].obj = o
    BY <1>2, <2>3, PolledIsOpen DEF ReceiveInv, TableInv
  <2>5. sys_fdpoll[k] \in PollEntry
    BY EntryIs DEF ReceiveInv
  <2>6. sys_fdpoll[k] = [fd |-> fd, fn |-> "read", obj |-> o]
    BY <2>1, <2>2, <2>4, <2>5 DEF PollEntry
  <2> QED
    BY <2>6
<1>3. \A o \in Objs : \A i \in Used(o) :
       /\ x_connection[o][i].socket # x_connectsocket[o]
       /\ \A j \in Used(o) \ {i} : x_connection[o][i].socket # x_connection[o][j].socket
  BY <1>1, ReceiveConstants DEF ReceiveInv, TableInv, ListenInv
<1>4. ASSUME NEW o \in Objs, NEW p \in Objs \ {o}
      PROVE  SocketsOf(o) \cap SocketsOf(p) \subseteq {NoSocket}
  <2>1. SUFFICES ASSUME NEW fd, fd \in SocketsOf(o), fd \in SocketsOf(p), fd # NoSocket PROVE FALSE
    OBVIOUS
  <2>2. CASE fd = x_connectsocket[o]
    <3>1. fdconn[fd] = Listening /\ fd # x_connectsocket[p]
      BY <2>1, <2>2 DEF ReceiveInv, ListenInv
    <3> QED
      BY <1>1, <2>1, <3>1, ReceiveConstants DEF SocketsOf
  <2>3. ASSUME NEW i \in Used(o), fd = x_connection[o][i].socket PROVE FALSE
    <3>1. fdconn[fd] \in Conns
      BY <1>1, <2>3
    <3>2. fd # x_connectsocket[p]
      BY <2>1, <3>1, ReceiveConstants DEF ReceiveInv, ListenInv
    <3>3. \A j \in Used(p) : fd # x_connection[p][j].socket
      BY <2>3 DEF ReceiveInv, TableInv
    <3> QED
      BY <2>1, <3>2, <3>3 DEF SocketsOf
  <2> QED
    BY <2>1, <2>2, <2>3 DEF SocketsOf
<1>5. TableIsTrue
  <2>1. \A o \in Objs : x_nconnections[o] = Cardinality(Used(o))
    BY DEF ReceiveInv, TableInv
  <2>2. \A o \in Objs : \A i \in Used(o) : fdconn[x_connection[o][i].socket] = x_connection[o][i].addr
    BY DEF ReceiveInv, TableInv
  <2> QED
    BY <1>2, <1>3, <1>4, <2>1, <2>2, EachIsPolledOnce, OpenIsPolled DEF TableIsTrue
<1>6. NeverBlocks
  <2>1. at >= at
    BY DEF ReceiveInv, ReceiveTypeOK
  <2> QED
    BY <2>1 DEF NeverBlocks, AtReadable, ReceiveInv, WalkInv
<1> QED
  BY <1>5, <1>6 DEF DescriptorsAreTrue

\* For any numbers of objects, peers, connections and descriptors, the tables, the
\* poll list and the open descriptors agree, and Pd waits in no recv() or accept(),
\* although descriptors are closed and given out again within a round.
THEOREM DescriptorsStayTrue == Spec => []DescriptorsAreTrue
  BY ReceiveInvHolds, ReceiveInvImplies, PTL
=============================================================================
