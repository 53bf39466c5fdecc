--------------------------- MODULE Streams_proofs ---------------------------
(***************************************************************************)
(* Proofs about the streams between the devices: which the session asks    *)
(* for, and how udpreceive~ takes them in.                                 *)
(*   - udpreceive~: the frames in its queue are complete, those that are   *)
(*     lost are counted, and a frame is held while it is played.           *)
(*   - udpsend~: the datagrams of a frame add up to what its tag says.     *)
(*   - Both, with a network that loses, duplicates and reorders between    *)
(*     them: a frame is played as it was sent, in the order it was sent,   *)
(*     unless it or a frame before it in whose reach it is was damaged.    *)
(*   - The session: a channel streams only to a device whose user asked    *)
(*     for it; what the patch is told is who publishes the channel; with   *)
(*     server.py each channel then streams to its owner.                   *)
(***************************************************************************)
EXTENDS AudioStream, Session, BasicLemmas

-----------------------------------------------------------------------------
(* udpreceive~.                                                            *)

\* Size of the queue, without the remainder.
QueueLen == IF x_frameout <= x_framein THEN x_framein - x_frameout
                                       ELSE x_framein - x_frameout + NFrames

\* The queue and the counters of the frames that passed through it.
CountInv ==
  /\ completed - played = QueueLen + NFrames * x_overflow
  /\ x_counter <= completed
  /\ x_buffering => played = 0

\* perform is in the middle of a frame only when there is one.
BlockInv ==
  /\ x_blocksperrecv = BlockSize \div x_vecsize
  /\ x_blockssincerecv = 0 \/ x_blockssincerecv < x_blocksperrecv
  /\ (x_blockssincerecv > 0 /\ x_overflow = 0) => x_framein # x_frameout

\* The slot at x_framein, while its frame is being received.
AssemblyInv ==
  x_nbytes > 0 =>
    LET slot == x_frames[x_framein]
    IN  /\ x_nbytes <= slot.tag.framesize
        /\ \A p \in Bytes : p < slot.tag.framesize - x_nbytes => slot.data[p] # Stale

RInv == RTypeOK /\ CountInv /\ BlockInv /\ AssemblyInv /\ QueuedFramesComplete

-----------------------------------------------------------------------------
(* Slot numbers.                                                           *)

LEMMA SuccSlot ==
  ASSUME NEW i \in Slots
  PROVE  Succ(i) = (IF i = NFrames - 1 THEN 0 ELSE i + 1) /\ Succ(i) \in Slots
<1> DEFINE a == i + 1
           N == NFrames
<1>1. N \in Nat \ {0} /\ N > 1 /\ a \in 0..(2 * N - 1)
  BY ReceiverAssumption, FormatAssumption DEF Slots
<1>2. Succ(i) = a % N
  BY DEF Succ
<1> HIDE DEF a, N
<1>3. a % N = IF a < N THEN a ELSE a - N
  BY <1>1, ModSmall
<1> QED
  BY <1>1, <1>2, <1>3 DEF Slots, a, N

\* QUEUESIZE is the number of slots from x_frameout up to x_framein.
LEMMA QueueSizeIsLen ==
  ASSUME RTypeOK
  PROVE  QUEUESIZE = QueueLen
<1> DEFINE a == x_framein + NFrames - x_frameout
           N == NFrames
<1>1. /\ N \in Nat \ {0}
      /\ x_framein \in 0..(N - 1) /\ x_frameout \in 0..(N - 1)
      /\ a \in 0..(2 * N - 1)
  BY ReceiverAssumption, FormatAssumption DEF RTypeOK, Slots
<1>2. QUEUESIZE = a % N
  BY DEF QUEUESIZE
<1> HIDE DEF a, N
<1>3. a % N = IF a < N THEN a ELSE a - N
  BY <1>1, ModSmall
<1> QED
  BY <1>1, <1>2, <1>3 DEF QueueLen, a, N

-----------------------------------------------------------------------------
(* Type correctness.                                                       *)

LEMMA VecNat == VecSizes \cup {DefaultVecSize} \subseteq Nat \ {0}
  BY ReceiverAssumption, FormatAssumption

LEMMA BlocksNat ==
  ASSUME NEW v \in VecSizes \cup {DefaultVecSize}
  PROVE  BlockSize \div v \in Nat
  BY VecNat, DivBounds, ReceiverAssumption, FormatAssumption

LEMMA InitRInv == RInit => RInv
<1> SUFFICES ASSUME RInit PROVE RInv
  OBVIOUS
<1>1. NFrames \in Nat /\ NFrames > 1 /\ 0 \in Slots /\ MaxCompleted \in Nat
      /\ QueueLength \in 1..(NFrames - 1)
  BY ReceiverAssumption, FormatAssumption DEF Slots
<1>2. RTypeOK
  BY <1>1, BlocksNat DEF RInit, RTypeOK, NoTag, Blank, Bytes, Slots
<1>3. CountInv
  BY <1>1 DEF RInit, CountInv, QueueLen
<1>4. BlockInv /\ AssemblyInv
  BY DEF RInit, BlockInv, AssemblyInv
<1>5. QueuedFramesComplete
  BY <1>1 DEF RInit, QueuedFramesComplete, Queued, Slots
<1> QED
  BY <1>2, <1>3, <1>4, <1>5 DEF RInv

-----------------------------------------------------------------------------
(* Steps that do not touch the queue.                                      *)

LEMMA ResetStep ==
  ASSUME RInv, NEW b \in 0..NFrames, Reset(b)
  PROVE  RInv'
<1>1. NFrames \in Nat /\ NFrames > 1 /\ 0 \in Slots /\ MaxCompleted \in Nat
  BY ReceiverAssumption, FormatAssumption DEF Slots
<1>2. RTypeOK'
  BY <1>1, BlocksNat DEF Reset, RInv, RTypeOK
<1>3. CountInv'
  BY <1>1 DEF Reset, CountInv, QueueLen
<1>4. BlockInv' /\ AssemblyInv'
  BY DEF Reset, BlockInv, AssemblyInv
<1>5. QueuedFramesComplete'
  BY <1>1 DEF Reset, QueuedFramesComplete, Queued, Slots
<1> QED
  BY <1>2, <1>3, <1>4, <1>5 DEF RInv

LEMMA DspStep ==
  ASSUME RInv, DspOff \/ \E n \in VecSizes : Dsp(n)
  PROVE  RInv'
<1>1. UNCHANGED <<queuevars, pollvars, playvars, x_maxframes>> /\ chain' \in VecSizes \cup {0}
  BY DEF DspOff, Dsp
<1> QED
  BY <1>1 DEF RInv, RTypeOK, CountInv, QueueLen, BlockInv, AssemblyInv,
              QueuedFramesComplete, Queued, queuevars, pollvars, playvars

-----------------------------------------------------------------------------
(* Reception.                                                              *)

\* What is written to the slot at x_framein does not touch the queue.
LEMMA FrameInNotQueued == RTypeOK => ~Queued(x_framein)
  BY ReceiverAssumption, FormatAssumption DEF RTypeOK, Queued, Slots

\* Changing one field of a slot.
LEMMA SlotUpdate ==
  ASSUME NEW A, NEW B, NEW slot \in [tag : A, data : B], NEW v
  PROVE  /\ [slot EXCEPT !.tag = v] = [tag |-> v, data |-> slot.data]
         /\ [slot EXCEPT !.data = v] = [tag |-> slot.tag, data |-> v]
  OBVIOUS

TagSet == [format : KnownFormats \cup {"none"}, channels : Nat, framesize : Nat, count : Nat]
DataSet == [Bytes -> Nat \cup {Foreign, Stale}]

LEMMA SlotIsRecord == RTypeOK => x_frames[x_framein] \in [tag : TagSet, data : DataSet]
  BY DEF RTypeOK, TagSet, DataSet

DatagramSet ==
  [kind : {"tag", "data"}, format : KnownFormats, channels : Nat, count : Nat, at : Nat, len : Nat]

\* A datagram received where a tag is expected.
LEMMA PollTagStep ==
  ASSUME RInv, NEW d \in DatagramSet,
         \/ PollIncompleteTag(d)
         \/ PollBadTag(d)
         \/ PollTooManyChannels(d)
         \/ PollTag(d),
         UNCHANGED <<playvars, x_maxframes, chain>>
  PROVE  RInv'
<1>1. /\ NFrames \in Nat /\ NFrames > 1 /\ MaxCompleted \in Nat
      /\ d.format \in KnownFormats /\ d.channels \in Nat /\ d.len \in Nat /\ d.count \in Nat
  BY ReceiverAssumption, FormatAssumption DEF DatagramSet
<1>2. /\ \E tag \in {NoTag, TagOf(d)} : \E data \in {x_frames[x_framein].data, Blank} :
            x_frames' = [x_frames EXCEPT ![x_framein] = [tag |-> tag, data |-> data]]
      /\ x_counter' \in {x_counter, 0}
      /\ x_sync' \in BOOLEAN
      /\ UNCHANGED queuevars
  <2>1. CASE PollTag(d)
    BY <2>1 DEF PollTag
  <2>2. CASE PollIncompleteTag(d) \/ PollBadTag(d) \/ PollTooManyChannels(d)
    <3>1. PICK tag \in {NoTag, TagOf(d)} : StoreTag(tag)
      BY <2>2 DEF PollIncompleteTag, PollBadTag, PollTooManyChannels
    <3>2. x_frames' = [x_frames EXCEPT ![x_framein] =
                         [tag |-> tag, data |-> x_frames[x_framein].data]]
      <4>1. [x_frames[x_framein] EXCEPT !.tag = tag]
              = [tag |-> tag, data |-> x_frames[x_framein].data]
        BY SlotUpdate, SlotIsRecord DEF RInv
      <4> QED
        BY <3>1, <4>1 DEF StoreTag
    <3> QED
      BY <2>2, <3>2 DEF PollIncompleteTag, PollBadTag, PollTooManyChannels, RInv, RTypeOK
  <2> QED
    BY <2>1, <2>2
<1>3. x_nbytes' \in Nat /\ (x_nbytes' > 0 => PollTag(d) /\ x_nbytes' = d.len)
  BY <1>1 DEF PollTag, PollIncompleteTag, PollBadTag, PollTooManyChannels, RInv, RTypeOK
<1>4. RTypeOK'
  BY <1>1, <1>2, <1>3 DEF RInv, RTypeOK, queuevars, playvars, NoTag, TagOf, Blank, Bytes
<1>5. CountInv' /\ BlockInv'
  BY <1>1, <1>2 DEF RInv, RTypeOK, CountInv, QueueLen, BlockInv, queuevars, playvars
<1>6. AssemblyInv'
  <2> SUFFICES ASSUME x_nbytes' > 0 PROVE AssemblyInv'
    BY DEF AssemblyInv
  <2>1. /\ x_frames' = [x_frames EXCEPT ![x_framein] = [tag |-> TagOf(d), data |-> Blank]]
        /\ x_nbytes' = d.len /\ x_framein' = x_framein
    BY <1>3 DEF PollTag, queuevars
  <2> QED
    BY <1>1, <2>1 DEF AssemblyInv, RInv, RTypeOK, TagOf, Bytes
<1>7. QueuedFramesComplete'
  <2>1. \A i \in Slots : Queued(i)' => Queued(i) /\ i # x_framein
    BY <1>2, FrameInNotQueued DEF Queued, queuevars, RInv
  <2>2. \A i \in Slots : i # x_framein => x_frames'[i] = x_frames[i]
    BY <1>2 DEF RInv, RTypeOK
  <2> QED
    BY <2>1, <2>2 DEF QueuedFramesComplete, RInv
<1> QED
  BY <1>4, <1>5, <1>6, <1>7 DEF RInv

\* Data.
LEMMA PollDataStep ==
  ASSUME RInv, NEW d \in DatagramSet, PollData(d), UNCHANGED <<playvars, x_maxframes, chain>>
  PROVE  RInv'
<1>1. /\ NFrames \in Nat /\ NFrames > 1 /\ MaxCompleted \in Nat /\ TagSize \in Nat
      /\ d.len \in Nat /\ d.count \in Nat /\ WireSize(d) \in Nat /\ WireSize(d) > 0
  BY ReceiverAssumption, FormatAssumption DEF WireSize, PollData, DatagramSet
<1> DEFINE slot == x_frames[x_framein]
<1>2. /\ x_nbytes \in Nat /\ x_nbytes > 0
      /\ slot.tag.framesize \in Nat /\ x_nbytes <= slot.tag.framesize
      /\ \A p \in Bytes : p < slot.tag.framesize - x_nbytes => slot.data[p] # Stale
      /\ Received(d) \in 1..x_nbytes
  BY <1>1 DEF PollData, RInv, RTypeOK, AssemblyInv, Received
<1>3. StoredData(d) \in [Bytes -> Nat \cup {Foreign, Stale}]
  <2>1. slot.data \in [Bytes -> Nat \cup {Foreign, Stale}]
    BY DEF RInv, RTypeOK
  <2> HIDE DEF slot
  <2>2. \A p \in Bytes : slot.data[p] \in Nat \cup {Foreign, Stale}
    BY <2>1
  <2>3. StoredData(d) = [p \in Bytes |->
          IF p \in Offset..(Offset + Received(d) - 1)
          THEN IF d.kind = "data" /\ d.at = Offset THEN d.count ELSE Foreign
          ELSE slot.data[p]]
    BY DEF StoredData, Bytes, slot
  <2> QED
    BY <1>1, <2>2, <2>3
<1>4. \A p \in Bytes : p < slot.tag.framesize - (x_nbytes - Received(d))
                          => StoredData(d)[p] # Stale
  <2> SUFFICES ASSUME NEW p \in Bytes, p < slot.tag.framesize - (x_nbytes - Received(d))
               PROVE  StoredData(d)[p] # Stale
    OBVIOUS
  <2>1. p \in Int /\ Offset = slot.tag.framesize - x_nbytes
    BY DEF Bytes, Offset
  <2>2. CASE p < Offset
    BY <1>2, <2>1, <2>2 DEF StoredData, Bytes
  <2>3. CASE Offset <= p
    <3>1. p \in Offset..(Offset + Received(d) - 1)
      BY <1>2, <2>1, <2>3
    <3> QED
      BY <3>1, <1>1 DEF StoredData, Bytes, Stale, Foreign
  <2> QED
    BY <1>2, <2>1, <2>2, <2>3
<1>5. /\ x_frames' = [x_frames EXCEPT ![x_framein] = [tag |-> slot.tag, data |-> StoredData(d)]]
      /\ x_frames'[x_framein].tag = slot.tag
      /\ x_frames'[x_framein].data = StoredData(d)
      /\ \A i \in Slots : i # x_framein => x_frames'[i] = x_frames[i]
  <2>1. [slot EXCEPT !.data = StoredData(d)] = [tag |-> slot.tag, data |-> StoredData(d)]
    BY SlotUpdate, SlotIsRecord DEF RInv
  <2>2. x_frames' = [x_frames EXCEPT ![x_framein] = [tag |-> slot.tag, data |-> StoredData(d)]]
    BY <2>1 DEF PollData
  <2>3. x_framein \in DOMAIN x_frames /\ DOMAIN x_frames = Slots
    BY DEF RInv, RTypeOK
  <2> QED
    BY <2>2, <2>3
<1>6. x_nbytes' \in Nat
      /\ x_nbytes' = (IF FrameEnds(d) THEN 0 ELSE x_nbytes - Received(d))
  BY <1>2 DEF PollData
<1>7. CASE Enqueue /\ FrameEnds(d)
  <2>1. x_framein' = (IF x_framein = NFrames - 1 THEN 0 ELSE x_framein + 1)
        /\ x_framein' \in Slots
    BY <1>7, SuccSlot DEF Enqueue, RInv, RTypeOK
  <2>2. RTypeOK'
    BY <1>1, <1>3, <1>5, <1>6, <1>7, <2>1
      DEF RInv, RTypeOK, Enqueue, PollData, playvars
  <2>3. CountInv'
    <3>1. NFrames * (x_overflow + 1) = NFrames * x_overflow + NFrames
      BY <1>1 DEF RInv, RTypeOK
    <3>2. completed \in Nat /\ played \in Nat /\ x_counter \in Nat /\ x_overflow \in Nat
      BY <1>1 DEF RInv, RTypeOK
    <3>3. x_framein \in 0..(NFrames - 1) /\ x_frameout \in 0..(NFrames - 1)
      BY DEF RInv, RTypeOK, Slots
    <3>4. NFrames * x_overflow \in Int
      BY <1>1, <3>2
    <3>5. CASE x_framein' = x_frameout
      <4>1. x_overflow' = x_overflow + 1 /\ x_frameout' = x_frameout
        BY <1>7, <3>5 DEF Enqueue
      <4>2. QueueLen' = 0 /\ QueueLen = NFrames - 1
        BY <1>1, <2>1, <3>3, <3>5, <4>1 DEF QueueLen
      <4> QED
        BY <1>1, <1>7, <3>1, <3>2, <3>4, <4>1, <4>2 DEF CountInv, Enqueue, RInv, playvars
    <3>6. CASE x_framein' # x_frameout
      <4>1. x_overflow' = x_overflow /\ x_frameout' = x_frameout
        BY <1>7, <3>6 DEF Enqueue
      <4>2. QueueLen' = QueueLen + 1 /\ QueueLen \in Int
        BY <1>1, <2>1, <3>3, <3>6, <4>1 DEF QueueLen
      <4> QED
        BY <1>1, <1>7, <3>2, <3>4, <4>1, <4>2 DEF CountInv, Enqueue, RInv, playvars
    <3> QED
      BY <3>5, <3>6
  <2>4. BlockInv'
    BY <1>7, <2>1 DEF Enqueue, BlockInv, RInv, RTypeOK, playvars
  <2>5. AssemblyInv'
    BY <1>6, <1>7 DEF AssemblyInv
  <2>6. QueuedFramesComplete'
    <3>1. \A i \in Slots : Queued(i)' => (Queued(i) /\ i # x_framein) \/ i = x_framein
      BY <1>1, <1>7, <2>1 DEF Queued, Enqueue, RInv, RTypeOK, Slots
    <3>2. Received(d) = x_nbytes
      BY <1>7 DEF FrameEnds
    <3>3. \A p \in Bytes : p < slot.tag.framesize => StoredData(d)[p] # Stale
      BY <1>2, <1>4, <3>2 DEF Bytes
    <3> QED
      BY <1>2, <1>5, <3>1, <3>3 DEF QueuedFramesComplete, RInv
  <2> QED
    BY <2>2, <2>3, <2>4, <2>5, <2>6 DEF RInv
<1>8. CASE UNCHANGED <<queuevars, x_counter>>
  <2>1. RTypeOK'
    BY <1>1, <1>3, <1>5, <1>6, <1>8 DEF RInv, RTypeOK, queuevars, PollData, playvars
  <2>2. CountInv' /\ BlockInv'
    BY <1>8 DEF RInv, CountInv, QueueLen, BlockInv, queuevars, playvars
  <2>3. AssemblyInv'
    BY <1>2, <1>4, <1>5, <1>6, <1>8 DEF AssemblyInv, queuevars
  <2>4. QueuedFramesComplete'
    <3>1. \A i \in Slots : Queued(i)' => Queued(i) /\ i # x_framein
      BY <1>8, FrameInNotQueued DEF Queued, queuevars, RInv
    <3> QED
      BY <1>5, <3>1 DEF QueuedFramesComplete, RInv
  <2> QED
    BY <2>1, <2>2, <2>3, <2>4 DEF RInv
<1> QED
  BY <1>7, <1>8 DEF PollData

-----------------------------------------------------------------------------
(* Playing.                                                                *)

LEMMA PerformStep ==
  ASSUME RInv, NEW n \in VecSizes, Perform(n)
  PROVE  RInv'
<1>1. /\ NFrames \in Nat /\ NFrames > 1 /\ MaxCompleted \in Nat
      /\ n \in Nat \ {0} /\ BlockSize \div n \in Nat
  BY ReceiverAssumption, FormatAssumption, BlocksNat
<1>2. /\ BlocksPer(n) = BlockSize \div n
      /\ NextBlock(n) \in Nat
      /\ NextBlock(n) = 0 \/ NextBlock(n) < BlocksPer(n)
      /\ NextBlock(n) > 0 => NextBlock(n) = x_blockssincerecv
  BY <1>1 DEF BlocksPer, NextBlock, RInv, RTypeOK, BlockInv
<1>3. /\ x_vecsize' = n /\ x_blocksperrecv' = BlockSize \div n
      /\ UNCHANGED <<pollvars, x_framein, x_overflow, x_maxframes, chain, completed>>
  BY <1>2 DEF Perform
<1>4. x_buffering' \in BOOLEAN /\ (x_buffering' => x_buffering)
  <2>1. x_buffering' = x_buffering \/ x_buffering' = FALSE
    BY DEF Perform, PerformBuffering, PerformUnderflow, PerformBlock, PerformLastBlock
  <2>2. x_buffering \in BOOLEAN
    BY DEF RInv, RTypeOK
  <2>3. CASE x_buffering' = x_buffering
    BY <2>2, <2>3
  <2>4. CASE x_buffering' = FALSE
    BY <2>4
  <2> QED
    BY <2>1, <2>3, <2>4
<1>5. AssemblyInv'
  BY <1>3 DEF AssemblyInv, RInv, pollvars
<1>6. CASE PerformBuffering(n) \/ PerformUnderflow(n) \/ PerformBlock(n)
  <2>1. UNCHANGED <<x_frameout, played>> /\ x_blockssincerecv' \in Nat
    BY <1>2, <1>6 DEF PerformBuffering, PerformUnderflow, PerformBlock
  <2>2. RTypeOK'
    BY <1>1, <1>3, <1>4, <2>1 DEF RInv, RTypeOK, pollvars
  <2>3. CountInv'
    BY <1>3, <1>4, <2>1 DEF RInv, CountInv, QueueLen, pollvars
  <2>4. x_blockssincerecv' = 0 \/ x_blockssincerecv' < x_blocksperrecv'
    BY <1>1, <1>2, <1>3, <1>6 DEF PerformBuffering, PerformUnderflow, PerformBlock
  <2>5. (x_blockssincerecv' > 0 /\ x_overflow' = 0) => x_framein' # x_frameout'
    BY <1>2, <1>3, <1>6, <2>1 DEF PerformBuffering, PerformUnderflow, PerformBlock, CanPlay,
                                 RInv, BlockInv
  <2>6. QueuedFramesComplete'
    BY <1>3, <2>1 DEF RInv, QueuedFramesComplete, Queued, pollvars
  <2> QED
    BY <1>3, <1>5, <2>2, <2>3, <2>4, <2>5, <2>6 DEF RInv, BlockInv
<1>7. CASE PerformLastBlock(n)
  <2>1. /\ x_frameout' = (IF x_frameout = NFrames - 1 THEN 0 ELSE x_frameout + 1)
        /\ x_frameout' \in Slots
        /\ x_blockssincerecv' = 0 /\ played' = played + 1
        /\ x_framein # x_frameout /\ ~x_buffering'
    BY <1>7, SuccSlot DEF PerformLastBlock, CanPlay, RInv, RTypeOK
  <2>2. RTypeOK'
    BY <1>1, <1>3, <1>4, <2>1 DEF RInv, RTypeOK, pollvars
  <2>3. CountInv'
    <3>1. x_framein \in 0..(NFrames - 1) /\ x_frameout \in 0..(NFrames - 1)
      BY DEF RInv, RTypeOK, Slots
    <3>2. QueueLen' = QueueLen - 1 /\ QueueLen \in Int
      BY <1>1, <1>3, <2>1, <3>1 DEF QueueLen
    <3>3. completed \in Nat /\ played \in Nat /\ NFrames * x_overflow \in Int
      BY <1>1 DEF RInv, RTypeOK
    <3>4. completed' - played' = QueueLen' + NFrames * x_overflow'
      BY <1>3, <2>1, <3>2, <3>3 DEF RInv, CountInv
    <3> QED
      BY <1>3, <2>1, <3>4 DEF RInv, CountInv, pollvars
  <2>4. BlockInv'
    BY <1>3, <2>1 DEF BlockInv
  <2>5. QueuedFramesComplete'
    <3>1. \A i \in Slots : Queued(i)' => Queued(i)
      BY <1>1, <1>3, <2>1 DEF Queued, RInv, RTypeOK, Slots
    <3> QED
      BY <1>3, <3>1 DEF QueuedFramesComplete, RInv, pollvars
  <2> QED
    BY <1>5, <2>2, <2>3, <2>4, <2>5 DEF RInv
<1> QED
  BY <1>6, <1>7 DEF Perform

-----------------------------------------------------------------------------
(* The theorems.                                                           *)

LEMMA RInvNext == RInv /\ [RNext]_rvars => RInv'
<1> SUFFICES ASSUME RInv, [RNext]_rvars PROVE RInv'
  OBVIOUS
<1>1. ASSUME NEW b \in 0..NFrames, Reset(b) PROVE RInv'
  BY <1>1, ResetStep
<1>2. CASE DspOff \/ \E n \in VecSizes : Dsp(n)
  BY <1>2, DspStep
<1>3. ASSUME NEW d \in Datagrams, DataPoll(d) PROVE RInv'
  <2>1. d \in DatagramSet
    BY ReceiverAssumption DEF DatagramSet
  <2> QED
    BY <1>3, <2>1, PollTagStep, PollDataStep DEF DataPoll
<1>4. ASSUME NEW n \in VecSizes, Perform(n) PROVE RInv'
  BY <1>4, PerformStep
<1>5. CASE UNCHANGED rvars
  BY <1>5 DEF RInv, RTypeOK, CountInv, QueueLen, BlockInv, AssemblyInv,
              QueuedFramesComplete, Queued, rvars, queuevars, pollvars, playvars
<1> QED
  BY <1>1, <1>2, <1>3, <1>4, <1>5 DEF RNext

\* The inductive invariant: types, the counters, the block perform is at, the
\* slot in assembly and the frames in the queue.
THEOREM ReceiverInvariant == RSpec => []RInv
  BY InitRInv, RInvNext, PTL DEF RSpec

\* Every variable of udpreceive~ keeps its type.
THEOREM ReceiverTypeCorrect == RSpec => []RTypeOK
<1>1. RInv => RTypeOK
  BY DEF RInv
<1> QED
  BY <1>1, ReceiverInvariant, PTL

\* Whatever arrives in whatever order, a frame in the queue is complete.
THEOREM OnlyCompleteFrames == RSpec => []QueuedFramesComplete
<1>1. RInv => QueuedFramesComplete
  BY DEF RInv
<1> QED
  BY <1>1, ReceiverInvariant, PTL

\* No frame is lost that x_overflow does not account for.
THEOREM LossIsCounted == RSpec => []FramesAccounted
<1>1. RInv => FramesAccounted
  BY QueueSizeIsLen DEF RInv, CountInv, FramesAccounted
<1> QED
  BY <1>1, ReceiverInvariant, PTL

\* Both, as one run checks them.
THEOREM QueueHoldsWhatItShould == RSpec => []QueueIsTrue
BY OnlyCompleteFrames, LossIsCounted, PTL DEF QueueIsTrue

\* A frame is not overwritten while it is played, short of an overflow that is
\* counted.
THEOREM FrameHeld == RSpec => PlayedFrameIsHeld
<1>1. RInv /\ [RNext]_rvars =>
        [(x_blockssincerecv > 0 /\ x_overflow = 0)
           => x_frames'[x_frameout] = x_frames[x_frameout]]_rvars
  <2> SUFFICES ASSUME RInv, [RNext]_rvars, x_blockssincerecv > 0, x_overflow = 0
               PROVE  x_frames'[x_frameout] = x_frames[x_frameout]
    OBVIOUS
  <2>1. x_framein # x_frameout /\ x_framein \in Slots /\ x_frameout \in Slots
        /\ DOMAIN x_frames = Slots
    BY DEF RInv, RTypeOK, BlockInv
  <2>2. ASSUME NEW d \in Datagrams, DataPoll(d)
        PROVE  x_frames'[x_frameout] = x_frames[x_frameout]
    BY <2>1, <2>2 DEF DataPoll, PollIncompleteTag, PollBadTag, PollTooManyChannels,
                      PollTag, PollData, StoreTag
  <2>3. ASSUME \/ \E b \in 0..NFrames : Reset(b)
               \/ DspOff \/ \E n \in VecSizes : Dsp(n) \/ Perform(n)
               \/ UNCHANGED rvars
        PROVE  UNCHANGED x_frames
    BY <2>3 DEF Reset, DspOff, Dsp, Perform, pollvars, rvars
  <2> QED
    BY <2>2, <2>3 DEF RNext
<1> QED
  BY <1>1, ReceiverInvariant, PTL DEF RSpec, PlayedFrameIsHeld

\* Playing starts with a queue of x_maxframes frames.
THEOREM QueueIsFilledFirst == RSpec => StartsWithFullQueue
<1>1. RInv /\ [RNext]_rvars =>
        [(x_buffering /\ ~x_buffering' /\ x_overflow = 0) => QUEUESIZE >= x_maxframes]_rvars
  <2> SUFFICES ASSUME RInv, RNext, x_buffering, ~x_buffering', x_overflow = 0
               PROVE  QUEUESIZE >= x_maxframes
    BY DEF rvars, playvars
  <2>1. PICK n \in VecSizes : Perform(n)
    BY DEF RNext, Reset, Dsp, DspOff, DataPoll, playvars
  <2>2. ~StillBuffering
    BY <2>1 DEF Perform, PerformBuffering, PerformUnderflow, PerformBlock,
                PerformLastBlock, CanPlay
  <2>3. x_counter >= x_maxframes
    BY <2>2, ReceiverAssumption, FormatAssumption DEF StillBuffering, RInv, RTypeOK
  <2>4. QUEUESIZE = QueueLen
    BY QueueSizeIsLen DEF RInv
  <2>5. NFrames * x_overflow = 0
    BY ReceiverAssumption, FormatAssumption
  <2> QED
    BY <2>3, <2>4, <2>5, ReceiverAssumption, FormatAssumption DEF RInv, RTypeOK, CountInv, QueueLen
<1> QED
  BY <1>1, ReceiverInvariant, PTL DEF RSpec, StartsWithFullQueue

-----------------------------------------------------------------------------
(* What perform reads.                                                     *)

TagFits(tag) ==
  /\ tag.framesize = BlockSize * SizeOf(tag.format) * tag.channels
  /\ tag.framesize <= BufBytes

FitInv ==
  /\ \A i \in Slots : (Queued(i) \/ (i = x_framein /\ x_nbytes > 0)) => TagFits(x_frames[i].tag)
  /\ chain # 0 => BlockSize % chain = 0

LEMMA FitInit == RInit => FitInv
<1> SUFFICES ASSUME RInit PROVE FitInv
  OBVIOUS
<1>1. \A i \in Slots : ~Queued(i)
  BY ReceiverAssumption, FormatAssumption DEF RInit, Queued, Slots
<1> QED
  BY <1>1 DEF RInit, FitInv

LEMMA FitNext ==
  ASSUME TagsFit, RInv, FitInv, [RNext]_rvars
  PROVE  FitInv'
<1>1. NFrames \in Nat /\ NFrames > 1
  BY ReceiverAssumption, FormatAssumption
<1>2. ASSUME NEW b \in 0..NFrames, Reset(b) PROVE FitInv'
  <2>1. \A i \in Slots : ~Queued(i)'
    BY <1>1, <1>2 DEF Reset, Queued, Slots
  <2> QED
    BY <1>2, <2>1 DEF Reset, FitInv
<1>3. ASSUME NEW n \in VecSizes, Dsp(n) PROVE FitInv'
  BY <1>3 DEF Dsp, FitInv, Queued, queuevars, pollvars
<1>4. CASE DspOff \/ UNCHANGED rvars
  BY <1>4 DEF DspOff, FitInv, Queued, queuevars, pollvars, rvars
<1>5. ASSUME NEW d \in Datagrams, DataPoll(d) PROVE FitInv'
  <2>1. chain' = chain /\ x_frameout' = x_frameout
    BY <1>5 DEF DataPoll, PollIncompleteTag, PollBadTag, PollTooManyChannels, PollTag,
                PollData, Enqueue, queuevars
  <2>2. /\ x_framein \in Slots /\ x_frameout \in Slots /\ DOMAIN x_frames = Slots
        /\ x_nbytes \in Nat /\ ~Queued(x_framein)
    BY FrameInNotQueued DEF RInv, RTypeOK
  <2>3. \A i \in Slots : i # x_framein => x_frames'[i] = x_frames[i]
    BY <1>5, <2>2 DEF DataPoll, PollIncompleteTag, PollBadTag, PollTooManyChannels,
                      PollTag, PollData, StoreTag
  <2>4. CASE PollTag(d)
    <3>1. UNCHANGED <<x_framein, x_frameout>>
      BY <2>4 DEF PollTag, queuevars
    <3>2. TagFits(x_frames'[x_framein].tag)
      BY <2>2, <2>4 DEF PollTag, TagsFit, TagFits, TagOf
    <3> QED
      BY <2>1, <2>2, <2>3, <3>1, <3>2 DEF FitInv, Queued
  <2>5. CASE PollIncompleteTag(d) \/ PollBadTag(d) \/ PollTooManyChannels(d)
    <3>1. UNCHANGED <<x_framein, x_frameout, x_nbytes>> /\ x_nbytes = 0
      BY <2>5 DEF PollIncompleteTag, PollBadTag, PollTooManyChannels, queuevars
    <3> QED
      BY <2>1, <2>2, <2>3, <3>1 DEF FitInv, Queued
  <2>6. CASE PollData(d)
    <3>1. TagFits(x_frames[x_framein].tag)
      BY <2>2, <2>6 DEF PollData, FitInv
    <3>2. x_frames'[x_framein].tag = x_frames[x_framein].tag
      BY <2>2, <2>6, SlotIsRecord DEF PollData, RInv
    <3>3. CASE Enqueue /\ FrameEnds(d)
      <4>1. x_framein' = (IF x_framein = NFrames - 1 THEN 0 ELSE x_framein + 1)
        BY <2>2, <3>3, SuccSlot DEF Enqueue
      <4>2. \A i \in Slots : Queued(i)' => (Queued(i) /\ i # x_framein) \/ i = x_framein
        BY <1>1, <2>1, <2>2, <4>1 DEF Queued, Slots
      <4>3. x_nbytes' = 0
        BY <2>6, <3>3 DEF PollData
      <4> QED
        BY <2>1, <2>3, <3>1, <3>2, <4>2, <4>3 DEF FitInv
    <3>4. CASE UNCHANGED <<queuevars, x_counter>>
      <4>1. UNCHANGED <<x_framein, x_frameout>>
        BY <3>4 DEF queuevars
      <4> QED
        BY <2>1, <2>2, <2>3, <3>1, <3>2, <4>1 DEF FitInv, Queued
    <3> QED
      BY <2>6, <3>3, <3>4 DEF PollData
  <2> QED
    BY <1>5, <2>4, <2>5, <2>6 DEF DataPoll
<1>6. ASSUME NEW n \in VecSizes, Perform(n) PROVE FitInv'
  <2>1. UNCHANGED <<x_frames, x_nbytes, x_framein, chain>>
    BY <1>6 DEF Perform, pollvars
  <2>2. x_frameout' = x_frameout
        \/ (x_frameout' = Succ(x_frameout) /\ x_framein # x_frameout)
    BY <1>6 DEF Perform, PerformBuffering, PerformUnderflow, PerformBlock, PerformLastBlock,
                CanPlay
  <2>3. \A i \in Slots : Queued(i)' => Queued(i)
    <3>1. x_framein \in Slots /\ x_frameout \in Slots
      BY DEF RInv, RTypeOK
    <3>2. Succ(x_frameout) = IF x_frameout = NFrames - 1 THEN 0 ELSE x_frameout + 1
      BY <3>1, SuccSlot
    <3>3. CASE x_frameout' = x_frameout
      BY <2>1, <3>3 DEF Queued
    <3>4. CASE x_frameout' = Succ(x_frameout) /\ x_framein # x_frameout
      BY <1>1, <2>1, <3>1, <3>2, <3>4 DEF Queued, Slots
    <3> QED
      BY <2>2, <3>3, <3>4
  <2> QED
    BY <2>1, <2>3 DEF FitInv
<1> QED
  BY <1>2, <1>3, <1>4, <1>5, <1>6 DEF RNext

\* If the sender's frames have the receiver's x_blocksize, perform plays only
\* bytes that were received for the frame it plays.
THEOREM OnlyReceivedBytesPlayed ==
  ASSUME TagsFit
  PROVE  RSpec => []PlaysReceivedBytes
<1>1. RInv /\ FitInv => PlaysReceivedBytes
  <2> SUFFICES ASSUME RInv, FitInv, chain # 0, CanPlay, NEW p \in ReadBytes
               PROVE  /\ p < x_frames[x_frameout].tag.framesize
                      /\ x_frames[x_frameout].data[p] # Stale
    BY DEF PlaysReceivedBytes
  <2> DEFINE tag == x_frames[x_frameout].tag
             b == NextBlock(chain)
             per == BlockSize \div chain
             sz == SizeOf(tag.format)
             ch == tag.channels
             width == chain * ch * sz
  <2>1. /\ x_frameout \in Slots /\ Queued(x_frameout)
        /\ tag.framesize = BlockSize * sz * ch /\ tag.framesize <= BufBytes
    BY ReceiverAssumption, FormatAssumption DEF RInv, RTypeOK, Slots, Queued, CanPlay, FitInv, TagFits
  <2>2. /\ chain \in Nat \ {0} /\ BlockSize \in Nat \ {0} /\ chain \in VecSizes
        /\ BlockSize % chain = 0 /\ ch \in Nat /\ sz \in Nat
    BY <2>1, ReceiverAssumption, FormatAssumption DEF RInv, RTypeOK, FitInv, SizeOf
  <2>3. per \in Nat /\ per * chain = BlockSize
    BY <2>2, DivBounds
  <2>4. b \in Nat /\ b + 1 <= per
    <3>1. per # 0
      BY <2>2, <2>3
    <3>2. b = 0 \/ (b \in Nat /\ b < per)
      BY <2>2, <2>3 DEF NextBlock, RInv, RTypeOK, BlockInv
    <3> QED
      BY <2>3, <3>1, <3>2
  <2>5. p \in (b * width)..(b * width + width - 1)
    BY DEF ReadBytes
  <2> HIDE DEF b, per, sz, ch
  <2>6. width \in Nat
    BY <2>2, MulMono
  <2>7. (b + 1) * width <= per * width /\ b * width \in Nat
    BY <2>3, <2>4, <2>6, MulMono
  <2>8. per * width = (per * chain) * (ch * sz)
    BY <2>2, <2>3
  <2>9. BlockSize * (ch * sz) = BlockSize * sz * ch
    BY <2>2
  <2> HIDE DEF width
  <2>10. (b + 1) * width = b * width + width
    BY <2>4, <2>6
  <2>11. per * width = tag.framesize
    BY <2>1, <2>3, <2>8, <2>9
  <2>12. p \in Int /\ 0 <= p /\ p < tag.framesize
    BY <2>5, <2>6, <2>7, <2>10, <2>11, <2>1, <2>2
  <2>13. p \in Bytes
    <3>1. BufBytes \in Int /\ tag.framesize \in Int
      BY <2>1, ReceiverAssumption, FormatAssumption DEF BufBytes, SizeOf, RInv, RTypeOK
    <3> QED
      BY <2>1, <2>12, <3>1 DEF Bytes
  <2> QED
    BY <2>1, <2>12, <2>13 DEF RInv, QueuedFramesComplete
<1> QED
  BY <1>1, FitInit, FitNext, ReceiverInvariant, PTL DEF RSpec

-----------------------------------------------------------------------------
(* The session.                                                            *)

(* Types.  A message from a device to the patch is about a channel.        *)

Messages == [kind : {"stream"}, name : Names, to : Devices \cup {NoDevice}]
News == [add : BOOLEAN, name : Names]

AirMessages ==
  {ToPatch(ServiceOf(c), d) : c \in Channels, d \in Devices \cup {NoDevice}}
    \cup {ServerIP(d) : d \in Devices}

SessionTypeInv ==
  /\ TypeOK
  /\ air \subseteq AirMessages
  /\ \A d \in Devices : client[d] => channelNumber[d] = stringChannel[d]

LEMMA NoNames ==
  /\ NoName \notin Names /\ NoDevice \notin Devices /\ 0 \notin Channels
  /\ \A c \in Channels : ServiceOf(c) # NoName /\ ServiceOf(c).ch = c
  /\ \A b, c \in Channels : ServiceOf(b) = ServiceOf(c) => b = c
  /\ \A n \in Names : n.ch \in Channels /\ n # NoName
<1>1. 0 \notin Channels
  BY SessionAssumption
<1> QED
  BY <1>1, ConnectorObjectAssumption DEF Names, NoName, ServiceOf, Devices, NoDevice

LEMMA SentProperties ==
  ASSUME NEW ms, Send(ms)
  PROVE  air \subseteq air' /\ air' \subseteq air \cup ms
  BY DEF Send

LEMMA OwnerProperties ==
  ASSUME NEW n
  PROVE  /\ Owner(n) \in Devices \cup {NoDevice}
         /\ Owner(n) # NoDevice => Owner(n) \in Devices /\ published[Owner(n)] = n
         /\ \A d \in Devices : published[d] = n => Owner(n) # NoDevice
<1>1. CASE \E d \in Devices : published[d] = n
  <2>1. Owner(n) = CHOOSE d \in Devices : published[d] = n
    BY <1>1 DEF Owner
  <2> QED
    BY <1>1, <2>1, NoNames
<1>2. CASE ~\E d \in Devices : published[d] = n
  BY <1>2 DEF Owner
<1> QED
  BY <1>1, <1>2

\* What is told the patch a number of times is in its list.
LEMMA ToldProperties ==
  ASSUME patchIn \in Seq(Messages), NEW n, NEW d, NEW times \in Nat,
         TellPatch(n, d, times), ToPatch(n, d) \in Messages
  PROVE  /\ patchIn' \in Seq(Messages)
         /\ \A i \in DOMAIN patchIn' :
              \/ i \in DOMAIN patchIn /\ patchIn'[i] = patchIn[i]
              \/ patchIn'[i] = ToPatch(n, d)
         /\ times = 1 => patchIn' = Append(patchIn, ToPatch(n, d))
<1> DEFINE m == ToPatch(n, d)
           more == [i \in 1..times |-> m]
<1>1. patchIn' = patchIn \o more
  BY DEF TellPatch
<1> HIDE DEF m
<1>2. more \in Seq(Messages) /\ Len(more) = times /\ \A i \in 1..times : more[i] = m
  <2>1. m \in Messages
    BY DEF m
  <2> QED
    BY <2>1
<1> HIDE DEF more
<1>3. patchIn \o more \in Seq(Messages) /\ Len(patchIn \o more) = Len(patchIn) + times
      /\ \A i \in 1..(Len(patchIn) + times) : (patchIn \o more)[i] = IF i <= Len(patchIn) THEN patchIn[i] ELSE more[i - Len(patchIn)]
  BY <1>2, ConcatProperties
<1>4. \A i \in DOMAIN (patchIn \o more) :
        \/ i \in DOMAIN patchIn /\ (patchIn \o more)[i] = patchIn[i]
        \/ (patchIn \o more)[i] = m
  BY <1>2, <1>3
<1>5. times = 1 => patchIn \o more = Append(patchIn, m)
  <2>1. SUFFICES ASSUME times = 1 PROVE patchIn \o more = Append(patchIn, m)
    OBVIOUS
  <2>2. m \in Messages
    BY DEF m
  <2>3. /\ Append(patchIn, m) \in Seq(Messages) /\ Len(Append(patchIn, m)) = Len(patchIn) + 1
        /\ \A i \in 1..Len(patchIn) : Append(patchIn, m)[i] = patchIn[i]
        /\ Append(patchIn, m)[Len(patchIn) + 1] = m
    BY <2>2, AppendProperties
  <2> DEFINE a == patchIn \o more
             b == Append(patchIn, m)
  <2>4. Len(a) = Len(b) /\ \A i \in 1..Len(a) : a[i] = b[i]
    BY <1>2, <1>3, <2>1, <2>3
  <2>5. a \in Seq(Messages) /\ b \in Seq(Messages)
    BY <1>3, <2>3
  <2> HIDE DEF a, b
  <2>6. a = b
    BY <2>4, <2>5, SeqEqual
  <2> QED
    BY <2>6 DEF a, b
<1> QED
  BY <1>1, <1>3, <1>4, <1>5 DEF m

\* The app of a device.
AppTypes ==
  /\ client \in [Devices -> BOOLEAN]
  /\ stringChannel \in [Devices -> Channels]
  /\ channelNumber \in [Devices -> Channels \cup {0}]
  /\ chosenBeacon \in [Devices -> [major : Majors, minor : Channels] \cup {NoBeacon}]
  /\ serverIP \in [Devices -> BOOLEAN]
  /\ \A d \in Devices : client[d] => channelNumber[d] = stringChannel[d]

LEMMA AppStep ==
  ASSUME AppTypes, [Next]_vars
  PROVE  AppTypes'
<1>1. ASSUME NEW d \in Devices, NEW c \in Channels, ChannelButton(d, c)
      PROVE  AppTypes'
  BY <1>1 DEF AppTypes, ChannelButton, SetChannel
<1>2. ASSUME NEW d \in Devices, NEW b \in [major : Majors, minor : Channels], RangeBeacons(d, b)
      PROVE  AppTypes'
  <2>1. b.minor \in Channels
    OBVIOUS
  <2>2. SetChannel(d, b.minor) /\ chosenBeacon' = [chosenBeacon EXCEPT ![d] = b]
        /\ stringChannel' = [stringChannel EXCEPT ![d] = b.minor]
        /\ UNCHANGED <<client, serverIP>>
    BY <1>2 DEF RangeBeacons, Switch
  <2> QED
    BY <2>1, <2>2 DEF AppTypes, SetChannel
<1>3. ASSUME NEW d \in Devices, AdvertiseButton(d)
      PROVE  AppTypes'
  BY <1>3 DEF AppTypes, AdvertiseButton
<1>4. ASSUME NEW d \in Devices, TakeMessage(d)
      PROVE  AppTypes'
  BY <1>4 DEF AppTypes, TakeMessage
<1>5. ASSUME NEW d \in Devices, Leave(d)
      PROVE  AppTypes'
  BY <1>5, SessionAssumption DEF AppTypes, Leave
<1>6. ASSUME UNCHANGED appvars PROVE AppTypes'
  BY <1>6 DEF AppTypes, appvars
<1>7. ASSUME NEW d \in Devices, ConnectButton(d) \/ DisconnectButton(d) \/ Bonjour(d)
      PROVE  UNCHANGED appvars
  BY <1>7 DEF ConnectButton, DisconnectButton, Bonjour, Publish, DidNotPublish
<1>8. ASSUME Script \/ PatchFromScript \/ (\E m \in air : PatchFromDevice(m))
             \/ (\E c \in Channels : Connector(c)) \/ UNCHANGED vars
      PROVE  UNCHANGED appvars
  BY <1>8 DEF Script, Resolve, AddService, RemoveService, BrowseAdded, BrowseRemoved,
              NextEvent, Resolved, PatchFromScript, PatchFromDevice, Connector, vars
<1> QED
  BY <1>1, <1>2, <1>3, <1>4, <1>5, <1>6, <1>7, <1>8 DEF Next, User

\* Bonjour.
BonjourTypes ==
  /\ publishing \in [Devices -> Channels \cup {0}]
  /\ published \in [Devices -> Names \cup {NoName}]
  /\ events \in Seq(News)

\* A service ends, and if it was published this is news; or a service gets a free
\* name; or it does not; or the script takes what is new.
Ends(d, ch) ==
  /\ Unpublish(d)
  /\ publishing' = [publishing EXCEPT ![d] = ch]

Begins(d, n) ==
  /\ publishing[d] # 0
  /\ n.ch = publishing[d]
  /\ Owner(n) = NoDevice
  /\ published' = [published EXCEPT ![d] = n]
  /\ events' = Append(events, [add |-> TRUE, name |-> n])
  /\ publishing' = [publishing EXCEPT ![d] = 0]

Heard ==
  /\ alive /\ query = NoQuery /\ events # <<>>
  /\ events' = Tail(events)
  /\ UNCHANGED <<publishing, published>>

LEMMA BonjourSteps ==
  ASSUME [Next]_vars
  PROVE  \/ /\ UNCHANGED scriptvars /\ UNCHANGED patchIn
            /\ \E d \in Devices :
                 \/ \E ch \in {stringChannel[d], 0} : Ends(d, ch) /\ (ch # 0 => AdvertiseButton(d))
                 \/ \E n \in Names : Begins(d, n) /\ asked' = asked
                 \/ /\ publishing' = [publishing EXCEPT ![d] = 0]
                    /\ UNCHANGED <<published, events>>
         \/ Script
         \/ UNCHANGED <<bonjourvars, scriptvars>>
<1>1. ASSUME NEW d \in Devices, AdvertiseButton(d)
      PROVE  /\ UNCHANGED scriptvars /\ UNCHANGED patchIn
             /\ \E ch \in {stringChannel[d], 0} : Ends(d, ch)
  BY <1>1 DEF AdvertiseButton, Ends
<1>2. ASSUME NEW d \in Devices, Leave(d)
      PROVE  UNCHANGED scriptvars /\ UNCHANGED patchIn /\ Ends(d, 0)
  BY <1>2 DEF Leave, Ends
<1>3. ASSUME NEW d \in Devices, Publish(d)
      PROVE  UNCHANGED scriptvars /\ UNCHANGED patchIn /\ \E n \in Names : Begins(d, n) /\ asked' = asked
  BY <1>3 DEF Publish, Begins
<1>4. ASSUME NEW d \in Devices, DidNotPublish(d)
      PROVE  /\ UNCHANGED scriptvars /\ UNCHANGED patchIn
             /\ publishing' = [publishing EXCEPT ![d] = 0]
             /\ UNCHANGED <<published, events>>
  BY <1>4 DEF DidNotPublish
<1>5. ASSUME NEW d \in Devices,
             (\E c \in Channels : ChannelButton(d, c))
             \/ (\E b \in [major : Majors, minor : Channels] : RangeBeacons(d, b))
             \/ ConnectButton(d) \/ DisconnectButton(d) \/ TakeMessage(d)
      PROVE  UNCHANGED <<bonjourvars, scriptvars>>
  BY <1>5 DEF ChannelButton, RangeBeacons, ConnectButton, DisconnectButton, TakeMessage
<1>6. ASSUME PatchFromScript \/ (\E m \in air : PatchFromDevice(m))
             \/ (\E c \in Channels : Connector(c)) \/ UNCHANGED vars
      PROVE  UNCHANGED <<bonjourvars, scriptvars>>
  BY <1>6 DEF PatchFromScript, PatchFromDevice, Connector, vars
<1> QED
  BY <1>1, <1>2, <1>3, <1>4, <1>5, <1>6 DEF Next, User, Bonjour

\* The script hears of a service and finds it, or not; or tells the patch of one it
\* has found; or hears that a service is gone, and tells the patch or not.
Finds(n) ==
  /\ Heard /\ Head(events).add /\ n = Head(events).name
  /\ Owner(n) # NoDevice
  /\ query' = [name |-> n, address |-> Owner(n)]
  /\ UNCHANGED <<alive, missed, told, patchIn>>

Misses(n) ==
  /\ Heard /\ Head(events).add /\ n = Head(events).name
  /\ missed' = missed \cup {n}
  /\ alive' = (script # "server.py")
  /\ UNCHANGED <<query, told, patchIn>>

Adds ==
  /\ query # NoQuery
  /\ query' = NoQuery
  /\ missed' = missed \ {query.name}
  /\ TellPatch(query.name, query.address, 1)
  /\ UNCHANGED bonjourvars

\* Or it cannot send the address to the device.
Loses ==
  /\ script # "server.py"
  /\ query # NoQuery
  /\ query' = NoQuery
  /\ missed' = missed \cup {query.name}
  /\ UNCHANGED <<told, patchIn, bonjourvars>>

Removes(n, times) ==
  /\ Heard /\ ~Head(events).add /\ n = Head(events).name
  /\ TellPatch(n, NoDevice, times)
  /\ UNCHANGED <<query, missed>>

Ignores(n) ==
  /\ script # "server.py"
  /\ Heard /\ ~Head(events).add /\ n = Head(events).name
  /\ UNCHANGED <<alive, query, missed, told, patchIn>>

LEMMA ScriptSteps ==
  ASSUME SessionTypeInv, Script
  PROVE  \/ \E n \in Names : Finds(n) \/ Misses(n) \/ Ignores(n)
         \/ Adds \/ Loses
         \/ \E n \in Names, times \in Nat : Removes(n, times) /\ (script = "server.py" => times = 1)
<1>1. ASSUME Heard PROVE Head(events).name \in Names
  <2>1. events \in Seq(News) /\ events # <<>>
    BY <1>1 DEF SessionTypeInv, TypeOK, Heard, News
  <2>2. Head(events) \in News
    BY <2>1, PoppedProperties
  <2> QED
    BY <2>2 DEF News
<1>2. ASSUME NEW add \in BOOLEAN, NextEvent(add)
      PROVE  Heard /\ Head(events).add = add
  BY <1>2 DEF NextEvent, Heard
<1>3. ASSUME Resolve PROVE \E n \in Names : Finds(n) \/ Misses(n)
  <2>1. Heard /\ Head(events).add
    BY <1>2, <1>3 DEF Resolve
  <2>2. \/ /\ Owner(Head(events).name) # NoDevice
           /\ query' = [name |-> Head(events).name, address |-> Owner(Head(events).name)]
           /\ UNCHANGED <<alive, missed>>
        \/ /\ missed' = missed \cup {Head(events).name}
           /\ alive' = (script # "server.py")
           /\ UNCHANGED query
    BY <1>3 DEF Resolve
  <2>3. UNCHANGED <<told, patchIn>>
    BY <1>3 DEF Resolve
  <2> QED
    BY <1>1, <2>1, <2>2, <2>3 DEF Finds, Misses
<1>4. ASSUME AddService \/ BrowseAdded PROVE Adds \/ Loses
  <2>1. query # NoQuery /\ query' = NoQuery /\ UNCHANGED bonjourvars
    BY <1>4 DEF AddService, BrowseAdded, Resolved
  <2>2. AddService => Adds
    BY <2>1 DEF AddService, Adds
  <2>3. ASSUME BrowseAdded PROVE Adds \/ Loses
    <3>1. script # "server.py"
      BY <2>3 DEF BrowseAdded
    <3>2. \/ missed' = missed \ {query.name} /\ TellPatch(query.name, query.address, 1)
          \/ missed' = missed \cup {query.name} /\ UNCHANGED <<told, patchIn>>
      BY <2>3 DEF BrowseAdded
    <3> QED
      BY <2>1, <3>1, <3>2 DEF Adds, Loses
  <2> QED
    BY <1>4, <2>2, <2>3
<1>5. ASSUME RemoveService
      PROVE  \E n \in Names : Removes(n, 1)
  <2>1. Heard /\ ~Head(events).add
    BY <1>2, <1>5 DEF RemoveService
  <2> QED
    BY <1>1, <1>5, <2>1 DEF RemoveService, Removes
<1>6. ASSUME BrowseRemoved
      PROVE  \E n \in Names : Ignores(n) \/ \E times \in Nat : Removes(n, times)
  <2>1. Heard /\ ~Head(events).add
    BY <1>2, <1>6 DEF BrowseRemoved
  <2>2. Met \in Nat
    BY DEF Met, SessionTypeInv, TypeOK
  <2>3. (\E times \in Nat : TellPatch(Head(events).name, NoDevice, times)) \/ UNCHANGED <<patchIn, told>>
    <3>1. 1..Met \subseteq Nat
      BY <2>2
    <3> HIDE DEF Met
    <3>2. \/ TellPatch(Head(events).name, NoDevice, Met)
          \/ \E m \in 1..Met : TellPatch(Head(events).name, NoDevice, m)
          \/ UNCHANGED <<patchIn, told>>
      BY <1>6 DEF BrowseRemoved
    <3> QED
      BY <2>2, <3>1, <3>2
  <2>4. script # "server.py" /\ UNCHANGED <<alive, query, missed>>
    BY <1>6 DEF BrowseRemoved
  <2> HIDE DEF Met
  <2> QED
    BY <1>1, <2>1, <2>2, <2>3, <2>4 DEF Removes, Ignores
<1>7. BrowseRemoved => script # "server.py"
  BY DEF BrowseRemoved
<1> QED
  BY <1>3, <1>4, <1>5, <1>6, <1>7 DEF Script

LEMMA BonjourStep ==
  ASSUME SessionTypeInv, [Next]_vars
  PROVE  BonjourTypes'
<1>1. BonjourTypes /\ stringChannel \in [Devices -> Channels]
  BY DEF SessionTypeInv, TypeOK, BonjourTypes, News
<1>2. ASSUME NEW d \in Devices, NEW ch \in Channels \cup {0}, Ends(d, ch)
      PROVE  BonjourTypes'
  <2>1. publishing' \in [Devices -> Channels \cup {0}] /\ published' \in [Devices -> Names \cup {NoName}]
    BY <1>1, <1>2 DEF BonjourTypes, Ends, Unpublish
  <2>2. CASE published[d] = NoName
    BY <1>1, <1>2, <2>1, <2>2 DEF BonjourTypes, Ends, Unpublish
  <2>3. CASE published[d] # NoName
    <3>1. [add |-> FALSE, name |-> published[d]] \in News
      BY <1>1, <2>3 DEF BonjourTypes, News
    <3>2. events' = Append(events, [add |-> FALSE, name |-> published[d]])
      BY <1>2, <2>3 DEF Ends, Unpublish
    <3>3. events' \in Seq(News)
      BY <1>1, <3>1, <3>2, AppendProperties DEF BonjourTypes
    <3> QED
      BY <2>1, <3>3 DEF BonjourTypes
  <2> QED
    BY <2>2, <2>3
<1>3. ASSUME NEW d \in Devices, NEW n \in Names, Begins(d, n)
      PROVE  BonjourTypes'
  <2>1. [add |-> TRUE, name |-> n] \in News
    BY DEF News
  <2>2. events' \in Seq(News)
    BY <1>1, <1>3, <2>1, AppendProperties DEF BonjourTypes, Begins
  <2> QED
    BY <1>1, <1>3, <2>2 DEF BonjourTypes, Begins
<1>4. ASSUME NEW d \in Devices, publishing' = [publishing EXCEPT ![d] = 0], UNCHANGED <<published, events>>
      PROVE  BonjourTypes'
  BY <1>1, <1>4 DEF BonjourTypes
<1>5. ASSUME Heard PROVE BonjourTypes'
  <2>1. Tail(events) \in Seq(News)
    BY <1>1, <1>5, PoppedProperties DEF BonjourTypes, Heard
  <2> QED
    BY <1>1, <1>5, <2>1 DEF BonjourTypes, Heard
<1>6. ASSUME UNCHANGED bonjourvars PROVE BonjourTypes'
  BY <1>1, <1>6 DEF BonjourTypes, bonjourvars
<1>7. ASSUME Script PROVE BonjourTypes'
  BY <1>5, <1>6, <1>7, ScriptSteps DEF Finds, Misses, Adds, Loses, Removes, Ignores
<1> QED
  BY <1>1, <1>2, <1>3, <1>4, <1>6, <1>7, BonjourSteps

\* The script.
Queries == [name : Names, address : Devices] \cup {NoQuery}

ScriptTypes ==
  /\ query \in Queries
  /\ current \in [name : Names \cup {NoName}, hostIP : Devices \cup {NoDevice}]
  /\ entries \in Nat
  /\ patchIn \in Seq(Messages)
  /\ told \in [Channels -> Devices \cup {NoDevice}]

LEMMA QueryProperties ==
  ASSUME query \in Queries
  PROVE  /\ query # NoQuery => query.name \in Names /\ query.address \in Devices
         /\ query = NoQuery => query.name = NoName
<1>1. query \in [name : Names, address : Devices] \/ query = NoQuery
  BY DEF Queries
<1>2. NoQuery.name = NoName
  BY DEF NoQuery
<1> QED
  BY <1>1, <1>2

LEMMA TellStep ==
  ASSUME SessionTypeInv, NEW n \in Names, NEW d \in Devices \cup {NoDevice}, NEW times \in Nat,
         TellPatch(n, d, times)
  PROVE  patchIn' \in Seq(Messages) /\ told' \in [Channels -> Devices \cup {NoDevice}]
<1>1. patchIn \in Seq(Messages) /\ told \in [Channels -> Devices \cup {NoDevice}]
  BY DEF SessionTypeInv, TypeOK, Messages
<1>2. ToPatch(n, d) \in Messages
  BY DEF ToPatch, Messages
<1> QED
  BY <1>1, <1>2, ToldProperties DEF TellPatch

LEMMA ScriptStep ==
  ASSUME SessionTypeInv, [Next]_vars
  PROVE  ScriptTypes'
<1>1. ScriptTypes
  BY DEF SessionTypeInv, TypeOK, ScriptTypes, Messages, Queries
<1>2. ASSUME UNCHANGED <<scriptvars, patchIn>> PROVE ScriptTypes'
  BY <1>1, <1>2 DEF ScriptTypes, scriptvars
<1>3. ASSUME Script PROVE ScriptTypes'
  <2>1. /\ query' \in Queries
        /\ patchIn' \in Seq(Messages)
        /\ told' \in [Channels -> Devices \cup {NoDevice}]
    <3>1. ASSUME NEW n \in Names, Finds(n) \/ Misses(n) \/ Ignores(n)
          PROVE  query' \in Queries /\ UNCHANGED <<patchIn, told>>
      BY <1>1, <3>1, OwnerProperties DEF Finds, Misses, Ignores, Queries, ScriptTypes
    <3>2. ASSUME Adds
          PROVE  query' \in Queries /\ patchIn' \in Seq(Messages) /\ told' \in [Channels -> Devices \cup {NoDevice}]
      <4>1. query.name \in Names /\ query.address \in Devices
        BY <1>1, <3>2, QueryProperties DEF ScriptTypes, Adds
      <4>2. query' = NoQuery /\ TellPatch(query.name, query.address, 1) /\ 1 \in Nat
        BY <3>2 DEF Adds
      <4> QED
        BY <4>1, <4>2, TellStep DEF Queries
    <3>3. ASSUME NEW n \in Names, NEW times \in Nat, Removes(n, times)
          PROVE  UNCHANGED query /\ patchIn' \in Seq(Messages) /\ told' \in [Channels -> Devices \cup {NoDevice}]
      BY <3>3, TellStep DEF Removes
    <3>4. ASSUME Loses PROVE query' \in Queries /\ UNCHANGED <<patchIn, told>>
      BY <3>4 DEF Loses, Queries
    <3> QED
      BY <1>1, <1>3, <3>1, <3>2, <3>3, <3>4, ScriptSteps DEF ScriptTypes
  <2>2. /\ current' \in [name : Names \cup {NoName}, hostIP : Devices \cup {NoDevice}]
        /\ entries' \in Nat
    <3>1. CASE Resolve
      <4>1. Head(events).name \in Names
        <5>1. events \in Seq(News) /\ events # <<>>
          BY <3>1 DEF SessionTypeInv, TypeOK, Resolve, NextEvent, News
        <5>2. Head(events) \in News
          BY <5>1, PoppedProperties
        <5> QED
          BY <5>2 DEF News
      <4>2. UNCHANGED entries
        BY <3>1 DEF Resolve
      <4>3. current' \in {current, [current EXCEPT !.name = Head(events).name]}
        BY <3>1 DEF Resolve
      <4> QED
        BY <1>1, <4>1, <4>2, <4>3 DEF ScriptTypes
    <3>2. CASE AddService \/ RemoveService
      BY <1>1, <3>2 DEF AddService, RemoveService, ScriptTypes
    <3>3. CASE BrowseAdded
      <4>1. query.name \in Names /\ query.address \in Devices
        BY <1>1, <3>3, QueryProperties DEF ScriptTypes, BrowseAdded, Resolved
      <4>2. current' = [name |-> query.name, hostIP |-> query.address] /\ entries' \in {entries, entries + 1}
        BY <3>3 DEF BrowseAdded
      <4> QED
        BY <1>1, <4>1, <4>2 DEF ScriptTypes
    <3>4. CASE BrowseRemoved
      <4>1. Met \in Nat /\ Met <= entries
        BY <1>1 DEF ScriptTypes, Met
      <4>2. entries - Met \in Nat /\ \A m \in 1..Met : entries - (m - 1) \in Nat
        <5> HIDE DEF Met
        <5> QED
          BY <1>1, <4>1 DEF ScriptTypes
      <4>3. /\ UNCHANGED current
            /\ entries' \in {entries, entries - Met} \/ \E m \in 1..Met : entries' = entries - (m - 1)
        <5> HIDE DEF Met
        <5> QED
          BY <3>4 DEF BrowseRemoved
      <4> QED
        BY <1>1, <4>2, <4>3 DEF ScriptTypes
    <3> QED
      BY <1>3, <3>1, <3>2, <3>3, <3>4 DEF Script
  <2> QED
    BY <2>1, <2>2 DEF ScriptTypes
<1>4. ASSUME PatchFromScript PROVE ScriptTypes'
  <2>1. patchIn # <<>> /\ patchIn' = Tail(patchIn) /\ UNCHANGED scriptvars
    BY <1>4 DEF PatchFromScript
  <2>2. patchIn' \in Seq(Messages)
    BY <1>1, <2>1, PoppedProperties DEF ScriptTypes
  <2> QED
    BY <1>1, <2>1, <2>2 DEF ScriptTypes, scriptvars
<1>5. ASSUME NEW d \in Devices, User(d) \/ Bonjour(d) \/ TakeMessage(d)
      PROVE  UNCHANGED <<scriptvars, patchIn>>
  BY <1>5 DEF User, ChannelButton, RangeBeacons, AdvertiseButton, ConnectButton, DisconnectButton,
              Leave, Bonjour, Publish, DidNotPublish, TakeMessage
<1>6. ASSUME (\E m \in air : PatchFromDevice(m)) \/ (\E c \in Channels : Connector(c)) \/ UNCHANGED vars
      PROVE  UNCHANGED <<scriptvars, patchIn>>
  BY <1>6 DEF PatchFromDevice, Connector, vars
<1> QED
  BY <1>2, <1>3, <1>4, <1>5, <1>6 DEF Next

\* Messages under way.
LEMMA AirStep ==
  ASSUME SessionTypeInv, [Next]_vars
  PROVE  (air \subseteq AirMessages)'
<1>1. air \subseteq AirMessages
  BY DEF SessionTypeInv
<1>2. ASSUME NEW c \in Channels, NEW d \in Devices \cup {NoDevice}
      PROVE  ToPatch(ServiceOf(c), d) \in AirMessages
  BY DEF AirMessages
<1>3. ASSUME NEW d \in Devices, client[d] PROVE channelNumber[d] \in Channels
  BY <1>3 DEF SessionTypeInv, TypeOK
<1>4. ASSUME NEW d \in Devices, ConnectButton(d) \/ DisconnectButton(d)
      PROVE  air' \subseteq AirMessages
  <2>1. PICK ms : /\ Send(IF client[d] /\ serverIP[d] THEN ms ELSE {})
                  /\ ms \in {{ToPatch(ServiceOf(channelNumber[d]), d)},
                             {ToPatch(ServiceOf(channelNumber[d]), NoDevice)}}
    BY <1>4 DEF ConnectButton, DisconnectButton, ClientSends
  <2>2. client[d] => ms \subseteq AirMessages
    BY <1>2, <1>3, <2>1
  <2> QED
    BY <1>1, <2>1, <2>2, SentProperties
<1>5. ASSUME NEW d \in Devices, NEW b \in [major : Majors, minor : Channels], RangeBeacons(d, b)
      PROVE  air' \subseteq AirMessages
  <2>1. b.minor \in Channels
    OBVIOUS
  <2> DEFINE ms == {ToPatch(ServiceOf(channelNumber[d]), NoDevice), ToPatch(ServiceOf(b.minor), d)}
  <2>2. Send(IF client[d] /\ serverIP[d] THEN ms ELSE {})
    BY <1>5 DEF RangeBeacons, Switch, ClientSends
  <2>3. client[d] => ms \subseteq AirMessages
    BY <1>2, <1>3, <2>1
  <2> HIDE DEF ms
  <2> QED
    BY <1>1, <2>2, <2>3, SentProperties
<1>6. ASSUME BrowseAdded PROVE air' \subseteq AirMessages
  <2>1. query.name \in Names /\ query.address \in Devices
    BY <1>6, QueryProperties DEF SessionTypeInv, TypeOK, Queries, BrowseAdded, Resolved
  <2>2. Send({ServerIP(query.address)}) \/ air' = air
    BY <1>6, <2>1 DEF BrowseAdded
  <2>3. ServerIP(query.address) \in AirMessages
    BY <2>1 DEF AirMessages
  <2> QED
    BY <1>1, <2>2, <2>3, SentProperties
<1>7. ASSUME NEW d \in Devices, TakeMessage(d) PROVE air' \subseteq AirMessages
  BY <1>1, <1>7 DEF TakeMessage
<1>8. ASSUME NEW m \in air, PatchFromDevice(m) PROVE air' \subseteq AirMessages
  BY <1>1, <1>8 DEF PatchFromDevice
<1>9. ASSUME NEW d \in Devices, Bonjour(d) \/ Leave(d) \/ AdvertiseButton(d) \/ \E c \in Channels : ChannelButton(d, c)
      PROVE  air' = air
  BY <1>9 DEF ChannelButton, AdvertiseButton, Leave, Bonjour, Publish, DidNotPublish
<1>10. ASSUME Resolve \/ AddService \/ RemoveService \/ BrowseRemoved \/ PatchFromScript
              \/ (\E c \in Channels : Connector(c)) \/ UNCHANGED vars
       PROVE  air' = air
  BY <1>10 DEF Resolve, AddService, RemoveService, BrowseRemoved, PatchFromScript, Connector, vars
<1> QED
  BY <1>1, <1>4, <1>5, <1>6, <1>7, <1>8, <1>9, <1>10 DEF Next, User, Script

\* The objects of the patch.
LEMMA ObjectProperties ==
  ASSUME NEW o \in Objects
  PROVE  /\ \A h \in Devices : TakeConnect(o, h) \in Objects
         /\ TakeDisconnect(o) \in Objects
         /\ Progress(o) \subseteq Objects
BY DEF Objects, TakeConnect, TakeDisconnect, Progress, Connected, AtRest, Devices

Taken(o, m) == IF m.to = NoDevice THEN TakeDisconnect(o) ELSE TakeConnect(o, m.to)

\* A message that is for no channel changes nothing; the others one stream.
LEMMA TakeProperties ==
  ASSUME stream \in [Channels -> Objects], NEW m, m.name.ch \in Channels,
         m.to \in Devices \cup {NoDevice}, NEW port, Take(m, port)
  PROVE  \/ m.name # ServiceOf(m.name.ch) /\ UNCHANGED patchvars
         \/ /\ m.name = ServiceOf(m.name.ch)
            /\ stream' = [stream EXCEPT ![m.name.ch] = Taken(stream[m.name.ch], m)]
            /\ Taken(stream[m.name.ch], m) \in Objects
            /\ portno' = IF m.to # NoDevice /\ Accepts(stream[m.name.ch])
                         THEN [portno EXCEPT ![m.name.ch] = CreateMessage(port)] ELSE portno
            /\ crossed' = IF Busy(stream[m.name.ch]) THEN crossed \cup {m.name.ch} ELSE crossed
<1>1. stream[m.name.ch] \in Objects
  OBVIOUS
<1>2. Taken(stream[m.name.ch], m) \in Objects
  BY <1>1, ObjectProperties DEF Taken
<1> QED
  BY <1>2 DEF Take, Taken

LEMMA PatchSteps ==
  ASSUME SessionTypeInv, [Next]_vars
  PROVE  \/ UNCHANGED patchvars /\ (Script \/ UNCHANGED <<patchIn, scriptvars>>)
         \/ /\ patchIn # <<>> /\ patchIn' = Tail(patchIn) /\ Take(Head(patchIn), PortInMessages)
            /\ Head(patchIn).name \in Names /\ Head(patchIn).to \in Devices \cup {NoDevice}
            /\ UNCHANGED <<appvars, bonjourvars, scriptvars, air, asked>>
         \/ \E m \in air :
              /\ Take(m, "text") /\ m.name.ch \in Channels /\ m.to \in Devices \cup {NoDevice}
              /\ m.kind = "stream" /\ air' = air \ {m}
              /\ UNCHANGED <<appvars, bonjourvars, scriptvars, patchIn, asked>>
         \/ /\ \E c \in Channels : Connector(c)
            /\ UNCHANGED <<appvars, bonjourvars, scriptvars, patchIn, air, asked>>
<1>1. ASSUME PatchFromScript
      PROVE  /\ patchIn # <<>> /\ patchIn' = Tail(patchIn) /\ Take(Head(patchIn), PortInMessages)
             /\ Head(patchIn).name \in Names /\ Head(patchIn).to \in Devices \cup {NoDevice}
             /\ UNCHANGED <<appvars, bonjourvars, scriptvars, air, asked>>
  <2>1. patchIn \in Seq(Messages) /\ patchIn # <<>>
    BY <1>1 DEF PatchFromScript, SessionTypeInv, TypeOK, Messages
  <2>2. Head(patchIn) \in Messages
    BY <2>1, PoppedProperties
  <2> QED
    BY <1>1, <2>2 DEF PatchFromScript, Messages
<1>2. ASSUME NEW m \in air, PatchFromDevice(m)
      PROVE  /\ Take(m, "text") /\ m.name.ch \in Channels /\ m.to \in Devices \cup {NoDevice}
             /\ m.kind = "stream" /\ air' = air \ {m}
             /\ UNCHANGED <<appvars, bonjourvars, scriptvars, patchIn, asked>>
  <2>1. m.kind = "stream"
    BY <1>2 DEF PatchFromDevice
  <2>2. \A d : ServerIP(d).kind # "stream"
    BY DEF ServerIP
  <2>3. PICK c \in Channels, d \in Devices \cup {NoDevice} : m = ToPatch(ServiceOf(c), d)
    BY <2>1, <2>2 DEF SessionTypeInv, AirMessages
  <2>4. m.name.ch = c /\ m.to = d
    BY <2>3 DEF ToPatch, ServiceOf
  <2> QED
    BY <1>2, <2>1, <2>4 DEF PatchFromDevice
<1>3. ASSUME NEW c \in Channels, Connector(c)
      PROVE  UNCHANGED <<appvars, bonjourvars, scriptvars, patchIn, air, asked>>
  BY <1>3 DEF Connector
<1>4. ASSUME NEW d \in Devices, User(d) \/ Bonjour(d) \/ TakeMessage(d)
      PROVE  UNCHANGED <<patchvars, patchIn, scriptvars>>
  BY <1>4 DEF User, ChannelButton, RangeBeacons, AdvertiseButton, ConnectButton, DisconnectButton,
              Leave, Bonjour, Publish, DidNotPublish, TakeMessage
<1>5. ASSUME Script \/ UNCHANGED vars
      PROVE  UNCHANGED patchvars /\ (Script \/ UNCHANGED <<patchIn, scriptvars>>)
  BY <1>5 DEF Script, Resolve, AddService, RemoveService, BrowseAdded, BrowseRemoved,
              NextEvent, Resolved, vars
<1> QED
  BY <1>1, <1>2, <1>3, <1>4, <1>5 DEF Next

PatchTypes ==
  /\ stream \in [Channels -> Objects]
  /\ portno \in [Channels -> {0, OSC_UDPRECEIVE_PORT, DEFAULT_PORT}]

LEMMA StreamStep ==
  ASSUME SessionTypeInv, [Next]_vars
  PROVE  PatchTypes'
<1>1. PatchTypes
  BY DEF SessionTypeInv, TypeOK, PatchTypes
<1>2. ASSUME NEW m, m.name.ch \in Channels, m.to \in Devices \cup {NoDevice}, NEW port, Take(m, port)
      PROVE  PatchTypes'
  <2> DEFINE c == m.name.ch
             p == CreateMessage(port)
  <2>1. UNCHANGED patchvars
        \/ /\ stream' = [stream EXCEPT ![c] = Taken(stream[c], m)]
           /\ Taken(stream[c], m) \in Objects
           /\ portno' \in {portno, [portno EXCEPT ![c] = p]}
    BY <1>1, <1>2, TakeProperties DEF PatchTypes
  <2>2. p \in {OSC_UDPRECEIVE_PORT, DEFAULT_PORT} /\ c \in Channels
    BY <1>2 DEF CreateMessage
  <2> HIDE DEF p, c
  <2> QED
    BY <1>1, <2>1, <2>2 DEF patchvars, PatchTypes
<1>3. ASSUME NEW c \in Channels, Connector(c)
      PROVE  PatchTypes'
  <2>1. stream[c] \in Objects /\ UNCHANGED portno
    BY <1>1, <1>3 DEF PatchTypes, Connector
  <2>2. PICK o \in Progress(stream[c]) : stream' = [stream EXCEPT ![c] = o]
    BY <1>3 DEF Connector
  <2>3. o \in Objects
    BY <2>1, <2>2, ObjectProperties
  <2> QED
    BY <1>1, <2>1, <2>2, <2>3 DEF PatchTypes
<1>4. UNCHANGED patchvars => PatchTypes'
  BY <1>1 DEF patchvars, PatchTypes
<1>5. \A n \in Names : n.ch \in Channels
  BY NoNames
<1> QED
  BY <1>2, <1>3, <1>4, <1>5, PatchSteps

LEMMA SessionTypeStep == SessionTypeInv /\ [Next]_vars => SessionTypeInv'
<1> SUFFICES ASSUME SessionTypeInv, [Next]_vars PROVE SessionTypeInv'
  OBVIOUS
<1>1. AppTypes
  BY DEF SessionTypeInv, TypeOK, AppTypes
<1>2. AppTypes' /\ BonjourTypes' /\ ScriptTypes'
  BY <1>1, AppStep, BonjourStep, ScriptStep
<1>3. (air \subseteq AirMessages)' /\ PatchTypes'
  BY AirStep, StreamStep
<1> QED
  BY <1>2, <1>3 DEF SessionTypeInv, TypeOK, AppTypes, BonjourTypes, ScriptTypes, PatchTypes, Messages, Queries, News

LEMMA SessionTypeInit == Init => SessionTypeInv
<1> SUFFICES ASSUME Init PROVE SessionTypeInv
  OBVIOUS
<1>1. AtRest \in Objects
  BY DEF AtRest, Objects
<1>2. TypeOK
  BY <1>1, SessionAssumption DEF Init, TypeOK
<1> QED
  BY <1>2 DEF Init, SessionTypeInv

\* Whatever the users, Bonjour, the script and the network do, every variable of the
\* apps, the script and the patch keeps its type, and messages are about channels.
THEOREM SessionTypeCorrect == Spec => []TypeOK
<1>1. SessionTypeInv => TypeOK
  BY DEF SessionTypeInv
<1> QED
  BY <1>1, SessionTypeInit, SessionTypeStep, PTL DEF Spec

-----------------------------------------------------------------------------
(* Who asked for a channel.  What a device publishes, the script has found *)
(* out, a message says or a stream is for has been asked for: by the user  *)
(* who saw this channel.  The client's number is the one shown.            *)

ServicesAsked ==
  \A d \in Devices :
    /\ publishing[d] # 0 => <<publishing[d], d>> \in asked
    /\ published[d] # NoName => <<published[d].ch, d>> \in asked

QueryAsked == query # NoQuery => <<query.name.ch, query.address>> \in asked

\* Of a message: it only ends a stream, or is for a device that asked.
Asked(m, pairs) == m.to = NoDevice \/ <<m.name.ch, m.to>> \in pairs

MessagesAsked ==
  /\ \A i \in DOMAIN patchIn : Asked(patchIn[i], asked)
  /\ \A m \in air : m.kind = "stream" => Asked(m, asked)

\* Of an object: whom it serves, or is about to.
ObjectAsked(c, o, pairs) ==
  /\ o.to = NoDevice \/ <<c, o.to>> \in pairs
  /\ o.asked = NoDevice \/ <<c, o.asked>> \in pairs

StreamsAsked == \A c \in Channels : ObjectAsked(c, stream[c], asked)

AskedInv == ServicesAsked /\ QueryAsked /\ MessagesAsked /\ StreamsAsked

LEMMA AskedGrows ==
  ASSUME [Next]_vars
  PROVE  asked \subseteq asked'
<1>1. ASSUME NEW d \in Devices, User(d) \/ Bonjour(d) \/ TakeMessage(d)
      PROVE  asked \subseteq asked'
  BY <1>1 DEF User, ChannelButton, RangeBeacons, AdvertiseButton, ConnectButton, DisconnectButton,
              Leave, Bonjour, Publish, DidNotPublish, TakeMessage
<1>2. ASSUME Script \/ PatchFromScript \/ (\E m \in air : PatchFromDevice(m))
             \/ (\E c \in Channels : Connector(c)) \/ UNCHANGED vars
      PROVE  asked' = asked
  BY <1>2 DEF Script, Resolve, AddService, RemoveService, BrowseAdded, BrowseRemoved,
              NextEvent, Resolved, PatchFromScript, PatchFromDevice, Connector, vars
<1> QED
  BY <1>1, <1>2 DEF Next

LEMMA ServicesStep ==
  ASSUME SessionTypeInv, AskedInv, [Next]_vars
  PROVE  ServicesAsked'
<1>1. /\ asked \subseteq asked'
      /\ publishing \in [Devices -> Channels \cup {0}]
      /\ published \in [Devices -> Names \cup {NoName}]
  BY AskedGrows DEF SessionTypeInv, TypeOK
<1>2. ServicesAsked
  BY DEF AskedInv
<1>3. ASSUME NEW d \in Devices, NEW ch \in {stringChannel[d], 0}, Ends(d, ch),
             ch # 0 => <<ch, d>> \in asked'
      PROVE  ServicesAsked'
  BY <1>1, <1>2, <1>3 DEF Ends, Unpublish, ServicesAsked
<1>4. ASSUME NEW d \in Devices, NEW ch \in {stringChannel[d], 0}, ch # 0, AdvertiseButton(d)
      PROVE  <<ch, d>> \in asked'
  BY <1>4 DEF AdvertiseButton
<1>5. ASSUME NEW d \in Devices, NEW n \in Names, Begins(d, n)
      PROVE  ServicesAsked'
  BY <1>1, <1>2, <1>5 DEF Begins, ServicesAsked
<1>6. ASSUME NEW d \in Devices, publishing' = [publishing EXCEPT ![d] = 0], UNCHANGED <<published, events>>
      PROVE  ServicesAsked'
  BY <1>1, <1>2, <1>6 DEF ServicesAsked
<1>7. ASSUME UNCHANGED <<publishing, published>> PROVE ServicesAsked'
  BY <1>1, <1>2, <1>7 DEF ServicesAsked
<1>8. Script => UNCHANGED <<publishing, published>>
  BY ScriptSteps DEF Finds, Misses, Adds, Loses, Removes, Ignores, Heard, bonjourvars
<1> QED
  BY <1>3, <1>4, <1>5, <1>6, <1>7, <1>8, BonjourSteps DEF bonjourvars

LEMMA QueryStep ==
  ASSUME SessionTypeInv, AskedInv, [Next]_vars
  PROVE  QueryAsked'
<1>1. asked \subseteq asked'
  BY AskedGrows
<1>2. UNCHANGED query => QueryAsked'
  BY <1>1 DEF AskedInv, QueryAsked
<1>3. ASSUME NEW n \in Names, Finds(n) PROVE QueryAsked'
  <2>1. Owner(n) \in Devices /\ published[Owner(n)] = n /\ query' = [name |-> n, address |-> Owner(n)]
    BY <1>3, OwnerProperties DEF Finds
  <2>2. n # NoName
    BY NoNames
  <2>3. <<n.ch, Owner(n)>> \in asked
    BY <2>1, <2>2 DEF AskedInv, ServicesAsked
  <2> QED
    BY <1>1, <2>1, <2>3 DEF QueryAsked
<1>4. Adds \/ Loses => QueryAsked'
  BY DEF Adds, Loses, QueryAsked
<1>5. Script => QueryAsked'
  BY <1>2, <1>3, <1>4, ScriptSteps DEF Misses, Removes, Ignores
<1> QED
  BY <1>2, <1>5, BonjourSteps DEF scriptvars

LEMMA MessagesStep ==
  ASSUME SessionTypeInv, AskedInv, [Next]_vars
  PROVE  MessagesAsked'
<1>1. /\ asked \subseteq asked' /\ MessagesAsked /\ patchIn \in Seq(Messages)
      /\ \A m : Asked(m, asked) => Asked(m, asked')
  BY AskedGrows DEF AskedInv, SessionTypeInv, TypeOK, Asked, Messages
<1> DEFINE PatchAsked == \A i \in DOMAIN patchIn : Asked(patchIn[i], asked)
           AirAsked == \A m \in air : m.kind = "stream" => Asked(m, asked)
<1>2. PatchAsked /\ AirAsked
  BY <1>1 DEF MessagesAsked
<1>3. UNCHANGED patchIn => PatchAsked'
  BY <1>1, <1>2
<1>4. ASSUME NEW n \in Names, NEW d \in Devices \cup {NoDevice}, NEW times \in Nat, TellPatch(n, d, times),
             Asked(ToPatch(n, d), asked')
      PROVE  PatchAsked'
  <2>1. ToPatch(n, d) \in Messages
    BY DEF ToPatch, Messages
  <2>2. \A i \in DOMAIN patchIn' :
          \/ i \in DOMAIN patchIn /\ patchIn'[i] = patchIn[i]
          \/ patchIn'[i] = ToPatch(n, d)
    BY <1>1, <1>4, <2>1, ToldProperties
  <2> QED
    BY <1>1, <1>2, <1>4, <2>2
<1>5. Script => PatchAsked'
  <2>1. ASSUME Adds PROVE PatchAsked'
    <3>1. query.name \in Names /\ query.address \in Devices /\ TellPatch(query.name, query.address, 1) /\ 1 \in Nat
      BY <2>1, QueryProperties DEF SessionTypeInv, TypeOK, Queries, Adds
    <3>2. <<query.name.ch, query.address>> \in asked
      BY <2>1 DEF Adds, AskedInv, QueryAsked
    <3>3. Asked(ToPatch(query.name, query.address), asked')
      BY <1>1, <3>2 DEF Asked, ToPatch
    <3> QED
      BY <1>4, <3>1, <3>3
  <2>2. ASSUME NEW n \in Names, NEW times \in Nat, Removes(n, times) PROVE PatchAsked'
    <3>1. Asked(ToPatch(n, NoDevice), asked')
      BY DEF Asked, ToPatch
    <3> QED
      BY <1>4, <2>2, <3>1 DEF Removes
  <2> QED
    BY <1>3, <2>1, <2>2, ScriptSteps DEF Finds, Misses, Ignores, Loses
<1>6. PatchFromScript => PatchAsked'
  <2>1. SUFFICES ASSUME patchIn # <<>>, patchIn' = Tail(patchIn) PROVE PatchAsked'
    BY DEF PatchFromScript
  <2> QED
    BY <1>1, <1>2, <2>1, PoppedProperties
<1>7. PatchAsked'
  <2>1. ASSUME NEW d \in Devices, User(d) \/ Bonjour(d) \/ TakeMessage(d)
        PROVE  UNCHANGED patchIn
    BY <2>1 DEF User, ChannelButton, RangeBeacons, AdvertiseButton, ConnectButton, DisconnectButton,
                Leave, Bonjour, Publish, DidNotPublish, TakeMessage
  <2>2. ASSUME (\E m \in air : PatchFromDevice(m)) \/ (\E c \in Channels : Connector(c)) \/ UNCHANGED vars
        PROVE  UNCHANGED patchIn
    BY <2>2 DEF PatchFromDevice, Connector, vars
  <2> HIDE DEF PatchAsked
  <2> QED
    BY <1>3, <1>5, <1>6, <2>1, <2>2 DEF Next
<1>8. AirAsked'
  <2>1. ASSUME NEW ms, Send(ms), \A m \in ms : m.kind = "stream" => Asked(m, asked')
        PROVE  AirAsked'
    BY <1>1, <1>2, <2>1, SentProperties
  <2>2. air' \subseteq air => AirAsked'
    BY <1>1, <1>2
  <2> HIDE DEF AirAsked
  <2>3. \A n, d : ToPatch(n, d).name = n /\ ToPatch(n, d).to = d
    BY DEF ToPatch
  <2>4. \A n : Asked(ToPatch(n, NoDevice), asked')
    BY <2>3 DEF Asked
  <2>5. ASSUME NEW d \in Devices, ConnectButton(d) PROVE AirAsked'
    <3> DEFINE ms == IF client[d] /\ serverIP[d] THEN {ToPatch(ServiceOf(channelNumber[d]), d)} ELSE {}
    <3>1. Send(ms) /\ <<stringChannel[d], d>> \in asked'
      BY <2>5 DEF ConnectButton, ClientSends
    <3>2. client[d] => channelNumber[d] = stringChannel[d]
      BY DEF SessionTypeInv
    <3>3. \A m \in ms : Asked(m, asked')
      BY <2>3, <3>1, <3>2 DEF Asked, ServiceOf
    <3> HIDE DEF ms
    <3> QED
      BY <2>1, <3>1, <3>3
  <2>6. ASSUME NEW d \in Devices, DisconnectButton(d) PROVE AirAsked'
    <3> DEFINE ms == IF client[d] /\ serverIP[d] THEN {ToPatch(ServiceOf(channelNumber[d]), NoDevice)} ELSE {}
    <3>1. Send(ms)
      BY <2>6 DEF DisconnectButton, ClientSends
    <3>2. \A m \in ms : Asked(m, asked')
      BY <2>4
    <3> HIDE DEF ms
    <3> QED
      BY <2>1, <3>1, <3>2
  <2>7. ASSUME NEW d \in Devices, NEW b \in [major : Majors, minor : Channels], RangeBeacons(d, b)
        PROVE  AirAsked'
    <3> DEFINE ms == IF client[d] /\ serverIP[d]
                     THEN {ToPatch(ServiceOf(channelNumber[d]), NoDevice), ToPatch(ServiceOf(b.minor), d)}
                     ELSE {}
    <3>1. Send(ms) /\ <<b.minor, d>> \in asked'
      BY <2>7 DEF RangeBeacons, Switch, ClientSends
    <3>2. \A m \in ms : Asked(m, asked')
      BY <2>3, <2>4, <3>1 DEF Asked, ServiceOf
    <3> HIDE DEF ms
    <3> QED
      BY <2>1, <3>1, <3>2
  <2>8. ASSUME BrowseAdded PROVE AirAsked'
    <3>1. Send({ServerIP(query.address)}) \/ air' \subseteq air
      BY <2>8, QueryProperties DEF BrowseAdded
    <3>2. ServerIP(query.address).kind # "stream"
      BY DEF ServerIP
    <3> QED
      BY <2>1, <2>2, <3>1, <3>2
  <2>9. ASSUME NEW d \in Devices,
               TakeMessage(d) \/ Bonjour(d) \/ Leave(d) \/ AdvertiseButton(d) \/ \E c \in Channels : ChannelButton(d, c)
        PROVE  air' \subseteq air
    BY <2>9 DEF TakeMessage, ChannelButton, AdvertiseButton, Leave, Bonjour, Publish, DidNotPublish
  <2>10. ASSUME Resolve \/ AddService \/ RemoveService \/ BrowseRemoved \/ PatchFromScript
                \/ (\E m \in air : PatchFromDevice(m)) \/ (\E c \in Channels : Connector(c)) \/ UNCHANGED vars
         PROVE  air' \subseteq air
    BY <2>10 DEF Resolve, AddService, RemoveService, BrowseRemoved, PatchFromScript, PatchFromDevice, Connector, vars
  <2> QED
    BY <2>2, <2>5, <2>6, <2>7, <2>8, <2>9, <2>10 DEF Next, User, Script
<1> QED
  BY <1>7, <1>8 DEF MessagesAsked

LEMMA StreamsStep ==
  ASSUME SessionTypeInv, AskedInv, [Next]_vars
  PROVE  StreamsAsked'
<1>1. stream \in [Channels -> Objects] /\ asked \subseteq asked' /\ StreamsAsked /\ MessagesAsked
  BY AskedGrows DEF SessionTypeInv, TypeOK, AskedInv
<1>2. \A c, o : ObjectAsked(c, o, asked) => ObjectAsked(c, o, asked')
  BY <1>1 DEF ObjectAsked
<1>3. UNCHANGED patchvars => StreamsAsked'
  BY <1>1, <1>2 DEF StreamsAsked, patchvars
<1>4. ASSUME NEW c \in Channels, NEW o, ObjectAsked(c, o, asked), stream' = [stream EXCEPT ![c] = o]
      PROVE  StreamsAsked'
  BY <1>1, <1>2, <1>4 DEF StreamsAsked
<1>5. ASSUME NEW m, m.name.ch \in Channels, m.to \in Devices \cup {NoDevice}, NEW port, Take(m, port),
             Asked(m, asked)
      PROVE  StreamsAsked'
  <2> DEFINE c == m.name.ch
  <2>1. UNCHANGED patchvars \/ stream' = [stream EXCEPT ![c] = Taken(stream[c], m)]
    BY <1>1, <1>5, TakeProperties
  <2>2. stream[c] \in Objects /\ ObjectAsked(c, stream[c], asked)
    BY <1>1, <1>5 DEF StreamsAsked
  <2>3. ObjectAsked(c, Taken(stream[c], m), asked)
    BY <1>5, <2>2 DEF Taken, TakeDisconnect, TakeConnect, ObjectAsked, Objects, Asked, NoDevice
  <2> QED
    BY <1>3, <1>4, <1>5, <2>1, <2>3
<1>6. ASSUME NEW c \in Channels, Connector(c) PROVE StreamsAsked'
  <2>1. PICK o \in Progress(stream[c]) : stream' = [stream EXCEPT ![c] = o]
    BY <1>6 DEF Connector
  <2>2. stream[c] \in Objects /\ ObjectAsked(c, stream[c], asked)
    BY <1>1 DEF StreamsAsked
  <2>3. ObjectAsked(c, o, asked)
    BY <2>1, <2>2 DEF Progress, Connected, AtRest, ObjectAsked, Objects, NoDevice
  <2> QED
    BY <1>4, <2>1, <2>3
<1>7. ASSUME patchIn # <<>>, Take(Head(patchIn), PortInMessages), Head(patchIn).name \in Names,
             Head(patchIn).to \in Devices \cup {NoDevice}
      PROVE  StreamsAsked'
  <2>1. 1 \in DOMAIN patchIn /\ Head(patchIn) = patchIn[1]
    BY <1>7, PoppedProperties DEF SessionTypeInv, TypeOK
  <2>2. Asked(Head(patchIn), asked)
    BY <1>1, <2>1 DEF MessagesAsked
  <2>3. Head(patchIn).name.ch \in Channels
    BY <1>7, NoNames
  <2> QED
    BY <1>5, <1>7, <2>2, <2>3
<1> QED
  BY <1>1, <1>3, <1>5, <1>6, <1>7, PatchSteps DEF MessagesAsked

LEMMA AskedInit == Init => AskedInv
BY EmptySeq DEF Init, AskedInv, ServicesAsked, QueryAsked, MessagesAsked, StreamsAsked, ObjectAsked,
   AtRest, NoDevice, NoName

LEMMA ScriptStays ==
  ASSUME [Next]_vars
  PROVE  script' = script
<1>1. Script => script' = script
  BY DEF Script, Resolve, AddService, RemoveService, BrowseAdded, BrowseRemoved, NextEvent, Resolved
<1> QED
  BY <1>1, BonjourSteps DEF scriptvars

\* Each udpsend~ that serves a device, or tries to, was told the port in messages of
\* which createMessage makes this one.
Serves(o) == o.phase = "trying" \/ o.to # NoDevice

ServesAt(port) == \A c \in Channels : Serves(stream[c]) => portno[c] = port

LEMMA PortStep ==
  ASSUME SessionTypeInv, [Next]_vars, NEW port, port = CreateMessage(PortInMessages),
         air = {} \/ port = CreateMessage("text"), ServesAt(port)
  PROVE  ServesAt(port)'
<1>1. stream \in [Channels -> Objects] /\ portno \in [Channels -> {0, OSC_UDPRECEIVE_PORT, DEFAULT_PORT}]
  BY DEF SessionTypeInv, TypeOK
<1>2. UNCHANGED patchvars => ServesAt(port)'
  BY DEF ServesAt, patchvars
<1>3. ASSUME NEW c \in Channels, NEW o, stream' = [stream EXCEPT ![c] = o],
             \/ portno' = portno /\ (Serves(o) => Serves(stream[c]))
             \/ portno' = [portno EXCEPT ![c] = port]
      PROVE  ServesAt(port)'
  <2>1. ASSUME NEW k \in Channels, Serves(stream'[k]) PROVE portno'[k] = port
    <3>1. CASE k # c
      <4>1. stream'[k] = stream[k] /\ portno'[k] = portno[k]
        BY <1>1, <1>3, <3>1
      <4> QED
        BY <2>1, <4>1 DEF ServesAt
    <3>2. CASE k = c
      <4>1. stream'[c] = o
        BY <1>1, <1>3
      <4>2. CASE portno' = portno /\ (Serves(o) => Serves(stream[c]))
        BY <2>1, <3>2, <4>1, <4>2 DEF ServesAt
      <4>3. CASE portno' = [portno EXCEPT ![c] = port]
        BY <1>1, <3>2, <4>3
      <4> QED
        BY <1>3, <4>2, <4>3
    <3> QED
      BY <3>1, <3>2
  <2> QED
    BY <2>1 DEF ServesAt
<1>4. ASSUME NEW m, m.name.ch \in Channels, m.to \in Devices \cup {NoDevice}, NEW p, Take(m, p),
             CreateMessage(p) = port
      PROVE  ServesAt(port)'
  <2> DEFINE c == m.name.ch
             o == Taken(stream[c], m)
  <2>1. \/ UNCHANGED patchvars
        \/ /\ stream' = [stream EXCEPT ![c] = o]
           /\ portno' = IF m.to # NoDevice /\ Accepts(stream[c])
                        THEN [portno EXCEPT ![c] = port] ELSE portno
    BY <1>1, <1>4, TakeProperties
  <2>2. c \in Channels /\ stream[c] \in Objects
    BY <1>1, <1>4
  <2>3. ~(m.to # NoDevice /\ Accepts(stream[c])) => (Serves(o) => Serves(stream[c]))
    BY <2>2 DEF Taken, TakeConnect, TakeDisconnect, Serves, Objects, NoDevice
  <2> HIDE DEF o, c
  <2> QED
    BY <1>2, <1>3, <2>1, <2>2, <2>3
<1>5. ASSUME NEW c \in Channels, Connector(c) PROVE ServesAt(port)'
  <2>1. PICK o \in Progress(stream[c]) : stream' = [stream EXCEPT ![c] = o]
    BY <1>5 DEF Connector
  <2>2. stream[c] \in Objects /\ portno' = portno
    BY <1>1, <1>5 DEF Connector
  <2>3. Serves(o) => Serves(stream[c])
    BY <2>1, <2>2 DEF Progress, Connected, AtRest, Serves, Objects, NoDevice
  <2> QED
    BY <1>3, <2>1, <2>2, <2>3
<1>6. \A n \in Names : n.ch \in Channels
  BY NoNames
<1> QED
  BY <1>2, <1>4, <1>5, <1>6, PatchSteps

BrowsePort == script = "bonjourBrowseOSC.py" => ServesAt(OSC_UDPRECEIVE_PORT)

LEMMA BrowsePortStep ==
  ASSUME SessionTypeInv, BrowsePort, [Next]_vars
  PROVE  BrowsePort'
<1>1. script' = script
  BY ScriptStays
<1>2. ASSUME script = "bonjourBrowseOSC.py" PROVE ServesAt(OSC_UDPRECEIVE_PORT)'
  <2>1. OSC_UDPRECEIVE_PORT = CreateMessage(PortInMessages) /\ OSC_UDPRECEIVE_PORT = CreateMessage("text")
    BY <1>2 DEF CreateMessage, PortInMessages
  <2> QED
    BY <1>2, <2>1, PortStep DEF BrowsePort
<1> QED
  BY <1>1, <1>2 DEF BrowsePort

LEMMA NobodyServed == Init => \A port : ServesAt(port)
BY DEF Init, ServesAt, Serves, AtRest, NoDevice

\* No channel's audio goes to a device whose user did not ask for this channel, by
\* publishing it, by the button or by going to its beacon: for any devices, channels
\* and beacons, either script, and whatever messages are lost, late or out of order.
\* With bonjourBrowseOSC.py it goes to the port that the app's patch listens on.
THEOREM StreamsWereAsked == Spec => []StreamsToWhoAsked
<1>1. SessionTypeInv /\ AskedInv /\ [Next]_vars => AskedInv'
  BY ServicesStep, QueryStep, MessagesStep, StreamsStep DEF AskedInv
<1>2. SessionTypeInv /\ BrowsePort /\ [Next]_vars => BrowsePort'
  BY BrowsePortStep
<1>3. SessionTypeInv /\ AskedInv /\ BrowsePort => StreamsToWhoAsked
  BY DEF AskedInv, StreamsAsked, ObjectAsked, StreamsToWhoAsked, BrowsePort, ServesAt, Serves
<1>4. Init => BrowsePort
  BY NobodyServed DEF BrowsePort
<1> QED
  BY <1>1, <1>2, <1>3, <1>4, AskedInit, SessionTypeInit, SessionTypeStep, PTL DEF Spec

-----------------------------------------------------------------------------
(* News and messages in the order they come, each on a name.               *)

\* The first on its name, the last on its name, one and the next on its name, and
\* none on a name.
IsFirst(s, i) == i \in DOMAIN s /\ \A k \in DOMAIN s : k < i => s[k].name # s[i].name
IsLast(s, i) == i \in DOMAIN s /\ \A k \in DOMAIN s : i < k => s[k].name # s[i].name
Follows(s, i, j) ==
  /\ i \in DOMAIN s /\ j \in DOMAIN s /\ i < j /\ s[j].name = s[i].name
  /\ \A k \in DOMAIN s : i < k /\ k < j => s[k].name # s[i].name
NoneOn(s, n) == \A i \in DOMAIN s : s[i].name # n

\* t is s with e behind it; t is s without its head.
Appends(t, s, e) ==
  /\ \A i : IsFirst(t, i) =>
       \/ IsFirst(s, i) /\ t[i] = s[i]
       \/ NoneOn(s, e.name) /\ t[i] = e
  /\ \A i : IsLast(t, i) =>
       \/ IsLast(s, i) /\ t[i] = s[i] /\ s[i].name # e.name
       \/ t[i] = e
  /\ \A i, j : Follows(t, i, j) =>
       \/ Follows(s, i, j) /\ t[i] = s[i] /\ t[j] = s[j]
       \/ IsLast(s, i) /\ t[i] = s[i] /\ s[i].name = e.name /\ t[j] = e
  /\ \A n : NoneOn(t, n) => NoneOn(s, n) /\ e.name # n

Pops(t, s, h) ==
  /\ IsFirst(s, 1) /\ h = s[1]
  /\ \A i : IsFirst(t, i) =>
       \/ IsFirst(s, i + 1) /\ t[i] = s[i + 1] /\ t[i].name # h.name
       \/ Follows(s, 1, i + 1) /\ t[i] = s[i + 1] /\ t[i].name = h.name
  /\ \A i : IsLast(t, i) => IsLast(s, i + 1) /\ t[i] = s[i + 1]
  /\ \A i, j : Follows(t, i, j) => Follows(s, i + 1, j + 1) /\ t[i] = s[i + 1] /\ t[j] = s[j + 1]
  /\ \A n : NoneOn(t, n) => NoneOn(s, n) \/ (n = h.name /\ IsLast(s, 1))

LEMMA AppendedOrder ==
  ASSUME NEW S, NEW s \in Seq(S), NEW e \in S
  PROVE  Appends(Append(s, e), s, e)
<1> DEFINE l == Len(s)
           t == Append(s, e)
<1>1. /\ l \in Nat /\ DOMAIN s = 1..l /\ DOMAIN t = 1..(l + 1)
      /\ \A i \in 1..l : t[i] = s[i]
      /\ t[l + 1] = e
  <2>1. /\ t \in Seq(S) /\ Len(t) = l + 1
        /\ \A i \in 1..l : t[i] = s[i]
        /\ t[l + 1] = e
    BY AppendProperties
  <2> QED
    BY <2>1, LenProperties
<1> HIDE DEF l, t
<1>2. /\ \A i \in DOMAIN t : (i \in DOMAIN s /\ t[i] = s[i] /\ i < l + 1) \/ (i = l + 1 /\ t[i] = e)
      /\ \A i \in DOMAIN s : i \in DOMAIN t /\ t[i] = s[i] /\ i < l + 1
      /\ l + 1 \in DOMAIN t /\ t[l + 1] = e /\ l + 1 \in Int
      /\ DOMAIN t \subseteq Int
      /\ \A i \in DOMAIN t : ~(l + 1 < i)
  BY <1>1
<1>3. \A i : IsFirst(t, i) =>
        \/ IsFirst(s, i) /\ t[i] = s[i]
        \/ NoneOn(s, e.name) /\ t[i] = e
  BY <1>2 DEF IsFirst, NoneOn
<1>4. \A i : IsLast(t, i) =>
        \/ IsLast(s, i) /\ t[i] = s[i] /\ s[i].name # e.name
        \/ t[i] = e
  BY <1>2 DEF IsLast
<1>5. \A i, j : Follows(t, i, j) =>
        \/ Follows(s, i, j) /\ t[i] = s[i] /\ t[j] = s[j]
        \/ IsLast(s, i) /\ t[i] = s[i] /\ s[i].name = e.name /\ t[j] = e
  BY <1>2 DEF Follows, IsLast
<1>6. \A n : NoneOn(t, n) => NoneOn(s, n) /\ e.name # n
  BY <1>2 DEF NoneOn
<1> QED
  BY <1>3, <1>4, <1>5, <1>6 DEF t, Appends

LEMMA PoppedOrder ==
  ASSUME NEW S, NEW s \in Seq(S), s # <<>>
  PROVE  Pops(Tail(s), s, Head(s))
<1> DEFINE t == Tail(s)
           h == Head(s)
<1>1. /\ 1 \in DOMAIN s /\ h = s[1] /\ DOMAIN s \subseteq Int
      /\ \A k \in DOMAIN t : k \in Int /\ k >= 1 /\ k + 1 \in DOMAIN s /\ t[k] = s[k + 1]
      /\ \A k \in DOMAIN s : k = 1 \/ (k > 1 /\ k - 1 \in DOMAIN t /\ t[k - 1] = s[k])
  <2>1. /\ 1 \in DOMAIN s /\ h = s[1] /\ t \in Seq(S)
        /\ \A k \in DOMAIN t : k + 1 \in DOMAIN s /\ t[k] = s[k + 1]
        /\ \A k \in DOMAIN s : k # 1 => k - 1 \in DOMAIN t /\ t[k - 1] = s[k]
    BY PoppedProperties
  <2>2. DOMAIN s = 1..Len(s) /\ DOMAIN t = 1..Len(t)
    BY <2>1, LenProperties
  <2> QED
    BY <2>1, <2>2
<1> HIDE DEF t, h
<1>2. IsFirst(s, 1)
  BY <1>1 DEF IsFirst
<1>3. ASSUME NEW i, IsFirst(t, i)
      PROVE  \/ IsFirst(s, i + 1) /\ t[i] = s[i + 1] /\ t[i].name # h.name
             \/ Follows(s, 1, i + 1) /\ t[i] = s[i + 1] /\ t[i].name = h.name
  <2>1. i \in DOMAIN t /\ i \in Int /\ i >= 1 /\ i + 1 \in DOMAIN s /\ t[i] = s[i + 1]
    BY <1>1, <1>3 DEF IsFirst
  <2>2. ASSUME NEW k \in DOMAIN s, k < i + 1, k # 1 PROVE s[k].name # t[i].name
    <3>1. k - 1 \in DOMAIN t /\ k - 1 < i /\ t[k - 1] = s[k]
      BY <1>1, <2>1, <2>2
    <3> QED
      BY <1>3, <3>1 DEF IsFirst
  <2>3. CASE t[i].name = h.name
    <3>1. ASSUME NEW k \in DOMAIN s, 1 < k, k < i + 1 PROVE s[k].name # s[1].name
      <4>1. k # 1
        BY <3>1
      <4>2. s[k].name # t[i].name
        BY <2>2, <3>1, <4>1
      <4> QED
        BY <1>1, <2>3, <4>2
    <3> QED
      BY <1>1, <2>1, <2>3, <3>1 DEF Follows
  <2>4. CASE t[i].name # h.name
    <3>1. \A k \in DOMAIN s : k < i + 1 => s[k].name # s[i + 1].name
      BY <1>1, <2>1, <2>2, <2>4
    <3> QED
      BY <2>1, <2>4, <3>1 DEF IsFirst
  <2> QED
    BY <2>3, <2>4
<1>4. ASSUME NEW i, IsLast(t, i)
      PROVE  IsLast(s, i + 1) /\ t[i] = s[i + 1]
  <2>1. i \in DOMAIN t /\ i \in Int /\ i >= 1 /\ i + 1 \in DOMAIN s /\ t[i] = s[i + 1]
    BY <1>1, <1>4 DEF IsLast
  <2>2. ASSUME NEW k \in DOMAIN s, i + 1 < k PROVE s[k].name # s[i + 1].name
    <3>1. k - 1 \in DOMAIN t /\ i < k - 1 /\ t[k - 1] = s[k]
      BY <1>1, <2>1, <2>2
    <3> QED
      BY <1>4, <2>1, <3>1 DEF IsLast
  <2> QED
    BY <2>1, <2>2 DEF IsLast
<1>5. ASSUME NEW i, NEW j, Follows(t, i, j)
      PROVE  Follows(s, i + 1, j + 1) /\ t[i] = s[i + 1] /\ t[j] = s[j + 1]
  <2>1. /\ i \in DOMAIN t /\ i \in Int /\ i >= 1 /\ i + 1 \in DOMAIN s /\ t[i] = s[i + 1]
        /\ j \in DOMAIN t /\ j \in Int /\ j + 1 \in DOMAIN s /\ t[j] = s[j + 1]
        /\ i + 1 < j + 1 /\ s[j + 1].name = s[i + 1].name
    BY <1>1, <1>5 DEF Follows
  <2>2. ASSUME NEW k \in DOMAIN s, i + 1 < k, k < j + 1 PROVE s[k].name # s[i + 1].name
    <3>1. k - 1 \in DOMAIN t /\ i < k - 1 /\ k - 1 < j /\ t[k - 1] = s[k]
      BY <1>1, <2>1, <2>2
    <3> QED
      BY <1>5, <2>1, <3>1 DEF Follows
  <2> QED
    BY <2>1, <2>2 DEF Follows
<1>6. ASSUME NEW n, NoneOn(t, n)
      PROVE  NoneOn(s, n) \/ (n = h.name /\ IsLast(s, 1))
  <2>1. ASSUME NEW k \in DOMAIN s, k # 1 PROVE s[k].name # n
    BY <1>1, <1>6, <2>1 DEF NoneOn
  <2>2. CASE n = h.name
    BY <1>1, <2>1, <2>2 DEF IsLast
  <2>3. CASE n # h.name
    BY <1>1, <2>1, <2>3 DEF NoneOn
  <2> QED
    BY <2>2, <2>3
<1> QED
  BY <1>1, <1>2, <1>3, <1>4, <1>5, <1>6 DEF t, h, Pops

-----------------------------------------------------------------------------
(* What is told is what there is.  The last news of a name say whether it  *)
(* is published; when there are none left, the device that publishes it is *)
(* the one whose address the script has asked for or the patch was told.   *)

\* Who publishes the name n when p is what is published.
Holder(p, n) == IF \E d \in Devices : p[d] = n
                THEN CHOOSE d \in Devices : p[d] = n
                ELSE NoDevice

OneEach(p) == \A d, e \in Devices : p[d] = p[e] /\ p[d] # NoName => d = e

LastIsTrue(news, p) ==
  \A i : IsLast(news, i) => (news[i].add <=> Holder(p, news[i].name) # NoDevice)

\* The news of the name n have been dealt with: c is its channel.
DealtWith(c, p, asks, lost, says, by) ==
  IF asks.name = ServiceOf(c)
  THEN asks.address = Holder(p, ServiceOf(c))
  ELSE ServiceOf(c) \notin lost /\ (Holder(p, ServiceOf(c)) # NoDevice \/ by = "server.py")
         => says[c] = Holder(p, ServiceOf(c))

NewsInv ==
  /\ OneEach(published)
  /\ \A d \in Devices : publishing[d] # 0 => published[d] = NoName
  /\ LastIsTrue(events, published)
  /\ \A c \in Channels :
       NoneOn(events, ServiceOf(c)) => DealtWith(c, published, query, missed, told, script)

Holdings == [Devices -> Names \cup {NoName}]

LEMMA OwnerIsHolder ==
  ASSUME NEW n
  PROVE  Owner(n) = Holder(published, n)
BY DEF Owner, Holder

LEMMA HolderProperties ==
  ASSUME NEW p, NEW n
  PROVE  /\ Holder(p, n) # NoDevice => Holder(p, n) \in Devices /\ p[Holder(p, n)] = n
         /\ \A d \in Devices : p[d] = n => Holder(p, n) # NoDevice
         /\ \A d \in Devices : OneEach(p) /\ p[d] = n /\ n # NoName => Holder(p, n) = d
<1>1. CASE \E d \in Devices : p[d] = n
  <2>1. Holder(p, n) = CHOOSE d \in Devices : p[d] = n
    BY <1>1 DEF Holder
  <2>2. Holder(p, n) \in Devices /\ p[Holder(p, n)] = n
    BY <1>1, <2>1
  <2> QED
    BY <2>2, NoNames DEF OneEach
<1>2. CASE ~\E d \in Devices : p[d] = n
  BY <1>2 DEF Holder
<1> QED
  BY <1>1, <1>2

LEMMA EndedHolder ==
  ASSUME NEW p \in Holdings, OneEach(p), NEW d \in Devices
  PROVE  /\ OneEach([p EXCEPT ![d] = NoName])
         /\ \A n : n # NoName =>
              Holder([p EXCEPT ![d] = NoName], n) = IF n = p[d] THEN NoDevice ELSE Holder(p, n)
<1> DEFINE q == [p EXCEPT ![d] = NoName]
<1>1. q \in Holdings /\ q[d] = NoName /\ \A e \in Devices : e # d => q[e] = p[e]
  BY DEF Holdings
<1> HIDE DEF q
<1>2. OneEach(q)
  BY <1>1 DEF OneEach
<1>3. ASSUME NEW n, n # NoName
      PROVE  Holder(q, n) = IF n = p[d] THEN NoDevice ELSE Holder(p, n)
  <2>1. CASE n = p[d]
    <3>1. \A e \in Devices : q[e] # n
      BY <1>1, <1>3, <2>1 DEF OneEach
    <3> QED
      BY <2>1, <3>1, HolderProperties
  <2>2. CASE n # p[d] /\ Holder(p, n) = NoDevice
    <3>1. \A e \in Devices : q[e] # n
      BY <1>1, <1>3, <2>2, HolderProperties
    <3> QED
      BY <2>2, <3>1, HolderProperties
  <2>3. CASE n # p[d] /\ Holder(p, n) # NoDevice
    <3>1. Holder(p, n) \in Devices /\ p[Holder(p, n)] = n
      BY <2>3, HolderProperties
    <3>2. q[Holder(p, n)] = n
      BY <1>1, <2>3, <3>1
    <3> QED
      BY <1>2, <1>3, <2>3, <3>1, <3>2, HolderProperties
  <2> QED
    BY <2>1, <2>2, <2>3
<1> QED
  BY <1>2, <1>3 DEF q

LEMMA BegunHolder ==
  ASSUME NEW p \in Holdings, OneEach(p), NEW d \in Devices, p[d] = NoName,
         NEW m \in Names, Holder(p, m) = NoDevice
  PROVE  /\ OneEach([p EXCEPT ![d] = m])
         /\ \A n : n # NoName =>
              Holder([p EXCEPT ![d] = m], n) = IF n = m THEN d ELSE Holder(p, n)
<1> DEFINE q == [p EXCEPT ![d] = m]
<1>1. /\ q[d] = m /\ \A e \in Devices : e # d => q[e] = p[e]
      /\ m # NoName /\ \A e \in Devices : p[e] # m
  BY HolderProperties, NoNames DEF Holdings
<1> HIDE DEF q
<1>2. OneEach(q)
  BY <1>1 DEF OneEach
<1>3. ASSUME NEW n, n # NoName
      PROVE  Holder(q, n) = IF n = m THEN d ELSE Holder(p, n)
  <2>1. CASE n = m
    BY <1>1, <1>2, <1>3, <2>1, HolderProperties
  <2>2. CASE n # m /\ Holder(p, n) = NoDevice
    <3>1. \A e \in Devices : q[e] # n
      BY <1>1, <1>3, <2>2, HolderProperties
    <3> QED
      BY <2>2, <3>1, HolderProperties
  <2>3. CASE n # m /\ Holder(p, n) # NoDevice
    <3>1. Holder(p, n) \in Devices /\ p[Holder(p, n)] = n
      BY <2>3, HolderProperties
    <3>2. q[Holder(p, n)] = n
      BY <1>1, <1>3, <3>1
    <3> QED
      BY <1>2, <1>3, <2>3, <3>1, <3>2, HolderProperties
  <2> QED
    BY <2>1, <2>2, <2>3
<1> QED
  BY <1>2, <1>3 DEF q

\* What a channel was told last.
LEMMA ToldOf ==
  ASSUME told \in [Channels -> Devices \cup {NoDevice}], NEW n, NEW d, NEW times \in Nat,
         TellPatch(n, d, times), NEW c \in Channels
  PROVE  /\ ServiceOf(c) # n => told'[c] = told[c]
         /\ ServiceOf(c) = n /\ times = 1 => told'[c] = d
<1>1. ServiceOf(c).ch = c
  BY DEF ServiceOf
<1>2. told' = IF times > 0 /\ n = ServiceOf(n.ch) THEN [told EXCEPT ![n.ch] = d] ELSE told
  BY DEF TellPatch
<1>3. ASSUME ServiceOf(c) # n PROVE told'[c] = told[c]
  BY <1>2, <1>3
<1>4. ASSUME ServiceOf(c) = n, times = 1 PROVE told'[c] = d
  <2>1. told' = [told EXCEPT ![c] = d]
    <3>1. n.ch = c /\ times > 0
      BY <1>1, <1>4
    <3> QED
      BY <1>2, <1>4, <3>1
  <2> QED
    BY <2>1
<1> QED
  BY <1>3, <1>4

LEMMA NewsEnds ==
  ASSUME SessionTypeInv, NewsInv, NEW d \in Devices, NEW ch, Ends(d, ch), UNCHANGED scriptvars
  PROVE  NewsInv'
<1> DEFINE p == published
           q == published'
           m == published[d]
<1>1. /\ p \in Holdings /\ events \in Seq(News) /\ OneEach(p)
      /\ publishing \in [Devices -> Channels \cup {0}]
  BY DEF SessionTypeInv, TypeOK, Holdings, News, NewsInv
<1>2. /\ q = [p EXCEPT ![d] = NoName]
      /\ publishing' = [publishing EXCEPT ![d] = ch]
      /\ IF m = NoName THEN events' = events
         ELSE events' = Append(events, [add |-> FALSE, name |-> m])
  BY DEF Ends, Unpublish
<1>3. /\ OneEach(q)
      /\ \A n : n # NoName => Holder(q, n) = IF n = m THEN NoDevice ELSE Holder(p, n)
  BY <1>1, <1>2, EndedHolder
<1>4. \A e \in Devices : publishing'[e] # 0 => q[e] = NoName
  BY <1>1, <1>2 DEF NewsInv, Holdings
<1>5. \A i \in DOMAIN events : events[i].name # NoName
  <2>1. \A i \in DOMAIN events : events[i] \in News
    BY <1>1, LenProperties, ElementOfSeq
  <2> QED
    BY <2>1, NoNames DEF News
<1>6. /\ LastIsTrue(events', q)
      /\ \A c \in Channels : NoneOn(events', ServiceOf(c)) => NoneOn(events, ServiceOf(c)) /\ ServiceOf(c) # m
  <2>1. CASE m = NoName
    <3>1. events' = events
      BY <1>2, <2>1
    <3>2. LastIsTrue(events, q)
      BY <1>3, <1>5, <2>1 DEF NewsInv, LastIsTrue, IsLast
    <3> QED
      BY <2>1, <3>1, <3>2, NoNames
  <2>2. CASE m # NoName
    <3> DEFINE e == [add |-> FALSE, name |-> m]
    <3>1. e \in News /\ e.name = m /\ e.add = FALSE
      BY <1>1, <2>2 DEF News, Holdings
    <3>2. events' = Append(events, e)
      BY <1>2, <2>2
    <3> HIDE DEF e
    <3>3. Appends(events', events, e)
      BY <1>1, <3>1, <3>2, AppendedOrder
    <3>4. ASSUME NEW i, IsLast(events', i)
          PROVE  events'[i].add <=> Holder(q, events'[i].name) # NoDevice
      <4>1. \/ IsLast(events, i) /\ events'[i] = events[i] /\ events[i].name # m
            \/ events'[i] = e
        BY <3>1, <3>4, <3>3 DEF Appends
      <4>2. CASE IsLast(events, i) /\ events'[i] = events[i] /\ events[i].name # m
        <5>1. events[i].add <=> Holder(p, events[i].name) # NoDevice
          BY <4>2 DEF NewsInv, LastIsTrue
        <5>2. Holder(q, events[i].name) = Holder(p, events[i].name)
          BY <1>3, <1>5, <4>2 DEF IsLast
        <5> QED
          BY <4>2, <5>1, <5>2
      <4>3. CASE events'[i] = e
        BY <1>3, <2>2, <3>1, <4>3
      <4> QED
        BY <4>1, <4>2, <4>3
    <3>5. \A n : NoneOn(events', n) => NoneOn(events, n) /\ m # n
      BY <3>1, <3>3 DEF Appends
    <3> QED
      BY <3>4, <3>5 DEF LastIsTrue
  <2> QED
    BY <2>1, <2>2
<1>7. ASSUME NEW c \in Channels, NoneOn(events', ServiceOf(c))
      PROVE  DealtWith(c, q, query, missed, told, script)
  <2>1. NoneOn(events, ServiceOf(c)) /\ ServiceOf(c) # m /\ ServiceOf(c) # NoName
    BY <1>6, <1>7, NoNames
  <2>2. DealtWith(c, p, query, missed, told, script)
    BY <2>1 DEF NewsInv
  <2>3. Holder(q, ServiceOf(c)) = Holder(p, ServiceOf(c))
    BY <1>3, <2>1
  <2> QED
    BY <2>2, <2>3 DEF DealtWith
<1> QED
  BY <1>3, <1>4, <1>6, <1>7 DEF NewsInv, scriptvars

LEMMA NewsBegins ==
  ASSUME SessionTypeInv, NewsInv, NEW d \in Devices, NEW m \in Names, Begins(d, m), UNCHANGED scriptvars
  PROVE  NewsInv'
<1> DEFINE p == published
           q == published'
           e == [add |-> TRUE, name |-> m]
<1>1. /\ p \in Holdings /\ events \in Seq(News) /\ OneEach(p)
      /\ publishing \in [Devices -> Channels \cup {0}]
  BY DEF SessionTypeInv, TypeOK, Holdings, News, NewsInv
<1>2. /\ q = [p EXCEPT ![d] = m]
      /\ publishing' = [publishing EXCEPT ![d] = 0]
      /\ events' = Append(events, e)
      /\ p[d] = NoName /\ Holder(p, m) = NoDevice
  BY OwnerIsHolder DEF Begins, NewsInv
<1>3. /\ OneEach(q)
      /\ \A n : n # NoName => Holder(q, n) = IF n = m THEN d ELSE Holder(p, n)
  <2>1. /\ OneEach([p EXCEPT ![d] = m])
        /\ \A n : n # NoName => Holder([p EXCEPT ![d] = m], n) = IF n = m THEN d ELSE Holder(p, n)
    <3> HIDE DEF p
    <3> QED
      BY <1>1, <1>2, BegunHolder
  <2> QED
    BY <1>2, <2>1
<1>4. \A f \in Devices : publishing'[f] # 0 => q[f] = NoName
  BY <1>1, <1>2 DEF NewsInv, Holdings
<1>5. \A i \in DOMAIN events : events[i].name # NoName
  <2>1. \A i \in DOMAIN events : events[i] \in News
    BY <1>1, LenProperties, ElementOfSeq
  <2> QED
    BY <2>1, NoNames DEF News
<1>6. e \in News /\ e.name = m /\ e.add
  BY DEF News
<1>7. m # NoName /\ d # NoDevice
  BY NoNames
<1> HIDE DEF e
<1>8. Appends(events', events, e)
  BY <1>1, <1>2, <1>6, AppendedOrder
<1>9. ASSUME NEW i, IsLast(events', i)
      PROVE  events'[i].add <=> Holder(q, events'[i].name) # NoDevice
  <2>1. \/ IsLast(events, i) /\ events'[i] = events[i] /\ events[i].name # m
        \/ events'[i] = e
    BY <1>6, <1>9, <1>8 DEF Appends
  <2>2. CASE IsLast(events, i) /\ events'[i] = events[i] /\ events[i].name # m
    <3>1. events[i].add <=> Holder(p, events[i].name) # NoDevice
      BY <2>2 DEF NewsInv, LastIsTrue
    <3>2. Holder(q, events[i].name) = Holder(p, events[i].name)
      BY <1>3, <1>5, <2>2 DEF IsLast
    <3> QED
      BY <2>2, <3>1, <3>2
  <2>3. CASE events'[i] = e
    BY <1>3, <1>6, <1>7, <2>3
  <2> QED
    BY <2>1, <2>2, <2>3
<1>10. ASSUME NEW c \in Channels, NoneOn(events', ServiceOf(c))
      PROVE  DealtWith(c, q, query, missed, told, script)
  <2>1. NoneOn(events, ServiceOf(c)) /\ m # ServiceOf(c) /\ ServiceOf(c) # NoName
    BY <1>6, <1>10, <1>8, NoNames DEF Appends
  <2>2. DealtWith(c, p, query, missed, told, script)
    BY <2>1 DEF NewsInv
  <2>3. Holder(q, ServiceOf(c)) = Holder(p, ServiceOf(c))
    BY <1>3, <2>1
  <2> QED
    BY <2>2, <2>3 DEF DealtWith
<1> QED
  BY <1>3, <1>4, <1>9, <1>10 DEF NewsInv, LastIsTrue, scriptvars

\* The head of the news is handled, and what is known of the other names stays.
LEMMA NewsHeard ==
  ASSUME SessionTypeInv, NewsInv, Heard, NEW m, m = Head(events).name,
         \A c \in Channels :
           DealtWith(c, published, query, missed, told, script) /\ ServiceOf(c) # m
             => DealtWith(c, published, query', missed', told', script),
         \A c \in Channels :
           ServiceOf(c) = m /\ (Head(events).add <=> Holder(published, m) # NoDevice)
             => DealtWith(c, published, query', missed', told', script),
         script' = script
  PROVE  NewsInv'
<1>1. events \in Seq(News) /\ events # <<>> /\ events' = Tail(events) /\ UNCHANGED <<published, publishing>>
  BY DEF SessionTypeInv, TypeOK, News, Heard
<1> DEFINE h == Head(events)
<1>2. /\ IsFirst(events, 1) /\ h = events[1]
      /\ \A i : IsLast(events', i) => IsLast(events, i + 1) /\ events'[i] = events[i + 1]
      /\ \A n : NoneOn(events', n) => NoneOn(events, n) \/ (n = h.name /\ IsLast(events, 1))
  <2>1. Pops(events', events, h)
    BY <1>1, PoppedOrder
  <2> QED
    BY <2>1 DEF Pops
<1>3. LastIsTrue(events', published)
  BY <1>2 DEF NewsInv, LastIsTrue
<1>4. ASSUME NEW c \in Channels, NoneOn(events', ServiceOf(c))
      PROVE  DealtWith(c, published, query', missed', told', script)
  <2>1. CASE NoneOn(events, ServiceOf(c))
    <3>1. ServiceOf(c) # m
      BY <1>2, <2>1 DEF NoneOn, IsFirst
    <3>2. DealtWith(c, published, query, missed, told, script)
      BY <2>1 DEF NewsInv
    <3> QED
      BY <3>1, <3>2
  <2>2. CASE ServiceOf(c) = h.name /\ IsLast(events, 1)
    <3>1. h.add <=> Holder(published, m) # NoDevice
      BY <1>2, <2>2 DEF NewsInv, LastIsTrue
    <3> QED
      BY <2>2, <3>1
  <2> QED
    BY <1>2, <1>4, <2>1, <2>2
<1> QED
  BY <1>1, <1>3, <1>4 DEF NewsInv

LEMMA NewsStep ==
  ASSUME SessionTypeInv, NewsInv, [Next]_vars
  PROVE  NewsInv'
<1>1. /\ published \in Holdings /\ events \in Seq(News)
      /\ publishing \in [Devices -> Channels \cup {0}]
      /\ query \in Queries
      /\ told \in [Channels -> Devices \cup {NoDevice}]
  BY DEF SessionTypeInv, TypeOK, Holdings, News, Queries
<1>2. script' = script
  <2>1. Script => script' = script
    BY DEF Script, Resolve, AddService, RemoveService, BrowseAdded, BrowseRemoved, NextEvent, Resolved
  <2> QED
    BY <2>1, BonjourSteps DEF scriptvars
<1>3. ASSUME NEW d \in Devices, publishing' = [publishing EXCEPT ![d] = 0],
             UNCHANGED <<published, events>>, UNCHANGED scriptvars
      PROVE  NewsInv'
  <2>1. \A e \in Devices : publishing'[e] # 0 => published[e] = NoName
    BY <1>1, <1>3 DEF NewsInv
  <2> QED
    BY <1>3, <2>1 DEF NewsInv, scriptvars
<1>4. UNCHANGED <<bonjourvars, scriptvars>> => NewsInv'
  BY DEF bonjourvars, scriptvars, NewsInv
<1>5. \A c \in Channels : ServiceOf(c) # NoName
  BY NoNames
<1>6. query = NoQuery => \A c \in Channels : query.name # ServiceOf(c)
  BY <1>1, <1>5, QueryProperties
<1>7. ASSUME NEW m \in Names, Finds(m) PROVE NewsInv'
  <2>1. /\ query = NoQuery /\ Heard /\ m = Head(events).name
        /\ query' = [name |-> m, address |-> Holder(published, m)]
        /\ UNCHANGED <<missed, told>>
    BY <1>7, OwnerIsHolder DEF Finds, Heard
  <2>2. query'.name = m /\ query'.address = Holder(published, m)
    BY <2>1
  <2>3. \A c \in Channels :
          DealtWith(c, published, query, missed, told, script) /\ ServiceOf(c) # m
            => DealtWith(c, published, query', missed', told', script)
    BY <1>6, <2>1, <2>2 DEF DealtWith
  <2>4. \A c \in Channels : ServiceOf(c) = m => DealtWith(c, published, query', missed', told', script)
    BY <2>2 DEF DealtWith
  <2> QED
    BY <1>2, <2>1, <2>3, <2>4, NewsHeard
<1>8. ASSUME NEW m \in Names, Misses(m) PROVE NewsInv'
  <2>1. /\ query = NoQuery /\ Heard /\ m = Head(events).name
        /\ query' = query /\ missed' = missed \cup {m} /\ UNCHANGED told
    BY <1>8 DEF Misses, Heard
  <2>2. \A c \in Channels :
          DealtWith(c, published, query, missed, told, script) /\ ServiceOf(c) # m
            => DealtWith(c, published, query', missed', told', script)
    BY <2>1 DEF DealtWith
  <2>3. \A c \in Channels : ServiceOf(c) = m => DealtWith(c, published, query', missed', told', script)
    BY <1>6, <2>1 DEF DealtWith
  <2> QED
    BY <1>2, <2>1, <2>2, <2>3, NewsHeard
<1>9. ASSUME NEW m \in Names, Ignores(m) PROVE NewsInv'
  <2>1. /\ query = NoQuery /\ Heard /\ m = Head(events).name /\ ~Head(events).add
        /\ script # "server.py"
        /\ UNCHANGED <<query, missed, told>>
    BY <1>9 DEF Ignores, Heard
  <2>2. \A c \in Channels :
          ServiceOf(c) = m /\ (Head(events).add <=> Holder(published, m) # NoDevice)
            => DealtWith(c, published, query', missed', told', script)
    BY <1>6, <2>1 DEF DealtWith
  <2> QED
    BY <1>2, <2>1, <2>2, NewsHeard
<1>10. ASSUME NEW m \in Names, NEW times \in Nat, Removes(m, times), script = "server.py" => times = 1
       PROVE  NewsInv'
  <2>1. /\ query = NoQuery /\ Heard /\ m = Head(events).name /\ ~Head(events).add
        /\ TellPatch(m, NoDevice, times)
        /\ UNCHANGED <<query, missed>>
    BY <1>10 DEF Removes, Heard
  <2>2. ASSUME NEW c \in Channels
        PROVE  /\ ServiceOf(c) # m => told'[c] = told[c]
               /\ ServiceOf(c) = m /\ times = 1 => told'[c] = NoDevice
    BY <1>1, <2>1, ToldOf
  <2>3. \A c \in Channels :
          DealtWith(c, published, query, missed, told, script) /\ ServiceOf(c) # m
            => DealtWith(c, published, query', missed', told', script)
    BY <2>1, <2>2 DEF DealtWith
  <2>4. \A c \in Channels :
          ServiceOf(c) = m /\ (Head(events).add <=> Holder(published, m) # NoDevice)
            => DealtWith(c, published, query', missed', told', script)
    BY <1>6, <1>10, <2>1, <2>2 DEF DealtWith
  <2> QED
    BY <1>2, <2>1, <2>3, <2>4, NewsHeard
<1>11. ASSUME Adds PROVE NewsInv'
  <2>1. /\ query.name \in Names
        /\ query' = NoQuery /\ missed' = missed \ {query.name}
        /\ TellPatch(query.name, query.address, 1) /\ 1 \in Nat
        /\ UNCHANGED <<published, publishing, events>>
    BY <1>1, <1>11, QueryProperties DEF Adds, bonjourvars
  <2>2. \A c \in Channels : query'.name # ServiceOf(c)
    <3>1. query'.name = NoName
      BY <2>1 DEF NoQuery
    <3> QED
      BY <1>5, <3>1
  <2>3. ASSUME NEW c \in Channels
        PROVE  /\ ServiceOf(c) # query.name => told'[c] = told[c]
               /\ ServiceOf(c) = query.name => told'[c] = query.address
    BY <1>1, <2>1, ToldOf
  <2>4. ASSUME NEW c \in Channels, DealtWith(c, published, query, missed, told, script)
        PROVE  DealtWith(c, published, query', missed', told', script)
    BY <2>1, <2>2, <2>3, <2>4 DEF DealtWith
  <2> QED
    BY <1>2, <2>1, <2>4 DEF NewsInv
<1>12. ASSUME Loses PROVE NewsInv'
  <2>1. /\ query' = NoQuery /\ missed' = missed \cup {query.name}
        /\ UNCHANGED <<told, published, publishing, events>>
    BY <1>12 DEF Loses, bonjourvars
  <2>2. \A c \in Channels : query'.name # ServiceOf(c)
    <3>1. query'.name = NoName
      BY <2>1 DEF NoQuery
    <3> QED
      BY <1>5, <3>1
  <2>3. ASSUME NEW c \in Channels, DealtWith(c, published, query, missed, told, script)
        PROVE  DealtWith(c, published, query', missed', told', script)
    BY <2>1, <2>2, <2>3 DEF DealtWith
  <2> QED
    BY <1>2, <2>1, <2>3 DEF NewsInv
<1>13. Script => NewsInv'
  BY <1>7, <1>8, <1>9, <1>10, <1>11, <1>12, ScriptSteps
<1> QED
  BY <1>3, <1>4, <1>13, BonjourSteps, NewsEnds, NewsBegins

LEMMA NewsInit == Init => NewsInv
<1> SUFFICES ASSUME Init PROVE NewsInv
  OBVIOUS
<1>1. \A c \in Channels : NoName # ServiceOf(c)
  BY NoNames
<1>2. \A c \in Channels : Holder(published, ServiceOf(c)) = NoDevice
  BY <1>1, HolderProperties DEF Init
<1>3. query.name = NoName
  BY DEF Init, NoQuery
<1>4. \A i : ~IsLast(events, i)
  BY EmptySeq DEF Init, IsLast
<1>5. OneEach(published) /\ \A d \in Devices : publishing[d] # 0 => published[d] = NoName
  BY DEF Init, OneEach
<1>6. ASSUME NEW c \in Channels PROVE DealtWith(c, published, query, missed, told, script)
  <2>1. told[c] = NoDevice
    BY DEF Init
  <2> QED
    BY <1>1, <1>2, <1>3, <2>1 DEF DealtWith
<1> QED
  BY <1>4, <1>5, <1>6 DEF NewsInv, LastIsTrue

LEMMA SettledProperties ==
  ASSUME SessionTypeInv, NewsInv, Settled, NEW c \in Channels
  PROVE  /\ NoneOn(events, ServiceOf(c)) /\ query.name # ServiceOf(c)
         /\ ServiceOf(c) \notin missed /\ (Owner(ServiceOf(c)) # NoDevice \/ script = "server.py")
              => told[c] = Owner(ServiceOf(c))
<1>1. NoneOn(events, ServiceOf(c))
  BY EmptySeq DEF Settled, NoneOn
<1>2. query.name # ServiceOf(c)
  BY NoNames DEF Settled, NoQuery
<1>3. DealtWith(c, published, query, missed, told, script)
  BY <1>1 DEF NewsInv
<1> QED
  BY <1>1, <1>2, <1>3, OwnerIsHolder DEF DealtWith

\* Once the script has heard all news, whoever publishes a channel is whom it has told
\* the patch to serve, unless it could not resolve the name: for any devices and
\* channels and either script, however the name was shared, taken over or given back.
THEOREM ScriptTellsWhoIsThere == Spec => []TellsWhoIsThere
<1>1. SessionTypeInv /\ NewsInv /\ [Next]_vars => NewsInv'
  BY NewsStep
<1>2. SessionTypeInv /\ NewsInv => TellsWhoIsThere
  BY SettledProperties DEF TellsWhoIsThere
<1> QED
  BY <1>1, <1>2, NewsInit, SessionTypeInit, SessionTypeStep, PTL DEF Spec

-----------------------------------------------------------------------------
(* With server.py, only the script talks to the patch.  The news of a name *)
(* are in turn that it is added and that it is removed, and so the         *)
(* messages are in turn to connect and to disconnect; each finds its       *)
(* udpsend~ at rest, unless it has crossed with an earlier one.            *)

\* The script knows of no one who publishes the channel c.
Awaits(c, asks, says) == asks.name # ServiceOf(c) /\ says[c] = NoDevice

NewsTurn(news) == \A i, j : Follows(news, i, j) => (news[j].add <=> ~news[i].add)

FirstNews(news, asks, says, lost) ==
  \A i : IsFirst(news, i) =>
    \A c \in Channels :
      news[i].name = ServiceOf(c) /\ ServiceOf(c) \notin lost => (news[i].add <=> Awaits(c, asks, says))

ServerAlone == air = {} /\ \A d \in Devices : ~serverIP[d]

ServerNews ==
  /\ alive \/ query = NoQuery
  /\ missed = {} \/ ~alive
  /\ \A c \in Channels : query.name = ServiceOf(c) => told[c] = NoDevice
  /\ NewsTurn(events)
  /\ FirstNews(events, query, told, missed)

\* Whom an object serves, or is about to.
Target(o) == IF o.phase = "trying" THEN o.asked ELSE o.to

MessagesTurn(msgs, says) ==
  \A c \in Channels :
    /\ \A i, j : Follows(msgs, i, j) /\ msgs[i].name = ServiceOf(c) =>
         (msgs[j].to = NoDevice <=> msgs[i].to # NoDevice)
    /\ \A i : IsLast(msgs, i) /\ msgs[i].name = ServiceOf(c) => msgs[i].to = says[c]

\* The messages for the channel c lead from what its object o does to what was told.
LeadsOn(c, msgs, o, says) ==
  /\ NoneOn(msgs, ServiceOf(c)) => Target(o) = says[c]
  /\ \A i : IsFirst(msgs, i) /\ msgs[i].name = ServiceOf(c) =>
       (msgs[i].to = NoDevice <=> Target(o) # NoDevice)

ServerPatch ==
  /\ MessagesTurn(patchIn, told)
  /\ \A c \in Channels : c \notin crossed => LeadsOn(c, patchIn, stream[c], told)

ServerInv == script = "server.py" => ServerAlone /\ ServerNews /\ ServerPatch /\ ServesAt(DEFAULT_PORT)

LEMMA AloneStep ==
  ASSUME SessionTypeInv, ServerAlone, script = "server.py", [Next]_vars
  PROVE  ServerAlone'
<1>1. /\ air = {} /\ \A d \in Devices : ~serverIP[d] /\ serverIP[d] = FALSE
      /\ serverIP \in [Devices -> BOOLEAN]
  BY DEF ServerAlone, SessionTypeInv, TypeOK
<1>2. Send({}) => air' = {}
  BY <1>1, SentProperties
<1>3. ASSUME NEW d \in Devices, ConnectButton(d) \/ DisconnectButton(d)
             \/ (\E b \in [major : Majors, minor : Channels] : RangeBeacons(d, b))
      PROVE  air' = {} /\ UNCHANGED serverIP
  <2>1. \A ms : ClientSends(d, ms) => Send({})
    BY <1>1 DEF ClientSends
  <2> QED
    BY <1>2, <1>3, <2>1 DEF ConnectButton, DisconnectButton, RangeBeacons, Switch, appvars
<1>4. ASSUME NEW d \in Devices, TakeMessage(d) PROVE FALSE
  BY <1>1, <1>4 DEF TakeMessage
<1>5. ASSUME NEW d \in Devices, Leave(d) PROVE ServerAlone'
  <2>1. serverIP' = [serverIP EXCEPT ![d] = FALSE] /\ air' = air
    BY <1>5 DEF Leave
  <2> QED
    BY <1>1, <2>1 DEF ServerAlone
<1>6. ASSUME NEW d \in Devices, AdvertiseButton(d) \/ Bonjour(d) \/ \E c \in Channels : ChannelButton(d, c)
      PROVE  UNCHANGED <<air, serverIP>>
  BY <1>6 DEF AdvertiseButton, Bonjour, Publish, DidNotPublish, ChannelButton, appvars
<1>7. ASSUME Script \/ PatchFromScript \/ (\E c \in Channels : Connector(c)) \/ UNCHANGED vars
      PROVE  UNCHANGED <<air, serverIP>>
  <2>1. Script => Resolve \/ AddService \/ RemoveService
    BY DEF Script, BrowseAdded, BrowseRemoved
  <2>2. Resolve \/ AddService \/ RemoveService => UNCHANGED <<air, serverIP>>
    BY DEF Resolve, AddService, RemoveService, NextEvent, Resolved, appvars
  <2>3. (PatchFromScript \/ (\E c \in Channels : Connector(c)) \/ UNCHANGED vars)
          => UNCHANGED <<air, serverIP>>
    BY DEF PatchFromScript, Connector, vars, appvars
  <2>4. CASE Script
    BY <2>1, <2>2, <2>4
  <2>5. CASE PatchFromScript \/ (\E c \in Channels : Connector(c)) \/ UNCHANGED vars
    BY <2>3, <2>5
  <2> QED
    BY <1>7, <2>4, <2>5
<1>8. ~\E m \in air : PatchFromDevice(m)
  BY <1>1
<1>9. UNCHANGED <<air, serverIP>> => ServerAlone'
  BY <1>1 DEF ServerAlone
<1>10. air' = {} /\ UNCHANGED serverIP => ServerAlone'
  BY <1>1 DEF ServerAlone
<1> QED
  BY <1>3, <1>4, <1>5, <1>6, <1>7, <1>8, <1>9, <1>10 DEF Next, User

LEMMA ServerEnds ==
  ASSUME SessionTypeInv, NewsInv, ServerNews, NEW d \in Devices, NEW ch, Ends(d, ch), UNCHANGED scriptvars,
         script = "server.py"
  PROVE  ServerNews'
<1> DEFINE m == published[d]
           e == [add |-> FALSE, name |-> m]
<1>1. /\ published \in Holdings /\ events \in Seq(News)
      /\ IF m = NoName THEN events' = events ELSE events' = Append(events, e)
      /\ UNCHANGED <<alive, query, missed, told>>
  BY DEF SessionTypeInv, TypeOK, Holdings, News, Ends, Unpublish, scriptvars
<1>2. CASE m = NoName
  BY <1>1, <1>2 DEF ServerNews
<1>3. CASE m # NoName
  <2>1. e \in News /\ e.name = m /\ ~e.add
    BY <1>1, <1>3 DEF News, Holdings
  <2>2. events' = Append(events, e) /\ Holder(published, m) = d /\ d # NoDevice
    BY <1>1, <1>3, HolderProperties, NoNames DEF NewsInv
  <2> HIDE DEF e
  <2>3. Appends(events', events, e)
    BY <1>1, <2>1, <2>2, AppendedOrder
  <2>4. ASSUME NEW i, NEW j, Follows(events', i, j) PROVE events'[j].add <=> ~events'[i].add
    <3>1. CASE Follows(events, i, j) /\ events'[i] = events[i] /\ events'[j] = events[j]
      BY <3>1 DEF ServerNews, NewsTurn
    <3>2. CASE IsLast(events, i) /\ events'[i] = events[i] /\ events[i].name = m /\ events'[j] = e
      <4>1. events[i].add
        BY <2>2, <3>2 DEF NewsInv, LastIsTrue
      <4> QED
        BY <2>1, <3>2, <4>1
    <3> QED
      BY <2>1, <2>3, <2>4, <3>1, <3>2 DEF Appends
  <2>5. ASSUME NEW i, IsFirst(events', i), NEW c \in Channels, events'[i].name = ServiceOf(c),
               ServiceOf(c) \notin missed
        PROVE  events'[i].add <=> Awaits(c, query, told)
    <3>1. CASE IsFirst(events, i) /\ events'[i] = events[i]
      BY <2>5, <3>1 DEF ServerNews, FirstNews
    <3>2. CASE NoneOn(events, m) /\ events'[i] = e
      <4>1. m = ServiceOf(c)
        BY <2>1, <2>5, <3>2
      <4>2. DealtWith(c, published, query, missed, told, script)
        BY <3>2, <4>1 DEF NewsInv
      <4>3. ~Awaits(c, query, told)
        BY <2>2, <2>5, <4>1, <4>2 DEF DealtWith, Awaits
      <4> QED
        BY <2>1, <3>2, <4>3
    <3> QED
      BY <2>1, <2>3, <2>5, <3>1, <3>2 DEF Appends
  <2> QED
    BY <1>1, <2>4, <2>5 DEF ServerNews, NewsTurn, FirstNews
<1> QED
  BY <1>2, <1>3

LEMMA ServerBegins ==
  ASSUME SessionTypeInv, NewsInv, ServerNews, NEW d \in Devices, NEW m \in Names, Begins(d, m),
         UNCHANGED scriptvars, script = "server.py"
  PROVE  ServerNews'
<1> DEFINE e == [add |-> TRUE, name |-> m]
<1>1. /\ events \in Seq(News) /\ query \in Queries
      /\ events' = Append(events, e)
      /\ UNCHANGED <<alive, query, missed, told>>
      /\ Holder(published, m) = NoDevice
  BY OwnerIsHolder DEF SessionTypeInv, TypeOK, News, Queries, Begins, scriptvars
<1>2. e \in News /\ e.name = m /\ e.add
  BY DEF News
<1> HIDE DEF e
<1>3. Appends(events', events, e)
  BY <1>1, <1>2, AppendedOrder
<1>4. ASSUME NEW i, NEW j, Follows(events', i, j) PROVE events'[j].add <=> ~events'[i].add
  <2>1. CASE Follows(events, i, j) /\ events'[i] = events[i] /\ events'[j] = events[j]
    BY <2>1 DEF ServerNews, NewsTurn
  <2>2. CASE IsLast(events, i) /\ events'[i] = events[i] /\ events[i].name = m /\ events'[j] = e
    <3>1. ~events[i].add
      BY <1>1, <2>2 DEF NewsInv, LastIsTrue
    <3> QED
      BY <1>2, <2>2, <3>1
  <2> QED
    BY <1>2, <1>3, <1>4, <2>1, <2>2 DEF Appends
<1>5. ASSUME NEW i, IsFirst(events', i), NEW c \in Channels, events'[i].name = ServiceOf(c),
             ServiceOf(c) \notin missed
      PROVE  events'[i].add <=> Awaits(c, query, told)
  <2>1. CASE IsFirst(events, i) /\ events'[i] = events[i]
    BY <1>5, <2>1 DEF ServerNews, FirstNews
  <2>2. CASE NoneOn(events, m) /\ events'[i] = e
    <3>1. m = ServiceOf(c)
      BY <1>2, <1>5, <2>2
    <3>2. DealtWith(c, published, query, missed, told, script)
      BY <2>2, <3>1 DEF NewsInv
    <3>3. query.name = m => query.address # NoDevice
      BY <1>1, QueryProperties, NoNames
    <3>4. Awaits(c, query, told)
      BY <1>1, <1>5, <3>1, <3>2, <3>3 DEF DealtWith, Awaits
    <3> QED
      BY <1>2, <2>2, <3>4
  <2> QED
    BY <1>2, <1>3, <1>5, <2>1, <2>2 DEF Appends
<1> QED
  BY <1>1, <1>4, <1>5 DEF ServerNews, NewsTurn, FirstNews

LEMMA ServerHeard ==
  ASSUME SessionTypeInv, ServerNews, Heard, NEW m, m = Head(events).name,
         missed \subseteq missed',
         \A c \in Channels : ServiceOf(c) # m => (Awaits(c, query', told') <=> Awaits(c, query, told)),
         \A c \in Channels : ServiceOf(c) = m /\ ServiceOf(c) \notin missed' =>
           (Awaits(c, query', told') <=> ~Head(events).add)
  PROVE  NewsTurn(events') /\ FirstNews(events', query', told', missed')
<1> DEFINE h == Head(events)
<1>1. events \in Seq(News) /\ events # <<>> /\ events' = Tail(events)
  BY DEF SessionTypeInv, TypeOK, News, Heard
<1>2. /\ h = events[1]
      /\ \A i : IsFirst(events', i) =>
           \/ IsFirst(events, i + 1) /\ events'[i] = events[i + 1] /\ events'[i].name # h.name
           \/ Follows(events, 1, i + 1) /\ events'[i] = events[i + 1] /\ events'[i].name = h.name
      /\ \A i, j : Follows(events', i, j) =>
           Follows(events, i + 1, j + 1) /\ events'[i] = events[i + 1] /\ events'[j] = events[j + 1]
  <2>1. Pops(events', events, h)
    BY <1>1, PoppedOrder
  <2> QED
    BY <2>1 DEF Pops
<1>3. NewsTurn(events')
  BY <1>2 DEF ServerNews, NewsTurn
<1>4. ASSUME NEW i, IsFirst(events', i), NEW c \in Channels, events'[i].name = ServiceOf(c),
             ServiceOf(c) \notin missed'
      PROVE  events'[i].add <=> Awaits(c, query', told')
  <2>1. CASE IsFirst(events, i + 1) /\ events'[i] = events[i + 1] /\ events'[i].name # h.name
    <3>1. events[i + 1].add <=> Awaits(c, query, told)
      BY <1>4, <2>1 DEF ServerNews, FirstNews
    <3> QED
      BY <1>4, <2>1, <3>1
  <2>2. CASE Follows(events, 1, i + 1) /\ events'[i] = events[i + 1] /\ events'[i].name = h.name
    <3>1. events[i + 1].add <=> ~h.add
      BY <1>2, <2>2 DEF ServerNews, NewsTurn
    <3> QED
      BY <1>4, <2>2, <3>1
  <2> QED
    BY <1>2, <1>4, <2>1, <2>2
<1> QED
  BY <1>3, <1>4 DEF FirstNews

\* What the script's next step meets: a service that is added is awaited, and one that
\* is removed is not.
LEMMA ServerMeets ==
  ASSUME SessionTypeInv, ServerNews, Heard, NEW c \in Channels, Head(events).name = ServiceOf(c)
  PROVE  missed = {} /\ (Head(events).add <=> told[c] = NoDevice)
<1>1. events \in Seq(News) /\ events # <<>> /\ missed = {} /\ query = NoQuery /\ query \in Queries
  BY DEF SessionTypeInv, TypeOK, News, Heard, ServerNews, Queries
<1>2. IsFirst(events, 1) /\ Head(events) = events[1]
  BY <1>1, PoppedOrder DEF Pops
<1>3. query.name # ServiceOf(c)
  BY <1>1, QueryProperties, NoNames
<1>4. events[1].add <=> Awaits(c, query, told)
  BY <1>1, <1>2 DEF ServerNews, FirstNews
<1> QED
  BY <1>1, <1>2, <1>3, <1>4 DEF Awaits

LEMMA ServerNewsStep ==
  ASSUME SessionTypeInv, NewsInv, ServerNews, script = "server.py", [Next]_vars
  PROVE  ServerNews'
<1>1. query \in Queries /\ told \in [Channels -> Devices \cup {NoDevice}]
  BY DEF SessionTypeInv, TypeOK, Queries
<1>2. \A c \in Channels : ServiceOf(c) # NoName
  BY NoNames
<1>3. query = NoQuery => \A c \in Channels : query.name # ServiceOf(c)
  BY <1>1, <1>2, QueryProperties
<1>4. UNCHANGED <<bonjourvars, scriptvars>> => ServerNews'
  BY DEF bonjourvars, scriptvars, ServerNews
<1>5. UNCHANGED events /\ UNCHANGED scriptvars => ServerNews'
  BY DEF scriptvars, ServerNews
<1>6. ASSUME NEW m \in Names, Finds(m) PROVE ServerNews'
  <2>1. /\ query = NoQuery /\ alive /\ Heard /\ m = Head(events).name /\ Head(events).add
        /\ query' = [name |-> m, address |-> Owner(m)]
        /\ UNCHANGED <<alive, missed, told>>
    BY <1>6 DEF Finds, Heard
  <2>2. query'.name = m
    BY <2>1
  <2>3. \A c \in Channels : ServiceOf(c) # m => (Awaits(c, query', told') <=> Awaits(c, query, told))
    BY <1>3, <2>1, <2>2 DEF Awaits
  <2>4. \A c \in Channels : ServiceOf(c) = m => (Awaits(c, query', told') <=> ~Head(events).add)
    BY <2>1, <2>2 DEF Awaits
  <2>5. NewsTurn(events') /\ FirstNews(events', query', told', missed')
    BY <2>1, <2>3, <2>4, ServerHeard
  <2>6. \A c \in Channels : query'.name = ServiceOf(c) => told'[c] = NoDevice
    BY <2>1, <2>2, ServerMeets
  <2> QED
    BY <2>1, <2>5, <2>6 DEF ServerNews
<1>7. ASSUME NEW m \in Names, Misses(m) PROVE ServerNews'
  <2>1. /\ query = NoQuery /\ Heard /\ m = Head(events).name
        /\ ~alive' /\ missed' = missed \cup {m}
        /\ UNCHANGED <<query, told>>
    BY <1>7 DEF Misses, Heard
  <2>2. NewsTurn(events') /\ FirstNews(events', query', told', missed')
    BY <2>1, ServerHeard
  <2> QED
    BY <1>3, <2>1, <2>2 DEF ServerNews
<1>8. ASSUME NEW m \in Names, Removes(m, 1) PROVE ServerNews'
  <2>1. /\ query = NoQuery /\ Heard /\ m = Head(events).name /\ ~Head(events).add
        /\ TellPatch(m, NoDevice, 1) /\ 1 \in Nat /\ missed = {}
        /\ UNCHANGED <<query, missed>>
    BY <1>8 DEF ServerNews, Removes, Heard
  <2>2. ASSUME NEW c \in Channels
        PROVE  /\ ServiceOf(c) # m => told'[c] = told[c]
               /\ ServiceOf(c) = m => told'[c] = NoDevice
    BY <1>1, <2>1, ToldOf
  <2>3. \A c \in Channels : ServiceOf(c) # m => (Awaits(c, query', told') <=> Awaits(c, query, told))
    BY <2>1, <2>2 DEF Awaits
  <2>4. \A c \in Channels : ServiceOf(c) = m => (Awaits(c, query', told') <=> ~Head(events).add)
    BY <1>3, <2>1, <2>2 DEF Awaits
  <2>5. NewsTurn(events') /\ FirstNews(events', query', told', missed')
    BY <2>1, <2>3, <2>4, ServerHeard
  <2> QED
    BY <1>3, <2>1, <2>5 DEF ServerNews
<1>9. ASSUME Adds PROVE ServerNews'
  <2>1. /\ query # NoQuery /\ query' = NoQuery /\ missed' = missed \ {query.name}
        /\ query.name \in Names /\ query.address \in Devices
        /\ TellPatch(query.name, query.address, 1) /\ 1 \in Nat
        /\ UNCHANGED events
    BY <1>1, <1>9, QueryProperties DEF Adds, bonjourvars
  <2>2. missed = {} /\ missed' = {}
    BY <2>1 DEF ServerNews
  <2>3. \A c \in Channels : query'.name # ServiceOf(c)
    <3>1. query'.name = NoName
      BY <2>1 DEF NoQuery
    <3> QED
      BY <1>2, <3>1
  <2>4. ASSUME NEW c \in Channels PROVE Awaits(c, query', told') <=> Awaits(c, query, told)
    <3>1. /\ ServiceOf(c) # query.name => told'[c] = told[c]
          /\ ServiceOf(c) = query.name => told'[c] = query.address
      BY <1>1, <2>1, ToldOf
    <3>2. query.address # NoDevice
      BY <2>1, NoNames
    <3> QED
      BY <2>3, <3>1, <3>2 DEF Awaits
  <2>5. FirstNews(events', query', told', missed')
    BY <2>1, <2>2, <2>4 DEF ServerNews, FirstNews
  <2> QED
    BY <2>1, <2>2, <2>3, <2>5 DEF ServerNews
<1>10. Script => ServerNews'
  BY <1>6, <1>7, <1>8, <1>9, ScriptSteps DEF Ignores, Loses
<1> QED
  BY <1>4, <1>5, <1>10, BonjourSteps, ServerEnds, ServerBegins

\* The script says the other thing than what it said of the channel last.
LEMMA ServerTells ==
  ASSUME SessionTypeInv, ServerPatch, NEW n \in Names, NEW d \in Devices \cup {NoDevice}, TellPatch(n, d, 1),
         \A c \in Channels : ServiceOf(c) = n => (d = NoDevice <=> told[c] # NoDevice),
         UNCHANGED patchvars
  PROVE  ServerPatch'
<1> DEFINE m == ToPatch(n, d)
<1>1. patchIn \in Seq(Messages) /\ told \in [Channels -> Devices \cup {NoDevice}] /\ 1 \in Nat
  BY DEF SessionTypeInv, TypeOK, Messages
<1>2. m \in Messages /\ m.name = n /\ m.to = d
  BY DEF ToPatch, Messages
<1>3. patchIn' = Append(patchIn, m)
  BY <1>1, <1>2, ToldProperties
<1>4. \A c \in Channels : /\ ServiceOf(c) # n => told'[c] = told[c]
                          /\ ServiceOf(c) = n => told'[c] = d
  BY <1>1, ToldOf
<1> HIDE DEF m
<1>5. Appends(patchIn', patchIn, m)
  BY <1>1, <1>2, <1>3, AppendedOrder
<1>6. MessagesTurn(patchIn, told) /\ \A c \in Channels : c \notin crossed => LeadsOn(c, patchIn, stream[c], told)
  BY DEF ServerPatch
<1>7. ASSUME NEW c \in Channels, NEW i, NEW j, Follows(patchIn', i, j), patchIn'[i].name = ServiceOf(c)
      PROVE  patchIn'[j].to = NoDevice <=> patchIn'[i].to # NoDevice
  <2>1. CASE Follows(patchIn, i, j) /\ patchIn'[i] = patchIn[i] /\ patchIn'[j] = patchIn[j]
    BY <1>6, <1>7, <2>1 DEF MessagesTurn
  <2>2. CASE IsLast(patchIn, i) /\ patchIn'[i] = patchIn[i] /\ patchIn[i].name = n /\ patchIn'[j] = m
    <3>1. patchIn[i].to = told[c]
      BY <1>6, <1>7, <2>2 DEF MessagesTurn
    <3> QED
      BY <1>2, <1>7, <2>2, <3>1
  <2> QED
    BY <1>2, <1>5, <1>7, <2>1, <2>2 DEF Appends
<1>8. ASSUME NEW c \in Channels, NEW i, IsLast(patchIn', i), patchIn'[i].name = ServiceOf(c)
      PROVE  patchIn'[i].to = told'[c]
  <2>1. CASE IsLast(patchIn, i) /\ patchIn'[i] = patchIn[i] /\ patchIn[i].name # n
    BY <1>4, <1>6, <1>8, <2>1 DEF MessagesTurn
  <2>2. CASE patchIn'[i] = m
    BY <1>2, <1>4, <1>8, <2>2
  <2> QED
    BY <1>2, <1>5, <1>8, <2>1, <2>2 DEF Appends
<1>9. ASSUME NEW c \in Channels, c \notin crossed PROVE LeadsOn(c, patchIn', stream[c], told')
  <2>1. LeadsOn(c, patchIn, stream[c], told)
    BY <1>6, <1>9
  <2>2. ASSUME NoneOn(patchIn', ServiceOf(c)) PROVE Target(stream[c]) = told'[c]
    <3>1. NoneOn(patchIn, ServiceOf(c)) /\ ServiceOf(c) # n
      BY <1>2, <1>5, <2>2 DEF Appends
    <3> QED
      BY <1>4, <2>1, <3>1 DEF LeadsOn
  <2>3. ASSUME NEW i, IsFirst(patchIn', i), patchIn'[i].name = ServiceOf(c)
        PROVE  patchIn'[i].to = NoDevice <=> Target(stream[c]) # NoDevice
    <3>1. CASE IsFirst(patchIn, i) /\ patchIn'[i] = patchIn[i]
      BY <2>1, <2>3, <3>1 DEF LeadsOn
    <3>2. CASE NoneOn(patchIn, n) /\ patchIn'[i] = m
      <4>1. ServiceOf(c) = n /\ Target(stream[c]) = told[c]
        BY <1>2, <2>1, <2>3, <3>2 DEF LeadsOn
      <4> QED
        BY <1>2, <3>2, <4>1
    <3> QED
      BY <1>2, <1>5, <2>3, <3>1, <3>2 DEF Appends
  <2> QED
    BY <2>2, <2>3 DEF LeadsOn
<1> QED
  BY <1>7, <1>8, <1>9 DEF ServerPatch, MessagesTurn, patchvars

\* An object at rest that is told the other thing than what it does, does it.
LEMMA TakenTarget ==
  ASSUME NEW o \in Objects, NEW m, m.to \in Devices \cup {NoDevice}, ~Busy(o),
         m.to = NoDevice <=> Target(o) # NoDevice
  PROVE  Target(Taken(o, m)) = m.to
<1>1. o.phase = "rest" /\ Target(o) = o.to
  BY DEF Busy, Target
<1>2. CASE m.to = NoDevice
  <2>1. Taken(o, m) = [o EXCEPT !.to = NoDevice]
    BY <1>2 DEF Taken, TakeDisconnect, NoDevice
  <2>2. Taken(o, m).phase = "rest" /\ Taken(o, m).to = NoDevice
    BY <1>1, <2>1 DEF Objects
  <2> QED
    BY <1>2, <2>2 DEF Target
<1>3. CASE m.to # NoDevice
  <2>1. Taken(o, m) = [phase |-> "trying", to |-> NoHost, asked |-> m.to]
    BY <1>1, <1>3 DEF Taken, TakeConnect, Accepts, NoDevice
  <2> QED
    BY <2>1 DEF Target
<1> QED
  BY <1>2, <1>3

\* The first message is taken; s is the list of the others with it, t without it.
LEMMA TurnPopped ==
  ASSUME NEW s, NEW t, NEW h, Pops(t, s, h), NEW says, MessagesTurn(s, says)
  PROVE  MessagesTurn(t, says)
<1>1. ASSUME NEW c \in Channels, NEW i, NEW j, Follows(t, i, j), t[i].name = ServiceOf(c)
      PROVE  t[j].to = NoDevice <=> t[i].to # NoDevice
  <2>1. Follows(s, i + 1, j + 1) /\ t[i] = s[i + 1] /\ t[j] = s[j + 1]
    BY <1>1 DEF Pops
  <2> QED
    BY <1>1, <2>1 DEF MessagesTurn
<1>2. ASSUME NEW c \in Channels, NEW i, IsLast(t, i), t[i].name = ServiceOf(c)
      PROVE  t[i].to = says[c]
  <2>1. IsLast(s, i + 1) /\ t[i] = s[i + 1]
    BY <1>2 DEF Pops
  <2> QED
    BY <1>2, <2>1 DEF MessagesTurn
<1> QED
  BY <1>1, <1>2 DEF MessagesTurn

\* It is for another channel.
LEMMA LeadsOnWithout ==
  ASSUME NEW s, NEW t, NEW h, Pops(t, s, h), NEW says, NEW c \in Channels, NEW o,
         LeadsOn(c, s, o, says), h.name # ServiceOf(c)
  PROVE  LeadsOn(c, t, o, says)
<1>1. NoneOn(t, ServiceOf(c)) => NoneOn(s, ServiceOf(c))
  BY DEF Pops
<1>2. ASSUME NEW i, IsFirst(t, i), t[i].name = ServiceOf(c)
      PROVE  t[i].to = NoDevice <=> Target(o) # NoDevice
  <2>1. IsFirst(s, i + 1) /\ t[i] = s[i + 1]
    BY <1>2 DEF Pops
  <2> QED
    BY <1>2, <2>1 DEF LeadsOn
<1> QED
  BY <1>1, <1>2 DEF LeadsOn

\* It is for the channel of the object o, which is at rest.
LEMMA LeadsOnTaken ==
  ASSUME NEW s, NEW t, NEW h, Pops(t, s, h), NEW says, NEW c \in Channels, NEW o \in Objects, ~Busy(o),
         h.to \in Devices \cup {NoDevice}, MessagesTurn(s, says), LeadsOn(c, s, o, says),
         h.name = ServiceOf(c)
  PROVE  LeadsOn(c, t, Taken(o, h), says)
<1>1. IsFirst(s, 1) /\ h = s[1]
  BY DEF Pops
<1>2. h.to = NoDevice <=> Target(o) # NoDevice
  BY <1>1 DEF LeadsOn
<1>3. Target(Taken(o, h)) = h.to
  BY <1>2, TakenTarget
<1>4. ASSUME NoneOn(t, ServiceOf(c)) PROVE h.to = says[c]
  <2>1. ~NoneOn(s, ServiceOf(c))
    BY <1>1 DEF NoneOn, IsFirst
  <2>2. IsLast(s, 1)
    BY <1>4, <2>1 DEF Pops
  <2> QED
    BY <1>1, <2>2 DEF MessagesTurn
<1>5. ASSUME NEW i, IsFirst(t, i), t[i].name = ServiceOf(c)
      PROVE  t[i].to = NoDevice <=> h.to # NoDevice
  <2>1. Follows(s, 1, i + 1) /\ t[i] = s[i + 1]
    BY <1>5 DEF Pops
  <2> QED
    BY <1>1, <2>1 DEF MessagesTurn
<1> QED
  BY <1>3, <1>4, <1>5 DEF LeadsOn

LEMMA ServerTaken ==
  ASSUME SessionTypeInv, ServerPatch, patchIn # <<>>, patchIn' = Tail(patchIn),
         Take(Head(patchIn), PortInMessages),
         Head(patchIn).name \in Names, Head(patchIn).to \in Devices \cup {NoDevice}, UNCHANGED told
  PROVE  ServerPatch'
<1> DEFINE h == Head(patchIn)
           k == h.name.ch
<1>1. /\ patchIn \in Seq(Messages) /\ stream \in [Channels -> Objects]
      /\ k \in Channels
  BY NoNames DEF SessionTypeInv, TypeOK, Messages
<1>2. \/ h.name # ServiceOf(k) /\ UNCHANGED <<stream, crossed>>
      \/ /\ h.name = ServiceOf(k)
         /\ stream' = [stream EXCEPT ![k] = Taken(stream[k], h)]
         /\ crossed' = IF Busy(stream[k]) THEN crossed \cup {k} ELSE crossed
  BY <1>1, TakeProperties DEF patchvars
<1>3. Pops(patchIn', patchIn, h) /\ h.to \in Devices \cup {NoDevice}
  BY <1>1, PoppedOrder
<1>4. \A c \in Channels : h.name = ServiceOf(c) => c = k
  BY DEF ServiceOf
<1> HIDE DEF h, k
<1>5. MessagesTurn(patchIn, told) /\ \A c \in Channels : c \notin crossed => LeadsOn(c, patchIn, stream[c], told)
  BY DEF ServerPatch
<1>6. MessagesTurn(patchIn', told)
  BY <1>3, <1>5, TurnPopped
<1>7. ASSUME NEW c \in Channels, c \notin crossed' PROVE LeadsOn(c, patchIn', stream'[c], told)
  <2>1. CASE c = k /\ h.name = ServiceOf(k)
    <3>1. c \notin crossed /\ ~Busy(stream[c]) /\ stream'[c] = Taken(stream[c], h) /\ stream[c] \in Objects
      BY <1>1, <1>2, <1>7, <2>1
    <3> QED
      BY <1>3, <1>5, <2>1, <3>1, LeadsOnTaken
  <2>2. CASE ~(c = k /\ h.name = ServiceOf(k))
    <3>1. c \notin crossed /\ h.name # ServiceOf(c) /\ stream'[c] = stream[c]
      BY <1>1, <1>2, <1>4, <1>7, <2>2
    <3> QED
      BY <1>3, <1>5, <3>1, LeadsOnWithout
  <2> QED
    BY <2>1, <2>2
<1> QED
  BY <1>6, <1>7 DEF ServerPatch

LEMMA ServerProgress ==
  ASSUME SessionTypeInv, ServerPatch, NEW c \in Channels, Connector(c), UNCHANGED <<patchIn, told>>
  PROVE  ServerPatch'
<1>1. stream \in [Channels -> Objects] /\ stream[c] \in Objects
  BY DEF SessionTypeInv, TypeOK
<1>2. PICK o \in Progress(stream[c]) :
        /\ stream' = [stream EXCEPT ![c] = o]
        /\ crossed' = IF stream[c].phase = "trying" /\ o = AtRest THEN crossed \cup {c} ELSE crossed
  BY DEF Connector
<1>3. c \notin crossed' => Target(o) = Target(stream[c])
  BY <1>1, <1>2 DEF Progress, Connected, Target, Objects
<1>4. ASSUME NEW k \in Channels, k \notin crossed' PROVE LeadsOn(k, patchIn, stream'[k], told)
  <2>1. k \notin crossed /\ Target(stream'[k]) = Target(stream[k])
    BY <1>1, <1>2, <1>3, <1>4
  <2>2. LeadsOn(k, patchIn, stream[k], told)
    BY <2>1 DEF ServerPatch
  <2> QED
    BY <2>1, <2>2 DEF LeadsOn
<1> QED
  BY <1>4 DEF ServerPatch

LEMMA ServerPatchStep ==
  ASSUME SessionTypeInv, ServerAlone, ServerNews, ServerPatch, script = "server.py", [Next]_vars
  PROVE  ServerPatch'
<1>1. query \in Queries
  BY DEF SessionTypeInv, TypeOK, Queries
<1>2. UNCHANGED <<patchvars, patchIn, told>> => ServerPatch'
  BY DEF ServerPatch, patchvars
<1>3. ASSUME Adds, UNCHANGED patchvars PROVE ServerPatch'
  <2>1. /\ query.name \in Names /\ query.address \in Devices
        /\ TellPatch(query.name, query.address, 1)
    BY <1>1, <1>3, QueryProperties DEF Adds
  <2>2. \A c \in Channels : ServiceOf(c) = query.name => (query.address = NoDevice <=> told[c] # NoDevice)
    BY <2>1, NoNames DEF ServerNews
  <2> QED
    BY <1>3, <2>1, <2>2, ServerTells
<1>4. ASSUME NEW n \in Names, Removes(n, 1), UNCHANGED patchvars PROVE ServerPatch'
  <2>1. Heard /\ ~Head(events).add /\ n = Head(events).name /\ TellPatch(n, NoDevice, 1)
    BY <1>4 DEF Removes
  <2>2. \A c \in Channels : ServiceOf(c) = n => (NoDevice = NoDevice <=> told[c] # NoDevice)
    BY <2>1, ServerMeets
  <2> QED
    BY <1>4, <2>1, <2>2, ServerTells
<1>5. Script /\ UNCHANGED patchvars => ServerPatch'
  <2>1. ASSUME NEW n \in Names, Finds(n) \/ Misses(n) \/ Ignores(n) PROVE UNCHANGED <<patchIn, told>>
    BY <2>1 DEF Finds, Misses, Ignores
  <2>2. ASSUME NEW n \in Names, NEW times \in Nat,
               Removes(n, times) /\ (script = "server.py" => times = 1)
        PROVE  Removes(n, 1)
    BY <2>2
  <2> QED
    BY <1>2, <1>3, <1>4, <2>1, <2>2, ScriptSteps DEF Loses
<1>6. air = {}
  BY DEF ServerAlone
<1> QED
  BY <1>2, <1>5, <1>6, PatchSteps, ServerTaken, ServerProgress DEF scriptvars

LEMMA ServerStep ==
  ASSUME SessionTypeInv, NewsInv, ServerInv, [Next]_vars
  PROVE  ServerInv'
<1>1. script' = script
  BY ScriptStays
<1>2. ASSUME script = "server.py"
      PROVE  ServerAlone' /\ ServerNews' /\ ServerPatch'
  BY <1>2, AloneStep, ServerNewsStep, ServerPatchStep DEF ServerInv
<1>3. ASSUME script = "server.py"
      PROVE  ServesAt(DEFAULT_PORT)'
  <2>1. DEFAULT_PORT = CreateMessage(PortInMessages) /\ air = {}
    BY <1>3 DEF CreateMessage, PortInMessages, ServerInv, ServerAlone
  <2> QED
    BY <1>3, <2>1, PortStep DEF ServerInv
<1> QED
  BY <1>1, <1>2, <1>3 DEF ServerInv

LEMMA ServerInit == Init => ServerInv
<1> SUFFICES ASSUME Init PROVE ServerInv
  OBVIOUS
<1>1. ServerAlone
  BY DEF Init, ServerAlone
<1>2. /\ \A i, j : ~IsFirst(<<>>, i) /\ ~IsLast(<<>>, i) /\ ~Follows(<<>>, i, j)
  BY EmptySeq DEF IsFirst, IsLast, Follows
<1>3. \A c \in Channels : told[c] = NoDevice
  BY DEF Init
<1>4. ServerNews
  BY <1>2, <1>3 DEF Init, ServerNews, NewsTurn, FirstNews
<1>5. ASSUME NEW c \in Channels PROVE Target(stream[c]) = told[c]
  BY <1>3 DEF Init, Target, AtRest, NoDevice
<1>6. ServerPatch
  BY <1>2, <1>5 DEF Init, ServerPatch, MessagesTurn, LeadsOn
<1> QED
  BY <1>1, <1>4, <1>6, NobodyServed DEF ServerInv

\* With server.py, when all is said, each channel streams to the device that publishes
\* it and to no one else, for any devices and channels, unless a message met a udpsend~
\* that was busy, an attempt failed or a name was not resolved.  It streams to
\* udpsend~'s own port there, as the patch drops the one the script sends.
THEOREM ServerStreamsToOwner == Spec => []StreamsToOwner
<1>1. SessionTypeInv /\ NewsInv /\ [Next]_vars => NewsInv'
  BY NewsStep
<1>2. SessionTypeInv /\ NewsInv /\ ServerInv /\ [Next]_vars => ServerInv'
  BY ServerStep
<1>3. SessionTypeInv /\ NewsInv /\ ServerInv => StreamsToOwner
  <2>1. SUFFICES ASSUME SessionTypeInv, NewsInv, ServerInv, script = "server.py", Settled, patchIn = <<>>,
                        NEW c \in Channels, ~Busy(stream[c]), c \notin crossed, ServiceOf(c) \notin missed
                 PROVE  /\ stream[c].to = Owner(ServiceOf(c))
                        /\ stream[c].to # NoDevice => portno[c] = DEFAULT_PORT
    BY DEF StreamsToOwner
  <2>2. told[c] = Owner(ServiceOf(c))
    BY <2>1, SettledProperties
  <2>3. NoneOn(patchIn, ServiceOf(c))
    BY <2>1, EmptySeq DEF NoneOn
  <2>4. Target(stream[c]) = told[c]
    BY <2>1, <2>3 DEF ServerInv, ServerPatch, LeadsOn
  <2>5. Target(stream[c]) = stream[c].to
    BY <2>1 DEF Busy, Target
  <2>6. stream[c].to # NoDevice => portno[c] = DEFAULT_PORT
    BY <2>1 DEF ServerInv, ServesAt, Serves
  <2> QED
    BY <2>2, <2>4, <2>5, <2>6
<1> QED
  BY <1>1, <1>2, <1>3, NewsInit, ServerInit, SessionTypeInit, SessionTypeStep, PTL DEF Spec

-----------------------------------------------------------------------------
(* The frames that udpsend~ sends.                                         *)

LEMMA LengthIsNat == x_tag \in Tags => Length \in Nat /\ SizeOf(x_tag.format) \in 1..4
<1> SUFFICES ASSUME x_tag \in Tags PROVE Length \in Nat /\ SizeOf(x_tag.format) \in 1..4
  OBVIOUS
<1>1. SizeOf(x_tag.format) \in 1..4 /\ x_tag.channels \in Nat /\ BlockSize \in Nat
  BY FormatAssumption, SourceAssumption DEF SizeOf, Tags
<1>2. BlockSize * SizeOf(x_tag.format) \in Nat
  BY <1>1, MulMono
<1>3. Length \in Nat
  BY <1>1, <1>2, MulMono DEF Length
<1> QED
  BY <1>1, <1>3

\* The packets of a frame lie one behind the other, none is empty, and the last one ends
\* with the frame.
LEMMA PacketsFillFrame ==
  ASSUME x_tag \in Tags
  PROVE  /\ Packets \in Nat /\ (Packets = 0 <=> Length = 0)
         /\ \A i \in 1..Packets :
              /\ PacketLen(i) \in Nat \ {0} /\ (i - 1) * PacketSize \in Nat
              /\ (i - 1) * PacketSize + PacketLen(i) =
                   IF i = Packets THEN Length ELSE i * PacketSize
              /\ (i - 1) * PacketSize + PacketLen(i) <= Length
<1>1. Length \in Nat /\ PacketSize \in Nat \ {0}
  BY LengthIsNat, SourceAssumption
<1>2. /\ Packets \in Nat /\ Length <= Packets * PacketSize
      /\ Length > 0 => Packets > 0 /\ (Packets - 1) * PacketSize < Length
      /\ Length = 0 => Packets = 0
  BY <1>1, CeilingBounds DEF Packets
<1>3. ASSUME NEW i \in 1..Packets
      PROVE  /\ PacketLen(i) \in Nat \ {0} /\ (i - 1) * PacketSize \in Nat
             /\ (i - 1) * PacketSize + PacketLen(i) =
                  IF i = Packets THEN Length ELSE i * PacketSize
             /\ (i - 1) * PacketSize + PacketLen(i) <= Length
  <2>1. Length > 0 /\ Packets > 0
    BY <1>1, <1>2
  <2>2. /\ (i - 1) * PacketSize \in Nat /\ i * PacketSize \in Nat
        /\ i * PacketSize = (i - 1) * PacketSize + PacketSize
        /\ (i - 1) * PacketSize <= (Packets - 1) * PacketSize
    <3>1. i - 1 \in Nat /\ Packets - 1 \in Nat /\ i - 1 <= Packets - 1 /\ i \in Nat
      BY <1>2
    <3>2. (i - 1) * PacketSize <= (Packets - 1) * PacketSize /\ (i - 1) * PacketSize \in Nat
      BY <3>1, <1>1, MulMono
    <3>3. i * PacketSize \in Nat
      BY <3>1, <1>1, MulMono
    <3>4. i * PacketSize = (i - 1) * PacketSize + PacketSize
      BY <3>1, <1>1
    <3> QED
      BY <3>2, <3>3, <3>4
  <2>3. (Packets - 1) * PacketSize \in Int
    BY <1>1, <1>2
  <2>4. i # Packets => i * PacketSize <= (Packets - 1) * PacketSize
    BY <1>1, <1>2, MulMono
  <2>5. i = Packets => i * PacketSize = Packets * PacketSize
    OBVIOUS
  <2>6. CASE i * PacketSize <= Length
    <3>1. PacketLen(i) = PacketSize
      BY <2>6 DEF PacketLen
    <3>2. i = Packets => i * PacketSize = Length
      BY <1>1, <1>2, <2>2, <2>5, <2>6
    <3> QED
      BY <3>1, <3>2, <1>1, <2>2, <2>6
  <2>7. CASE ~(i * PacketSize <= Length)
    <3>1. PacketLen(i) = Length - (i - 1) * PacketSize
      BY <2>7 DEF PacketLen
    <3>2. i = Packets
      BY <2>7, <2>4, <2>1, <1>1, <1>2, <2>2, <2>3
    <3> QED
      BY <3>1, <3>2, <1>1, <1>2, <2>1, <2>2, <2>3
  <2> QED
    BY <2>6, <2>7
<1> QED
  BY <1>2, <1>3, <1>1

\* Any function that adds up the lengths gives the total.
LEMMA TotalLenIs ==
  ASSUME NEW s, Len(s) \in Nat,
         NEW f, f[0] = 0, \A n \in 1..Len(s) : f[n] = f[n - 1] + s[n].len
  PROVE  TotalLen(s) = f[Len(s)]
<1> DEFINE Step(g, n) == IF n = 0 THEN 0 ELSE g[n - 1] + s[n].len
           Solves(g) == g = [n \in 0..Len(s) |-> Step(g, n)]
           sum == CHOOSE g : Solves(g)
           h == [n \in 0..Len(s) |-> f[n]]
<1>1. Solves(h)
  <2>1. \A n \in 0..Len(s) : n # 0 => n - 1 \in 0..Len(s) /\ n \in 1..Len(s)
    OBVIOUS
  <2>2. ASSUME NEW n \in 0..Len(s) PROVE h[n] = Step(h, n)
    <3>1. n # 0 => h[n - 1] = f[n - 1]
      BY <2>1
    <3>2. h[n] = f[n]
      OBVIOUS
    <3> HIDE DEF h
    <3> QED
      BY <2>1, <3>1, <3>2
  <2>3. h = [n \in 0..Len(s) |-> h[n]]
    OBVIOUS
  <2> HIDE DEF h
  <2>4. [n \in 0..Len(s) |-> h[n]] = [n \in 0..Len(s) |-> Step(h, n)]
    BY <2>2
  <2> QED
    BY <2>3, <2>4
<1>2. Solves(sum)
  <2> HIDE DEF Solves, h
  <2> QED
    BY <1>1
<1>3. TotalLen(s) = sum[Len(s)]
  BY DEF TotalLen
<1> HIDE DEF sum, h
<1>4. \A n \in 0..Len(s) : sum[n] = Step(sum, n)
  BY <1>2
<1> DEFINE Wrong == {n \in 0..Len(s) : sum[n] # f[n]}
<1>5. Wrong = {}
  <2>1. SUFFICES ASSUME Wrong # {} PROVE FALSE
    OBVIOUS
  <2>2. PICK n \in Wrong : \A k \in Wrong : n <= k
    <3>1. Wrong \subseteq Nat
      OBVIOUS
    <3> HIDE DEF Wrong
    <3> QED
      BY <2>1, <3>1, LeastNatural
  <2>3. n # 0
    BY <1>4
  <2>4. n - 1 \in 0..Len(s) /\ n - 1 \notin Wrong
    BY <2>2, <2>3
  <2> QED
    BY <1>4, <2>3, <2>4
<1> QED
  BY <1>3, <1>5

\* What the tag announces is what the data amounts to.
LEMMA FrameDatagramsProperties ==
  ASSUME x_tag \in Tags
  PROVE  /\ Len(FrameDatagrams) = Packets + 1 /\ Packets \in Nat
         /\ FrameDatagrams[1] = Datagram("tag", 0, Length)
         /\ \A i \in 1..Packets :
              FrameDatagrams[i + 1] = Datagram("data", (i - 1) * PacketSize, PacketLen(i))
         /\ DOMAIN FrameDatagrams = 1..(Packets + 1)
         /\ Head(FrameDatagrams) = Datagram("tag", 0, Length)
         /\ Tail(FrameDatagrams) =
              [i \in 1..Packets |-> Datagram("data", (i - 1) * PacketSize, PacketLen(i))]
<1> DEFINE tag == Datagram("tag", 0, Length)
           D(i) == Datagram("data", (i - 1) * PacketSize, PacketLen(i))
           data == [i \in 1..Packets |-> D(i)]
<1>1. Packets \in Nat
  BY PacketsFillFrame
<1>2. FrameDatagrams = <<tag>> \o data
  BY DEF FrameDatagrams
<1> DEFINE All == {tag} \cup {D(i) : i \in 1..Packets}
<1>3. data \in Seq(All) /\ Len(data) = Packets /\ tag \in All
  <2> HIDE DEF D
  <2> QED
    BY <1>1
<1>4. \A i \in 1..Packets : data[i] = D(i)
  OBVIOUS
<1> HIDE DEF tag, data, D, All
<1>5. <<tag>> \in Seq(All) /\ Len(<<tag>>) = 1 /\ <<tag>>[1] = tag
  BY <1>3
<1>6. LET t == <<tag>> \o data IN
      /\ t \in Seq(All) /\ Len(t) = Packets + 1 /\ t[1] = tag
      /\ \A i \in 1..Packets : t[i + 1] = data[i]
      /\ DOMAIN t = 1..(Packets + 1)
  BY <1>1, <1>3, <1>5
<1>7. Head(<<tag>> \o data) = tag
  BY <1>6, <1>1
<1>8. Tail(<<tag>> \o data) = data
  <2> DEFINE t == <<tag>> \o data
  <2>1. Tail(t) = [i \in 1..Packets |-> t[i + 1]]
    <3>1. t \in Seq(All) /\ Len(t) = Packets + 1
      BY <1>6
    <3> HIDE DEF t
    <3>2. /\ Tail(t) \in Seq(All) /\ Len(Tail(t)) = Packets
          /\ \A i \in 1..Packets : Tail(t)[i] = t[i + 1]
      BY <3>1, <1>1
    <3>3. Tail(t) = [i \in 1..Len(Tail(t)) |-> Tail(t)[i]]
      <4> DEFINE u == Tail(t)
      <4>1. u \in [1..Len(u) -> All]
        BY <3>2, LenProperties
      <4> HIDE DEF u
      <4>2. u = [i \in 1..Len(u) |-> u[i]]
        BY <4>1
      <4> QED
        BY <4>2 DEF u
    <3> QED
      BY <3>2, <3>3
  <2>2. \A i \in 1..Packets : t[i + 1] = data[i]
    BY <1>6
  <2> HIDE DEF t
  <2>3. data = [i \in 1..Packets |-> data[i]]
    BY DEF data
  <2>4. [i \in 1..Packets |-> t[i + 1]] = [i \in 1..Packets |-> data[i]]
    BY <2>2
  <2>5. Tail(t) = data
    BY <2>1, <2>3, <2>4, Zenon
  <2> QED
    BY <2>5 DEF t
<1> QED
  BY <1>1, <1>2, <1>4, <1>6, <1>7, <1>8 DEF tag, D, data

LEMMA DataAddsUp == x_tag \in Tags => DataMatchesTag
<1> SUFFICES ASSUME x_tag \in Tags PROVE DataMatchesTag
  OBVIOUS
<1> DEFINE data == Tail(FrameDatagrams)
           f == [k \in 0..Packets |-> IF k = Packets THEN Length ELSE k * PacketSize]
<1>1. /\ Packets \in Nat /\ data = [i \in 1..Packets |->
                                       Datagram("data", (i - 1) * PacketSize, PacketLen(i))]
      /\ Head(FrameDatagrams) = Datagram("tag", 0, Length)
  BY FrameDatagramsProperties
<1>2. Len(data) = Packets /\ \A i \in 1..Packets : data[i].len = PacketLen(i)
  <2>1. \A at, len : Datagram("data", at, len).len = len
    BY DEF Datagram
  <2> HIDE DEF data
  <2> QED
    BY <1>1, <2>1
<1>3. Head(FrameDatagrams).len = Length
  BY <1>1 DEF Datagram
<1>4. f[0] = 0 /\ f[Packets] = Length
  BY <1>1, PacketsFillFrame, SourceAssumption
<1>5. ASSUME NEW n \in 1..Packets PROVE f[n] = f[n - 1] + data[n].len
  <2>1. f[n - 1] = (n - 1) * PacketSize
    BY <1>1
  <2>2. f[n] = IF n = Packets THEN Length ELSE n * PacketSize
    BY <1>1
  <2>3. (n - 1) * PacketSize + PacketLen(n) = IF n = Packets THEN Length ELSE n * PacketSize
    BY PacketsFillFrame
  <2>4. data[n].len = PacketLen(n)
    BY <1>2
  <2> HIDE DEF f, data
  <2> QED
    BY <2>1, <2>2, <2>3, <2>4
<1> HIDE DEF f, data
<1>6. TotalLen(data) = f[Packets]
  BY <1>1, <1>2, <1>4, <1>5, TotalLenIs
<1>7. TotalLen(Tail(FrameDatagrams)) = Head(FrameDatagrams).len
  BY <1>3, <1>4, <1>6 DEF data
<1>8. \A i \in 1..Packets : PacketLen(i) > 0
  BY PacketsFillFrame
<1> QED
  BY <1>7, <1>8 DEF DataMatchesTag
\* The tag is one that a patch can ask for.
THEOREM DataAmountsToTag == FSpec => []DataMatchesTag
<1>1. FInit => x_tag \in Tags
  BY SourceAssumption DEF FInit, Tags, FirstTag, Formats
<1>2. x_tag \in Tags /\ [FNext]_fvars => (x_tag \in Tags)'
  BY SourceAssumption
  DEF FNext, fvars, SendFrame, SendPart, SkipFrame, Restart, Tags, FirstTag, Formats
<1> QED
  BY <1>1, <1>2, DataAddsUp, PTL DEF FSpec

-----------------------------------------------------------------------------
(* The bytes between two frames.                                           *)

\* What frame k adds to them.
BytesOf(l, h, k) == IF k \in h THEN 0 ELSE TagSize + l[k]

AddsUp(b, l, h, m, N) ==
  b[m] = 0 /\ \A k \in (m + 1)..(N - 1) : b[k] = b[k - 1] + BytesOf(l, h, k)

\* Any function that sums them up to frame N gives those before each frame up to N.
LEMMA UndisturbedIs ==
  ASSUME NEW l, NEW h, NEW m \in Nat, NEW N \in Nat, m < N,
         NEW b, AddsUp(b, l, h, m, N), NEW n \in (m + 1)..N
  PROVE  Undisturbed(l, h, m, n) = b[n - 1]
<1> DEFINE D == m..(n - 1)
           Step(g, k) == IF k = m THEN 0 ELSE g[k - 1] + (IF k \in h THEN 0 ELSE TagSize + l[k])
           Solves(g) == g = [k \in D |-> Step(g, k)]
           sum == CHOOSE g : Solves(g)
           c == [k \in D |-> b[k]]
<1>0. /\ \A k \in D : k \in Nat /\ k >= m /\ (k # m => k - 1 \in D /\ k \in (m + 1)..(N - 1))
      /\ b[m] = 0 /\ \A k \in (m + 1)..(N - 1) : b[k] = b[k - 1] + BytesOf(l, h, k)
  BY DEF AddsUp
<1>1. Solves(c)
  <2>1. ASSUME NEW k \in D PROVE c[k] = Step(c, k)
    <3>1. c[k] = b[k] /\ (k # m => c[k - 1] = b[k - 1])
      BY <1>0
    <3>2. k # m => b[k] = b[k - 1] + (IF k \in h THEN 0 ELSE TagSize + l[k])
      BY <1>0 DEF BytesOf
    <3> HIDE DEF c
    <3> QED
      BY <3>1, <3>2, <1>0
  <2>2. c = [k \in D |-> c[k]]
    OBVIOUS
  <2> HIDE DEF c
  <2>3. [k \in D |-> c[k]] = [k \in D |-> Step(c, k)]
    BY <2>1
  <2> QED
    BY <2>2, <2>3
<1>2. Solves(sum)
  <2> HIDE DEF Solves, c
  <2> QED
    BY <1>1
<1>3. Undisturbed(l, h, m, n) = sum[n - 1]
  BY DEF Undisturbed
<1> HIDE DEF sum, c
<1>4. \A k \in D : sum[k] = Step(sum, k)
  BY <1>2
<1> DEFINE Wrong == {k \in D : sum[k] # b[k]}
<1>5. Wrong = {}
  <2>1. SUFFICES ASSUME Wrong # {} PROVE FALSE
    OBVIOUS
  <2>2. PICK k \in Wrong : \A i \in Wrong : k <= i
    <3>1. Wrong \subseteq Nat
      BY <1>0
    <3> HIDE DEF Wrong
    <3> QED
      BY <2>1, <3>1, LeastNatural
  <2>3. k # m
    BY <1>4, <1>0
  <2>4. k - 1 \in D /\ k - 1 \notin Wrong
    BY <1>0, <2>2, <2>3
  <2>5. sum[k] = sum[k - 1] + BytesOf(l, h, k)
    BY <1>4, <2>3 DEF BytesOf
  <2>6. b[k] = b[k - 1] + BytesOf(l, h, k)
    BY <1>0, <2>3
  <2> QED
    BY <2>2, <2>4, <2>5, <2>6
<1>6. n - 1 \in D
  OBVIOUS
<1> QED
  BY <1>3, <1>5, <1>6

\* The lengths of frames.
Lengths(l, N) == \A k \in 1..N : l[k] \in Nat

HasSums(l, h, m, N) ==
  \E b \in [m..(N - 1) -> Nat] :
    AddsUp(b, l, h, m, N) /\ \A n \in (m + 1)..N : Undisturbed(l, h, m, n) = b[n - 1]

\* There is such a function.
LEMMA UndisturbedSums ==
  ASSUME NEW l, NEW h, NEW m \in Nat, NEW N \in Nat, m < N, Lengths(l, N - 1)
  PROVE  HasSums(l, h, m, N)
<1> DEFINE M == N - 1 - m
           a == [i \in 1..M |-> BytesOf(l, h, m + i)]
<1>1. M \in Nat /\ TagSize \in Nat
  BY ReceiverAssumption
<1>2. \A k \in 1..(N - 1) : BytesOf(l, h, k) \in Nat
  BY <1>1 DEF BytesOf, Lengths
<1>3. \A i \in 1..M : a[i] \in Nat
  BY <1>1, <1>2
<1>4. PICK f \in [0..M -> Nat] : f[0] = 0 /\ \A i \in 1..M : f[i] = f[i - 1] + a[i]
  <2> HIDE DEF a, M
  <2> QED
    BY <1>1, <1>3, PartialSums
<1> DEFINE b == [k \in m..(N - 1) |-> f[k - m]]
<1>5. b \in [m..(N - 1) -> Nat] /\ b[m] = 0
  BY <1>1, <1>4
<1>6. ASSUME NEW k \in (m + 1)..(N - 1) PROVE b[k] = b[k - 1] + BytesOf(l, h, k)
  <2>1. k - m \in 1..M /\ b[k] = f[k - m] /\ b[k - 1] = f[k - m - 1]
    BY <1>1
  <2>2. a[k - m] = BytesOf(l, h, k)
    <3>1. m + (k - m) = k
      OBVIOUS
    <3> QED
      BY <2>1, <3>1
  <2> HIDE DEF a, b, M
  <2> QED
    BY <1>4, <2>1, <2>2
<1> HIDE DEF b
<1>7. AddsUp(b, l, h, m, N)
  BY <1>5, <1>6 DEF AddsUp
<1>8. \A n \in (m + 1)..N : Undisturbed(l, h, m, n) = b[n - 1]
  BY <1>7, UndisturbedIs
<1> QED
  BY <1>5, <1>7, <1>8 DEF HasSums

\* From one frame to the next.
LEMMA UndisturbedNext ==
  ASSUME NEW l, NEW h, NEW m \in Nat, NEW n \in Nat, m < n, Lengths(l, n)
  PROVE  /\ Undisturbed(l, h, m, m + 1) = 0
         /\ Undisturbed(l, h, m, n) \in Nat
         /\ Undisturbed(l, h, m, n + 1) = Undisturbed(l, h, m, n) + BytesOf(l, h, n)
<1> DEFINE N == n + 1
<1>0. N \in Nat /\ m < N /\ N - 1 = n
  OBVIOUS
<1> HIDE DEF N
<1>1. PICK b \in [m..(N - 1) -> Nat] :
        AddsUp(b, l, h, m, N) /\ \A k \in (m + 1)..N : Undisturbed(l, h, m, k) = b[k - 1]
  <2>1. HasSums(l, h, m, N)
    BY <1>0, UndisturbedSums
  <2> QED
    BY <2>1 DEF HasSums
<1>2. /\ m + 1 \in (m + 1)..N /\ n \in (m + 1)..N /\ n + 1 \in (m + 1)..N
      /\ m + 1 - 1 = m /\ n + 1 - 1 = n /\ n - 1 \in m..(N - 1) /\ n \in (m + 1)..(N - 1)
  BY DEF N
<1> QED
  BY <1>1, <1>2 DEF AddsUp

\* Fewer, when more frames are struck; frames that are sent later make no difference.
LEMMA UndisturbedShrinks ==
  ASSUME NEW l, NEW h, NEW k, NEW g, h \subseteq g, NEW m \in Nat, NEW n \in Nat, m < n,
         Lengths(l, n - 1), \A i \in 1..(n - 1) : k[i] = l[i]
  PROVE  Undisturbed(k, g, m, n) <= Undisturbed(l, h, m, n)
<1>1. Lengths(k, n - 1)
  BY DEF Lengths
<1>2. PICK b \in [m..(n - 1) -> Nat] :
        AddsUp(b, l, h, m, n) /\ \A i \in (m + 1)..n : Undisturbed(l, h, m, i) = b[i - 1]
  <2>1. HasSums(l, h, m, n)
    BY UndisturbedSums
  <2> QED
    BY <2>1 DEF HasSums
<1>3. PICK c \in [m..(n - 1) -> Nat] :
        AddsUp(c, k, g, m, n) /\ \A i \in (m + 1)..n : Undisturbed(k, g, m, i) = c[i - 1]
  <2>1. HasSums(k, g, m, n)
    BY <1>1, UndisturbedSums
  <2> QED
    BY <2>1 DEF HasSums
<1> DEFINE Wrong == {i \in m..(n - 1) : ~(c[i] <= b[i])}
<1>4. Wrong = {}
  <2>1. SUFFICES ASSUME Wrong # {} PROVE FALSE
    OBVIOUS
  <2>2. PICK i \in Wrong : \A j \in Wrong : i <= j
    <3>1. Wrong \subseteq Nat
      OBVIOUS
    <3> HIDE DEF Wrong
    <3> QED
      BY <2>1, <3>1, LeastNatural
  <2>3. i # m
    BY <1>2, <1>3 DEF AddsUp
  <2>4. i \in (m + 1)..(n - 1) /\ i - 1 \in m..(n - 1) /\ i - 1 \notin Wrong
    BY <2>2, <2>3
  <2>5. BytesOf(k, g, i) <= BytesOf(l, h, i) /\ BytesOf(k, g, i) \in Nat /\ BytesOf(l, h, i) \in Nat
    <3>1. i \in 1..(n - 1) /\ l[i] \in Nat /\ k[i] = l[i] /\ TagSize \in Nat
      BY <2>4, ReceiverAssumption DEF Lengths
    <3> QED
      BY <3>1 DEF BytesOf
  <2>6. c[i - 1] <= b[i - 1] /\ c[i - 1] \in Nat /\ b[i - 1] \in Nat
    BY <2>4
  <2>7. c[i] = c[i - 1] + BytesOf(k, g, i) /\ b[i] = b[i - 1] + BytesOf(l, h, i)
    BY <2>4, <1>2, <1>3 DEF AddsUp
  <2> QED
    BY <2>2, <2>5, <2>6, <2>7
<1>5. n - 1 \in m..(n - 1) /\ n \in (m + 1)..n
  OBVIOUS
<1> QED
  BY <1>2, <1>3, <1>4, <1>5

\* Frames that are struck add nothing.
LEMMA UndisturbedSkips ==
  ASSUME NEW l, NEW h, NEW m \in Nat, NEW a \in Nat, NEW n \in Nat, m < a, a <= n,
         Lengths(l, n - 1), \A k \in a..(n - 1) : k \in h
  PROVE  Undisturbed(l, h, m, n) = Undisturbed(l, h, m, a)
<1>1. PICK b \in [m..(n - 1) -> Nat] :
        AddsUp(b, l, h, m, n) /\ \A i \in (m + 1)..n : Undisturbed(l, h, m, i) = b[i - 1]
  <2>1. HasSums(l, h, m, n)
    BY UndisturbedSums
  <2> QED
    BY <2>1 DEF HasSums
<1> DEFINE Wrong == {i \in (a - 1)..(n - 1) : b[i] # b[a - 1]}
<1>2. Wrong = {}
  <2>1. SUFFICES ASSUME Wrong # {} PROVE FALSE
    OBVIOUS
  <2>2. PICK i \in Wrong : \A j \in Wrong : i <= j
    <3>1. Wrong \subseteq Nat
      OBVIOUS
    <3> HIDE DEF Wrong
    <3> QED
      BY <2>1, <3>1, LeastNatural
  <2>3. i # a - 1
    OBVIOUS
  <2>4. i \in a..(n - 1) /\ i - 1 \in (a - 1)..(n - 1) /\ i - 1 \notin Wrong
    BY <2>2, <2>3
  <2>5. BytesOf(l, h, i) = 0
    BY <2>4 DEF BytesOf
  <2>6. b[i] = b[i - 1] + BytesOf(l, h, i) /\ b[i - 1] \in Nat
    BY <2>4, <1>1 DEF AddsUp
  <2> QED
    BY <2>2, <2>4, <2>5, <2>6
<1>3. n - 1 \in (a - 1)..(n - 1) /\ n \in (m + 1)..n /\ a \in (m + 1)..n
  OBVIOUS
<1> QED
  BY <1>1, <1>2, <1>3

-----------------------------------------------------------------------------
(* The audio stream: the inductive invariant.                              *)

SentSet ==
  [kind : {"tag", "data"}, format : Formats, channels : 0..NInlets, count : Nat, at : Nat, len : Nat]

\* Where in its frame what follows a datagram begins.
End(d) == IF d.kind = "tag" THEN 0 ELSE d.at + d.len

StreamTypeInv ==
  /\ RInv /\ x_tag \in Tags /\ x_count \in Nat
  /\ net \in Seq(SentSet) /\ lens \in Seq(Nat) /\ hit \subseteq Frames
  /\ faults \in Nat /\ heard \in 0..serial

DatagramsInv ==
  \A i \in DOMAIN net :
    /\ net[i].count \in Frames /\ End(net[i]) <= lens[net[i].count]
    /\ IF net[i].kind = "tag"
       THEN /\ net[i].len = lens[net[i].count]
            /\ net[i].len = BlockSize * SizeOf(net[i].format) * net[i].channels
       ELSE net[i].len > 0

\* A frame that is not struck stands between those before and those after it,
OrderedInv ==
  \A i, j \in DOMAIN net :
    i < j => \/ net[i].count \in hit /\ net[j].count \in hit
             \/ net[i].count <= net[j].count

\* and each of its datagrams is followed by the next,
ChainInv ==
  \A i \in DOMAIN net : net[i].count \notin hit =>
    IF End(net[i]) < lens[net[i].count]
    THEN /\ i + 1 \in DOMAIN net /\ net[i + 1].count = net[i].count
         /\ net[i + 1].kind = "data" /\ net[i + 1].at = End(net[i])
    ELSE \A j \in DOMAIN net : j > i => net[j].count # net[i].count

\* which follows it or is the first.
BackInv ==
  \A i \in DOMAIN net :
    net[i].count \notin hit /\ net[i].kind = "data" /\ i > 1 => net[i - 1].count = net[i].count

\* When it has arrived, so has all that was sent before.
ArrivedInv ==
  \A k \in Frames \ hit :
    (\A i \in DOMAIN net : net[i].count # k) => \A i \in DOMAIN net : net[i].count > k

assembled == x_frames[x_framein].tag.count

\* The slot that is being filled, and what is still to come for it.
AssembledInv ==
  x_nbytes > 0 =>
    /\ assembled \in Frames /\ x_frames[x_framein].tag.framesize = lens[assembled]
    /\ x_nbytes <= lens[assembled] /\ lens[assembled] <= BufBytes
    /\ x_frames[x_framein].tag.format \in Formats
    /\ \A i \in DOMAIN net : net[i].count \notin hit => net[i].count >= assembled
    /\ assembled \notin hit =>
         /\ net # <<>> /\ net[1].count = assembled
         /\ net[1].kind = "data" /\ net[1].at = lens[assembled] - x_nbytes
         /\ \A p \in 0..(lens[assembled] - x_nbytes - 1) : x_frames[x_framein].data[p] = assembled

\* The place of a slot in the queue.
Place(i) == IF x_frameout <= i THEN i - x_frameout ELSE i - x_frameout + NFrames

Unharmed(i) == Queued(i) /\ x_frames[i].tag.count \notin hit

\* Heard, queued, under way: the frames that are not struck stand in this order.
PlaylistInv ==
  /\ \A i \in Slots : Queued(i) => x_frames[i].tag.count \in Frames
  /\ \A i, j \in Slots :
       Unharmed(i) /\ Unharmed(j) /\ Place(i) < Place(j) =>
         x_frames[i].tag.count < x_frames[j].tag.count
  /\ \A i \in Slots : Unharmed(i) => heard < x_frames[i].tag.count
  /\ \A i \in Slots, j \in DOMAIN net :
       Unharmed(i) /\ net[j].count \notin hit => x_frames[i].tag.count < net[j].count
  /\ \A j \in DOMAIN net : net[j].count \notin hit => heard < net[j].count

NetInv == DatagramsInv /\ OrderedInv /\ ChainInv /\ BackInv /\ ArrivedInv

StreamInv == StreamTypeInv /\ NetInv /\ AssembledInv /\ QueuedIsIntact /\ PlaylistInv

LEMMA StreamFacts ==
  ASSUME StreamTypeInv
  PROVE  /\ serial \in Nat /\ Len(net) \in Nat /\ DOMAIN net = 1..Len(net)
         /\ Lengths(lens, serial) /\ \A k \in Frames : lens[k] \in Nat
         /\ \A i \in DOMAIN net :
              /\ net[i] \in SentSet /\ net[i].count \in Nat /\ net[i].at \in Nat /\ net[i].len \in Nat
              /\ net[i].kind \in {"tag", "data"} /\ End(net[i]) \in Nat
         /\ TagSize \in Nat \ {0} /\ NFrames \in Nat /\ NFrames > 1
         /\ x_framein \in Slots /\ x_frameout \in Slots /\ x_nbytes \in Nat
<1>1. serial \in Nat /\ Len(net) \in Nat /\ DOMAIN net = 1..Len(net)
  BY LenProperties DEF StreamTypeInv, serial
<1>2. Lengths(lens, serial) /\ \A k \in Frames : lens[k] \in Nat
  <2>1. lens \in [1..serial -> Nat]
    BY LenProperties DEF StreamTypeInv, serial
  <2> QED
    BY <2>1 DEF Lengths, Frames
<1>3. ASSUME NEW i \in DOMAIN net
      PROVE  /\ net[i] \in SentSet /\ net[i].count \in Nat /\ net[i].at \in Nat /\ net[i].len \in Nat
             /\ net[i].kind \in {"tag", "data"} /\ End(net[i]) \in Nat
  <2>1. net[i] \in SentSet
    BY DEF StreamTypeInv
  <2>2. /\ net[i].count \in Nat /\ net[i].at \in Nat /\ net[i].len \in Nat
        /\ net[i].kind \in {"tag", "data"}
    BY <2>1 DEF SentSet
  <2> QED
    BY <2>1, <2>2 DEF End
<1>4. TagSize \in Nat \ {0} /\ NFrames \in Nat /\ NFrames > 1
  BY ReceiverAssumption
<1>5. x_framein \in Slots /\ x_frameout \in Slots /\ x_nbytes \in Nat
  BY DEF StreamTypeInv, RInv, RTypeOK
<1> QED
  BY <1>1, <1>2, <1>3, <1>4, <1>5

LEMMA DatagramFacts ==
  ASSUME NEW s \in Seq(SentSet)
  PROVE  /\ Len(s) \in Nat /\ DOMAIN s = 1..Len(s)
         /\ \A i \in DOMAIN s :
              /\ s[i] \in SentSet /\ s[i].count \in Nat /\ s[i].at \in Nat /\ s[i].len \in Nat
              /\ s[i].kind \in {"tag", "data"} /\ s[i].channels \in Nat /\ s[i].format \in Formats
              /\ End(s[i]) \in Nat
<1>1. Len(s) \in Nat /\ DOMAIN s = 1..Len(s)
  BY LenProperties
<1>2. ASSUME NEW i \in DOMAIN s
      PROVE  /\ s[i] \in SentSet /\ s[i].count \in Nat /\ s[i].at \in Nat /\ s[i].len \in Nat
             /\ s[i].kind \in {"tag", "data"} /\ s[i].channels \in Nat /\ s[i].format \in Formats
             /\ End(s[i]) \in Nat
  <2>1. s[i] \in SentSet
    BY <1>1, ElementOfSeq
  <2>2. /\ s[i].count \in Nat /\ s[i].at \in Nat /\ s[i].len \in Nat
        /\ s[i].kind \in {"tag", "data"} /\ s[i].channels \in Nat /\ s[i].format \in Formats
    BY <2>1, SourceAssumption DEF SentSet
  <2> QED
    BY <2>1, <2>2 DEF End
<1> QED
  BY <1>1, <1>2

-----------------------------------------------------------------------------
(* What a fault does to the network: the datagrams under way are some of   *)
(* those before, in another order, f[j] being where the j-th was.  Frames  *)
(* of which one is gone, there twice or has changed its place, are struck. *)

Carries(f) ==
  /\ lens' = lens /\ hit \subseteq hit' /\ hit' \subseteq Frames /\ net' \in Seq(SentSet)
  /\ \A j \in DOMAIN net' : f[j] \in DOMAIN net /\ net'[j] = net[f[j]]
  /\ \A i, j \in DOMAIN net' :
       i < j /\ f[j] <= f[i] => net'[i].count \in hit' /\ net'[j].count \in hit'
  /\ \A i \in DOMAIN net : net[i].count \notin hit' => \E j \in DOMAIN net' : f[j] = i

\* What is not struck keeps its neighbours.
LEMMA CarriedNeighbours ==
  ASSUME StreamTypeInv, NEW f, Carries(f), NEW i \in DOMAIN net', net'[i].count \notin hit'
  PROVE  /\ f[i] + 1 \in DOMAIN net /\ net[f[i] + 1].count \notin hit' =>
              i + 1 \in DOMAIN net' /\ f[i + 1] = f[i] + 1
         /\ f[i] > 1 /\ net[f[i] - 1].count \notin hit' => i > 1 /\ f[i - 1] = f[i] - 1
         /\ i > 1 => f[i] > 1
         /\ \A j \in DOMAIN net' : i < j => f[i] < f[j]
         /\ \A j \in DOMAIN net' : j < i => f[j] < f[i]
<1>1. /\ DOMAIN net = 1..Len(net) /\ Len(net) \in Nat
      /\ DOMAIN net' = 1..Len(net') /\ Len(net') \in Nat
  BY StreamFacts, DatagramFacts DEF Carries
<1>2. \A j \in DOMAIN net' : f[j] \in DOMAIN net /\ f[j] \in Nat
  BY <1>1 DEF Carries
<1>3. /\ \A j \in DOMAIN net' : i < j => f[i] < f[j]
      /\ \A j \in DOMAIN net' : j < i => f[j] < f[i]
  BY <1>1, <1>2 DEF Carries
<1>4. i > 1 => f[i] > 1
  <2>1. i > 1 => i - 1 \in DOMAIN net'
    BY <1>1
  <2> QED
    BY <1>1, <1>2, <1>3, <2>1
<1>5. ASSUME f[i] + 1 \in DOMAIN net, net[f[i] + 1].count \notin hit'
      PROVE  i + 1 \in DOMAIN net' /\ f[i + 1] = f[i] + 1
  <2>1. PICK j \in DOMAIN net' : f[j] = f[i] + 1
    BY <1>5 DEF Carries
  <2>2. net'[j].count \notin hit'
    BY <1>5, <2>1 DEF Carries
  <2>3. i < j
    BY <1>1, <1>2, <1>3, <2>1
  <2>4. i + 1 \in DOMAIN net'
    BY <1>1, <2>3
  <2>5. i + 1 < j => f[i] < f[i + 1] /\ f[i + 1] < f[j]
    BY <1>1, <1>2, <1>3, <2>2, <2>4 DEF Carries
  <2>6. j = i + 1
    BY <1>1, <1>2, <2>1, <2>3, <2>4, <2>5
  <2> QED
    BY <2>1, <2>4, <2>6
<1>6. ASSUME f[i] > 1, net[f[i] - 1].count \notin hit'
      PROVE  i > 1 /\ f[i - 1] = f[i] - 1
  <2>0. f[i] - 1 \in DOMAIN net
    BY <1>1, <1>2, <1>6
  <2>1. PICK j \in DOMAIN net' : f[j] = f[i] - 1
    BY <1>6, <2>0 DEF Carries
  <2>2. net'[j].count \notin hit'
    BY <1>6, <2>1 DEF Carries
  <2>3. j < i
    BY <1>1, <1>2, <1>3, <2>1
  <2>4. i - 1 \in DOMAIN net' /\ i > 1
    BY <1>1, <2>3
  <2>5. j < i - 1 => f[j] < f[i - 1] /\ f[i - 1] < f[i]
    BY <1>1, <1>2, <1>3, <2>2, <2>4 DEF Carries
  <2>6. j = i - 1
    BY <1>1, <1>2, <2>1, <2>3, <2>4, <2>5
  <2> QED
    BY <2>1, <2>4, <2>6
<1> QED
  BY <1>3, <1>4, <1>5, <1>6

\* The order of the frames that are not struck stands.
LEMMA CarriedNet ==
  ASSUME StreamTypeInv, NetInv, NEW f, Carries(f)
  PROVE  NetInv'
<1>1. /\ DOMAIN net = 1..Len(net) /\ Len(net) \in Nat
      /\ DOMAIN net' = 1..Len(net') /\ Len(net') \in Nat /\ lens' = lens /\ Frames' = Frames
      /\ \A k \in Frames : lens[k] \in Nat /\ k \in Nat
      /\ \A i \in DOMAIN net : net[i].count \in Nat /\ End(net[i]) \in Nat
  BY StreamFacts, DatagramFacts DEF Carries, Frames, serial
<1>2. \A j \in DOMAIN net' : f[j] \in DOMAIN net /\ f[j] \in Nat /\ net'[j] = net[f[j]]
  BY <1>1 DEF Carries
<1>3. hit \subseteq hit' /\ hit' \subseteq Frames
  BY DEF Carries
<1>4. DatagramsInv'
  <2>1. DatagramsInv
    BY DEF NetInv
  <2> QED
    BY <1>1, <1>2, <2>1 DEF DatagramsInv
<1>5. OrderedInv'
  <2> SUFFICES ASSUME NEW i \in DOMAIN net', NEW j \in DOMAIN net', i < j,
                      ~(net'[i].count \in hit' /\ net'[j].count \in hit')
               PROVE  net'[i].count <= net'[j].count
    BY DEF OrderedInv
  <2>1. f[i] < f[j]
    BY CarriedNeighbours
  <2> QED
    BY <1>2, <1>3, <2>1 DEF NetInv, OrderedInv
<1>6. ChainInv'
  <2> SUFFICES ASSUME NEW i \in DOMAIN net', net'[i].count \notin hit'
               PROVE  IF End(net'[i]) < lens[net'[i].count]
                      THEN /\ i + 1 \in DOMAIN net' /\ net'[i + 1].count = net'[i].count
                           /\ net'[i + 1].kind = "data" /\ net'[i + 1].at = End(net'[i])
                      ELSE \A j \in DOMAIN net' : j > i => net'[j].count # net'[i].count
    BY <1>1 DEF ChainInv, End
  <2>1. /\ f[i] \in DOMAIN net /\ net'[i] = net[f[i]] /\ net[f[i]].count \notin hit
    BY <1>2, <1>3
  <2>2. IF End(net[f[i]]) < lens[net[f[i]].count]
        THEN /\ f[i] + 1 \in DOMAIN net /\ net[f[i] + 1].count = net[f[i]].count
             /\ net[f[i] + 1].kind = "data" /\ net[f[i] + 1].at = End(net[f[i]])
        ELSE \A j \in DOMAIN net : j > f[i] => net[j].count # net[f[i]].count
    BY <2>1 DEF NetInv, ChainInv
  <2>3. CASE End(net'[i]) < lens[net'[i].count]
    <3>1. f[i] + 1 \in DOMAIN net /\ net[f[i] + 1].count \notin hit'
      BY <2>1, <2>2, <2>3
    <3>2. i + 1 \in DOMAIN net' /\ f[i + 1] = f[i] + 1
      BY <3>1, CarriedNeighbours
    <3> QED
      BY <1>2, <2>1, <2>2, <2>3, <3>2
  <2>4. CASE ~(End(net'[i]) < lens[net'[i].count])
    <3>1. \A j \in DOMAIN net' : j > i => f[j] > f[i]
      <4>1. \A j \in DOMAIN net' : i < j => f[i] < f[j]
        BY CarriedNeighbours
      <4> QED
        BY <1>1, <1>2, <4>1
    <3> QED
      BY <1>2, <2>1, <2>2, <2>4, <3>1
  <2> QED
    BY <2>3, <2>4
<1>7. BackInv'
  <2> SUFFICES ASSUME NEW i \in DOMAIN net', net'[i].count \notin hit', net'[i].kind = "data", i > 1
               PROVE  net'[i - 1].count = net'[i].count
    BY DEF BackInv
  <2>1. f[i] \in DOMAIN net /\ net'[i] = net[f[i]] /\ net[f[i]].count \notin hit /\ f[i] > 1
    BY <1>2, <1>3, CarriedNeighbours
  <2>2. net[f[i] - 1].count = net[f[i]].count
    BY <2>1 DEF NetInv, BackInv
  <2>3. f[i - 1] = f[i] - 1
    BY <2>1, <2>2, CarriedNeighbours
  <2>4. i - 1 \in DOMAIN net'
    BY <1>1
  <2> QED
    BY <1>2, <2>1, <2>2, <2>3, <2>4
<1>8. ArrivedInv'
  <2> SUFFICES ASSUME NEW k \in Frames \ hit', \A i \in DOMAIN net' : net'[i].count # k,
                      NEW i \in DOMAIN net'
               PROVE  net'[i].count > k
    BY <1>1 DEF ArrivedInv
  <2>1. \A j \in DOMAIN net : net[j].count # k
    BY DEF Carries
  <2>2. k \in Frames \ hit
    BY <1>3
  <2> QED
    BY <1>2, <2>1, <2>2 DEF NetInv, ArrivedInv
<1> QED
  BY <1>4, <1>5, <1>6, <1>7, <1>8 DEF NetInv

\* The queue does not notice what happens elsewhere.
LEMMA QueueStays ==
  ASSUME PlaylistInv, QueuedIsIntact, UNCHANGED <<x_framein, x_frameout, heard>>,
         \A i \in Slots : Queued(i) => x_frames'[i] = x_frames[i],
         Frames' = Frames, hit \subseteq hit',
         \A j \in DOMAIN net' : \E i \in DOMAIN net : net'[j] = net[i]
  PROVE  PlaylistInv' /\ QueuedIsIntact'
<1>1. \A i : (Queued(i)' <=> Queued(i)) /\ Place(i)' = Place(i)
  BY DEF Queued, Place
<1>2. \A i \in Slots : Queued(i) => x_frames'[i] = x_frames[i] /\ (Unharmed(i)' => Unharmed(i))
  BY DEF Unharmed
<1>3. \A i \in Slots : Unharmed(i)' => Unharmed(i) /\ x_frames'[i] = x_frames[i]
  BY <1>1, <1>2 DEF Unharmed
<1>4. QueuedIsIntact'
  <2> SUFFICES ASSUME NEW i \in Slots, Queued(i)', x_frames'[i].tag.count \notin hit'
               PROVE  Intact(x_frames'[i])
    BY DEF QueuedIsIntact, Intact
  <2>1. x_frames'[i] = x_frames[i] /\ Queued(i) /\ x_frames[i].tag.count \notin hit
    BY <1>1, <1>2
  <2>2. Intact(x_frames[i])
    BY <2>1 DEF QueuedIsIntact
  <2> QED
    BY <2>1, <2>2
<1>5. \A j \in DOMAIN net' : net'[j].count \notin hit' =>
        \E i \in DOMAIN net : net'[j] = net[i] /\ net[i].count \notin hit
  OBVIOUS
<1>6. /\ \A i \in Slots : Queued(i)' => x_frames'[i].tag.count \in Frames'
      /\ \A i, j \in Slots :
           Unharmed(i)' /\ Unharmed(j)' /\ Place(i)' < Place(j)' =>
             x_frames'[i].tag.count < x_frames'[j].tag.count
      /\ \A i \in Slots : Unharmed(i)' => heard' < x_frames'[i].tag.count
  BY <1>1, <1>2, <1>3 DEF PlaylistInv
<1>7. /\ \A i \in Slots, j \in DOMAIN net' :
           Unharmed(i)' /\ net'[j].count \notin hit' => x_frames'[i].tag.count < net'[j].count
      /\ \A j \in DOMAIN net' : net'[j].count \notin hit' => heard' < net'[j].count
  BY <1>3, <1>5 DEF PlaylistInv
<1> QED
  BY <1>4, <1>6, <1>7 DEF PlaylistInv

LEMMA CarriedStream ==
  ASSUME StreamInv, NEW f, Carries(f), UNCHANGED <<fvars, rvars, heard>>, faults' \in Nat
  PROVE  StreamInv'
<1>1. /\ StreamTypeInv /\ NetInv /\ AssembledInv /\ QueuedIsIntact /\ PlaylistInv
  BY DEF StreamInv
<1>2. lens' = lens /\ hit \subseteq hit' /\ Frames' = Frames /\ serial' = serial
  BY DEF Carries, Frames, serial
<1>3. RInv'
  <2>1. RInv
    BY <1>1 DEF StreamTypeInv
  <2> QED
    BY <2>1 DEF RInv, RTypeOK, CountInv, QueueLen, BlockInv, AssemblyInv,
                QueuedFramesComplete, Queued, rvars, queuevars, pollvars, playvars
<1>4. StreamTypeInv'
  BY <1>1, <1>2, <1>3 DEF StreamTypeInv, Carries, fvars
<1>5. NetInv'
  BY <1>1, CarriedNet
<1>6. PlaylistInv' /\ QueuedIsIntact'
  <2>1. \A j \in DOMAIN net' : \E i \in DOMAIN net : net'[j] = net[i]
    BY DEF Carries
  <2> QED
    BY <1>1, <1>2, <2>1, QueueStays DEF rvars, queuevars, pollvars
<1>7. AssembledInv'
  <2> SUFFICES ASSUME x_nbytes > 0 PROVE AssembledInv'
    BY DEF AssembledInv, rvars, pollvars
  <2>1. x_nbytes' = x_nbytes /\ x_frames' = x_frames /\ x_framein' = x_framein /\ assembled' = assembled
    BY DEF rvars, pollvars, queuevars, assembled
  <2>2. /\ assembled \in Frames /\ x_frames[x_framein].tag.framesize = lens[assembled]
        /\ x_nbytes <= lens[assembled] /\ lens[assembled] <= BufBytes
        /\ x_frames[x_framein].tag.format \in Formats
        /\ \A i \in DOMAIN net : net[i].count \notin hit => net[i].count >= assembled
        /\ assembled \notin hit =>
             /\ net # <<>> /\ net[1].count = assembled
             /\ net[1].kind = "data" /\ net[1].at = lens[assembled] - x_nbytes
             /\ \A p \in 0..(lens[assembled] - x_nbytes - 1) :
                  x_frames[x_framein].data[p] = assembled
    BY <1>1 DEF AssembledInv
  <2>3. \A i \in DOMAIN net' : net'[i].count \notin hit' => net'[i].count >= assembled
    BY <1>2, <2>2 DEF Carries
  <2>4. ASSUME assembled \notin hit' PROVE net' # <<>> /\ net'[1] = net[1]
    <3>1. /\ net # <<>> /\ net[1].count \notin hit'
      BY <1>2, <2>2, <2>4
    <3>2. /\ DOMAIN net = 1..Len(net) /\ Len(net) \in Nat /\ net \in Seq(SentSet)
          /\ DOMAIN net' = 1..Len(net') /\ Len(net') \in Nat /\ net' \in Seq(SentSet)
      BY <1>1, StreamFacts, DatagramFacts DEF Carries, StreamTypeInv
    <3>3. 1 \in DOMAIN net
      BY <3>1, <3>2, EmptySeq
    <3>4. PICK j \in DOMAIN net' : f[j] = 1
      BY <3>1, <3>3 DEF Carries
    <3>5. net'[j].count \notin hit'
      BY <3>1, <3>4 DEF Carries
    <3>6. j = 1
      <4>1. j > 1 => f[j] > 1
        BY <1>1, <3>5, CarriedNeighbours
      <4> QED
        BY <3>2, <3>4, <4>1
    <3> QED
      BY <3>2, <3>4, <3>6, EmptySeq DEF Carries
  <2>5. assembled \notin hit' => assembled \notin hit
    BY <1>2
  <2> QED
    BY <1>2, <2>1, <2>2, <2>3, <2>4, <2>5 DEF AssembledInv
<1> QED
  BY <1>4, <1>5, <1>6, <1>7 DEF StreamInv

LEMMA LoseCarries ==
  ASSUME StreamTypeInv, DatagramsInv, NEW i \in DOMAIN net, Lose(i)
  PROVE  Carries([j \in DOMAIN net' |-> IF j < i THEN j ELSE j + 1])
<1> DEFINE f == [j \in DOMAIN net' |-> IF j < i THEN j ELSE j + 1]
<1>1. /\ net \in Seq(SentSet) /\ DOMAIN net = 1..Len(net) /\ Len(net) \in Nat
      /\ net[i].count \in Frames /\ hit \subseteq Frames
  BY StreamFacts DEF StreamTypeInv, DatagramsInv
<1>2. net' = RemoveAt(net, i) /\ hit' = hit \cup {net[i].count} /\ lens' = lens
  BY DEF Lose
<1>3. /\ net' \in Seq(SentSet) /\ Len(net') = Len(net) - 1
      /\ \A j \in 1..(Len(net) - 1) : net'[j] = IF j < i THEN net[j] ELSE net[j + 1]
  BY <1>1, <1>2, RemoveAtProperties
<1>4. DOMAIN net' = 1..(Len(net) - 1)
  BY <1>3, LenProperties
<1>5. \A j \in DOMAIN net' : f[j] = IF j < i THEN j ELSE j + 1
  OBVIOUS
<1> HIDE DEF f
<1>6. \A j \in DOMAIN net' : f[j] \in DOMAIN net /\ net'[j] = net[f[j]]
  BY <1>1, <1>3, <1>4, <1>5
<1>7. \A a, b \in DOMAIN net' : a < b => f[a] < f[b]
  BY <1>1, <1>4, <1>5
<1>8. \A a, b \in DOMAIN net' : ~(a < b /\ f[b] <= f[a])
  BY <1>1, <1>4, <1>5
<1>9. ASSUME NEW k \in DOMAIN net, net[k].count \notin hit'
      PROVE  \E j \in DOMAIN net' : f[j] = k
  <2>1. k # i
    BY <1>2, <1>9
  <2>2. CASE k < i
    BY <1>1, <1>4, <1>5, <2>2
  <2>3. CASE k > i
    <3>1. k - 1 \in DOMAIN net' /\ ~(k - 1 < i) /\ (k - 1) + 1 = k
      BY <1>1, <1>4, <2>3
    <3> QED
      BY <1>5, <3>1
  <2> QED
    BY <1>1, <2>1, <2>2, <2>3
<1>10. hit \subseteq hit' /\ hit' \subseteq Frames
  BY <1>1, <1>2
<1>11. Carries(f)
  BY <1>2, <1>3, <1>6, <1>8, <1>9, <1>10 DEF Carries
<1> QED
  BY <1>11 DEF f

LEMMA DuplicateCarries ==
  ASSUME StreamTypeInv, DatagramsInv, NEW i \in 1..Len(net), Duplicate(i)
  PROVE  Carries([j \in DOMAIN net' |-> IF j <= i THEN j ELSE j - 1])
<1> DEFINE f == [j \in DOMAIN net' |-> IF j <= i THEN j ELSE j - 1]
<1>1. /\ net \in Seq(SentSet) /\ DOMAIN net = 1..Len(net) /\ Len(net) \in Nat /\ net[i] \in SentSet
      /\ net[i].count \in Frames /\ hit \subseteq Frames
  <2>1. DOMAIN net = 1..Len(net) /\ Len(net) \in Nat
    BY StreamFacts
  <2> QED
    BY <2>1, StreamFacts DEF StreamTypeInv, DatagramsInv
<1>2. net' = InsertAt(net, i, net[i]) /\ hit' = hit \cup {net[i].count} /\ lens' = lens
  BY DEF Duplicate
<1>3. /\ net' \in Seq(SentSet) /\ Len(net') = Len(net) + 1
      /\ \A j \in 1..(Len(net) + 1) :
           net'[j] = IF j < i THEN net[j] ELSE IF j = i THEN net[i] ELSE net[j - 1]
  <2>1. net \in Seq(SentSet) /\ net[i] \in SentSet
    BY <1>1
  <2>2. net' = InsertAt(net, i, net[i])
    BY <1>2
  <2>3. /\ InsertAt(net, i, net[i]) \in Seq(SentSet)
        /\ Len(InsertAt(net, i, net[i])) = Len(net) + 1
        /\ \A j \in 1..(Len(net) + 1) :
             InsertAt(net, i, net[i])[j] =
               IF j < i THEN net[j] ELSE IF j = i THEN net[i] ELSE net[j - 1]
    BY <2>1, InsertAtProperties
  <2> QED
    BY <2>2, <2>3
<1>4. DOMAIN net' = 1..(Len(net) + 1)
  BY <1>3, LenProperties
<1>5. \A j \in DOMAIN net' : f[j] = IF j <= i THEN j ELSE j - 1
  OBVIOUS
<1> HIDE DEF f
<1>6. \A j \in DOMAIN net' : f[j] \in DOMAIN net /\ net'[j] = net[f[j]]
  BY <1>1, <1>3, <1>4, <1>5
<1>7. ASSUME NEW a \in DOMAIN net', NEW b \in DOMAIN net', a < b, f[b] <= f[a]
      PROVE  net'[a].count \in hit' /\ net'[b].count \in hit'
  <2>1. a = i /\ b = i + 1
    BY <1>1, <1>4, <1>5, <1>7
  <2>2. net'[a] = net[i] /\ net'[b] = net[i]
    BY <1>1, <1>3, <1>4, <2>1
  <2> QED
    BY <1>2, <2>2
<1>8. \A k \in DOMAIN net : \E j \in DOMAIN net' : f[j] = k
  <2> SUFFICES ASSUME NEW k \in DOMAIN net PROVE \E j \in DOMAIN net' : f[j] = k
    OBVIOUS
  <2>1. CASE k <= i
    BY <1>1, <1>4, <1>5, <2>1
  <2>2. CASE k > i
    <3>1. k + 1 \in DOMAIN net' /\ ~(k + 1 <= i) /\ (k + 1) - 1 = k
      BY <1>1, <1>4, <2>2
    <3> QED
      BY <1>5, <3>1
  <2> QED
    BY <1>1, <2>1, <2>2
<1>9. hit \subseteq hit' /\ hit' \subseteq Frames
  BY <1>1, <1>2
<1>10. Carries(f)
  BY <1>2, <1>3, <1>6, <1>7, <1>8, <1>9 DEF Carries
<1> QED
  BY <1>10 DEF f

LEMMA OvertakeCarries ==
  ASSUME StreamTypeInv, DatagramsInv, NEW i \in DOMAIN net, Overtake(i)
  PROVE  Carries([j \in DOMAIN net' |-> IF j = i THEN i - 1 ELSE IF j = i - 1 THEN i ELSE j])
<1> DEFINE f == [j \in DOMAIN net' |-> IF j = i THEN i - 1 ELSE IF j = i - 1 THEN i ELSE j]
<1>1. /\ net \in Seq(SentSet) /\ DOMAIN net = 1..Len(net) /\ Len(net) \in Nat
      /\ i - 1 \in DOMAIN net /\ net[i] \in SentSet /\ net[i - 1] \in SentSet /\ i - 1 # i
      /\ net[i].count \in Frames /\ net[i - 1].count \in Frames /\ hit \subseteq Frames
  <2>1. DOMAIN net = 1..Len(net) /\ Len(net) \in Nat /\ i > 1
    BY StreamFacts DEF Overtake
  <2>2. i - 1 \in DOMAIN net /\ i - 1 # i
    BY <2>1
  <2> QED
    BY <2>1, <2>2, StreamFacts DEF StreamTypeInv, DatagramsInv
<1>2. /\ net' = [net EXCEPT ![i] = net[i - 1], ![i - 1] = net[i]]
      /\ hit' = hit \cup {net[i].count, net[i - 1].count} /\ lens' = lens
  BY DEF Overtake
<1> DEFINE t == [net EXCEPT ![i] = net[i - 1]]
<1>3. /\ t \in Seq(SentSet) /\ DOMAIN t = DOMAIN net /\ t[i] = net[i - 1]
      /\ \A k \in DOMAIN net : k # i => t[k] = net[k]
  BY <1>1, ChangedProperties
<1>4. net' = [t EXCEPT ![i - 1] = net[i]]
  BY <1>2
<1> HIDE DEF t
<1>5. /\ net' \in Seq(SentSet) /\ DOMAIN net' = DOMAIN t /\ net'[i - 1] = net[i]
      /\ \A k \in DOMAIN t : k # i - 1 => net'[k] = t[k]
  BY <1>1, <1>3, <1>4, ChangedProperties
<1>6. /\ DOMAIN net' = DOMAIN net /\ net'[i - 1] = net[i] /\ net'[i] = net[i - 1]
      /\ \A k \in DOMAIN net : k # i /\ k # i - 1 => net'[k] = net[k]
  BY <1>1, <1>3, <1>5
<1>7. \A j \in DOMAIN net' : f[j] = IF j = i THEN i - 1 ELSE IF j = i - 1 THEN i ELSE j
  OBVIOUS
<1> HIDE DEF f
<1>8. \A j \in DOMAIN net' : f[j] \in DOMAIN net /\ net'[j] = net[f[j]]
  BY <1>1, <1>6, <1>7
<1>9. ASSUME NEW a \in DOMAIN net', NEW b \in DOMAIN net', a < b, f[b] <= f[a]
      PROVE  net'[a].count \in hit' /\ net'[b].count \in hit'
  <2>1. a = i - 1 /\ b = i
    BY <1>1, <1>6, <1>7, <1>9
  <2> QED
    BY <1>2, <1>6, <2>1
<1>10. \A k \in DOMAIN net : \E j \in DOMAIN net' : f[j] = k
  BY <1>1, <1>6, <1>7
<1>11. hit \subseteq hit' /\ hit' \subseteq Frames
  BY <1>1, <1>2
<1>12. lens' = lens /\ net' \in Seq(SentSet)
  BY <1>2, <1>5
<1>13. Carries(f)
  BY <1>8, <1>9, <1>10, <1>11, <1>12 DEF Carries
<1> QED
  BY <1>13 DEF f

LEMMA FaultCarries ==
  ASSUME StreamInv, NEW i \in DOMAIN net, Lose(i) \/ Duplicate(i) \/ Overtake(i)
  PROVE  /\ \E f : Carries(f)
         /\ UNCHANGED <<fvars, rvars, whole, heard>> /\ faults' \in Nat
<1>1. StreamTypeInv /\ DatagramsInv
  BY DEF StreamInv, NetInv
<1>2. \E f : Carries(f)
  <2>1. i \in 1..Len(net)
    BY <1>1, StreamFacts
  <2> QED
    BY <1>1, <2>1, LoseCarries, DuplicateCarries, OvertakeCarries
<1>3. UNCHANGED <<fvars, rvars, whole, heard>> /\ Fault
  BY DEF Lose, Duplicate, Overtake
<1>4. faults' \in Nat
  BY <1>1, <1>3 DEF Fault, StreamTypeInv
<1> QED
  BY <1>2, <1>3, <1>4

-----------------------------------------------------------------------------
(* The first datagram is received.                                         *)

LEMMA DeliveredNet ==
  ASSUME StreamTypeInv, net # <<>>, net' = Tail(net)
  PROVE  /\ net' \in Seq(SentSet) /\ 1 \in DOMAIN net /\ Head(net) = net[1]
         /\ net[1] \in SentSet /\ net[1] \in DatagramSet
         /\ \A j : j \in DOMAIN net' <=> j \in Nat \ {0} /\ j + 1 \in DOMAIN net
         /\ \A j \in DOMAIN net' : net'[j] = net[j + 1]
<1>1. net \in Seq(SentSet) /\ DOMAIN net = 1..Len(net) /\ Len(net) \in Nat
  BY StreamFacts DEF StreamTypeInv
<1>2. /\ 1 \in DOMAIN net /\ Head(net) = net[1] /\ net[1] \in SentSet
      /\ net' \in Seq(SentSet)
      /\ \A k \in DOMAIN net' : k + 1 \in DOMAIN net /\ k + 1 # 1 /\ net'[k] = net[k + 1]
      /\ \A k \in DOMAIN net : k # 1 => k - 1 \in DOMAIN net' /\ net'[k - 1] = net[k]
  <2>1. net \in Seq(SentSet)
    BY <1>1
  <2> QED
    BY <2>1, PoppedProperties
<1>3. DOMAIN net' = 1..Len(net') /\ Len(net') \in Nat
  BY <1>2, DatagramFacts
<1>4. ASSUME NEW j, j \in Nat \ {0} /\ j + 1 \in DOMAIN net PROVE j \in DOMAIN net'
  <2>1. j + 1 # 1 /\ (j + 1) - 1 = j
    BY <1>4
  <2> QED
    BY <1>2, <1>4, <2>1
<1>5. net[1] \in DatagramSet
  BY <1>2, SourceAssumption DEF SentSet, DatagramSet, KnownFormats
<1> QED
  BY <1>2, <1>3, <1>4, <1>5

LEMMA DeliverKeepsNet ==
  ASSUME StreamTypeInv, NetInv, net # <<>>, net' = Tail(net), UNCHANGED <<lens, hit>>
  PROVE  NetInv'
<1>1. /\ DOMAIN net = 1..Len(net) /\ Len(net) \in Nat /\ Frames' = Frames
      /\ 1 \in DOMAIN net
      /\ \A j : j \in DOMAIN net' <=> j \in Nat \ {0} /\ j + 1 \in DOMAIN net
      /\ \A j \in DOMAIN net' : net'[j] = net[j + 1] /\ j \in Nat \ {0} /\ j + 1 \in DOMAIN net
      /\ \A k \in Frames : lens[k] \in Nat /\ k \in Nat
      /\ \A i \in DOMAIN net : net[i].count \in Nat /\ End(net[i]) \in Nat
  <2>1. /\ 1 \in DOMAIN net
        /\ \A j : j \in DOMAIN net' <=> j \in Nat \ {0} /\ j + 1 \in DOMAIN net
        /\ \A j \in DOMAIN net' : net'[j] = net[j + 1]
    BY DeliveredNet
  <2>2. Frames' = Frames /\ \A k \in Frames : k \in Nat
    BY DEF Frames, serial
  <2>3. /\ DOMAIN net = 1..Len(net) /\ Len(net) \in Nat /\ \A k \in Frames : lens[k] \in Nat
        /\ \A i \in DOMAIN net : net[i].count \in Nat /\ End(net[i]) \in Nat
    BY StreamFacts
  <2> QED
    BY <2>1, <2>2, <2>3
<1>2. DatagramsInv'
  <2>1. DatagramsInv
    BY DEF NetInv
  <2> QED
    BY <1>1, <2>1 DEF DatagramsInv
<1>3. OrderedInv'
  <2>1. \A i, j \in DOMAIN net' : i < j => i + 1 < j + 1
    BY <1>1
  <2> QED
    BY <1>1, <2>1 DEF NetInv, OrderedInv
<1>4. ChainInv'
  <2> SUFFICES ASSUME NEW i \in DOMAIN net', net'[i].count \notin hit
               PROVE  IF End(net'[i]) < lens[net'[i].count]
                      THEN /\ i + 1 \in DOMAIN net' /\ net'[i + 1].count = net'[i].count
                           /\ net'[i + 1].kind = "data" /\ net'[i + 1].at = End(net'[i])
                      ELSE \A j \in DOMAIN net' : j > i => net'[j].count # net'[i].count
    BY <1>1 DEF ChainInv, End
  <2> DEFINE k == i + 1
  <2>1. /\ k \in DOMAIN net /\ net'[i] = net[k] /\ net[k].count \notin hit
    BY <1>1
  <2>2. \A j \in DOMAIN net' : j > i => j + 1 > k /\ j + 1 \in DOMAIN net /\ net'[j] = net[j + 1]
    BY <1>1
  <2>3. k + 1 \in DOMAIN net => i + 1 \in DOMAIN net' /\ net'[i + 1] = net[k + 1]
    BY <1>1
  <2> HIDE DEF k
  <2>4. IF End(net[k]) < lens[net[k].count]
        THEN /\ k + 1 \in DOMAIN net /\ net[k + 1].count = net[k].count
             /\ net[k + 1].kind = "data" /\ net[k + 1].at = End(net[k])
        ELSE \A j \in DOMAIN net : j > k => net[j].count # net[k].count
    BY <2>1 DEF NetInv, ChainInv
  <2> QED
    BY <2>1, <2>2, <2>3, <2>4
<1>5. BackInv'
  <2> SUFFICES ASSUME NEW i \in DOMAIN net', net'[i].count \notin hit, net'[i].kind = "data", i > 1
               PROVE  net'[i - 1].count = net'[i].count
    BY DEF BackInv
  <2>1. /\ i + 1 \in DOMAIN net /\ i + 1 > 1 /\ net'[i] = net[i + 1]
        /\ i - 1 \in DOMAIN net' /\ (i - 1) + 1 = (i + 1) - 1
    BY <1>1
  <2>2. net[(i + 1) - 1].count = net[i + 1].count
    BY <2>1 DEF NetInv, BackInv
  <2>3. net'[i - 1] = net[(i + 1) - 1]
    BY <1>1, <2>1
  <2> QED
    BY <2>1, <2>2, <2>3
<1>6. ArrivedInv'
  <2> SUFFICES ASSUME NEW k \in Frames \ hit, \A i \in DOMAIN net' : net'[i].count # k,
                      NEW i \in DOMAIN net'
               PROVE  net'[i].count > k
    BY <1>1 DEF ArrivedInv
  <2>1. i + 1 \in DOMAIN net /\ net'[i] = net[i + 1] /\ net[i + 1].count # k
    BY <1>1
  <2>2. CASE net[1].count = k
    <3>1. net[1].count <= net[i + 1].count
      <4>1. 1 < i + 1 /\ net[1].count \notin hit
        BY <1>1, <2>2
      <4>2. OrderedInv
        BY DEF NetInv
      <4> QED
        BY <1>1, <2>1, <4>1, <4>2 DEF OrderedInv
    <3> QED
      BY <1>1, <2>1, <2>2, <3>1
  <2>3. CASE net[1].count # k
    <3>1. \A j \in DOMAIN net : net[j].count # k
      <4>1. \A j \in DOMAIN net : j = 1 \/ (j - 1 \in DOMAIN net' /\ net'[j - 1] = net[j])
        BY <1>1
      <4> QED
        BY <2>3, <4>1
    <3> QED
      BY <2>1, <3>1 DEF NetInv, ArrivedInv
  <2> QED
    BY <2>2, <2>3
<1> QED
  BY <1>2, <1>3, <1>4, <1>5, <1>6 DEF NetInv

\* A frame for which there are outlets fits into a slot.
LEMMA FrameFits ==
  ASSUME NEW f \in Formats, NEW c \in Nat, c <= NOutlets
  PROVE  BlockSize * SizeOf(f) * c <= BufBytes
<1>1. /\ BlockSize \in Nat \ {0} /\ AudioBufferSize \in Nat \ {0} /\ NOutlets \in Nat
      /\ AudioBufferSize % BlockSize = 0
      /\ SizeOf(f) \in Nat /\ SizeOf(f) <= 4 /\ SizeOf("float") = 4
  BY FormatAssumption, SnugAssumption, ReceiverAssumption DEF SizeOf
<1>2. BlockSize <= AudioBufferSize
  <2>1. SUFFICES ASSUME AudioBufferSize < BlockSize PROVE FALSE
    BY <1>1
  <2>2. AudioBufferSize \in 0..(2 * BlockSize - 1)
    BY <1>1, <2>1
  <2>3. AudioBufferSize % BlockSize = AudioBufferSize
    BY <1>1, <2>1, <2>2, ModSmall
  <2> QED
    BY <1>1, <2>3
<1>3. BlockSize * SizeOf(f) <= AudioBufferSize * SizeOf(f) /\ BlockSize * SizeOf(f) \in Nat
  BY <1>1, <1>2, MulMono
<1>4. SizeOf(f) * AudioBufferSize <= 4 * AudioBufferSize
  BY <1>1, MulMono
<1>5. BlockSize * SizeOf(f) <= AudioBufferSize * 4 /\ AudioBufferSize * 4 \in Nat
  BY <1>1, <1>3, <1>4
<1> DEFINE a == BlockSize * SizeOf(f)
           b == AudioBufferSize * 4
<1>6. a \in Nat /\ b \in Nat /\ a <= b /\ BufBytes = b * NOutlets
  BY <1>1, <1>3, <1>5 DEF BufBytes
<1> HIDE DEF a, b
<1>7. a * c <= b * c
  BY <1>6, MulMono
<1>8. c * b <= NOutlets * b
  BY <1>1, <1>6, MulMono
<1>9. c * b = b * c /\ NOutlets * b = b * NOutlets /\ a * c \in Int /\ b * c \in Int /\ b * NOutlets \in Int
  BY <1>1, <1>6
<1>10. a * c <= b * NOutlets
  BY <1>7, <1>8, <1>9
<1> QED
  BY <1>6, <1>10 DEF a

\* A datagram is received where a tag is expected.
LEMMA TagPolled ==
  ASSUME RTypeOK, NEW d \in DatagramSet,
         PollIncompleteTag(d) \/ PollBadTag(d) \/ PollTooManyChannels(d) \/ PollTag(d)
  PROVE  /\ x_nbytes = 0 /\ UNCHANGED queuevars
         /\ \A i \in Slots : Queued(i) => x_frames'[i] = x_frames[i]
         /\ x_nbytes' > 0 =>
              /\ d.kind = "tag" /\ d.channels <= NOutlets /\ x_nbytes' = d.len
              /\ x_frames'[x_framein].tag = TagOf(d)
<1>1. x_nbytes = 0 /\ UNCHANGED queuevars
  BY DEF PollIncompleteTag, PollBadTag, PollTooManyChannels, PollTag
<1>2. \E v : x_frames' = [x_frames EXCEPT ![x_framein] = v]
  BY DEF PollIncompleteTag, PollBadTag, PollTooManyChannels, PollTag, StoreTag
<1>3. \A i \in Slots : Queued(i) => x_frames'[i] = x_frames[i]
  BY <1>2, FrameInNotQueued DEF RTypeOK
<1>4. ASSUME x_nbytes' > 0
      PROVE  /\ d.kind = "tag" /\ d.channels <= NOutlets /\ x_nbytes' = d.len
             /\ x_frames'[x_framein].tag = TagOf(d)
  <2>1. PollTag(d)
    BY <1>1, <1>4 DEF PollIncompleteTag, PollBadTag, PollTooManyChannels
  <2>2. x_framein \in DOMAIN x_frames
    BY DEF RTypeOK
  <2>3. x_frames' = [x_frames EXCEPT ![x_framein] = [tag |-> TagOf(d), data |-> Blank]]
    BY <2>1 DEF PollTag
  <2> QED
    BY <2>1, <2>2, <2>3 DEF PollTag
<1> QED
  BY <1>1, <1>3, <1>4

\* Data is received, or what is taken for data.
LEMMA DataPolled ==
  ASSUME RTypeOK, NEW d \in DatagramSet, PollData(d)
  PROVE  /\ x_nbytes > 0 /\ x_nbytes' = IF FrameEnds(d) THEN 0 ELSE x_nbytes - Received(d)
         /\ x_frames'[x_framein].tag = x_frames[x_framein].tag
         /\ x_frames'[x_framein].data = StoredData(d)
         /\ \A i \in Slots : i # x_framein => x_frames'[i] = x_frames[i]
         /\ Received(d) \in 1..x_nbytes
         /\ Received(d) = IF WireSize(d) < x_nbytes THEN WireSize(d) ELSE x_nbytes
         /\ WireSize(d) \in Nat \ {0}
<1>1. x_frames[x_framein] \in [tag : TagSet, data : DataSet]
  BY SlotIsRecord
<1>2. [x_frames[x_framein] EXCEPT !.data = StoredData(d)]
        = [tag |-> x_frames[x_framein].tag, data |-> StoredData(d)]
  BY <1>1, SlotUpdate
<1>3. x_frames' = [x_frames EXCEPT ![x_framein] =
                     [tag |-> x_frames[x_framein].tag, data |-> StoredData(d)]]
  BY <1>2 DEF PollData
<1>4. x_framein \in DOMAIN x_frames /\ DOMAIN x_frames = Slots
  BY DEF RTypeOK
<1>5. WireSize(d) \in Nat \ {0}
  <2>1. d.len \in Nat /\ TagSize \in Nat
    BY ReceiverAssumption DEF DatagramSet
  <2> QED
    BY <2>1 DEF PollData, WireSize
<1>6. x_nbytes \in Nat /\ x_nbytes > 0
  BY DEF RTypeOK, PollData
<1>7. /\ x_nbytes' = IF FrameEnds(d) THEN 0 ELSE x_nbytes - Received(d)
  BY DEF PollData
<1> QED
  BY <1>3, <1>4, <1>5, <1>6, <1>7 DEF Received

LEMMA DeliverTypes ==
  ASSUME StreamTypeInv, Deliver
  PROVE  StreamTypeInv'
<1>1. /\ RInv /\ net # <<>> /\ net' = Tail(net) /\ DataPoll(Head(net))
      /\ UNCHANGED <<fvars, lens, hit, faults, heard>>
  BY DEF StreamTypeInv, Deliver
<1>2. net' \in Seq(SentSet) /\ Head(net) \in DatagramSet
  BY <1>1, DeliveredNet
<1>3. RInv'
  BY <1>1, <1>2, PollTagStep, PollDataStep DEF DataPoll
<1> QED
  BY <1>1, <1>2, <1>3 DEF StreamTypeInv, fvars, Frames, serial

LEMMA DeliverTag ==
  ASSUME StreamInv, Deliver,
         \/ PollIncompleteTag(net[1]) \/ PollBadTag(net[1])
         \/ PollTooManyChannels(net[1]) \/ PollTag(net[1])
  PROVE  AssembledInv' /\ QueuedIsIntact' /\ PlaylistInv'
<1>1. /\ StreamTypeInv /\ NetInv /\ QueuedIsIntact /\ PlaylistInv /\ RTypeOK
      /\ DatagramsInv /\ OrderedInv /\ ChainInv
  BY DEF StreamInv, StreamTypeInv, RInv, NetInv
<1>2. net # <<>> /\ net' = Tail(net) /\ UNCHANGED <<fvars, lens, hit, faults, heard>> /\ Frames' = Frames
  BY DEF Deliver, Frames, serial
<1>3. /\ net' \in Seq(SentSet) /\ 1 \in DOMAIN net /\ net[1] \in SentSet /\ net[1] \in DatagramSet
      /\ \A j : j \in DOMAIN net' <=> j \in Nat \ {0} /\ j + 1 \in DOMAIN net
      /\ \A j \in DOMAIN net' : net'[j] = net[j + 1]
  BY <1>1, <1>2, DeliveredNet
<1>4. /\ x_nbytes = 0 /\ UNCHANGED queuevars
      /\ \A i \in Slots : Queued(i) => x_frames'[i] = x_frames[i]
      /\ x_nbytes' > 0 =>
           /\ net[1].kind = "tag" /\ net[1].channels <= NOutlets /\ x_nbytes' = net[1].len
           /\ x_frames'[x_framein].tag = TagOf(net[1])
  BY <1>1, <1>3, TagPolled
<1>5. QueuedIsIntact' /\ PlaylistInv'
  <2>1. \A j \in DOMAIN net' : \E i \in DOMAIN net : net'[j] = net[i]
    BY <1>3
  <2>2. UNCHANGED <<x_framein, x_frameout, heard>>
    BY <1>2, <1>4 DEF queuevars
  <2> QED
    BY <1>1, <1>2, <1>4, <2>1, <2>2, QueueStays
<1>6. AssembledInv'
  <2> SUFFICES ASSUME x_nbytes' > 0 PROVE AssembledInv'
    BY DEF AssembledInv
  <2> DEFINE c == net[1].count
  <2>1. /\ x_framein' = x_framein /\ assembled' = c /\ x_frames'[x_framein].tag.framesize = net[1].len
        /\ x_frames'[x_framein].tag.format = net[1].format
    BY <1>4 DEF queuevars, TagOf, assembled
  <2>2. /\ c \in Frames /\ net[1].len = lens[c] /\ End(net[1]) = 0
        /\ net[1].len = BlockSize * SizeOf(net[1].format) * net[1].channels
    BY <1>1, <1>3, <1>4 DEF DatagramsInv, End
  <2>3. /\ net[1].format \in Formats /\ net[1].channels \in Nat /\ lens[c] \in Nat /\ c \in Nat
        /\ \A i \in DOMAIN net : i \in Nat \ {0} /\ net[i].count \in Nat
        /\ DOMAIN net = 1..Len(net) /\ net \in Seq(SentSet)
    BY <1>1, <1>3, <2>2, StreamFacts, DatagramFacts DEF StreamTypeInv
  <2>4. lens[c] <= BufBytes
    BY <1>4, <2>2, <2>3, FrameFits
  <2>5. ASSUME NEW j \in DOMAIN net', net'[j].count \notin hit PROVE net'[j].count >= c
    <3>1. j + 1 \in DOMAIN net /\ 1 < j + 1 /\ net'[j] = net[j + 1]
      BY <1>3
    <3>2. net[1].count <= net[j + 1].count
      BY <1>1, <1>3, <2>5, <3>1 DEF OrderedInv
    <3> QED
      BY <2>3, <3>1, <3>2
  <2>6. ASSUME c \notin hit
        PROVE  /\ net' # <<>> /\ net'[1].count = c /\ net'[1].kind = "data" /\ net'[1].at = 0
    <3>1. 2 \in DOMAIN net /\ net[2].count = c /\ net[2].kind = "data" /\ net[2].at = 0
      <4>1. End(net[1]) < lens[c]
        BY <1>4, <2>2, <2>3
      <4>2. 1 + 1 \in DOMAIN net /\ net[1 + 1].count = c /\ net[1 + 1].kind = "data" /\ net[1 + 1].at = 0
        BY <1>1, <1>3, <2>2, <2>6, <4>1 DEF ChainInv
      <4>3. 1 + 1 = 2
        OBVIOUS
      <4> QED
        BY <4>2, <4>3
    <3>2. 1 \in DOMAIN net' /\ net'[1] = net[2]
      <4>1. 1 + 1 = 2 /\ 1 \in Nat \ {0}
        OBVIOUS
      <4> QED
        BY <1>3, <3>1, <4>1
    <3> QED
      BY <3>1, <3>2
  <2>7. x_nbytes' = lens[c] /\ x_nbytes' <= lens[c] /\ lens[c] - x_nbytes' = 0
    BY <1>4, <2>2, <2>3
  <2> HIDE DEF c
  <2>8. \A p \in 0..(0 - 1) : FALSE
    OBVIOUS
  <2> QED
    BY <1>2, <2>1, <2>2, <2>3, <2>4, <2>5, <2>6, <2>7, <2>8 DEF AssembledInv
<1> QED
  BY <1>5, <1>6

\* The data of a frame that is not struck goes where it belongs.
LEMMA UnharmedData ==
  ASSUME StreamInv, net # <<>>, PollData(net[1]), assembled \notin hit
  PROVE  /\ net[1].count = assembled /\ net[1].kind = "data" /\ Received(net[1]) = net[1].len
         /\ End(net[1]) = lens[assembled] - (x_nbytes - Received(net[1]))
         /\ \A p \in 0..(End(net[1]) - 1) : StoredData(net[1])[p] = assembled
<1>1. StreamTypeInv /\ DatagramsInv /\ AssembledInv /\ RTypeOK
  BY DEF StreamInv, StreamTypeInv, RInv, NetInv
<1>2. 1 \in DOMAIN net /\ net[1] \in DatagramSet
  <2>1. net \in Seq(SentSet) /\ Tail(net) = Tail(net)
    BY <1>1 DEF StreamTypeInv
  <2>2. 1 \in DOMAIN net /\ net[1] \in SentSet
    BY <2>1, PoppedProperties
  <2> QED
    BY <2>2, SourceAssumption DEF SentSet, DatagramSet, KnownFormats
<1>3. /\ x_nbytes > 0
      /\ Received(net[1]) = IF WireSize(net[1]) < x_nbytes THEN WireSize(net[1]) ELSE x_nbytes
  BY <1>1, <1>2, DataPolled
<1>4. /\ assembled \in Frames /\ x_frames[x_framein].tag.framesize = lens[assembled]
      /\ x_nbytes <= lens[assembled] /\ lens[assembled] <= BufBytes
      /\ net[1].count = assembled /\ net[1].kind = "data" /\ net[1].at = lens[assembled] - x_nbytes
      /\ \A p \in 0..(lens[assembled] - x_nbytes - 1) : x_frames[x_framein].data[p] = assembled
  BY <1>1, <1>3 DEF AssembledInv
<1>5. /\ lens[assembled] \in Nat /\ x_nbytes \in Nat /\ net[1].len \in Nat
  BY <1>1, <1>2, <1>4, StreamFacts
<1>6. End(net[1]) = net[1].at + net[1].len /\ End(net[1]) <= lens[assembled]
  BY <1>1, <1>2, <1>4 DEF DatagramsInv, End
<1>7. Received(net[1]) = net[1].len
  BY <1>3, <1>4, <1>5, <1>6 DEF WireSize
<1>8. End(net[1]) = lens[assembled] - (x_nbytes - Received(net[1]))
  BY <1>4, <1>5, <1>6, <1>7
<1>9. Offset = net[1].at
  BY <1>4 DEF Offset
<1>10. BufBytes \in Nat
  BY ReceiverAssumption, FormatAssumption DEF BufBytes, SizeOf
<1>11. ASSUME NEW p \in 0..(End(net[1]) - 1) PROVE StoredData(net[1])[p] = assembled
  <2>1. p \in 0..(BufBytes - 1)
    BY <1>4, <1>5, <1>6, <1>10
  <2>2. StoredData(net[1])[p] =
          IF p \in Offset..(Offset + Received(net[1]) - 1)
          THEN IF net[1].kind = "data" /\ net[1].at = Offset THEN net[1].count ELSE Foreign
          ELSE x_frames[x_framein].data[p]
    BY <2>1 DEF StoredData
  <2>3. CASE p \in Offset..(Offset + Received(net[1]) - 1)
    BY <1>4, <1>9, <2>2, <2>3
  <2>4. CASE p \notin Offset..(Offset + Received(net[1]) - 1)
    <3>1. p \in 0..(lens[assembled] - x_nbytes - 1)
      BY <1>4, <1>5, <1>6, <1>7, <1>9, <2>4
    <3> QED
      BY <1>4, <2>2, <2>4, <3>1
  <2> QED
    BY <2>3, <2>4
<1> QED
  BY <1>4, <1>7, <1>8, <1>11

\* A frame joins the queue behind all others.
LEMMA Enqueued ==
  ASSUME RTypeOK, Enqueue
  PROVE  /\ x_frameout' = x_frameout
         /\ \A i \in Slots : Place(i)' = Place(i) /\ Place(i) \in Nat
         /\ \A i \in Slots : Queued(i)' => i = x_framein \/ (Queued(i) /\ i # x_framein)
         /\ \A i \in Slots : Queued(i) => Place(i) < Place(x_framein)
         /\ x_framein \in Slots
<1>1. /\ NFrames \in Nat /\ NFrames > 1 /\ x_framein \in Slots /\ x_frameout \in Slots
      /\ \A i \in Slots : i \in Nat /\ i < NFrames
  BY ReceiverAssumption DEF RTypeOK, Slots
<1>2. x_framein' = (IF x_framein = NFrames - 1 THEN 0 ELSE x_framein + 1) /\ x_frameout' = x_frameout
  BY <1>1, SuccSlot DEF Enqueue
<1>3. \A i \in Slots : Queued(i)' => i = x_framein \/ (Queued(i) /\ i # x_framein)
  BY <1>1, <1>2 DEF Queued
<1>4. \A i \in Slots : Queued(i) => Place(i) < Place(x_framein)
  BY <1>1 DEF Queued, Place
<1>5. \A i \in Slots : Place(i)' = Place(i) /\ Place(i) \in Nat
  BY <1>1, <1>2 DEF Place
<1> QED
  BY <1>1, <1>2, <1>3, <1>4, <1>5

LEMMA DeliverData ==
  ASSUME StreamInv, Deliver, PollData(net[1])
  PROVE  AssembledInv' /\ QueuedIsIntact' /\ PlaylistInv'
<1>1. /\ StreamTypeInv /\ NetInv /\ QueuedIsIntact /\ PlaylistInv /\ RTypeOK
      /\ AssembledInv /\ OrderedInv /\ ChainInv
  BY DEF StreamInv, StreamTypeInv, RInv, NetInv
<1>2. net # <<>> /\ net' = Tail(net) /\ UNCHANGED <<fvars, lens, hit, faults, heard>> /\ Frames' = Frames
  BY DEF Deliver, Frames, serial
<1>3. /\ net' \in Seq(SentSet) /\ 1 \in DOMAIN net /\ net[1] \in DatagramSet
      /\ \A j : j \in DOMAIN net' <=> j \in Nat \ {0} /\ j + 1 \in DOMAIN net
      /\ \A j \in DOMAIN net' : net'[j] = net[j + 1]
  BY <1>1, <1>2, DeliveredNet
<1>4. /\ x_nbytes > 0 /\ x_nbytes' = IF FrameEnds(net[1]) THEN 0 ELSE x_nbytes - Received(net[1])
      /\ x_frames'[x_framein].tag = x_frames[x_framein].tag
      /\ x_frames'[x_framein].data = StoredData(net[1])
      /\ \A i \in Slots : i # x_framein => x_frames'[i] = x_frames[i]
      /\ Received(net[1]) \in 1..x_nbytes
  BY <1>1, <1>3, DataPolled
<1>5. /\ assembled \in Frames /\ x_frames[x_framein].tag.framesize = lens[assembled]
      /\ x_nbytes <= lens[assembled] /\ lens[assembled] <= BufBytes
      /\ x_frames[x_framein].tag.format \in Formats
      /\ \A i \in DOMAIN net : net[i].count \notin hit => net[i].count >= assembled
  BY <1>1, <1>4 DEF AssembledInv
<1>6. assembled \notin hit =>
        /\ net[1].count = assembled
        /\ End(net[1]) = lens[assembled] - (x_nbytes - Received(net[1]))
        /\ \A p \in 0..(End(net[1]) - 1) : StoredData(net[1])[p] = assembled
  BY <1>2, UnharmedData
<1>7. /\ lens[assembled] \in Nat /\ x_nbytes \in Nat /\ assembled \in Nat
      /\ \A i \in DOMAIN net : net[i].count \in Nat /\ i \in Nat \ {0}
  BY <1>1, <1>5, StreamFacts DEF Frames
<1>8. CASE ~FrameEnds(net[1])
  <2>1. x_nbytes' = x_nbytes - Received(net[1]) /\ UNCHANGED queuevars
    BY <1>4, <1>8 DEF PollData
  <2>2. x_framein' = x_framein /\ x_frameout' = x_frameout /\ assembled' = assembled
    BY <1>4, <2>1 DEF queuevars, assembled
  <2>3. QueuedIsIntact' /\ PlaylistInv'
    <3>1. \A j \in DOMAIN net' : \E i \in DOMAIN net : net'[j] = net[i]
      BY <1>3
    <3>2. \A i \in Slots : Queued(i) => x_frames'[i] = x_frames[i]
      BY <1>1, <1>4, FrameInNotQueued
    <3> QED
      BY <1>1, <1>2, <2>2, <3>1, <3>2, QueueStays
  <2>4. \A j \in DOMAIN net' : net'[j].count \notin hit => net'[j].count >= assembled
    BY <1>3, <1>5
  <2>5. x_nbytes' <= lens[assembled]
    BY <1>4, <1>5, <1>7, <2>1
  <2>6. ASSUME assembled \notin hit
        PROVE  /\ net' # <<>> /\ net'[1].count = assembled
               /\ net'[1].kind = "data" /\ net'[1].at = lens[assembled] - x_nbytes'
               /\ \A p \in 0..(lens[assembled] - x_nbytes' - 1) :
                    x_frames'[x_framein].data[p] = assembled
    <3>1. End(net[1]) = lens[assembled] - x_nbytes' /\ End(net[1]) < lens[assembled]
      BY <1>4, <1>6, <1>7, <1>8, <2>1, <2>6 DEF FrameEnds
    <3>2. /\ 1 + 1 \in DOMAIN net /\ net[1 + 1].count = assembled
          /\ net[1 + 1].kind = "data" /\ net[1 + 1].at = End(net[1])
      BY <1>1, <1>3, <1>6, <2>6, <3>1 DEF ChainInv
    <3>3. 1 \in DOMAIN net' /\ net'[1] = net[1 + 1]
      BY <1>3, <3>2
    <3> QED
      BY <1>4, <1>6, <2>6, <3>1, <3>2, <3>3
  <2>7. AssembledInv'
    BY <1>2, <1>4, <1>5, <2>2, <2>4, <2>5, <2>6 DEF AssembledInv
  <2> QED
    BY <2>3, <2>7
<1>9. CASE FrameEnds(net[1])
  <2>1. x_nbytes' = 0 /\ Enqueue /\ Received(net[1]) = x_nbytes
    <3>1. x_frames[x_framein].tag.format # "aac"
      BY <1>5 DEF Formats
    <3> QED
      BY <1>4, <1>9, <3>1 DEF PollData, FrameEnds
  <2>2. AssembledInv'
    BY <2>1 DEF AssembledInv
  <2>3. /\ x_frameout' = x_frameout
        /\ \A i \in Slots : Place(i)' = Place(i) /\ Place(i) \in Nat
        /\ \A i \in Slots : Queued(i)' => i = x_framein \/ (Queued(i) /\ i # x_framein)
        /\ \A i \in Slots : Queued(i) => Place(i) < Place(x_framein)
        /\ x_framein \in Slots
    BY <1>1, <2>1, Enqueued
  <2>4. x_frames'[x_framein].tag.count = assembled
    BY <1>4 DEF assembled
  <2>5. assembled \notin hit => End(net[1]) = lens[assembled] /\ net[1].count = assembled
    BY <1>6, <1>7, <2>1
  <2>6. \A i \in Slots :
          Unharmed(i)' => \/ i = x_framein /\ assembled \notin hit
                          \/ i # x_framein /\ Unharmed(i) /\ x_frames'[i] = x_frames[i]
    BY <1>2, <1>4, <2>3, <2>4 DEF Unharmed
  <2>7. QueuedIsIntact'
    <3> SUFFICES ASSUME NEW i \in Slots, Queued(i)', x_frames'[i].tag.count \notin hit
                 PROVE  Intact(x_frames'[i])
      BY <1>2 DEF QueuedIsIntact, Intact
    <3>1. CASE i = x_framein
      <4>1. assembled \notin hit /\ x_frames'[i].tag.framesize = lens[assembled]
        BY <1>4, <1>5, <2>4, <3>1
      <4>2. \A p \in 0..(lens[assembled] - 1) : x_frames'[i].data[p] = assembled
        BY <1>4, <1>6, <2>5, <3>1, <4>1
      <4> QED
        BY <2>4, <3>1, <4>1, <4>2 DEF Intact
    <3>2. CASE i # x_framein
      <4>1. Queued(i) /\ x_frames'[i] = x_frames[i]
        BY <1>4, <2>3, <3>2
      <4> QED
        BY <1>1, <4>1 DEF QueuedIsIntact
    <3> QED
      BY <3>1, <3>2
  <2>8. \A i \in Slots : Queued(i)' => x_frames'[i].tag.count \in Frames
    BY <1>1, <1>4, <1>5, <2>3, <2>4 DEF PlaylistInv
  <2>9. assembled \notin hit =>
          /\ heard < assembled
          /\ \A i \in Slots : Unharmed(i) => x_frames[i].tag.count < assembled
    BY <1>1, <1>3, <2>5 DEF PlaylistInv
  <2>10. ASSUME NEW i \in Slots, NEW j \in Slots, Unharmed(i)', Unharmed(j)', Place(i)' < Place(j)'
         PROVE  x_frames'[i].tag.count < x_frames'[j].tag.count
    <3>1. CASE j = x_framein
      <4>1. i # x_framein
        BY <2>3, <2>10, <3>1
      <4> QED
        BY <2>4, <2>6, <2>9, <2>10, <3>1, <4>1
    <3>2. CASE j # x_framein /\ i = x_framein
      <4>1. Queued(j) /\ Place(j) < Place(i) /\ Place(i) < Place(j)
        BY <2>3, <2>6, <2>10, <3>2 DEF Unharmed
      <4>2. Place(i) \in Nat /\ Place(j) \in Nat
        BY <2>3
      <4> QED
        BY <4>1, <4>2
    <3>3. CASE j # x_framein /\ i # x_framein
      <4>1. Unharmed(i) /\ Unharmed(j) /\ Place(i) < Place(j) /\ x_frames'[i] = x_frames[i]
            /\ x_frames'[j] = x_frames[j]
        BY <2>3, <2>6, <2>10, <3>3
      <4> QED
        BY <1>1, <4>1 DEF PlaylistInv
    <3> QED
      BY <3>1, <3>2, <3>3
  <2>11. \A i \in Slots : Unharmed(i)' => heard < x_frames'[i].tag.count
    BY <1>1, <2>4, <2>6, <2>9 DEF PlaylistInv
  <2>12. ASSUME NEW i \in Slots, NEW j \in DOMAIN net', Unharmed(i)', net'[j].count \notin hit
         PROVE  x_frames'[i].tag.count < net'[j].count
    <3>1. j + 1 \in DOMAIN net /\ net'[j] = net[j + 1] /\ 1 < j + 1
      BY <1>3
    <3>2. CASE i = x_framein
      <4>1. assembled \notin hit
        BY <2>6, <2>12, <3>2
      <4>2. net[j + 1].count # assembled
        <5>1. ~(End(net[1]) < lens[net[1].count]) /\ net[1].count \notin hit
          BY <1>7, <2>5, <4>1
        <5> QED
          BY <1>1, <1>3, <2>5, <3>1, <4>1, <5>1 DEF ChainInv
      <4>3. net[j + 1].count >= assembled
        BY <1>5, <2>12, <3>1
      <4> QED
        BY <1>7, <2>4, <3>1, <3>2, <4>2, <4>3
    <3>3. CASE i # x_framein
      BY <1>1, <2>6, <2>12, <3>1, <3>3 DEF PlaylistInv
    <3> QED
      BY <3>2, <3>3
  <2>13. \A j \in DOMAIN net' : net'[j].count \notin hit => heard < net'[j].count
    BY <1>1, <1>3 DEF PlaylistInv
  <2>14. PlaylistInv'
    BY <1>2, <2>8, <2>10, <2>11, <2>12, <2>13 DEF PlaylistInv
  <2> QED
    BY <2>2, <2>7, <2>14
<1> QED
  BY <1>8, <1>9

LEMMA DeliverStep ==
  ASSUME StreamInv, Deliver
  PROVE  StreamInv'
<1>1. StreamTypeInv /\ NetInv
  BY DEF StreamInv
<1>2. net # <<>> /\ net' = Tail(net) /\ UNCHANGED <<lens, hit>> /\ DataPoll(Head(net))
  BY DEF Deliver
<1>3. NetInv' /\ StreamTypeInv'
  BY <1>1, <1>2, DeliverKeepsNet, DeliverTypes
<1>4. Head(net) = net[1]
  BY <1>1, <1>2, DeliveredNet
<1>5. AssembledInv' /\ QueuedIsIntact' /\ PlaylistInv'
  BY <1>2, <1>4, DeliverTag, DeliverData DEF DataPoll
<1> QED
  BY <1>3, <1>5 DEF StreamInv

-----------------------------------------------------------------------------
(* A frame is sent, all of it or its first datagrams.                      *)

Stamped(i) == [FrameDatagrams[i] EXCEPT !.count = serial + 1]

LEMMA StampedProperties ==
  ASSUME x_tag \in Tags, serial \in Nat
  PROVE  /\ Packets \in Nat /\ Length \in Nat
         /\ \A i \in 1..(Packets + 1) :
              /\ Stamped(i) \in SentSet /\ Stamped(i).count = serial + 1
              /\ Stamped(i).channels = x_tag.channels
              /\ End(Stamped(i)) <= Length
              /\ End(Stamped(i)) < Length <=> i <= Packets
              /\ IF i = 1
                 THEN /\ Stamped(i).kind = "tag" /\ Stamped(i).len = Length
                      /\ Length = BlockSize * SizeOf(Stamped(i).format) * Stamped(i).channels
                 ELSE Stamped(i).kind = "data" /\ Stamped(i).len > 0
              /\ i <= Packets => Stamped(i + 1).at = End(Stamped(i))
<1>1. /\ Packets \in Nat /\ (Packets = 0 <=> Length = 0) /\ Length \in Nat
      /\ \A i \in 1..Packets :
           /\ PacketLen(i) \in Nat \ {0} /\ (i - 1) * PacketSize \in Nat
           /\ (i - 1) * PacketSize + PacketLen(i) = IF i = Packets THEN Length ELSE i * PacketSize
           /\ (i - 1) * PacketSize + PacketLen(i) <= Length
  BY PacketsFillFrame, LengthIsNat
<1>2. /\ FrameDatagrams[1] = Datagram("tag", 0, Length)
      /\ \A i \in 1..Packets :
           FrameDatagrams[i + 1] = Datagram("data", (i - 1) * PacketSize, PacketLen(i))
  BY FrameDatagramsProperties
<1> DEFINE M(kind, at, len) ==
             [kind |-> kind, format |-> x_tag.format, channels |-> x_tag.channels,
              count |-> serial + 1, at |-> at, len |-> len]
<1>3. \A kind, at, len : [Datagram(kind, at, len) EXCEPT !.count = serial + 1] = M(kind, at, len)
  BY DEF Datagram
<1>4. /\ Stamped(1) = M("tag", 0, Length)
      /\ \A i \in 1..Packets : Stamped(i + 1) = M("data", (i - 1) * PacketSize, PacketLen(i))
  BY <1>2, <1>3 DEF Stamped
<1>5. /\ \A kind, at, len :
           /\ M(kind, at, len).kind = kind /\ M(kind, at, len).format = x_tag.format
           /\ M(kind, at, len).channels = x_tag.channels /\ M(kind, at, len).count = serial + 1
           /\ M(kind, at, len).at = at /\ M(kind, at, len).len = len
      /\ \A kind \in {"tag", "data"}, at \in Nat, len \in Nat : M(kind, at, len) \in SentSet
  <2>1. x_tag.format \in Formats /\ x_tag.channels \in 0..NInlets /\ serial + 1 \in Nat
    BY DEF Tags
  <2> QED
    BY <2>1 DEF SentSet
<1> HIDE DEF M
<1>6. /\ Stamped(1) \in SentSet /\ Stamped(1).count = serial + 1 /\ Stamped(1).channels = x_tag.channels
      /\ Stamped(1).kind = "tag" /\ Stamped(1).len = Length /\ End(Stamped(1)) = 0
      /\ Length = BlockSize * SizeOf(Stamped(1).format) * Stamped(1).channels
  <2>1. Stamped(1).kind = "tag" /\ Stamped(1).format = x_tag.format /\ Stamped(1).channels = x_tag.channels
    BY <1>4, <1>5
  <2> QED
    BY <1>1, <1>4, <1>5, <2>1 DEF End, Length
<1>7. ASSUME NEW i \in 1..Packets
      PROVE  /\ Stamped(i + 1) \in SentSet /\ Stamped(i + 1).count = serial + 1
             /\ Stamped(i + 1).channels = x_tag.channels
             /\ Stamped(i + 1).kind = "data" /\ Stamped(i + 1).len > 0
             /\ Stamped(i + 1).at = (i - 1) * PacketSize
             /\ End(Stamped(i + 1)) = IF i = Packets THEN Length ELSE i * PacketSize
             /\ End(Stamped(i + 1)) <= Length
  <2>1. Stamped(i + 1) = M("data", (i - 1) * PacketSize, PacketLen(i))
    BY <1>4
  <2>2. /\ Stamped(i + 1).kind = "data" /\ Stamped(i + 1).at = (i - 1) * PacketSize
        /\ Stamped(i + 1).len = PacketLen(i) /\ Stamped(i + 1).count = serial + 1
        /\ Stamped(i + 1).channels = x_tag.channels /\ Stamped(i + 1) \in SentSet
    BY <1>1, <1>5, <2>1
  <2>3. End(Stamped(i + 1)) = (i - 1) * PacketSize + PacketLen(i)
    BY <2>2 DEF End
  <2> QED
    BY <1>1, <2>2, <2>3
\* Where the next one begins.
<1>8. ASSUME NEW i \in 1..Packets
      PROVE  End(Stamped(i)) = (i - 1) * PacketSize /\ End(Stamped(i)) < Length
  <2>1. (i - 1) * PacketSize < Length
    <3> DEFINE at == (i - 1) * PacketSize
    <3>1. at \in Nat /\ at + PacketLen(i) <= Length /\ PacketLen(i) \in Nat \ {0} /\ Length \in Nat
      BY <1>1
    <3> HIDE DEF at
    <3>2. at < Length
      BY <3>1
    <3> QED
      BY <3>2 DEF at
  <2>2. CASE i = 1
    <3>1. (1 - 1) * PacketSize = 0
      BY SourceAssumption
    <3> QED
      BY <1>6, <2>1, <2>2, <3>1
  <2>3. CASE i # 1
    <3> DEFINE k == i - 1
    <3>1. k \in 1..Packets /\ k # Packets /\ k + 1 = i
      BY <1>1, <2>3
    <3>2. (i - 1) * PacketSize = k * PacketSize
      OBVIOUS
    <3> HIDE DEF k
    <3>3. End(Stamped(k + 1)) = k * PacketSize
      BY <1>7, <3>1
    <3> QED
      BY <2>1, <3>1, <3>2, <3>3
  <2> QED
    BY <2>2, <2>3
<1>9. End(Stamped(Packets + 1)) = Length
  <2>1. CASE Packets = 0
    BY <1>1, <1>6, <2>1
  <2>2. CASE Packets # 0
    BY <1>1, <1>7, <2>2
  <2> QED
    BY <2>1, <2>2
<1>10. ASSUME NEW i \in 1..(Packets + 1)
       PROVE  /\ Stamped(i) \in SentSet /\ Stamped(i).count = serial + 1
              /\ Stamped(i).channels = x_tag.channels
              /\ IF i = 1
                 THEN /\ Stamped(i).kind = "tag" /\ Stamped(i).len = Length
                      /\ Length = BlockSize * SizeOf(Stamped(i).format) * Stamped(i).channels
                 ELSE Stamped(i).kind = "data" /\ Stamped(i).len > 0
  <2>1. CASE i = 1
    BY <1>6, <2>1
  <2>2. CASE i # 1
    <3> DEFINE k == i - 1
    <3>1. k \in 1..Packets /\ k + 1 = i
      BY <1>1, <2>2
    <3> HIDE DEF k
    <3>2. /\ Stamped(k + 1) \in SentSet /\ Stamped(k + 1).count = serial + 1
          /\ Stamped(k + 1).channels = x_tag.channels
          /\ Stamped(k + 1).kind = "data" /\ Stamped(k + 1).len > 0
      BY <1>7, <3>1
    <3> QED
      BY <2>2, <3>1, <3>2
  <2> QED
    BY <2>1, <2>2
<1>11. ASSUME NEW i \in 1..(Packets + 1)
       PROVE  /\ End(Stamped(i)) <= Length
              /\ End(Stamped(i)) < Length <=> i <= Packets
              /\ i <= Packets => Stamped(i + 1).at = End(Stamped(i))
  <2>1. CASE i <= Packets
    <3>1. i \in 1..Packets
      BY <1>1, <2>1
    <3> QED
      BY <1>1, <1>7, <1>8, <2>1, <3>1
  <2>2. CASE ~(i <= Packets)
    <3>1. i = Packets + 1
      BY <1>1, <2>2
    <3> QED
      BY <1>1, <1>9, <2>2, <3>1
  <2> QED
    BY <2>1, <2>2
<1> QED
  BY <1>1, <1>10, <1>11

\* q datagrams of it are sent; the frame is struck unless these are all.
Sends(q) ==
  /\ q \in 0..(Packets + 1) /\ lens' = Append(lens, Length) /\ net' \in Seq(SentSet)
  /\ DOMAIN net' = 1..(Len(net) + q)
  /\ \A i \in DOMAIN net : net'[i] = net[i]
  /\ \A i \in 1..q : net'[Len(net) + i] = Stamped(i)
  /\ \/ hit' = hit /\ q = Packets + 1
     \/ hit' = hit \cup {serial + 1}

LEMMA TransmitSends ==
  ASSUME StreamTypeInv, SendWhole \/ \E k \in 0..Packets : SendSome(k)
  PROVE  \E q : Sends(q)
<1>1. /\ x_tag \in Tags /\ serial \in Nat /\ net \in Seq(SentSet)
      /\ DOMAIN net = 1..Len(net) /\ Len(net) \in Nat
  BY StreamFacts DEF StreamTypeInv
<1>2. /\ Packets \in Nat /\ \A i \in 1..(Packets + 1) : Stamped(i) \in SentSet
  BY <1>1, StampedProperties
<1>3. Len(FrameDatagrams) = Packets + 1 /\ DOMAIN FrameDatagrams = 1..(Packets + 1)
  BY <1>1, FrameDatagramsProperties
<1>4. \E n \in 0..(Packets + 1) :
        /\ Stamp(sent') = [i \in 1..n |-> Stamped(i)]
        /\ \/ hit' = hit /\ n = Packets + 1
           \/ hit' = hit \cup {serial + 1}
  <2>1. CASE SendWhole
    <3>1. sent' = FrameDatagrams /\ hit' = hit
      BY <2>1 DEF SendWhole, SendFrame
    <3>2. Stamp(sent') = [i \in 1..(Packets + 1) |-> Stamped(i)]
      BY <1>3, <3>1 DEF Stamp, Stamped
    <3>3. Packets + 1 \in 0..(Packets + 1)
      BY <1>2
    <3> QED
      BY <3>1, <3>2, <3>3
  <2>2. ASSUME NEW k \in 0..Packets, SendSome(k)
        PROVE  \E n \in 0..(Packets + 1) :
                 Stamp(sent') = [i \in 1..n |-> Stamped(i)] /\ hit' = hit \cup {serial + 1}
    <3>1. sent' = SubSeq(FrameDatagrams, 1, k) /\ hit' = hit \cup {serial + 1}
      BY <2>2 DEF SendSome, SendPart
    <3>2. sent' = [i \in 1..k |-> FrameDatagrams[i]]
      <4>1. \A i \in 1..(k - 1 + 1) : 1 + i - 1 = i
        BY <1>2
      <4>2. 1..(k - 1 + 1) = 1..k
        BY <1>2
      <4> QED
        BY <3>1, <4>1, <4>2
    <3>3. DOMAIN sent' = 1..k /\ \A i \in 1..k : sent'[i] = FrameDatagrams[i]
      BY <3>2
    <3>4. Stamp(sent') = [i \in 1..k |-> Stamped(i)]
      BY <3>3 DEF Stamp, Stamped
    <3> QED
      BY <1>2, <3>1, <3>4
  <2> QED
    BY <2>1, <2>2
<1>5. PICK n \in 0..(Packets + 1) :
        /\ Stamp(sent') = [i \in 1..n |-> Stamped(i)]
        /\ \/ hit' = hit /\ n = Packets + 1
           \/ hit' = hit \cup {serial + 1}
  BY <1>4
<1> DEFINE s == Stamp(sent')
<1>6. /\ s \in Seq(SentSet) /\ Len(s) = n /\ n \in Nat
      /\ \A i \in 1..n : s[i] = Stamped(i)
  BY <1>2, <1>5
<1>7. lens' = Append(lens, Length) /\ net' = net \o s
  BY DEF SendWhole, SendSome, Transmit
<1> HIDE DEF s
<1>8. /\ net \o s \in Seq(SentSet) /\ Len(net \o s) = Len(net) + n
      /\ \A i \in 1..(Len(net) + n) : (net \o s)[i] = IF i <= Len(net) THEN net[i] ELSE s[i - Len(net)]
  <2>1. net \in Seq(SentSet)
    BY <1>1
  <2> QED
    BY <1>6, <2>1, ConcatProperties
<1>9. DOMAIN net' = 1..(Len(net) + n)
  BY <1>7, <1>8, LenProperties
<1>10. \A i \in DOMAIN net : net'[i] = net[i]
  BY <1>1, <1>6, <1>7, <1>8
<1>11. ASSUME NEW i \in 1..n PROVE net'[Len(net) + i] = Stamped(i)
  <2>1. /\ Len(net) + i \in 1..(Len(net) + n) /\ ~(Len(net) + i <= Len(net))
        /\ (Len(net) + i) - Len(net) = i
    BY <1>1, <1>6
  <2> QED
    BY <1>6, <1>7, <1>8, <2>1
<1>12. Sends(n)
  BY <1>5, <1>7, <1>8, <1>9, <1>10, <1>11 DEF Sends
<1> QED
  BY <1>12

LEMMA SendsFacts ==
  ASSUME StreamTypeInv, DatagramsInv, NEW q, Sends(q)
  PROVE  /\ serial' = serial + 1 /\ serial \in Nat /\ Frames' = Frames \cup {serial + 1}
         /\ serial + 1 \notin Frames /\ lens' \in Seq(Nat)
         /\ \A k \in Frames : lens'[k] = lens[k] /\ lens[k] \in Nat /\ k \in Nat /\ k < serial + 1
         /\ lens'[serial + 1] = Length /\ Length \in Nat
         /\ hit' \subseteq Frames' /\ hit \subseteq hit' /\ \A k \in Frames : k \in hit' => k \in hit
         /\ \A j \in DOMAIN net' :
              \/ j \in DOMAIN net /\ net'[j] = net[j] /\ net[j].count \in Frames
              \/ \E i \in 1..q : j = Len(net) + i /\ net'[j] = Stamped(i) /\ net'[j].count = serial + 1
         /\ \A j \in DOMAIN net : j \in DOMAIN net' /\ net'[j] = net[j] /\ net[j].count \in Frames
         /\ \A i \in 1..q : Len(net) + i \in DOMAIN net' /\ net'[Len(net) + i] = Stamped(i)
                            /\ Stamped(i).count = serial + 1
         /\ q \in Nat /\ q <= Packets + 1 /\ Packets \in Nat
         /\ DOMAIN net = 1..Len(net) /\ Len(net) \in Nat /\ DOMAIN net' = 1..(Len(net) + q)
<1>1. /\ serial \in Nat /\ DOMAIN net = 1..Len(net) /\ Len(net) \in Nat /\ x_tag \in Tags
      /\ lens \in Seq(Nat) /\ hit \subseteq Frames
  BY StreamFacts DEF StreamTypeInv
<1>2. /\ Packets \in Nat /\ Length \in Nat
      /\ \A i \in 1..(Packets + 1) : Stamped(i).count = serial + 1
  BY <1>1, StampedProperties
<1>3. q \in Nat /\ q <= Packets + 1
  BY <1>2 DEF Sends
<1>4. /\ lens' \in Seq(Nat) /\ Len(lens') = serial + 1
      /\ \A k \in 1..serial : lens'[k] = lens[k]
      /\ lens'[serial + 1] = Length
  <2>1. lens' = Append(lens, Length) /\ serial = Len(lens)
    BY DEF Sends, serial
  <2> QED
    BY <1>1, <1>2, <2>1, AppendProperties
<1>5. /\ serial' = serial + 1 /\ Frames' = Frames \cup {serial + 1} /\ serial + 1 \notin Frames
  BY <1>1, <1>4 DEF Frames, serial
<1>6. \A k \in Frames : lens'[k] = lens[k] /\ lens[k] \in Nat /\ k \in Nat /\ k < serial + 1
  BY <1>1, <1>4, StreamFacts DEF Frames
<1>7. hit' \subseteq Frames' /\ hit \subseteq hit' /\ \A k \in Frames : k \in hit' => k \in hit
  BY <1>1, <1>5 DEF Sends
<1>8. /\ DOMAIN net' = 1..(Len(net) + q)
      /\ \A j \in DOMAIN net : j \in DOMAIN net' /\ net'[j] = net[j] /\ net[j].count \in Frames
  BY <1>1, <1>3 DEF Sends, DatagramsInv
<1>9. \A i \in 1..q : Len(net) + i \in DOMAIN net' /\ net'[Len(net) + i] = Stamped(i)
                      /\ Stamped(i).count = serial + 1
  <2>1. \A i \in 1..q : Len(net) + i \in DOMAIN net' /\ i \in 1..(Packets + 1)
    BY <1>1, <1>2, <1>3, <1>8
  <2>2. \A i \in 1..q : net'[Len(net) + i] = Stamped(i)
    BY DEF Sends
  <2> QED
    BY <1>2, <2>1, <2>2
<1>10. ASSUME NEW j \in DOMAIN net'
       PROVE  \/ j \in DOMAIN net /\ net'[j] = net[j] /\ net[j].count \in Frames
              \/ \E i \in 1..q : j = Len(net) + i /\ net'[j] = Stamped(i) /\ net'[j].count = serial + 1
  <2>1. CASE j <= Len(net)
    BY <1>1, <1>3, <1>8, <2>1
  <2>2. CASE ~(j <= Len(net))
    <3>1. j - Len(net) \in 1..q /\ j = Len(net) + (j - Len(net))
      BY <1>1, <1>3, <1>8, <2>2
    <3> QED
      BY <1>9, <3>1
  <2> QED
    BY <2>1, <2>2
<1> QED
  BY <1>1, <1>2, <1>3, <1>4, <1>5, <1>6, <1>7, <1>8, <1>9, <1>10

LEMMA SendsNet ==
  ASSUME StreamTypeInv, NetInv, NEW q, Sends(q)
  PROVE  NetInv'
<1> DEFINE n == Len(net)
<1>1. DatagramsInv /\ OrderedInv /\ ChainInv /\ BackInv /\ ArrivedInv
  BY DEF NetInv
<1>2. /\ serial' = serial + 1 /\ serial \in Nat /\ Frames' = Frames \cup {serial + 1}
      /\ serial + 1 \notin Frames
      /\ \A k \in Frames : lens'[k] = lens[k] /\ lens[k] \in Nat /\ k \in Nat /\ k < serial + 1
      /\ lens'[serial + 1] = Length /\ Length \in Nat
      /\ hit \subseteq hit' /\ \A k \in Frames : k \in hit' => k \in hit
      /\ \A j \in DOMAIN net' :
           \/ j \in DOMAIN net /\ net'[j] = net[j] /\ net[j].count \in Frames
           \/ \E i \in 1..q : j = n + i /\ net'[j] = Stamped(i) /\ net'[j].count = serial + 1
      /\ \A j \in DOMAIN net : j \in DOMAIN net' /\ net'[j] = net[j] /\ net[j].count \in Frames
      /\ \A i \in 1..q : n + i \in DOMAIN net' /\ net'[n + i] = Stamped(i)
                         /\ Stamped(i).count = serial + 1
      /\ q \in Nat /\ q <= Packets + 1 /\ Packets \in Nat
      /\ DOMAIN net = 1..n /\ n \in Nat /\ DOMAIN net' = 1..(n + q)
  BY <1>1, SendsFacts
<1> HIDE DEF n
<1>3. \A i \in 1..q :
        /\ i \in 1..(Packets + 1) /\ End(Stamped(i)) <= Length
        /\ End(Stamped(i)) < Length <=> i <= Packets
        /\ IF i = 1
           THEN /\ Stamped(i).kind = "tag" /\ Stamped(i).len = Length
                /\ Length = BlockSize * SizeOf(Stamped(i).format) * Stamped(i).channels
           ELSE Stamped(i).kind = "data" /\ Stamped(i).len > 0
        /\ i <= Packets => Stamped(i + 1).at = End(Stamped(i))
  <2>1. x_tag \in Tags
    BY DEF StreamTypeInv
  <2>2. \A i \in 1..q : i \in 1..(Packets + 1)
    BY <1>2
  <2> QED
    BY <1>2, <2>1, <2>2, StampedProperties
<1>4. serial + 1 \notin hit' => q = Packets + 1
  BY <1>2 DEF Sends
<1>5. DatagramsInv'
  <2> SUFFICES ASSUME NEW j \in DOMAIN net'
               PROVE  /\ net'[j].count \in Frames' /\ End(net'[j]) <= lens'[net'[j].count]
                      /\ IF net'[j].kind = "tag"
                         THEN /\ net'[j].len = lens'[net'[j].count]
                              /\ net'[j].len = BlockSize * SizeOf(net'[j].format) * net'[j].channels
                         ELSE net'[j].len > 0
    BY DEF DatagramsInv, End, SizeOf
  <2>1. CASE j \in DOMAIN net
    BY <1>1, <1>2, <2>1 DEF DatagramsInv
  <2>2. CASE j \notin DOMAIN net
    <3>1. PICK i \in 1..q : j = n + i /\ net'[j] = Stamped(i) /\ net'[j].count = serial + 1
      BY <1>2, <2>2
    <3> QED
      BY <1>2, <1>3, <3>1
  <2> QED
    BY <2>1, <2>2
<1>6. OrderedInv'
  <2> SUFFICES ASSUME NEW i \in DOMAIN net', NEW j \in DOMAIN net', i < j
               PROVE  \/ net'[i].count \in hit' /\ net'[j].count \in hit'
                      \/ net'[i].count <= net'[j].count
    BY DEF OrderedInv
  <2>1. CASE j \in DOMAIN net
    <3>1. i \in DOMAIN net
      BY <1>2, <2>1
    <3> QED
      BY <1>1, <1>2, <2>1, <3>1 DEF OrderedInv
  <2>2. CASE j \notin DOMAIN net
    BY <1>2, <2>2
  <2> QED
    BY <2>1, <2>2
<1>7. ChainInv'
  <2> SUFFICES ASSUME NEW j \in DOMAIN net', net'[j].count \notin hit'
               PROVE  IF End(net'[j]) < lens'[net'[j].count]
                      THEN /\ j + 1 \in DOMAIN net' /\ net'[j + 1].count = net'[j].count
                           /\ net'[j + 1].kind = "data" /\ net'[j + 1].at = End(net'[j])
                      ELSE \A k \in DOMAIN net' : k > j => net'[k].count # net'[j].count
    BY DEF ChainInv, End
  <2>1. CASE j \in DOMAIN net
    <3>1. net'[j] = net[j] /\ net[j].count \notin hit /\ net[j].count \in Frames
      BY <1>2, <2>1
    <3>2. IF End(net[j]) < lens[net[j].count]
          THEN /\ j + 1 \in DOMAIN net /\ net[j + 1].count = net[j].count
               /\ net[j + 1].kind = "data" /\ net[j + 1].at = End(net[j])
          ELSE \A k \in DOMAIN net : k > j => net[k].count # net[j].count
      BY <1>1, <2>1, <3>1 DEF ChainInv
    <3>3. lens'[net[j].count] = lens[net[j].count]
      BY <1>2, <3>1
    <3>4. \A k \in DOMAIN net' : k \in DOMAIN net \/ net'[k].count # net[j].count
      BY <1>2, <3>1
    <3> QED
      BY <1>2, <3>1, <3>2, <3>3, <3>4
  <2>2. CASE j \notin DOMAIN net
    <3>1. PICK i \in 1..q : j = n + i /\ net'[j] = Stamped(i) /\ net'[j].count = serial + 1
      BY <1>2, <2>2
    <3>2. q = Packets + 1
      BY <1>4, <3>1
    <3>3. CASE i <= Packets
      <4>1. i + 1 \in 1..q /\ n + (i + 1) = j + 1 /\ i + 1 # 1
        BY <1>2, <3>1, <3>2, <3>3
      <4>2. j + 1 \in DOMAIN net' /\ net'[j + 1] = Stamped(i + 1) /\ Stamped(i + 1).count = serial + 1
        BY <1>2, <4>1
      <4> QED
        BY <1>2, <1>3, <3>1, <3>3, <4>1, <4>2
    <3>4. CASE ~(i <= Packets)
      <4>1. i = q
        <5>1. q \in Nat /\ Packets \in Nat
          BY <1>2
        <5> QED
          BY <3>2, <3>4, <5>1
      <4>2. \A k \in DOMAIN net' : ~(k > j)
        BY <1>2, <3>1, <4>1
      <4> QED
        BY <1>2, <1>3, <3>1, <3>4, <4>2
    <3> QED
      BY <3>3, <3>4
  <2> QED
    BY <2>1, <2>2
<1>8. BackInv'
  <2> SUFFICES ASSUME NEW j \in DOMAIN net', net'[j].count \notin hit', net'[j].kind = "data", j > 1
               PROVE  net'[j - 1].count = net'[j].count
    BY DEF BackInv
  <2>1. CASE j \in DOMAIN net
    <3>1. j - 1 \in DOMAIN net
      BY <1>2, <2>1
    <3> QED
      BY <1>1, <1>2, <2>1, <3>1 DEF BackInv
  <2>2. CASE j \notin DOMAIN net
    <3>1. PICK i \in 1..q : j = n + i /\ net'[j] = Stamped(i) /\ net'[j].count = serial + 1
      BY <1>2, <2>2
    <3>2. i # 1
      BY <1>3, <3>1
    <3>3. i - 1 \in 1..q /\ n + (i - 1) = j - 1
      BY <1>2, <3>1, <3>2
    <3>4. net'[n + (i - 1)].count = serial + 1
      BY <1>2, <3>3
    <3> QED
      BY <3>1, <3>3, <3>4
  <2> QED
    BY <2>1, <2>2
<1>9. ArrivedInv'
  <2> SUFFICES ASSUME NEW k \in Frames' \ hit', \A j \in DOMAIN net' : net'[j].count # k,
                      NEW j \in DOMAIN net'
               PROVE  net'[j].count > k
    BY DEF ArrivedInv
  <2>1. CASE k = serial + 1
    <3>1. 1 \in 1..q
      BY <1>2, <1>4, <2>1
    <3>2. n + 1 \in DOMAIN net' /\ net'[n + 1].count = serial + 1
      BY <1>2, <3>1
    <3> QED
      BY <2>1, <3>2
  <2>2. CASE k # serial + 1
    <3>1. k \in Frames \ hit /\ \A i \in DOMAIN net : net[i].count # k
      BY <1>2, <2>2
    <3>2. \A i \in DOMAIN net : net[i].count > k
      BY <1>1, <3>1 DEF ArrivedInv
    <3> QED
      BY <1>2, <3>1, <3>2
  <2> QED
    BY <2>1, <2>2
<1> QED
  BY <1>5, <1>6, <1>7, <1>8, <1>9 DEF NetInv

LEMMA RInvStays ==
  ASSUME RInv, UNCHANGED rvars
  PROVE  RInv'
  BY DEF RInv, RTypeOK, CountInv, QueueLen, BlockInv, AssemblyInv,
         QueuedFramesComplete, Queued, rvars, queuevars, pollvars, playvars

\* The format and the channels of the next frame.
LEMMA TagStays ==
  ASSUME x_tag \in Tags, x_count \in Nat, FNext
  PROVE  x_tag' \in Tags /\ x_count' \in Nat
<1>1. x_tag' \in Tags
  BY SourceAssumption
  DEF FNext, SendFrame, SendPart, SkipFrame, Restart, Tags, FirstTag, Formats
<1>2. (x_count + 1) % CountModulus \in Nat
  <2> DEFINE a == x_count + 1
             m == CountModulus
  <2>1. a \in Nat /\ m \in Nat \ {0}
    BY SourceAssumption
  <2> HIDE DEF a, m
  <2>2. a % m \in 0..(m - 1)
    BY <2>1
  <2>3. a % m \in Nat
    BY <2>1, <2>2
  <2> QED
    BY <2>3 DEF a, m
<1>3. x_count' = (x_count + 1) % CountModulus \/ x_count' = 0
  BY DEF FNext, SendFrame, SendPart, SkipFrame, Restart, NextCount
<1> QED
  BY <1>1, <1>2, <1>3

LEMMA SendStep ==
  ASSUME StreamInv, SendWhole \/ \E k \in 0..Packets : SendSome(k)
  PROVE  StreamInv'
<1>1. /\ StreamTypeInv /\ NetInv /\ AssembledInv /\ QueuedIsIntact /\ PlaylistInv /\ DatagramsInv
  BY DEF StreamInv, NetInv
<1>2. PICK q : Sends(q)
  BY <1>1, TransmitSends
<1>3. NetInv'
  BY <1>1, <1>2, SendsNet
<1>4. /\ UNCHANGED <<rvars, heard>> /\ FNext /\ faults' \in {faults, faults + 1}
  BY DEF SendWhole, SendSome, Transmit, FNext, Fault
<1>5. UNCHANGED <<x_frames, x_framein, x_frameout, x_nbytes>> /\ assembled' = assembled
  BY <1>4 DEF rvars, queuevars, pollvars, assembled
<1>6. /\ serial' = serial + 1 /\ serial \in Nat /\ Frames' = Frames \cup {serial + 1}
      /\ serial + 1 \notin Frames /\ lens' \in Seq(Nat)
      /\ \A k \in Frames : lens'[k] = lens[k] /\ lens[k] \in Nat /\ k \in Nat /\ k < serial + 1
      /\ hit' \subseteq Frames' /\ hit \subseteq hit' /\ \A k \in Frames : k \in hit' => k \in hit
      /\ \A j \in DOMAIN net' :
           \/ j \in DOMAIN net /\ net'[j] = net[j] /\ net[j].count \in Frames
           \/ net'[j].count = serial + 1
      /\ \A j \in DOMAIN net : j \in DOMAIN net' /\ net'[j] = net[j] /\ net[j].count \in Frames
  BY <1>1, <1>2, SendsFacts
<1>7. StreamTypeInv'
  <2>1. RInv' /\ x_tag' \in Tags /\ x_count' \in Nat
    BY <1>1, <1>4, RInvStays, TagStays DEF StreamTypeInv
  <2>2. faults' \in Nat /\ heard' \in 0..serial'
    BY <1>1, <1>4, <1>6 DEF StreamTypeInv
  <2>3. net' \in Seq(SentSet)
    BY <1>2 DEF Sends
  <2> QED
    BY <1>6, <2>1, <2>2, <2>3 DEF StreamTypeInv
<1>8. AssembledInv'
  <2> SUFFICES ASSUME x_nbytes > 0 PROVE AssembledInv'
    BY <1>5 DEF AssembledInv
  <2>1. /\ assembled \in Frames /\ x_frames[x_framein].tag.framesize = lens[assembled]
        /\ x_nbytes <= lens[assembled] /\ lens[assembled] <= BufBytes
        /\ x_frames[x_framein].tag.format \in Formats
        /\ \A i \in DOMAIN net : net[i].count \notin hit => net[i].count >= assembled
        /\ assembled \notin hit =>
             /\ net # <<>> /\ net[1].count = assembled
             /\ net[1].kind = "data" /\ net[1].at = lens[assembled] - x_nbytes
             /\ \A p \in 0..(lens[assembled] - x_nbytes - 1) :
                  x_frames[x_framein].data[p] = assembled
    BY <1>1 DEF AssembledInv
  <2>2. \A j \in DOMAIN net' : net'[j].count \notin hit' => net'[j].count >= assembled
    BY <1>6, <2>1
  <2>3. assembled \notin hit' => net' # <<>> /\ net'[1] = net[1]
    <3>1. net # <<>> => 1 \in DOMAIN net
      <4>1. net \in Seq(SentSet)
        BY <1>1 DEF StreamTypeInv
      <4> QED
        BY <4>1, PoppedProperties
    <3>2. 1 \in DOMAIN net => net' # <<>> /\ net'[1] = net[1]
      BY <1>6
    <3> QED
      BY <1>6, <2>1, <3>1, <3>2
  <2>4. lens'[assembled] = lens[assembled] /\ assembled \in Frames' /\ (assembled \notin hit' => assembled \notin hit)
    BY <1>6, <2>1
  <2> QED
    BY <1>5, <2>1, <2>2, <2>3, <2>4 DEF AssembledInv
<1>9. QueuedIsIntact' /\ PlaylistInv'
  <2>1. \A i : (Queued(i)' <=> Queued(i)) /\ Place(i)' = Place(i)
    BY <1>5 DEF Queued, Place
  <2>2. \A i \in Slots : Queued(i) => x_frames[i].tag.count \in Frames
    BY <1>1 DEF PlaylistInv
  <2>3. \A i \in Slots : Unharmed(i)' => Unharmed(i) /\ x_frames[i].tag.count < serial + 1
    BY <1>5, <1>6, <2>1, <2>2 DEF Unharmed
  <2>4. QueuedIsIntact'
    BY <1>1, <1>5, <1>6, <2>1 DEF QueuedIsIntact, Intact
  <2>5. heard' = heard /\ heard < serial + 1
    BY <1>1, <1>4, <1>6 DEF StreamTypeInv
  <2>6. \A j \in DOMAIN net' : net'[j].count \notin hit' =>
          (j \in DOMAIN net /\ net'[j] = net[j] /\ net[j].count \notin hit) \/ net'[j].count = serial + 1
    BY <1>6
  <2>7. PlaylistInv'
    <3>1. \A i \in Slots : Queued(i)' => x_frames'[i].tag.count \in Frames'
      BY <1>5, <1>6, <2>1, <2>2
    <3>2. \A i, j \in Slots :
            Unharmed(i)' /\ Unharmed(j)' /\ Place(i)' < Place(j)' =>
              x_frames'[i].tag.count < x_frames'[j].tag.count
      BY <1>1, <1>5, <2>1, <2>3 DEF PlaylistInv
    <3>3. \A i \in Slots : Unharmed(i)' => heard' < x_frames'[i].tag.count
      BY <1>1, <1>5, <2>3, <2>5 DEF PlaylistInv
    <3>4. \A i \in Slots, j \in DOMAIN net' :
            Unharmed(i)' /\ net'[j].count \notin hit' => x_frames'[i].tag.count < net'[j].count
      BY <1>1, <1>5, <2>3, <2>6 DEF PlaylistInv
    <3>5. \A j \in DOMAIN net' : net'[j].count \notin hit' => heard' < net'[j].count
      BY <1>1, <2>5, <2>6 DEF PlaylistInv
    <3> QED
      BY <3>1, <3>2, <3>3, <3>4, <3>5 DEF PlaylistInv
  <2> QED
    BY <2>4, <2>7
<1> QED
  BY <1>3, <1>7, <1>8, <1>9 DEF StreamInv

-----------------------------------------------------------------------------
(* Steps that move no datagram.                                            *)

LEMMA NetStays ==
  ASSUME NetInv, UNCHANGED <<net, lens, hit>>
  PROVE  NetInv'
  BY DEF NetInv, DatagramsInv, OrderedInv, ChainInv, BackInv, ArrivedInv, Frames, serial, End, SizeOf

LEMMA AssembledStays ==
  ASSUME AssembledInv, UNCHANGED <<net, lens, hit, x_nbytes, x_frames, x_framein>>
  PROVE  AssembledInv'
  BY DEF AssembledInv, Frames, serial, assembled, BufBytes, Formats, SizeOf

\* A frame is dropped or the sender connects again; the DSP is switched.
LEMMA QuietStep ==
  ASSUME StreamInv, NotSent \/ SwitchDsp \/ UNCHANGED avars
  PROVE  StreamInv'
<1>1. /\ StreamTypeInv /\ NetInv /\ AssembledInv /\ QueuedIsIntact /\ PlaylistInv
  BY DEF StreamInv
<1>2. UNCHANGED streamvars /\ UNCHANGED <<queuevars, pollvars>>
  BY DEF NotSent, SwitchDsp, DspOff, Dsp, rvars, avars
<1>3. RInv'
  <2>1. RInv
    BY <1>1 DEF StreamTypeInv
  <2>2. CASE UNCHANGED rvars
    BY <2>1, <2>2, RInvStays
  <2>3. CASE SwitchDsp
    BY <2>1, <2>3, DspStep DEF SwitchDsp
  <2> QED
    BY <2>2, <2>3 DEF NotSent, avars
<1>4. x_tag' \in Tags /\ x_count' \in Nat
  <2>1. x_tag \in Tags /\ x_count \in Nat
    BY <1>1 DEF StreamTypeInv
  <2>2. CASE NotSent
    BY <2>1, <2>2, TagStays DEF NotSent, FNext
  <2>3. CASE UNCHANGED fvars
    BY <2>1, <2>3 DEF fvars
  <2> QED
    BY <2>2, <2>3 DEF SwitchDsp, avars
<1>5. UNCHANGED <<net, lens, hit, faults, heard>>
  BY <1>2 DEF streamvars
<1>6. UNCHANGED <<x_nbytes, x_frames, x_framein, x_frameout>>
  BY <1>2 DEF queuevars, pollvars
<1>7. StreamTypeInv'
  BY <1>1, <1>3, <1>4, <1>5 DEF StreamTypeInv, Frames, serial
<1>8. NetInv' /\ AssembledInv'
  BY <1>1, <1>5, <1>6, NetStays, AssembledStays
<1>9. QueuedIsIntact' /\ PlaylistInv'
  <2>1. Frames' = Frames
    BY <1>5 DEF Frames, serial
  <2> QED
    BY <1>1, <1>5, <1>6, <2>1, QueueStays
<1> QED
  BY <1>7, <1>8, <1>9 DEF StreamInv

LEMMA ResetMsgCarries ==
  ASSUME StreamInv, ResetMsg
  PROVE  Carries([j \in DOMAIN net' |-> j])
<1> DEFINE f == [j \in DOMAIN net' |-> j]
<1>1. /\ UNCHANGED <<net, lens>>
      /\ hit' = IF x_nbytes > 0 THEN hit \cup {assembled} ELSE hit
  BY DEF ResetMsg, assembled
<1>2. hit \subseteq hit' /\ hit' \subseteq Frames
  BY <1>1 DEF StreamInv, StreamTypeInv, AssembledInv
<1>3. net' \in Seq(SentSet) /\ DOMAIN net' = 1..Len(net') /\ Len(net') \in Nat
  BY <1>1, StreamFacts DEF StreamInv, StreamTypeInv
<1>4. \A j \in DOMAIN net' : f[j] = j
  OBVIOUS
<1> HIDE DEF f
<1>5. \A i, j \in DOMAIN net' : ~(i < j /\ f[j] <= f[i])
  BY <1>3, <1>4
<1>6. Carries(f)
  BY <1>1, <1>2, <1>3, <1>4, <1>5 DEF Carries
<1> QED
  BY <1>6 DEF f

\* The queue is emptied.
LEMMA ResetMsgStep ==
  ASSUME StreamInv, ResetMsg
  PROVE  StreamInv'
<1>1. StreamTypeInv /\ NetInv /\ PlaylistInv
  BY DEF StreamInv
<1>2. Carries([j \in DOMAIN net' |-> j])
  BY ResetMsgCarries
<1> DEFINE f == [j \in DOMAIN net' |-> j]
<1>3. Carries(f)
  BY <1>2
<1> HIDE DEF f
<1>4. NetInv'
  BY <1>1, <1>3, CarriedNet
<1>5. /\ Reset(0) /\ UNCHANGED <<fvars, net, lens, whole, heard>> /\ faults' = faults + 1
      /\ hit \subseteq hit' /\ hit' \subseteq Frames
  BY <1>3 DEF ResetMsg, Fault, Carries
<1>6. RInv'
  <2>1. 0 \in 0..NFrames
    BY ReceiverAssumption
  <2> QED
    BY <1>1, <1>5, <2>1, ResetStep DEF StreamTypeInv
<1>7. StreamTypeInv'
  BY <1>1, <1>5, <1>6 DEF StreamTypeInv, fvars, Frames, serial
<1>8. x_nbytes' = 0 /\ x_framein' = 0 /\ x_frameout' = 0
  BY <1>5 DEF Reset
<1>9. AssembledInv'
  BY <1>8 DEF AssembledInv
<1>10. \A i \in Slots : ~Queued(i)'
  BY <1>8, ReceiverAssumption DEF Queued, Slots
<1>11. QueuedIsIntact'
  BY <1>10 DEF QueuedIsIntact
<1>12. PlaylistInv'
  <2>1. \A j \in DOMAIN net' : net'[j].count \notin hit' => heard' < net'[j].count
    BY <1>1, <1>5 DEF PlaylistInv
  <2> QED
    BY <1>10, <2>1 DEF PlaylistInv, Unharmed
<1> QED
  BY <1>4, <1>7, <1>9, <1>11, <1>12 DEF StreamInv

\* The first frame leaves the queue.
LEMMA LastBlockQueue ==
  ASSUME RTypeOK, x_framein # x_frameout, x_framein' = x_framein, x_frameout' = Succ(x_frameout)
  PROVE  /\ x_frameout \in Slots /\ Queued(x_frameout)
         /\ \A i \in Slots : Queued(i)' => Queued(i) /\ i # x_frameout /\ Place(x_frameout) < Place(i)
         /\ \A i \in Slots : i # x_frameout => Place(i)' = Place(i) - 1
         /\ \A i \in Slots : Place(i) \in Int
<1>1. /\ NFrames \in Nat /\ NFrames > 1 /\ x_framein \in Slots /\ x_frameout \in Slots
      /\ \A i \in Slots : i \in Nat /\ i < NFrames
  BY ReceiverAssumption DEF RTypeOK, Slots
<1>2. x_frameout' = (IF x_frameout = NFrames - 1 THEN 0 ELSE x_frameout + 1)
  BY <1>1, SuccSlot
<1>3. Queued(x_frameout)
  BY <1>1 DEF Queued
<1>4. \A i \in Slots : Queued(i)' => Queued(i) /\ i # x_frameout
  BY <1>1, <1>2 DEF Queued
<1>5. \A i \in Slots : Queued(i) /\ i # x_frameout => Place(x_frameout) < Place(i)
  BY <1>1 DEF Queued, Place
<1>6. \A i \in Slots : i # x_frameout => Place(i)' = Place(i) - 1
  BY <1>1, <1>2 DEF Place
<1>7. \A i \in Slots : Place(i) \in Int
  BY <1>1 DEF Place
<1> QED
  BY <1>1, <1>3, <1>4, <1>5, <1>6, <1>7

\* What is heard is later than what was heard before.
LEMMA PlayStep ==
  ASSUME StreamInv, Play
  PROVE  StreamInv' /\ (heard' = heard \/ heard' \in (heard + 1)..serial)
<1>1. /\ StreamTypeInv /\ NetInv /\ AssembledInv /\ QueuedIsIntact /\ PlaylistInv /\ RInv /\ RTypeOK
      /\ heard \in 0..serial /\ serial \in Nat
  BY StreamFacts DEF StreamInv, StreamTypeInv, RInv
<1>2. PICK n \in VecSizes : Perform(n)
  BY DEF Play
<1>3. UNCHANGED <<fvars, net, lens, hit, faults, whole>>
  BY DEF Play
<1>4. RInv'
  BY <1>1, <1>2, PerformStep
<1>5. UNCHANGED <<x_frames, x_nbytes, x_framein>>
  BY <1>2 DEF Perform, pollvars
<1>6. NetInv' /\ AssembledInv'
  BY <1>1, <1>3, <1>5, NetStays, AssembledStays
<1>7. Frames' = Frames /\ serial' = serial
  BY <1>3 DEF Frames, serial
<1>8. /\ QueuedIsIntact' /\ PlaylistInv' /\ (heard' = heard \/ heard' \in (heard + 1)..serial)
  <2>1. CASE PerformLastBlock(n)
    <3>1. x_framein # x_frameout /\ x_frameout' = Succ(x_frameout) /\ played' = played + 1
      BY <2>1 DEF PerformLastBlock, CanPlay
    <3>2. /\ x_frameout \in Slots /\ Queued(x_frameout)
          /\ \A i \in Slots : Queued(i)' => Queued(i) /\ i # x_frameout /\ Place(x_frameout) < Place(i)
          /\ \A i \in Slots : i # x_frameout => Place(i)' = Place(i) - 1
          /\ \A i \in Slots : Place(i) \in Int
      BY <1>1, <1>5, <3>1, LastBlockQueue
    <3>3. heard' = IF x_frames[x_frameout].tag.count \notin hit
                   THEN x_frames[x_frameout].tag.count ELSE heard
      <4>1. played \in Nat
        BY <1>1 DEF RTypeOK
      <4> QED
        BY <3>1, <4>1 DEF Play
    <3>4. \A i \in Slots : Unharmed(i)' => Unharmed(i) /\ i # x_frameout /\ Place(x_frameout) < Place(i)
      BY <1>3, <1>5, <3>2 DEF Unharmed
    <3>5. QueuedIsIntact'
      BY <1>1, <1>3, <1>5, <3>2 DEF QueuedIsIntact, Intact
    <3>6. \A i \in Slots : x_frames[i].tag.count \in Nat
      BY <1>1 DEF RTypeOK
    <3>7. heard' = heard \/ heard' \in (heard + 1)..serial
      <4>1. CASE Unharmed(x_frameout)
        <5>1. x_frames[x_frameout].tag.count \in Frames /\ heard < x_frames[x_frameout].tag.count
          BY <1>1, <3>2, <4>1 DEF PlaylistInv
        <5> QED
          BY <1>1, <3>3, <4>1, <5>1 DEF Frames, Unharmed
      <4>2. CASE ~Unharmed(x_frameout)
        BY <3>2, <3>3, <4>2 DEF Unharmed
      <4> QED
        BY <4>1, <4>2
    <3>8. /\ \A i \in Slots : Unharmed(i)' => heard' < x_frames[i].tag.count
          /\ \A j \in DOMAIN net : net[j].count \notin hit => heard' < net[j].count
      <4>1. CASE Unharmed(x_frameout)
        <5>1. heard' = x_frames[x_frameout].tag.count
          BY <3>3, <4>1 DEF Unharmed
        <5> QED
          BY <1>1, <3>2, <3>4, <4>1, <5>1 DEF PlaylistInv
      <4>2. CASE ~Unharmed(x_frameout)
        <5>1. heard' = heard
          BY <3>2, <3>3, <4>2 DEF Unharmed
        <5> QED
          BY <1>1, <3>4, <5>1 DEF PlaylistInv
      <4> QED
        BY <4>1, <4>2
    <3>9. \A i, j \in Slots :
            Unharmed(i)' /\ Unharmed(j)' /\ Place(i)' < Place(j)' =>
              x_frames[i].tag.count < x_frames[j].tag.count
      <4>1. \A i, j \in Slots : Unharmed(i)' /\ Unharmed(j)' /\ Place(i)' < Place(j)' =>
              Unharmed(i) /\ Unharmed(j) /\ Place(i) < Place(j)
        BY <3>2, <3>4
      <4> QED
        BY <1>1, <4>1 DEF PlaylistInv
    <3>10. PlaylistInv'
      BY <1>1, <1>3, <1>5, <1>7, <3>2, <3>4, <3>8, <3>9 DEF PlaylistInv
    <3> QED
      BY <3>5, <3>7, <3>10
  <2>2. CASE PerformBuffering(n) \/ PerformUnderflow(n) \/ PerformBlock(n)
    <3>1. UNCHANGED <<x_frameout, played>>
      BY <2>2 DEF PerformBuffering, PerformUnderflow, PerformBlock
    <3>2. heard' = heard
      <4>1. played \in Nat
        BY <1>1 DEF RTypeOK
      <4> QED
        BY <3>1, <4>1 DEF Play
    <3> QED
      BY <1>1, <1>3, <1>5, <1>7, <3>1, <3>2, QueueStays
  <2> QED
    BY <1>2, <2>1, <2>2 DEF Perform
<1>9. StreamTypeInv'
  BY <1>1, <1>3, <1>4, <1>7, <1>8 DEF StreamTypeInv, fvars
<1> QED
  BY <1>6, <1>8, <1>9 DEF StreamInv

LEMMA StreamInit == AInit => StreamInv
<1> SUFFICES ASSUME AInit PROVE StreamInv
  OBVIOUS
<1>1. RInv
  BY InitRInv DEF AInit
<1>2. /\ net = <<>> /\ lens = <<>> /\ hit = {} /\ heard = 0 /\ faults = 0 /\ x_nbytes = 0
      /\ x_framein = 0 /\ x_frameout = 0 /\ x_count = 0 /\ x_tag = FirstTag
  BY DEF AInit, FInit, RInit
<1>3. DOMAIN net = {} /\ net \in Seq(SentSet) /\ lens \in Seq(Nat) /\ serial = 0 /\ Frames = {}
  BY <1>2 DEF serial, Frames
<1>4. x_tag \in Tags
  BY <1>2, SourceAssumption DEF Tags, FirstTag, Formats
<1>5. StreamTypeInv
  BY <1>1, <1>2, <1>3, <1>4 DEF StreamTypeInv
<1>6. NetInv
  BY <1>3 DEF NetInv, DatagramsInv, OrderedInv, ChainInv, BackInv, ArrivedInv
<1>7. \A i \in Slots : ~Queued(i)
  BY <1>2, ReceiverAssumption DEF Queued, Slots
<1> QED
  BY <1>2, <1>3, <1>5, <1>6, <1>7 DEF StreamInv, AssembledInv, QueuedIsIntact, PlaylistInv, Unharmed

LEMMA StreamNext == StreamInv /\ [ANext]_avars => StreamInv'
<1> SUFFICES ASSUME StreamInv, [ANext]_avars PROVE StreamInv'
  OBVIOUS
<1>1. CASE SendWhole \/ \E k \in 0..Packets : SendSome(k)
  BY <1>1, SendStep
<1>2. ASSUME NEW i \in DOMAIN net, Lose(i) \/ Duplicate(i) \/ Overtake(i) PROVE StreamInv'
  <2>1. UNCHANGED <<fvars, rvars, heard>> /\ faults' \in Nat /\ \E f : Carries(f)
    BY <1>2, FaultCarries
  <2> QED
    BY <2>1, CarriedStream
<1>3. CASE Deliver
  BY <1>3, DeliverStep
<1>4. CASE Play
  BY <1>4, PlayStep
<1>5. CASE ResetMsg
  BY <1>5, ResetMsgStep
<1>6. CASE NotSent \/ SwitchDsp \/ UNCHANGED avars
  BY <1>6, QuietStep
<1> QED
  BY <1>1, <1>2, <1>3, <1>4, <1>5, <1>6 DEF ANext

\* For every size of frames, packets and slots: a frame in the queue that no fault
\* struck is byte for byte the frame that was sent.
THEOREM QueuedFramesIntact == ASpec => []QueuedIsIntact
<1>1. StreamInv => QueuedIsIntact
  BY DEF StreamInv
<1> QED
  BY <1>1, StreamInit, StreamNext, PTL DEF ASpec

-----------------------------------------------------------------------------
(* The refinement.                                                         *)

LEMMA FifoStep ==
  ASSUME StreamInv, [ANext]_avars
  PROVE  [Fifo!Next]_<<serial, heard>>
<1>1. UNCHANGED <<lens, heard>> => UNCHANGED <<serial, heard>>
  BY DEF serial
<1>2. CASE SendWhole \/ \E k \in 0..Packets : SendSome(k)
  <2>1. StreamTypeInv /\ DatagramsInv
    BY DEF StreamInv, NetInv
  <2>2. PICK q : Sends(q)
    BY <1>2, <2>1, TransmitSends
  <2>3. serial' = serial + 1
    BY <2>1, <2>2, SendsFacts
  <2>4. heard' = heard
    BY <1>2 DEF SendWhole, SendSome, Transmit
  <2> QED
    BY <2>3, <2>4 DEF Fifo!Next, Fifo!Send
<1>3. CASE Play
  <2>1. heard' = heard \/ heard' \in (heard + 1)..serial
    BY <1>3, PlayStep
  <2>2. serial' = serial
    BY <1>3 DEF Play, serial
  <2> QED
    BY <2>1, <2>2 DEF Fifo!Next, Fifo!Hear
<1>4. ASSUME NEW i \in DOMAIN net, Lose(i) \/ Duplicate(i) \/ Overtake(i)
      PROVE  UNCHANGED <<lens, heard>>
  BY <1>4 DEF Lose, Duplicate, Overtake
<1>5. CASE NotSent \/ Deliver \/ ResetMsg \/ SwitchDsp \/ UNCHANGED avars
  <2>1. UNCHANGED <<lens, heard>>
    BY <1>5 DEF NotSent, Deliver, ResetMsg, SwitchDsp, avars, streamvars
  <2> QED
    BY <1>1, <2>1
<1> QED
  BY <1>1, <1>2, <1>3, <1>4, <1>5 DEF ANext

\* The stream implements the lossy queue: what is heard of the frames that no fault
\* struck is heard in the order it was sent, none of it twice.
THEOREM StreamImplementsFifo == ASpec => ImplementsFifo
<1>1. AInit => Fifo!Init
  BY DEF AInit, Fifo!Init, serial
<1>2. StreamInv /\ [ANext]_avars => [Fifo!Next]_<<serial, heard>>
  BY FifoStep
<1> QED
  BY <1>1, <1>2, StreamInit, StreamNext, PTL DEF ASpec, ImplementsFifo, Fifo!Spec

-----------------------------------------------------------------------------
(* Damage is local.                                                        *)

LEMMA UndisturbedBase ==
  ASSUME NEW l, NEW h, NEW m \in Nat, NEW n \in Nat, m < n, Lengths(l, n - 1)
  PROVE  Undisturbed(l, h, m, n) \in Nat /\ Undisturbed(l, h, m, m + 1) = 0
<1>1. PICK b \in [m..(n - 1) -> Nat] :
        AddsUp(b, l, h, m, n) /\ \A k \in (m + 1)..n : Undisturbed(l, h, m, k) = b[k - 1]
  <2>1. HasSums(l, h, m, n)
    BY UndisturbedSums
  <2> QED
    BY <2>1 DEF HasSums
<1>2. /\ m + 1 \in (m + 1)..n /\ n \in (m + 1)..n /\ m + 1 - 1 = m /\ n - 1 \in m..(n - 1)
  OBVIOUS
<1> QED
  BY <1>1, <1>2 DEF AddsUp

\* What is under way of the frames that are not struck begins with frame n or later.
From(n) == \A i \in DOMAIN net : net[i].count \in hit \/ net[i].count >= n

\* What a slot that waits for more has taken of frame n already.
Swallowed(n) ==
  IF n \notin hit /\ net # <<>> /\ net[1].count = n /\ net[1].kind = "data"
  THEN TagSize + net[1].at ELSE 0

\* A slot with a frame that was struck takes what comes after it, but no more than
\* the bytes it misses.
ReachInv ==
  x_nbytes > 0 /\ assembled \in hit =>
    \A n \in (assembled + 1)..(serial + 1) : From(n) =>
      x_nbytes + Undisturbed(lens, hit, assembled, n) + Swallowed(n) <= lens[assembled]

\* What comes next belongs to the frame in the slot, or lost its tag to a frame before it.
StrayInv ==
  net # <<>> /\ net[1].count \notin hit /\ net[1].kind = "data" =>
    \/ x_nbytes > 0 /\ assembled = net[1].count
    \/ \E m \in hit : m < net[1].count /\ InReach(m, net[1].count)

\* The second part of DamageIsLocal.
AccountedInv ==
  \A n \in Frames :
    \/ \E i \in DOMAIN net : net[i].count = n
    \/ n \in whole
    \/ lens[n] = 0
    \/ n \in hit
    \/ \E m \in hit : m < n /\ InReach(m, n)

OutletsInv == x_tag \in Layouts /\ \A i \in DOMAIN net : net[i].channels <= NOutlets

LocalInv == OutletsInv /\ ReachInv /\ StrayInv /\ AccountedInv

LEMMA ReachFacts ==
  ASSUME StreamTypeInv
  PROVE  /\ serial \in Nat /\ x_nbytes \in Nat /\ TagSize \in Nat \ {0}
         /\ \A k : k \in Frames <=> k \in Nat /\ 1 <= k /\ k <= serial
         /\ hit \subseteq Frames /\ \A k \in Frames : lens[k] \in Nat
         /\ \A n \in Nat : n <= serial => Lengths(lens, n)
         /\ \A n : Swallowed(n) \in Nat
         /\ net # <<>> => 1 \in DOMAIN net
<1>1. /\ serial \in Nat /\ x_nbytes \in Nat /\ TagSize \in Nat \ {0} /\ hit \subseteq Frames
      /\ \A k \in Frames : lens[k] \in Nat /\ net \in Seq(SentSet)
  BY StreamFacts DEF StreamTypeInv
<1>2. \A k : k \in Frames <=> k \in Nat /\ 1 <= k /\ k <= serial
  BY <1>1 DEF Frames
<1>3. \A n \in Nat : n <= serial => Lengths(lens, n)
  BY <1>1, <1>2 DEF Lengths
<1>4. net # <<>> => 1 \in DOMAIN net
  <2>1. net \in Seq(SentSet)
    BY DEF StreamTypeInv
  <2> QED
    BY <2>1, PoppedProperties
<1>5. ASSUME NEW n PROVE Swallowed(n) \in Nat
  <2>1. net # <<>> => net[1].at \in Nat
    BY <1>4, StreamFacts
  <2> QED
    BY <1>1, <2>1 DEF Swallowed
<1> QED
  BY <1>1, <1>2, <1>3, <1>4, <1>5

\* What is in reach stays in reach.
LEMMA ReachStays ==
  ASSUME StreamTypeInv, hit \subseteq hit', \A k \in Frames : lens'[k] = lens[k],
         NEW m \in hit, NEW n \in Frames, m < n, InReach(m, n)
  PROVE  InReach(m, n)'
<1>1. /\ m \in Frames /\ m \in Nat /\ n \in Nat /\ n - 1 \in Nat /\ lens[m] \in Nat
      /\ lens'[m] = lens[m] /\ Lengths(lens, n - 1)
      /\ \A i \in 1..(n - 1) : lens'[i] = lens[i]
  BY ReachFacts
<1>2. Lengths(lens', n - 1)
  BY <1>1 DEF Lengths
<1>3. /\ Undisturbed(lens', hit', m, n) <= Undisturbed(lens, hit, m, n)
      /\ Undisturbed(lens', hit', m, n) \in Nat /\ Undisturbed(lens, hit, m, n) \in Nat
  BY <1>1, <1>2, UndisturbedShrinks, UndisturbedBase
<1>4. Undisturbed(lens, hit, m, n) < lens[m]
  BY DEF InReach
<1>5. Undisturbed(lens', hit', m, n) < lens'[m]
  BY <1>1, <1>3, <1>4
<1> QED
  BY <1>5 DEF InReach

\* The order of the frames makes the one that comes next the first.
LEMMA FirstIsLeast ==
  ASSUME StreamTypeInv, OrderedInv, net # <<>>, net[1].count \notin hit
  PROVE  From(net[1].count)
<1>1. /\ 1 \in DOMAIN net /\ \A i \in DOMAIN net : net[i].count \in Nat /\ i \in Nat \ {0}
  BY ReachFacts, StreamFacts
<1>2. ASSUME NEW i \in DOMAIN net PROVE net[i].count \in hit \/ net[i].count >= net[1].count
  <2>1. CASE i = 1
    BY <1>1, <2>1
  <2>2. CASE i # 1
    <3>1. 1 < i
      BY <1>1, <2>2
    <3>2. net[1].count <= net[i].count
      BY <1>1, <3>1 DEF OrderedInv
    <3> QED
      BY <1>1, <3>2
  <2> QED
    BY <2>1, <2>2
<1> QED
  BY <1>2 DEF From

\* What comes next after a fault was next before.
LEMMA CarriedHead ==
  ASSUME StreamTypeInv, BackInv, NEW f, Carries(f),
         net' # <<>>, net'[1].count \notin hit', net'[1].kind = "data"
  PROVE  net # <<>> /\ net'[1] = net[1]
<1>1. /\ 1 \in DOMAIN net'
      /\ DOMAIN net = 1..Len(net) /\ Len(net) \in Nat
  <2>1. net' \in Seq(SentSet)
    BY DEF Carries
  <2> QED
    BY <2>1, PoppedProperties, StreamFacts
<1>2. f[1] \in DOMAIN net /\ net'[1] = net[f[1]] /\ net[f[1]].count \notin hit
  BY <1>1 DEF Carries
<1>3. f[1] = 1
  <2>1. SUFFICES ASSUME f[1] > 1 PROVE FALSE
    BY <1>1, <1>2
  <2>2. net[f[1] - 1].count = net[f[1]].count
    BY <1>2, <2>1 DEF BackInv
  <2>3. 1 > 1
    BY <1>1, <1>2, <2>1, <2>2, CarriedNeighbours
  <2> QED
    BY <2>3
<1> QED
  BY <1>1, <1>2, <1>3

\* A frame before those that are under way after a fault had arrived before it, or is struck.
LEMMA CarriedFrom ==
  ASSUME StreamTypeInv, NetInv, NEW f, Carries(f), NEW n \in Nat, From(n)',
         NEW k \in Frames, k < n, k \notin hit'
  PROVE  k \notin hit /\ \A i \in DOMAIN net : net[i].count > k
<1>1. k \in Nat /\ \A i \in DOMAIN net : net[i].count \in Nat
  BY StreamFacts DEF Frames
<1>2. k \notin hit
  BY DEF Carries
<1>3. \A j \in DOMAIN net' : net'[j].count # k
  <2>1. \A j \in DOMAIN net' : net'[j].count \in hit' \/ net'[j].count >= n
    BY DEF From
  <2> QED
    BY <1>1, <2>1
<1>4. \A i \in DOMAIN net : net[i].count # k
  BY <1>3 DEF Carries
<1> QED
  BY <1>2, <1>4 DEF NetInv, ArrivedInv

\* The least frame under way that is not struck.
LEMMA LeastUnderWay ==
  ASSUME StreamTypeInv, NEW n \in Nat, ~From(n)
  PROVE  \E k \in Nat :
           /\ k < n /\ k \notin hit /\ From(k)
           /\ \E i \in DOMAIN net : net[i].count = k
<1> DEFINE S == {k \in Nat : k \notin hit /\ \E i \in DOMAIN net : net[i].count = k}
<1>1. \A i \in DOMAIN net : net[i].count \in Nat
  BY StreamFacts
<1>2. PICK i \in DOMAIN net : net[i].count \notin hit /\ net[i].count < n
  BY <1>1 DEF From
<1>3. net[i].count \in S
  BY <1>1, <1>2
<1>4. PICK k \in S : \A j \in S : k <= j
  <2>1. S \subseteq Nat /\ S # {}
    BY <1>3
  <2> HIDE DEF S
  <2> QED
    BY <2>1, LeastNatural
<1>5. k <= net[i].count
  BY <1>3, <1>4
<1>6. k < n
  BY <1>1, <1>2, <1>4, <1>5
<1>7. \A j \in DOMAIN net : net[j].count \in hit \/ net[j].count \in S
  BY <1>1
<1>8. From(k)
  BY <1>4, <1>7 DEF From
<1> QED
  BY <1>4, <1>6, <1>8

LEMMA CarriedReach ==
  ASSUME StreamInv, ReachInv, NEW f, Carries(f), UNCHANGED rvars
  PROVE  ReachInv'
<1>1. /\ StreamTypeInv /\ NetInv /\ AssembledInv /\ OrderedInv /\ BackInv
  BY DEF StreamInv, NetInv
<1>2. /\ x_nbytes' = x_nbytes /\ assembled' = assembled
      /\ lens' = lens /\ hit \subseteq hit' /\ serial' = serial
  BY DEF rvars, pollvars, queuevars, assembled, serial, Carries
<1> SUFFICES ASSUME x_nbytes > 0, assembled \in hit',
                    NEW n \in (assembled + 1)..(serial + 1), From(n)'
             PROVE  x_nbytes + Undisturbed(lens, hit', assembled, n) + Swallowed(n)' <= lens[assembled]
  BY <1>2 DEF ReachInv
<1> DEFINE a == assembled
<1>3. /\ a \in Frames /\ x_nbytes <= lens[a]
      /\ \A i \in DOMAIN net : net[i].count \notin hit => net[i].count >= a
      /\ a \notin hit => net # <<>> /\ net[1].count = a
  BY <1>1 DEF AssembledInv
<1> HIDE DEF a
<1>4. /\ serial \in Nat /\ x_nbytes \in Nat
      /\ \A k : k \in Frames <=> k \in Nat /\ 1 <= k /\ k <= serial
      /\ \A k \in Frames : lens[k] \in Nat
      /\ \A k \in Nat : k <= serial => Lengths(lens, k)
      /\ \A k : Swallowed(k) \in Nat
      /\ net # <<>> => 1 \in DOMAIN net
      /\ \A i \in DOMAIN net : net[i].count \in Nat
  BY <1>1, ReachFacts, StreamFacts
<1>5. a \in Nat /\ lens[a] \in Nat
  BY <1>3, <1>4
<1>6. n \in Nat /\ a < n /\ n - 1 \in Nat /\ n - 1 <= serial /\ n <= serial + 1
  BY <1>4, <1>5 DEF a
<1>7. Lengths(lens, n - 1)
  BY <1>4, <1>6
<1>8. Undisturbed(lens, hit', a, n) \in Nat /\ Undisturbed(lens, hit', a, a + 1) = 0
  BY <1>5, <1>6, <1>7, UndisturbedBase
<1>9. Swallowed(n)' # 0 => n \notin hit' /\ net # <<>> /\ net[1].count = n /\ Swallowed(n)' = Swallowed(n)
  <2>1. Swallowed(n)' # 0 =>
          /\ n \notin hit' /\ net' # <<>> /\ net'[1].count = n /\ net'[1].kind = "data"
          /\ Swallowed(n)' = TagSize + net'[1].at
    BY DEF Swallowed
  <2>2. Swallowed(n)' # 0 => net # <<>> /\ net'[1] = net[1]
    BY <1>1, <2>1, CarriedHead
  <2> QED
    BY <1>2, <2>1, <2>2 DEF Swallowed
<1>10. \A k \in Frames : k < n /\ k \notin hit' => \A i \in DOMAIN net : net[i].count > k
  BY <1>1, <1>6, CarriedFrom
<1>11. CASE a \notin hit
  <2>1. \A k \in (a + 1)..(n - 1) : k \in hit'
    <3> SUFFICES ASSUME NEW k \in (a + 1)..(n - 1), k \notin hit' PROVE FALSE
      OBVIOUS
    <3>1. k \in Frames /\ k < n /\ k > a
      BY <1>4, <1>5, <1>6
    <3>2. net[1].count > k
      BY <1>3, <1>4, <1>10, <1>11, <3>1
    <3> QED
      BY <1>3, <1>4, <1>5, <1>11, <3>1, <3>2
  <2>2. Undisturbed(lens, hit', a, n) = 0
    <3>1. a + 1 \in Nat /\ a < a + 1 /\ a + 1 <= n
      BY <1>5, <1>6
    <3>2. Undisturbed(lens, hit', a, n) = Undisturbed(lens, hit', a, a + 1)
      BY <1>5, <1>6, <1>7, <2>1, <3>1, UndisturbedSkips
    <3> QED
      BY <1>8, <3>2
  <2>3. Swallowed(n)' = 0
    BY <1>3, <1>5, <1>6, <1>9, <1>11
  <2> QED
    BY <1>3, <1>4, <1>5, <2>2, <2>3 DEF a
<1>12. CASE a \in hit /\ From(n)
  <2>1. x_nbytes + Undisturbed(lens, hit, a, n) + Swallowed(n) <= lens[a]
    BY <1>12 DEF ReachInv, a
  <2>2. /\ Undisturbed(lens, hit', a, n) <= Undisturbed(lens, hit, a, n)
        /\ Undisturbed(lens, hit, a, n) \in Nat
    BY <1>2, <1>5, <1>6, <1>7, UndisturbedShrinks, UndisturbedBase
  <2>3. Swallowed(n)' <= Swallowed(n) /\ Swallowed(n)' \in Nat /\ Swallowed(n) \in Nat
    <3>1. CASE Swallowed(n)' = 0
      <4>1. Swallowed(n) \in Nat
        BY <1>4
      <4> QED
        BY <3>1, <4>1
    <3>2. CASE Swallowed(n)' # 0
      <4>1. Swallowed(n)' = Swallowed(n) /\ Swallowed(n) \in Nat
        BY <1>4, <1>9, <3>2
      <4> QED
        BY <4>1
    <3> QED
      BY <3>1, <3>2
  <2> QED
    BY <1>4, <1>5, <1>8, <2>1, <2>2, <2>3 DEF a
<1>13. CASE a \in hit /\ ~From(n)
  <2>1. PICK k \in Nat : /\ k < n /\ k \notin hit /\ From(k)
                         /\ \E i \in DOMAIN net : net[i].count = k
    BY <1>1, <1>6, <1>13, LeastUnderWay
  <2>2. a < k /\ k <= serial + 1
    <3>1. k >= a /\ k # a
      BY <1>3, <1>13, <2>1
    <3> QED
      BY <1>4, <1>5, <1>6, <2>1, <3>1
  <2>3. x_nbytes + Undisturbed(lens, hit, a, k) + Swallowed(k) <= lens[a]
    <3>1. k \in (assembled + 1)..(serial + 1)
      BY <1>4, <1>5, <2>1, <2>2 DEF a
    <3> QED
      BY <1>13, <2>1, <3>1 DEF ReachInv, a
  <2>4. \A j \in k..(n - 1) : j \in hit'
    <3> SUFFICES ASSUME NEW j \in k..(n - 1), j \notin hit' PROVE FALSE
      OBVIOUS
    <3>1. j \in Frames /\ j < n /\ j >= k
      BY <1>4, <1>5, <1>6, <2>1, <2>2
    <3>2. PICK i \in DOMAIN net : net[i].count = k
      BY <2>1
    <3>3. net[i].count > j
      BY <1>10, <3>1
    <3> QED
      BY <1>4, <2>1, <3>1, <3>2, <3>3
  <2>5. Undisturbed(lens, hit', a, n) = Undisturbed(lens, hit', a, k)
    BY <1>5, <1>6, <1>7, <2>1, <2>2, <2>4, UndisturbedSkips
  <2>6. /\ Undisturbed(lens, hit', a, k) <= Undisturbed(lens, hit, a, k)
        /\ Undisturbed(lens, hit, a, k) \in Nat
    <3>1. k - 1 \in Nat /\ k - 1 <= serial
      BY <1>4, <1>5, <2>1, <2>2
    <3>2. Lengths(lens, k - 1)
      BY <1>4, <3>1
    <3> QED
      BY <1>2, <1>5, <2>1, <2>2, <3>2, UndisturbedShrinks, UndisturbedBase
  <2>7. Swallowed(n)' = 0
    <3>1. SUFFICES ASSUME Swallowed(n)' # 0 PROVE FALSE
      OBVIOUS
    <3>2. net # <<>> /\ net[1].count = n /\ n \notin hit
      BY <1>2, <1>9, <3>1
    <3>3. From(n)
      BY <1>1, <3>2, FirstIsLeast
    <3> QED
      BY <1>13, <3>3
  <2>8. Swallowed(k) \in Nat
    BY <1>4
  <2> QED
    BY <1>4, <1>5, <1>8, <2>3, <2>5, <2>6, <2>7, <2>8 DEF a
<1> QED
  BY <1>11, <1>12, <1>13

\* What a fault does elsewhere, when the receiver keeps what it has.
LEMMA CarriedStray ==
  ASSUME StreamInv, LocalInv, NEW f, Carries(f), UNCHANGED <<x_tag, whole>>
  PROVE  /\ OutletsInv' /\ AccountedInv'
         /\ net' # <<>> /\ net'[1].count \notin hit' /\ net'[1].kind = "data" =>
              \/ x_nbytes > 0 /\ assembled = net'[1].count
              \/ \E m \in hit' : m < net'[1].count /\ InReach(m, net[1].count)'
<1>1. /\ StreamTypeInv /\ BackInv /\ DatagramsInv /\ OutletsInv /\ StrayInv /\ AccountedInv
  BY DEF StreamInv, NetInv, LocalInv
<1>2. /\ lens' = lens /\ hit \subseteq hit' /\ Frames' = Frames
      /\ \A j \in DOMAIN net' : f[j] \in DOMAIN net /\ net'[j] = net[f[j]]
      /\ \A i \in DOMAIN net : net[i].count \notin hit' => \E j \in DOMAIN net' : f[j] = i
  BY DEF Carries, Frames, serial
<1>3. OutletsInv'
  BY <1>1, <1>2 DEF OutletsInv
<1>4. ASSUME NEW n \in Frames, NEW m \in hit, m < n, InReach(m, n)
      PROVE  m \in hit' /\ InReach(m, n)'
  BY <1>1, <1>2, <1>4, ReachStays
<1>5. AccountedInv'
  <2> SUFFICES ASSUME NEW n \in Frames, n \notin hit'
               PROVE  \/ \E i \in DOMAIN net' : net'[i].count = n
                      \/ n \in whole
                      \/ lens[n] = 0
                      \/ \E m \in hit' : m < n /\ InReach(m, n)'
    BY <1>2 DEF AccountedInv
  <2>1. \/ \E i \in DOMAIN net : net[i].count = n
        \/ n \in whole
        \/ lens[n] = 0
        \/ \E m \in hit : m < n /\ InReach(m, n)
    BY <1>1, <1>2 DEF AccountedInv
  <2>2. ASSUME NEW i \in DOMAIN net, net[i].count = n PROVE \E j \in DOMAIN net' : net'[j].count = n
    BY <1>2, <2>2
  <2> QED
    BY <1>4, <2>1, <2>2
<1>6. ASSUME net' # <<>>, net'[1].count \notin hit', net'[1].kind = "data"
      PROVE  \/ x_nbytes > 0 /\ assembled = net'[1].count
             \/ \E m \in hit' : m < net'[1].count /\ InReach(m, net[1].count)'
  <2>1. net # <<>> /\ net'[1] = net[1] /\ net[1].count \notin hit
    BY <1>1, <1>2, <1>6, CarriedHead
  <2>2. net[1].count \in Frames
    BY <1>1, <2>1, ReachFacts DEF DatagramsInv
  <2>3. \/ x_nbytes > 0 /\ assembled = net[1].count
        \/ \E m \in hit : m < net[1].count /\ InReach(m, net[1].count)
    BY <1>1, <1>6, <2>1 DEF StrayInv
  <2>4. ASSUME NEW m \in hit, m < net[1].count, InReach(m, net[1].count)
        PROVE  \E k \in hit' : k < net'[1].count /\ InReach(k, net[1].count)'
    <3>1. PICK c \in Frames : c = net[1].count
      BY <2>2
    <3>2. m \in hit' /\ InReach(m, c)' /\ m < c /\ c = net'[1].count
      BY <1>4, <2>1, <2>4, <3>1
    <3>3. InReach(m, net[1].count)'
      BY <3>2 DEF InReach
    <3> QED
      BY <3>2, <3>3
  <2> QED
    BY <2>1, <2>3, <2>4
<1> QED
  BY <1>3, <1>5, <1>6

LEMMA FaultLocal ==
  ASSUME StreamInv, LocalInv, NEW i \in DOMAIN net, Lose(i) \/ Duplicate(i) \/ Overtake(i)
  PROVE  LocalInv'
<1>1. UNCHANGED <<fvars, rvars, whole>> /\ \E f : Carries(f)
  BY FaultCarries
<1>2. PICK f : Carries(f)
  BY <1>1
<1>3. /\ UNCHANGED <<x_tag, whole>> /\ UNCHANGED rvars
      /\ x_nbytes' = x_nbytes /\ assembled' = assembled
  BY <1>1 DEF fvars, rvars, pollvars, queuevars, assembled
<1>4. ReachInv'
  BY <1>2, <1>3, CarriedReach DEF LocalInv
<1>5. OutletsInv' /\ AccountedInv' /\ StrayInv'
  BY <1>2, <1>3, CarriedStray DEF StrayInv
<1> QED
  BY <1>4, <1>5 DEF LocalInv

\* "reset" drops the frame in the slot; what is still to come for it is stray.
LEMMA ResetMsgLocal ==
  ASSUME StreamInv, LocalInv, ResetMsg
  PROVE  LocalInv'
<1> DEFINE f == [j \in DOMAIN net' |-> j]
<1>1. Carries(f)
  BY ResetMsgCarries
<1> HIDE DEF f
<1>2. /\ UNCHANGED <<fvars, net, lens, whole>> /\ x_nbytes' = 0
      /\ hit' = IF x_nbytes > 0 THEN hit \cup {assembled} ELSE hit
  BY DEF ResetMsg, Reset, assembled
<1>3. UNCHANGED <<x_tag, whole>>
  BY <1>2 DEF fvars
<1>4. /\ OutletsInv' /\ AccountedInv'
      /\ net' # <<>> /\ net'[1].count \notin hit' /\ net'[1].kind = "data" =>
           \/ x_nbytes > 0 /\ assembled = net'[1].count
           \/ \E m \in hit' : m < net'[1].count /\ InReach(m, net[1].count)'
  BY <1>1, <1>3, CarriedStray
<1>5. StrayInv'
  BY <1>2, <1>4 DEF StrayInv
<1>6. ReachInv'
  BY <1>2 DEF ReachInv
<1> QED
  BY <1>4, <1>5, <1>6 DEF LocalInv

\* What comes next when a frame is sent was next before, or is its tag.
LEMMA SendsHead ==
  ASSUME StreamTypeInv, DatagramsInv, NEW q, Sends(q), net' # <<>>, net'[1].kind = "data"
  PROVE  net # <<>> /\ 1 \in DOMAIN net /\ net'[1] = net[1]
<1>1. 1 \in DOMAIN net'
  <2>1. net' \in Seq(SentSet)
    BY DEF Sends
  <2> QED
    BY <2>1, PoppedProperties
<1>2. /\ \/ 1 \in DOMAIN net /\ net'[1] = net[1]
         \/ \E i \in 1..q : 1 = Len(net) + i /\ net'[1] = Stamped(i)
      /\ q \in Nat /\ q <= Packets + 1 /\ Packets \in Nat
      /\ Len(net) \in Nat /\ DOMAIN net = 1..Len(net)
  BY <1>1, SendsFacts
<1>3. ASSUME NEW i \in 1..q, 1 = Len(net) + i, net'[1] = Stamped(i) PROVE FALSE
  <2>1. i = 1 /\ i \in 1..(Packets + 1)
    BY <1>2, <1>3
  <2>2. x_tag \in Tags /\ serial \in Nat
    BY StreamFacts DEF StreamTypeInv
  <2>3. Stamped(1).kind = "tag"
    BY <2>1, <2>2, StampedProperties
  <2> QED
    BY <1>3, <2>1, <2>3
<1>4. 1 \in DOMAIN net => net # <<>>
  <2>1. DOMAIN <<>> = {}
    OBVIOUS
  <2> QED
    BY <2>1
<1> QED
  BY <1>2, <1>3, <1>4

LEMMA SendsReach ==
  ASSUME StreamInv, ReachInv, NEW q, Sends(q), UNCHANGED rvars
  PROVE  ReachInv'
<1>1. /\ StreamTypeInv /\ DatagramsInv /\ AssembledInv
  BY DEF StreamInv, NetInv
<1>2. /\ x_nbytes' = x_nbytes /\ assembled' = assembled
  BY DEF rvars, pollvars, queuevars, assembled
<1>3. /\ serial' = serial + 1 /\ serial \in Nat /\ Frames' = Frames \cup {serial + 1}
      /\ lens' \in Seq(Nat)
      /\ \A k \in Frames : lens'[k] = lens[k] /\ lens[k] \in Nat /\ k \in Nat /\ k < serial + 1
      /\ lens'[serial + 1] = Length /\ Length \in Nat
      /\ hit' \subseteq Frames' /\ hit \subseteq hit' /\ \A k \in Frames : k \in hit' => k \in hit
      /\ \A j \in DOMAIN net : j \in DOMAIN net' /\ net'[j] = net[j] /\ net[j].count \in Frames
      /\ \A i \in 1..q : Len(net) + i \in DOMAIN net' /\ net'[Len(net) + i] = Stamped(i)
                         /\ Stamped(i).count = serial + 1
      /\ q \in Nat /\ Packets \in Nat
  BY <1>1, SendsFacts
<1>4. /\ x_nbytes \in Nat
      /\ \A k : k \in Frames <=> k \in Nat /\ 1 <= k /\ k <= serial
      /\ \A k \in Nat : k <= serial => Lengths(lens, k)
      /\ \A k : Swallowed(k) \in Nat
  BY <1>1, ReachFacts
<1>5. Lengths(lens', serial + 1)
  <2>1. ASSUME NEW k \in 1..(serial + 1) PROVE k = serial + 1 \/ k \in Frames
    <3>1. serial \in Nat
      BY <1>3
    <3> QED
      BY <3>1 DEF Frames
  <2> QED
    BY <1>3, <2>1 DEF Lengths
<1> SUFFICES ASSUME x_nbytes > 0, assembled \in hit',
                    NEW n \in (assembled + 1)..(serial + 2), From(n)'
             PROVE  x_nbytes + Undisturbed(lens', hit', assembled, n) + Swallowed(n)' <= lens'[assembled]
  <2>1. serial' + 1 = serial + 2
    BY <1>3
  <2> QED
    BY <1>2, <2>1 DEF ReachInv
<1> DEFINE a == assembled
<1>6. a \in Frames /\ a \in hit
  BY <1>1, <1>3 DEF AssembledInv
<1> HIDE DEF a
<1>7. a \in Nat /\ a <= serial /\ lens'[a] = lens[a] /\ lens[a] \in Nat
  BY <1>3, <1>4, <1>6
<1>8. \A i \in DOMAIN net : net[i].count \in hit \/ net[i].count >= n
  BY <1>3 DEF From
<1>9. ASSUME NEW k \in (a + 1)..(serial + 1), From(k)
      PROVE  /\ x_nbytes + Undisturbed(lens', hit', a, k) + Swallowed(k) <= lens[a]
             /\ Undisturbed(lens', hit', a, k) \in Nat /\ k \in Nat
  <2>1. x_nbytes + Undisturbed(lens, hit, a, k) + Swallowed(k) <= lens[a]
    BY <1>6, <1>9 DEF ReachInv, a
  <2>2. /\ k \in Nat /\ a < k /\ k - 1 \in Nat /\ k - 1 <= serial
        /\ \A i \in 1..(k - 1) : i \in Frames
    <3>1. serial \in Nat
      BY <1>3
    <3> QED
      BY <1>7, <3>1 DEF Frames
  <2>3. Lengths(lens, k - 1) /\ \A i \in 1..(k - 1) : lens'[i] = lens[i]
    BY <1>3, <1>4, <2>2
  <2>4. Lengths(lens', k - 1)
    BY <2>3 DEF Lengths
  <2>5. /\ Undisturbed(lens', hit', a, k) <= Undisturbed(lens, hit, a, k)
        /\ Undisturbed(lens, hit, a, k) \in Nat /\ Undisturbed(lens', hit', a, k) \in Nat
    BY <1>3, <1>7, <2>2, <2>3, <2>4, UndisturbedShrinks, UndisturbedBase
  <2>6. Swallowed(k) \in Nat
    BY <1>4
  <2> QED
    BY <1>4, <1>7, <2>1, <2>2, <2>5, <2>6
<1>10. Swallowed(n)' # 0 =>
         /\ n \notin hit' /\ net # <<>> /\ net[1].count = n /\ n \in Frames
         /\ Swallowed(n)' = Swallowed(n)
  <2>1. Swallowed(n)' # 0 =>
          /\ n \notin hit' /\ net' # <<>> /\ net'[1].count = n /\ net'[1].kind = "data"
          /\ Swallowed(n)' = TagSize + net'[1].at
    BY DEF Swallowed
  <2>2. Swallowed(n)' # 0 => net # <<>> /\ net'[1] = net[1] /\ 1 \in DOMAIN net
    BY <1>1, <2>1, SendsHead
  <2>3. Swallowed(n)' # 0 => n \notin hit /\ n \in Frames
    BY <1>3, <2>1, <2>2
  <2> QED
    BY <2>1, <2>2, <2>3 DEF Swallowed
<1>11. CASE n <= serial + 1
  <2>1. n \in (a + 1)..(serial + 1) /\ From(n)
    BY <1>3, <1>7, <1>8, <1>11 DEF From, a
  <2>2. Swallowed(n)' = 0 \/ Swallowed(n)' = Swallowed(n)
    BY <1>10
  <2>3. Swallowed(n) \in Nat
    BY <1>4
  <2>4. /\ x_nbytes + Undisturbed(lens', hit', a, n) + Swallowed(n) <= lens[a]
        /\ Undisturbed(lens', hit', a, n) \in Nat
    BY <1>9, <2>1
  <2> QED
    BY <1>4, <1>7, <2>2, <2>3, <2>4 DEF a
<1>12. CASE ~(n <= serial + 1)
  <2>1. n = serial + 2
    BY <1>3, <1>7, <1>12 DEF a
  <2>2. serial + 1 \in hit'
    <3>1. SUFFICES ASSUME serial + 1 \notin hit' PROVE FALSE
      OBVIOUS
    <3>2. q = Packets + 1
      BY <3>1 DEF Sends
    <3>3. 1 \in 1..q
      BY <1>3, <3>2
    <3>4. Len(net) + 1 \in DOMAIN net' /\ net'[Len(net) + 1].count = serial + 1
      BY <1>3, <3>3
    <3>5. serial + 1 >= n
      BY <3>1, <3>4 DEF From
    <3> QED
      BY <1>3, <2>1, <3>5
  <2>3. Undisturbed(lens', hit', a, n) = Undisturbed(lens', hit', a, serial + 1)
    <3>1. /\ serial + 1 \in Nat /\ n \in Nat /\ a < serial + 1 /\ serial + 1 <= n
          /\ n - 1 = serial + 1 /\ \A k \in (serial + 1)..(n - 1) : k = serial + 1
      BY <1>3, <1>7, <2>1
    <3>2. Lengths(lens', n - 1) /\ \A k \in (serial + 1)..(n - 1) : k \in hit'
      BY <1>5, <2>2, <3>1
    <3> QED
      BY <1>7, <3>1, <3>2, UndisturbedSkips
  <2>4. serial + 1 \in (a + 1)..(serial + 1) /\ From(serial + 1)
    <3>1. \A i \in DOMAIN net : net[i].count \in hit
      BY <1>3, <1>8, <2>1
    <3> QED
      BY <1>3, <1>7, <3>1 DEF From
  <2>5. Swallowed(n)' = 0
    BY <1>3, <1>4, <1>10, <2>1
  <2>6. Swallowed(serial + 1) \in Nat
    BY <1>4
  <2>7. /\ x_nbytes + Undisturbed(lens', hit', a, serial + 1) + Swallowed(serial + 1) <= lens[a]
        /\ Undisturbed(lens', hit', a, serial + 1) \in Nat
    BY <1>9, <2>4
  <2> QED
    BY <1>4, <1>7, <2>3, <2>5, <2>6, <2>7 DEF a
<1> QED
  BY <1>11, <1>12

LEMMA SendLocal ==
  ASSUME StreamInv, LocalInv, SendWhole \/ \E k \in 0..Packets : SendSome(k),
         \A l \in Layouts : l.channels <= NOutlets
  PROVE  LocalInv'
<1>1. /\ StreamTypeInv /\ DatagramsInv /\ OutletsInv /\ ReachInv /\ StrayInv /\ AccountedInv
  BY DEF StreamInv, NetInv, LocalInv
<1>2. PICK q : Sends(q)
  BY <1>1, TransmitSends
<1>3. /\ UNCHANGED <<rvars, whole>> /\ x_tag' \in Layouts
  BY <1>1 DEF SendWhole, SendSome, SendPart, Transmit, OutletsInv
<1>4. ReachInv'
  BY <1>1, <1>2, <1>3, SendsReach
<1>5. /\ Frames' = Frames \cup {serial + 1} /\ serial \in Nat
      /\ \A k \in Frames : lens'[k] = lens[k]
      /\ hit \subseteq hit'
      /\ \A j \in DOMAIN net' :
           \/ j \in DOMAIN net /\ net'[j] = net[j] /\ net[j].count \in Frames
           \/ \E i \in 1..q : j = Len(net) + i /\ net'[j] = Stamped(i) /\ net'[j].count = serial + 1
      /\ \A j \in DOMAIN net : j \in DOMAIN net' /\ net'[j] = net[j] /\ net[j].count \in Frames
      /\ \A i \in 1..q : Len(net) + i \in DOMAIN net' /\ net'[Len(net) + i] = Stamped(i)
                         /\ Stamped(i).count = serial + 1
      /\ q \in Nat /\ q <= Packets + 1 /\ Packets \in Nat
  BY <1>1, <1>2, SendsFacts
<1>6. OutletsInv'
  <2>1. \A i \in 1..q : Stamped(i).channels = x_tag.channels
    <3>1. x_tag \in Tags /\ \A i \in 1..q : i \in 1..(Packets + 1)
      BY <1>1, <1>5 DEF StreamTypeInv
    <3> QED
      BY <1>5, <3>1, StampedProperties
  <2>2. x_tag.channels <= NOutlets
    BY <1>1 DEF OutletsInv
  <2> QED
    BY <1>1, <1>3, <1>5, <2>1, <2>2 DEF OutletsInv
<1>7. ASSUME NEW n \in Frames, NEW m \in hit, m < n, InReach(m, n)
      PROVE  m \in hit' /\ InReach(m, n)'
  BY <1>1, <1>5, <1>7, ReachStays
<1>8. AccountedInv'
  <2> SUFFICES ASSUME NEW n \in Frames', n \notin hit'
               PROVE  \/ \E i \in DOMAIN net' : net'[i].count = n
                      \/ n \in whole
                      \/ lens'[n] = 0
                      \/ \E m \in hit' : m < n /\ InReach(m, n)'
    BY <1>3 DEF AccountedInv
  <2>1. CASE n \in Frames
    <3>1. \/ \E i \in DOMAIN net : net[i].count = n
          \/ n \in whole
          \/ lens[n] = 0
          \/ \E m \in hit : m < n /\ InReach(m, n)
      BY <1>1, <1>5, <2>1 DEF AccountedInv
    <3>2. ASSUME NEW i \in DOMAIN net, net[i].count = n PROVE \E j \in DOMAIN net' : net'[j].count = n
      BY <1>5, <3>2
    <3> QED
      BY <1>5, <1>7, <2>1, <3>1, <3>2
  <2>2. CASE n \notin Frames
    <3>1. n = serial + 1
      BY <1>5, <2>2
    <3>2. 1 \in 1..q
      <4>1. q = Packets + 1
        BY <1>2, <3>1 DEF Sends
      <4> QED
        BY <1>5, <4>1
    <3>3. Len(net) + 1 \in DOMAIN net' /\ net'[Len(net) + 1].count = n
      BY <1>5, <3>1, <3>2
    <3> QED
      BY <3>3
  <2> QED
    BY <2>1, <2>2
<1>9. StrayInv'
  <2> SUFFICES ASSUME net' # <<>>, net'[1].count \notin hit', net'[1].kind = "data"
               PROVE  \/ x_nbytes > 0 /\ assembled = net'[1].count
                      \/ \E m \in hit' : m < net'[1].count /\ InReach(m, net[1].count)'
    <3>1. x_nbytes' = x_nbytes /\ assembled' = assembled
      BY <1>3 DEF rvars, pollvars, queuevars, assembled
    <3> QED
      BY <3>1 DEF StrayInv
  <2>1. net # <<>> /\ net'[1] = net[1] /\ net[1].count \notin hit /\ net[1].count \in Frames
    BY <1>1, <1>2, <1>5, SendsHead
  <2>2. \/ x_nbytes > 0 /\ assembled = net[1].count
        \/ \E m \in hit : m < net[1].count /\ InReach(m, net[1].count)
    BY <1>1, <2>1 DEF StrayInv
  <2>3. ASSUME NEW m \in hit, m < net[1].count, InReach(m, net[1].count)
        PROVE  \E k \in hit' : k < net'[1].count /\ InReach(k, net[1].count)'
    <3>1. PICK c \in Frames : c = net[1].count
      BY <2>1
    <3>2. m \in hit' /\ InReach(m, c)' /\ m < c /\ c = net'[1].count
      BY <1>7, <2>1, <2>3, <3>1
    <3>3. InReach(m, net[1].count)'
      BY <3>2 DEF InReach
    <3> QED
      BY <3>2, <3>3
  <2> QED
    BY <2>1, <2>2, <2>3
<1> QED
  BY <1>4, <1>6, <1>8, <1>9 DEF LocalInv

\* A datagram is received.

LEMMA DeliveredFrom ==
  ASSUME StreamTypeInv, NetInv, net # <<>>, net' = Tail(net), UNCHANGED <<lens, hit>>,
         NEW n \in Nat, From(n)', NEW k \in Frames, k < n, k > net[1].count
  PROVE  k \in hit
<1> SUFFICES ASSUME k \notin hit PROVE FALSE
  OBVIOUS
<1>1. /\ 1 \in DOMAIN net /\ k \in Nat
      /\ \A j : j \in DOMAIN net' <=> j \in Nat \ {0} /\ j + 1 \in DOMAIN net
      /\ \A j \in DOMAIN net' : net'[j] = net[j + 1]
      /\ \A i \in DOMAIN net : i \in Nat \ {0} /\ net[i].count \in Nat
  BY DeliveredNet, StreamFacts DEF Frames
<1>2. ASSUME NEW i \in DOMAIN net PROVE net[i].count # k
  <2>1. CASE i = 1
    BY <1>1, <2>1
  <2>2. CASE i # 1
    <3>1. i - 1 \in DOMAIN net' /\ net'[i - 1] = net[i]
      <4>1. i - 1 \in Nat \ {0} /\ (i - 1) + 1 = i
        BY <1>1, <2>2
      <4> QED
        BY <1>1, <4>1
    <3>2. net[i].count \in hit \/ net[i].count >= n
      BY <3>1 DEF From
    <3> QED
      BY <1>1, <3>2
  <2> QED
    BY <2>1, <2>2
<1>3. net[1].count > k
  BY <1>1, <1>2 DEF NetInv, ArrivedInv
<1> QED
  BY <1>1, <1>3

\* What follows data of a frame that is not struck is what comes next of it.
LEMMA DeliveredHead ==
  ASSUME StreamTypeInv, NetInv, net # <<>>, net' = Tail(net), UNCHANGED <<lens, hit>>,
         net' # <<>>, net'[1].count \notin hit, net'[1].kind = "data"
  PROVE  /\ net'[1].count = net[1].count /\ net'[1].at = End(net[1])
         /\ End(net[1]) < lens[net[1].count]
<1>1. 1 \in DOMAIN net' /\ 1 \in DOMAIN net
  <2>1. net' \in Seq(SentSet) /\ 1 \in DOMAIN net
    BY DeliveredNet
  <2> QED
    BY <2>1, PoppedProperties
<1>2. 2 \in DOMAIN net /\ net'[1] = net[2]
  <2>1. 1 + 1 = 2
    OBVIOUS
  <2> QED
    BY <1>1, <2>1, DeliveredNet
<1>3. net[1].count = net[2].count
  <2>1. 2 > 1 /\ 2 - 1 = 1
    OBVIOUS
  <2>2. BackInv
    BY DEF NetInv
  <2> QED
    BY <1>2, <2>1, <2>2 DEF BackInv
<1>4. IF End(net[1]) < lens[net[1].count]
      THEN net[1 + 1].at = End(net[1])
      ELSE \A j \in DOMAIN net : j > 1 => net[j].count # net[1].count
  BY <1>1, <1>2, <1>3 DEF NetInv, ChainInv
<1>5. 1 + 1 = 2 /\ 2 > 1
  OBVIOUS
<1> QED
  BY <1>2, <1>3, <1>4, <1>5

LEMMA DeliveredSwallowed ==
  ASSUME StreamTypeInv, NetInv, net # <<>>, net' = Tail(net), UNCHANGED <<lens, hit>>,
         NEW n, Swallowed(n)' # 0
  PROVE  /\ n \notin hit /\ net[1].count = n
         /\ Swallowed(n)' = TagSize + End(net[1])
<1>1. /\ n \notin hit /\ net' # <<>> /\ net'[1].count = n /\ net'[1].kind = "data"
      /\ Swallowed(n)' = TagSize + net'[1].at
  BY DEF Swallowed
<1>2. net'[1].count = net[1].count /\ net'[1].at = End(net[1])
  BY <1>1, DeliveredHead
<1> QED
  BY <1>1, <1>2

\* The slot of a frame that was struck begins.
LEMMA DeliverTagReach ==
  ASSUME StreamInv, Deliver,
         \/ PollIncompleteTag(net[1]) \/ PollBadTag(net[1])
         \/ PollTooManyChannels(net[1]) \/ PollTag(net[1])
  PROVE  ReachInv'
<1>1. /\ StreamTypeInv /\ NetInv /\ DatagramsInv /\ RTypeOK
  BY DEF StreamInv, StreamTypeInv, RInv, NetInv
<1>2. net # <<>> /\ net' = Tail(net) /\ UNCHANGED <<lens, hit>> /\ serial' = serial
  BY DEF Deliver, serial
<1>3. 1 \in DOMAIN net /\ net[1] \in DatagramSet
  BY <1>1, <1>2, DeliveredNet
<1>4. /\ UNCHANGED queuevars
      /\ x_nbytes' > 0 =>
           /\ net[1].kind = "tag" /\ x_nbytes' = net[1].len
           /\ x_frames'[x_framein].tag = TagOf(net[1])
  BY <1>1, <1>3, TagPolled
<1> SUFFICES ASSUME x_nbytes' > 0, assembled' \in hit,
                    NEW n \in (assembled' + 1)..(serial + 1), From(n)'
             PROVE  x_nbytes' + Undisturbed(lens, hit, assembled', n) + Swallowed(n)' <= lens[assembled']
  BY <1>2 DEF ReachInv
<1> DEFINE c == net[1].count
<1>5. assembled' = c /\ c \in hit
  BY <1>4 DEF queuevars, TagOf, assembled
<1>6. c \in Frames /\ x_nbytes' = lens[c]
  BY <1>1, <1>3, <1>4 DEF DatagramsInv
<1>7. n \in (c + 1)..(serial + 1)
  BY <1>5
<1> HIDE DEF c
<1>8. /\ serial \in Nat /\ lens[c] \in Nat /\ c \in Nat /\ c <= serial
      /\ \A k : k \in Frames <=> k \in Nat /\ 1 <= k /\ k <= serial
      /\ \A k \in Nat : k <= serial => Lengths(lens, k)
  BY <1>1, <1>6, ReachFacts
<1>9. n \in Nat /\ c < n /\ n - 1 \in Nat /\ n - 1 <= serial /\ c + 1 \in Nat /\ c < c + 1 /\ c + 1 <= n
  BY <1>7, <1>8
<1>10. \A k \in (c + 1)..(n - 1) : k \in hit
  <2> SUFFICES ASSUME NEW k \in (c + 1)..(n - 1) PROVE k \in hit
    OBVIOUS
  <2>1. k \in Frames /\ k < n /\ k > c
    BY <1>8, <1>9
  <2> QED
    BY <1>1, <1>2, <1>9, <2>1, DeliveredFrom DEF c
<1>11. Undisturbed(lens, hit, c, n) = 0
  <2>1. Lengths(lens, n - 1)
    BY <1>8, <1>9
  <2>2. Undisturbed(lens, hit, c, n) = Undisturbed(lens, hit, c, c + 1)
    BY <1>8, <1>9, <1>10, <2>1, UndisturbedSkips
  <2>3. Undisturbed(lens, hit, c, c + 1) = 0
    BY <1>8, <1>9, <2>1, UndisturbedBase
  <2> QED
    BY <2>2, <2>3
<1>12. Swallowed(n)' = 0
  <2>1. SUFFICES ASSUME Swallowed(n)' # 0 PROVE FALSE
    OBVIOUS
  <2>2. net[1].count = n
    BY <1>1, <1>2, <2>1, DeliveredSwallowed
  <2> QED
    BY <1>8, <1>9, <2>2 DEF c
<1>13. x_nbytes' + Undisturbed(lens, hit, c, n) + Swallowed(n)' <= lens[c]
  BY <1>6, <1>8, <1>11, <1>12
<1> QED
  BY <1>5, <1>13

\* It swallows what comes.
LEMMA DeliverDataReach ==
  ASSUME StreamInv, ReachInv, Deliver, PollData(net[1])
  PROVE  ReachInv'
<1>1. /\ StreamTypeInv /\ NetInv /\ DatagramsInv /\ OrderedInv /\ ChainInv /\ AssembledInv /\ RTypeOK
  BY DEF StreamInv, StreamTypeInv, RInv, NetInv
<1>2. net # <<>> /\ net' = Tail(net) /\ UNCHANGED <<lens, hit>> /\ serial' = serial
  BY DEF Deliver, serial
<1>3. /\ 1 \in DOMAIN net /\ net[1] \in DatagramSet
      /\ \A j : j \in DOMAIN net' <=> j \in Nat \ {0} /\ j + 1 \in DOMAIN net
      /\ \A j \in DOMAIN net' : net'[j] = net[j + 1]
  BY <1>1, <1>2, DeliveredNet
<1> DEFINE a == assembled
           c == net[1].count
           W == WireSize(net[1])
           e == End(net[1])
<1>4. /\ x_nbytes > 0 /\ x_nbytes' = IF FrameEnds(net[1]) THEN 0 ELSE x_nbytes - Received(net[1])
      /\ x_frames'[x_framein].tag = x_frames[x_framein].tag
      /\ Received(net[1]) = IF W < x_nbytes THEN W ELSE x_nbytes
      /\ W \in Nat \ {0}
  BY <1>1, <1>3, DataPolled
<1> SUFFICES ASSUME x_nbytes' > 0, assembled' \in hit,
                    NEW n \in (assembled' + 1)..(serial + 1), From(n)'
             PROVE  x_nbytes' + Undisturbed(lens, hit, assembled', n) + Swallowed(n)' <= lens[assembled']
  BY <1>2 DEF ReachInv
<1>5. ~FrameEnds(net[1])
  BY <1>4
<1>6. assembled' = a /\ a \in hit
  <2>1. UNCHANGED queuevars
    BY <1>5 DEF PollData
  <2> QED
    BY <1>4, <2>1 DEF queuevars, assembled
<1>7. /\ serial \in Nat /\ x_nbytes \in Nat /\ TagSize \in Nat
      /\ \A k : k \in Frames <=> k \in Nat /\ 1 <= k /\ k <= serial
      /\ \A k \in Frames : lens[k] \in Nat
      /\ \A k \in Nat : k <= serial => Lengths(lens, k)
      /\ \A k : Swallowed(k) \in Nat
      /\ c \in Nat /\ net[1].at \in Nat /\ net[1].len \in Nat /\ net[1].kind \in {"tag", "data"} /\ e \in Nat
  BY <1>1, <1>3, ReachFacts, StreamFacts
<1>8. /\ a \in Frames
      /\ c \notin hit => c >= a
  BY <1>1, <1>3, <1>4 DEF AssembledInv
<1>9. /\ c \in Frames /\ W = (IF net[1].kind = "tag" THEN TagSize ELSE net[1].len)
      /\ e = (IF net[1].kind = "tag" THEN 0 ELSE net[1].at + net[1].len) /\ e <= lens[c]
  BY <1>1, <1>3 DEF DatagramsInv, End, WireSize
<1>10. \A k : k \notin hit /\ c = k =>
         Swallowed(k) + W = TagSize + e
  <2> SUFFICES ASSUME c \notin hit PROVE Swallowed(c) + W = TagSize + e
    OBVIOUS
  <2>1. Swallowed(c) = IF net[1].kind = "data" THEN TagSize + net[1].at ELSE 0
    BY <1>2 DEF Swallowed
  <2> QED
    BY <1>7, <1>9, <2>1
<1>11. /\ Swallowed(n)' # 0 => n \notin hit /\ c = n /\ Swallowed(n)' = TagSize + e
       /\ Swallowed(n)' \in Nat
  <2>1. Swallowed(n)' # 0 => n \notin hit /\ c = n /\ Swallowed(n)' = TagSize + e
    BY <1>1, <1>2, DeliveredSwallowed
  <2>2. Swallowed(n)' = 0 \/ Swallowed(n)' = TagSize + e
    BY <2>1
  <2>3. Swallowed(n)' \in Nat
    BY <1>7, <2>2
  <2> QED
    BY <2>1, <2>3
<1>12. n \in (a + 1)..(serial + 1)
  BY <1>6
<1>13. c \notin hit => From(c)
  BY <1>1, <1>2, FirstIsLeast
<1>14. \A k \in (a + 1)..(serial + 1) : From(k) =>
         x_nbytes + Undisturbed(lens, hit, a, k) + Swallowed(k) <= lens[a]
  BY <1>4, <1>6 DEF ReachInv
<1>15. x_nbytes' = x_nbytes - W
  BY <1>4, <1>5, <1>7 DEF FrameEnds
<1>16. c \in hit \/ c >= n => From(n)
  <2> SUFFICES ASSUME c \in hit \/ c >= n, NEW i \in DOMAIN net
               PROVE  net[i].count \in hit \/ net[i].count >= n
    BY DEF From
  <2>1. i \in Nat \ {0}
    BY <1>1, StreamFacts
  <2>2. CASE i # 1
    <3>1. i - 1 \in Nat \ {0} /\ (i - 1) + 1 = i
      BY <2>1, <2>2
    <3>2. i - 1 \in DOMAIN net' /\ net'[i - 1] = net[i]
      BY <1>3, <3>1
    <3> QED
      BY <1>2, <3>2 DEF From
  <2> QED
    BY <2>2
<1>17. c \notin hit /\ c < n => e = lens[c]
  <2> SUFFICES ASSUME c \notin hit, c < n, e < lens[c] PROVE FALSE
    <3>1. lens[c] \in Nat
      BY <1>7, <1>9
    <3> QED
      BY <1>7, <1>9, <3>1
  <2>1. 1 + 1 \in DOMAIN net /\ net[1 + 1].count = c
    BY <1>1, <1>3 DEF ChainInv
  <2>2. 1 \in DOMAIN net' /\ net'[1].count = c
    BY <1>3, <2>1
  <2>3. c >= n
    BY <1>2, <2>2 DEF From
  <2> QED
    BY <1>7, <1>12, <2>3
<1>18. \A k \in Frames : c < k /\ k < n => k \in hit
  <2> SUFFICES ASSUME NEW k \in Frames, c < k, k < n PROVE k \in hit
    OBVIOUS
  <2>1. n \in Nat /\ k \in Nat
    BY <1>7, <1>8, <1>12
  <2>2. k > c
    BY <1>7, <2>1
  <2> QED
    BY <1>1, <1>2, <2>1, <2>2, DeliveredFrom
<1> HIDE DEF a, c, W, e
<1>19. /\ a \in Nat /\ lens[a] \in Nat /\ n \in Nat /\ a < n /\ n - 1 \in Nat /\ n - 1 <= serial
       /\ W \in Nat
  <2>1. a \in Nat
    BY <1>7, <1>8
  <2> QED
    BY <1>4, <1>7, <1>8, <1>12, <2>1
<1>20. Lengths(lens, n - 1)
  BY <1>7, <1>19
<1>21. x_nbytes - W + Undisturbed(lens, hit, a, n) + Swallowed(n)' <= lens[a]
  <2>1. CASE c \in hit \/ c >= n
    <3>1. x_nbytes + Undisturbed(lens, hit, a, n) + Swallowed(n) <= lens[a]
      BY <1>12, <1>14, <1>16, <2>1
    <3>2. Undisturbed(lens, hit, a, n) \in Nat /\ Swallowed(n) \in Nat
      BY <1>7, <1>19, <1>20, UndisturbedBase
    <3>3. Swallowed(n)' <= Swallowed(n) + W
      <4>1. CASE Swallowed(n)' = 0
        BY <1>19, <3>2, <4>1
      <4>2. CASE Swallowed(n)' # 0
        <5>1. n \notin hit /\ c = n /\ Swallowed(n)' = TagSize + e
          BY <1>11, <4>2
        <5>2. Swallowed(n) + W = TagSize + e
          BY <1>10, <5>1
        <5> QED
          BY <1>7, <5>1, <5>2
      <4> QED
        BY <4>1, <4>2
    <3> QED
      BY <1>7, <1>11, <1>19, <3>1, <3>2, <3>3
  <2>2. CASE c \notin hit /\ c < n
    <3>1. a < c /\ c + 1 \in Nat /\ a < c + 1 /\ c + 1 <= n /\ c \in (a + 1)..(serial + 1)
      <4>1. c >= a /\ c # a
        BY <1>6, <1>8, <2>2
      <4> QED
        BY <1>7, <1>19, <2>2, <4>1
    <3>2. x_nbytes + Undisturbed(lens, hit, a, c) + Swallowed(c) <= lens[a]
      BY <1>13, <1>14, <2>2, <3>1
    <3>3. \A k \in (c + 1)..(n - 1) : k \in hit
      <4> SUFFICES ASSUME NEW k \in (c + 1)..(n - 1) PROVE k \in hit
        OBVIOUS
      <4>1. k \in Nat /\ c < k /\ k < n /\ 1 <= k /\ k <= serial
        BY <1>7, <1>19
      <4>2. k \in Frames
        BY <1>7, <4>1
      <4> QED
        BY <1>18, <4>1, <4>2
    <3>4. Undisturbed(lens, hit, a, n) = Undisturbed(lens, hit, a, c + 1)
      BY <1>19, <1>20, <3>1, <3>3, UndisturbedSkips
    <3>5. /\ Undisturbed(lens, hit, a, c) \in Nat
          /\ Undisturbed(lens, hit, a, c + 1) = Undisturbed(lens, hit, a, c) + TagSize + lens[c]
      <4>1. Lengths(lens, c)
        BY <1>7, <1>9
      <4>2. /\ Undisturbed(lens, hit, a, c) \in Nat
            /\ Undisturbed(lens, hit, a, c + 1) = Undisturbed(lens, hit, a, c) + BytesOf(lens, hit, c)
        BY <1>7, <1>19, <3>1, <4>1, UndisturbedNext
      <4>3. BytesOf(lens, hit, c) = TagSize + lens[c] /\ lens[c] \in Nat
        BY <1>7, <1>9, <2>2 DEF BytesOf
      <4> QED
        BY <1>7, <4>2, <4>3
    <3>6. Swallowed(n)' = 0
      BY <1>7, <1>11, <1>19, <2>2
    <3>7. Swallowed(c) + W = TagSize + lens[c] /\ Swallowed(c) \in Nat /\ lens[c] \in Nat
      BY <1>7, <1>9, <1>10, <1>17, <2>2
    <3> QED
      BY <1>7, <1>19, <3>2, <3>4, <3>5, <3>6, <3>7
  <2> QED
    BY <1>7, <1>19, <2>1, <2>2
<1> QED
  BY <1>6, <1>15, <1>21

\* A frame that is not struck is received whole, or is in the reach of one that was.
LEMMA DeliverAccounted ==
  ASSUME StreamInv, LocalInv, Deliver
  PROVE  AccountedInv'
<1>1. /\ StreamTypeInv /\ NetInv /\ DatagramsInv /\ ChainInv /\ AssembledInv /\ RTypeOK
      /\ StrayInv /\ AccountedInv
  BY DEF StreamInv, StreamTypeInv, RInv, NetInv, LocalInv
<1>2. /\ net # <<>> /\ net' = Tail(net) /\ UNCHANGED <<lens, hit>> /\ Frames' = Frames
      /\ DataPoll(Head(net))
      /\ whole' = IF completed' > completed /\ Intact(x_frames'[x_framein])
                  THEN whole \cup {x_frames'[x_framein].tag.count} ELSE whole
  BY DEF Deliver, Frames, serial
<1>3. /\ 1 \in DOMAIN net /\ net[1] \in DatagramSet /\ Head(net) = net[1]
      /\ \A j : j \in DOMAIN net' <=> j \in Nat \ {0} /\ j + 1 \in DOMAIN net
      /\ \A j \in DOMAIN net' : net'[j] = net[j + 1]
      /\ \A i \in DOMAIN net : i \in Nat \ {0}
  BY <1>1, <1>2, DeliveredNet, StreamFacts
<1> SUFFICES ASSUME NEW n \in Frames, n \notin hit, lens[n] # 0,
                    \A j \in DOMAIN net' : net'[j].count # n
             PROVE  n \in whole' \/ \E m \in hit : m < n /\ InReach(m, n)
  BY <1>2 DEF AccountedInv, InReach
<1>4. \/ net[1].count = n
      \/ n \in whole
      \/ \E m \in hit : m < n /\ InReach(m, n)
  <2>1. ASSUME NEW i \in DOMAIN net, net[i].count = n PROVE i = 1
    <3>1. SUFFICES ASSUME i # 1 PROVE FALSE
      OBVIOUS
    <3>2. i - 1 \in Nat \ {0} /\ (i - 1) + 1 = i
      BY <1>3, <3>1
    <3>3. i - 1 \in DOMAIN net' /\ net'[i - 1] = net[i]
      BY <1>3, <3>2
    <3> QED
      BY <2>1, <3>3
  <2> QED
    BY <1>1, <2>1 DEF AccountedInv
<1>5. CASE net[1].count = n
  <2>1. /\ lens[n] \in Nat /\ End(net[1]) \in Nat
        /\ net[1].kind \in {"tag", "data"}
    BY <1>1, <1>3, StreamFacts
  <2>2. ~(End(net[1]) < lens[n])
    <3>1. SUFFICES ASSUME End(net[1]) < lens[n] PROVE FALSE
      OBVIOUS
    <3>2. 1 + 1 \in DOMAIN net /\ net[1 + 1].count = n
      BY <1>1, <1>3, <1>5, <3>1 DEF ChainInv
    <3>3. 1 \in DOMAIN net' /\ net'[1].count = n
      BY <1>3, <3>2
    <3> QED
      BY <3>3
  <2>3. End(net[1]) = lens[n] /\ net[1].kind = "data"
    <3>1. End(net[1]) <= lens[n]
      BY <1>1, <1>3, <1>5 DEF DatagramsInv
    <3>2. End(net[1]) = lens[n]
      BY <2>1, <2>2, <3>1
    <3> QED
      BY <2>1, <3>2 DEF End
  <2>4. \/ x_nbytes > 0 /\ assembled = n
        \/ \E m \in hit : m < n /\ InReach(m, n)
    BY <1>1, <1>2, <1>5, <2>3 DEF StrayInv
  <2>5. ASSUME x_nbytes > 0, assembled = n PROVE n \in whole'
    <3>1. PollData(net[1])
      <4>1. x_nbytes # 0
        BY <2>5
      <4> QED
        BY <1>2, <1>3, <4>1 DEF DataPoll, PollIncompleteTag, PollBadTag, PollTooManyChannels, PollTag
    <3>2. /\ End(net[1]) = lens[n] - (x_nbytes - Received(net[1]))
          /\ \A p \in 0..(End(net[1]) - 1) : StoredData(net[1])[p] = n
      BY <1>2, <2>5, <3>1, UnharmedData
    <3>3. /\ x_frames'[x_framein].tag = x_frames[x_framein].tag
          /\ x_frames'[x_framein].data = StoredData(net[1])
          /\ Received(net[1]) \in 1..x_nbytes
      BY <1>1, <1>3, <3>1, DataPolled
    <3>4. /\ x_frames[x_framein].tag.framesize = lens[n] /\ x_frames[x_framein].tag.format \in Formats
          /\ x_frames[x_framein].tag.count = n
      BY <1>1, <2>5 DEF AssembledInv, assembled
    <3>5. FrameEnds(net[1])
      <4>1. x_nbytes \in Nat
        BY <1>1, StreamFacts
      <4>2. Received(net[1]) = x_nbytes
        BY <2>1, <2>3, <3>2, <3>3, <4>1
      <4> QED
        BY <4>2 DEF FrameEnds
    <3>6. completed' > completed
      <4>1. Enqueue
        BY <3>1, <3>4, <3>5 DEF PollData, Formats
      <4>2. completed \in Nat
        BY <1>1, ReceiverAssumption DEF RTypeOK
      <4> QED
        BY <4>1, <4>2 DEF Enqueue
    <3>7. Intact(x_frames'[x_framein])
      BY <2>3, <3>2, <3>3, <3>4 DEF Intact
    <3> QED
      BY <1>2, <3>3, <3>4, <3>6, <3>7
  <2> QED
    BY <2>4, <2>5
<1> QED
  BY <1>2, <1>4, <1>5

\* Its data finds its slot, unless the slot went to a frame that was struck.
LEMMA DeliverStray ==
  ASSUME StreamInv, LocalInv, Deliver
  PROVE  StrayInv'
<1>1. /\ StreamTypeInv /\ NetInv /\ OrderedInv /\ DatagramsInv /\ AssembledInv /\ RTypeOK
      /\ OutletsInv /\ ReachInv /\ StrayInv
  BY DEF StreamInv, StreamTypeInv, RInv, NetInv, LocalInv
<1>2. /\ net # <<>> /\ net' = Tail(net) /\ UNCHANGED <<lens, hit>> /\ DataPoll(Head(net))
  BY DEF Deliver
<1>3. 1 \in DOMAIN net /\ net[1] \in DatagramSet /\ Head(net) = net[1] /\ DataPoll(net[1])
  BY <1>1, <1>2, DeliveredNet
<1> SUFFICES ASSUME net' # <<>>, net'[1].count \notin hit, net'[1].kind = "data"
             PROVE  \/ x_nbytes' > 0 /\ assembled' = net'[1].count
                    \/ \E m \in hit : m < net'[1].count /\ Undisturbed(lens, hit, m, net'[1].count) < lens[m]
  BY <1>2 DEF StrayInv, InReach
<1>4. net'[1].count = net[1].count /\ End(net[1]) < lens[net[1].count]
  BY <1>1, <1>2, DeliveredHead
<1> DEFINE n == net[1].count
<1> SUFFICES \/ x_nbytes' > 0 /\ assembled' = n
             \/ \E m \in hit : m < n /\ Undisturbed(lens, hit, m, n) < lens[m]
  BY <1>4
<1>5. n \notin hit /\ n \in Frames /\ net[1].kind \in {"tag", "data"} /\ End(net[1]) \in Nat
  BY <1>1, <1>3, <1>4, StreamFacts DEF DatagramsInv
<1>6. /\ serial \in Nat /\ x_nbytes \in Nat /\ TagSize \in Nat
      /\ \A k : k \in Frames <=> k \in Nat /\ 1 <= k /\ k <= serial
      /\ \A k \in Frames : lens[k] \in Nat
      /\ \A k \in Nat : k <= serial => Lengths(lens, k)
      /\ \A k : Swallowed(k) \in Nat
  BY <1>1, ReachFacts
<1>7. CASE net[1].kind = "tag" /\ x_nbytes = 0
  <2>1. WireSize(net[1]) = TagSize /\ net[1].channels <= NOutlets
    BY <1>1, <1>3, <1>7 DEF WireSize, OutletsInv
  <2>2. PollTag(net[1])
    <3>1. ~PollIncompleteTag(net[1])
      BY <1>6, <2>1 DEF PollIncompleteTag
    <3>2. ~PollBadTag(net[1])
      BY <1>7 DEF PollBadTag
    <3>3. ~PollTooManyChannels(net[1])
      <4>1. NOutlets \in Nat /\ net[1].channels \in Nat
        BY <1>3, ReceiverAssumption DEF DatagramSet
      <4> QED
        BY <2>1, <4>1 DEF PollTooManyChannels
    <3>4. ~PollData(net[1])
      BY <1>7 DEF PollData
    <3> QED
      BY <1>3, <3>1, <3>2, <3>3, <3>4 DEF DataPoll
  <2>3. x_nbytes' = lens[n] /\ x_nbytes' > 0
    <3>1. x_nbytes' = net[1].len /\ net[1].len = lens[n]
      BY <1>1, <1>3, <1>7, <2>2 DEF PollTag, DatagramsInv
    <3> QED
      BY <1>4, <1>5, <1>6, <3>1
  <2>4. assembled' = n
    <3>1. UNCHANGED queuevars /\ x_frames'[x_framein].tag = TagOf(net[1])
      BY <1>1, <1>3, <2>2, <2>3, TagPolled
    <3> QED
      BY <3>1 DEF queuevars, TagOf, assembled
  <2> QED
    BY <2>3, <2>4
<1>8. CASE net[1].kind = "tag" /\ x_nbytes # 0
  <2>1. /\ assembled \in Frames /\ n >= assembled /\ assembled \in hit
    BY <1>1, <1>3, <1>5, <1>6, <1>8 DEF AssembledInv
  <2>2. From(n)
    BY <1>1, <1>2, <1>5, FirstIsLeast
  <2> DEFINE a == assembled
  <2>3. a < n /\ n \in (a + 1)..(serial + 1) /\ a \in Nat /\ n \in Nat /\ n - 1 \in Nat /\ n - 1 <= serial
    BY <1>5, <1>6, <2>1
  <2>4. x_nbytes + Undisturbed(lens, hit, a, n) + Swallowed(n) <= lens[a]
    BY <1>1, <1>6, <1>8, <2>1, <2>2, <2>3 DEF ReachInv
  <2>5. Undisturbed(lens, hit, a, n) \in Nat /\ Swallowed(n) \in Nat /\ lens[a] \in Nat
    <3>1. Lengths(lens, n - 1)
      BY <1>6, <2>3
    <3> QED
      BY <1>6, <2>1, <2>3, <3>1, UndisturbedBase
  <2>6. Undisturbed(lens, hit, a, n) < lens[a]
    BY <1>6, <1>8, <2>4, <2>5
  <2> QED
    BY <2>1, <2>3, <2>6
<1>9. CASE net[1].kind = "data"
  <2>1. \/ x_nbytes > 0 /\ assembled = n
        \/ \E m \in hit : m < n /\ InReach(m, n)
    BY <1>1, <1>2, <1>5, <1>9 DEF StrayInv
  <2>2. ASSUME x_nbytes > 0, assembled = n PROVE x_nbytes' > 0 /\ assembled' = n
    <3>1. PollData(net[1])
      <4>1. x_nbytes # 0
        BY <2>2
      <4> QED
        BY <1>3, <4>1 DEF DataPoll, PollIncompleteTag, PollBadTag, PollTooManyChannels, PollTag
    <3>2. End(net[1]) = lens[n] - (x_nbytes - Received(net[1]))
      BY <1>2, <1>5, <2>2, <3>1, UnharmedData
    <3>3. /\ x_frames'[x_framein].tag = x_frames[x_framein].tag
          /\ Received(net[1]) \in 1..x_nbytes
          /\ x_nbytes' = IF FrameEnds(net[1]) THEN 0 ELSE x_nbytes - Received(net[1])
      BY <1>1, <1>3, <3>1, DataPolled
    <3>4. ~FrameEnds(net[1]) /\ x_nbytes' > 0
      <4>1. lens[n] \in Nat /\ End(net[1]) < lens[n]
        BY <1>4, <1>5, <1>6
      <4> QED
        BY <1>6, <3>2, <3>3, <4>1 DEF FrameEnds
    <3>5. UNCHANGED queuevars
      BY <3>1, <3>4 DEF PollData
    <3> QED
      BY <2>2, <3>3, <3>4, <3>5 DEF queuevars, assembled
  <2> QED
    BY <2>1, <2>2 DEF InReach
<1> QED
  BY <1>5, <1>7, <1>8, <1>9

LEMMA DeliverLocal ==
  ASSUME StreamInv, LocalInv, Deliver
  PROVE  LocalInv'
<1>1. StreamTypeInv /\ OutletsInv /\ ReachInv
  BY DEF StreamInv, LocalInv
<1>2. /\ net # <<>> /\ net' = Tail(net) /\ DataPoll(Head(net)) /\ x_tag' = x_tag
  BY DEF Deliver, fvars
<1>3. Head(net) = net[1] /\ \A j \in DOMAIN net' : j + 1 \in DOMAIN net /\ net'[j] = net[j + 1]
  BY <1>1, <1>2, DeliveredNet
<1>4. OutletsInv'
  BY <1>1, <1>2, <1>3 DEF OutletsInv
<1>5. ReachInv'
  BY <1>1, <1>2, <1>3, DeliverTagReach, DeliverDataReach DEF DataPoll
<1> QED
  BY <1>4, <1>5, DeliverAccounted, DeliverStray DEF LocalInv

\* The sender sends nothing, the receiver plays or the DSP is switched.
LEMMA LocalStays ==
  ASSUME LocalInv, UNCHANGED <<net, lens, hit, whole, x_nbytes, x_frames, x_framein>>, x_tag' \in Layouts
  PROVE  LocalInv'
<1>1. /\ serial' = serial /\ Frames' = Frames /\ assembled' = assembled
      /\ \A n : (From(n)' <=> From(n)) /\ Swallowed(n)' = Swallowed(n)
      /\ \A m, n : InReach(m, n)' <=> InReach(m, n)
  BY DEF serial, Frames, assembled, From, Swallowed, InReach
<1>2. OutletsInv'
  BY DEF LocalInv, OutletsInv
<1>3. ReachInv'
  BY <1>1 DEF LocalInv, ReachInv
<1>4. StrayInv'
  <2>1. StrayInv
    BY DEF LocalInv
  <2> QED
    BY <1>1, <2>1 DEF StrayInv, InReach
<1>5. AccountedInv'
  BY <1>1 DEF LocalInv, AccountedInv
<1> QED
  BY <1>2, <1>3, <1>4, <1>5 DEF LocalInv

LEMMA LocalInit == AInit => LocalInv
<1> SUFFICES ASSUME AInit PROVE LocalInv
  OBVIOUS
<1>1. net = <<>> /\ lens = <<>> /\ x_nbytes = 0 /\ x_tag = FirstTag
  BY DEF AInit, FInit, RInit
<1>2. DOMAIN net = {} /\ Frames = {} /\ FirstTag \in Layouts
  BY <1>1, StreamAssumption DEF Frames, serial
<1> QED
  BY <1>1, <1>2 DEF LocalInv, OutletsInv, ReachInv, StrayInv, AccountedInv

LEMMA LocalNext ==
  ASSUME \A l \in Layouts : l.channels <= NOutlets
  PROVE  StreamInv /\ LocalInv /\ [ANext]_avars => LocalInv'
<1> SUFFICES ASSUME StreamInv, LocalInv, [ANext]_avars PROVE LocalInv'
  OBVIOUS
<1>1. CASE SendWhole \/ \E k \in 0..Packets : SendSome(k)
  BY <1>1, SendLocal
<1>2. ASSUME NEW i \in DOMAIN net, Lose(i) \/ Duplicate(i) \/ Overtake(i) PROVE LocalInv'
  BY <1>2, FaultLocal
<1>3. CASE Deliver
  BY <1>3, DeliverLocal
<1>4. CASE ResetMsg
  BY <1>4, ResetMsgLocal
<1>5. CASE NotSent \/ Play \/ SwitchDsp \/ UNCHANGED avars
  <2>1. UNCHANGED <<net, lens, hit, whole>>
    BY <1>5 DEF NotSent, Play, SwitchDsp, avars, streamvars
  <2>2. UNCHANGED <<x_nbytes, x_frames, x_framein>>
    BY <1>5 DEF NotSent, Play, Perform, SwitchDsp, Dsp, DspOff, avars, rvars, pollvars, queuevars
  <2>3. x_tag' \in Layouts
    <3>1. x_tag \in Layouts
      BY DEF LocalInv, OutletsInv
    <3> QED
      BY <1>5, <3>1 DEF NotSent, Play, SwitchDsp, avars, fvars
  <2> QED
    BY <2>1, <2>2, <2>3, LocalStays
<1> QED
  BY <1>1, <1>2, <1>3, <1>4, <1>5 DEF ANext

\* For every size of frames, packets and slots, and every sequence of faults: if the
\* receiver has an outlet for each channel of the sender, a frame that no fault struck
\* is received whole or follows one that was struck in whose reach it is.
THEOREM DamageStaysLocal ==
  ASSUME \A l \in Layouts : l.channels <= NOutlets
  PROVE  ASpec => []DamageIsLocal
<1>1. StreamInv /\ LocalInv => DamageIsLocal
  BY DEF StreamInv, LocalInv, AccountedInv, DamageIsLocal
<1>2. StreamInv /\ LocalInv /\ [ANext]_avars => LocalInv'
  BY LocalNext
<1> QED
  BY <1>1, <1>2, StreamInit, StreamNext, LocalInit, PTL DEF ASpec
=============================================================================
