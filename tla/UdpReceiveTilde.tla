-------------------------- MODULE UdpReceiveTilde --------------------------
(***************************************************************************)
(* The udpreceive~ external: datapoll, which assembles datagrams into the  *)
(* slots of a circular buffer of frames, perform, which plays them one     *)
(* signal vector at a time, and the message reset.                         *)
(*                                                                         *)
(* All of them run on the Pd thread, one at a time; what varies is their   *)
(* order and the datagrams the network hands over.  One recvfrom() call    *)
(* consumes one datagram and drops what it has no room for.                *)
(*                                                                         *)
(* Audio is abstracted to where it comes from.  A byte of a slot is the    *)
(* count of the frame it belongs to if it lies where that frame has it,    *)
(* Foreign if it does not, and Stale if it was not written since the slot  *)
(* got its tag.                                                            *)
(***************************************************************************)
EXTENDS AudioFormat

CONSTANTS
  NFrames,        \* DEFAULT_AUDIO_BUFFER_FRAMES: slots of the buffer
  QueueLength,    \* DEFAULT_QUEUE_LENGTH: frames collected before playing
  NOutlets,       \* audio outlets, x_noutlets - 1
  DefaultVecSize, \* x_vecsize before the first perform
  VecSizes,       \* vector sizes Pd may run with
  TagSize,        \* sizeof(t_tag)
  Datagrams,      \* what may arrive, see below
  MaxCompleted    \* bound: frames completed between two resets

\* AAC frames are recognised, but not decoded.
KnownFormats == Formats \cup {"aac"}

\* Size of a slot.
BufBytes == AudioBufferSize * SizeOf("float") * NOutlets

(***************************************************************************)
(* A datagram is a tag, announcing len bytes of a frame, or data: the len  *)
(* bytes of frame count that begin at offset at.  The receiver cannot see  *)
(* at and count of data.  Data shorter than a tag is possible.             *)
(***************************************************************************)
ASSUME ReceiverAssumption ==
  /\ NFrames \in Nat /\ NFrames > 1
  /\ QueueLength \in 1..(NFrames - 1)
  /\ NOutlets \in Nat \ {0}
  /\ DefaultVecSize \in Nat \ {0}
  /\ VecSizes \subseteq Nat \ {0}
  /\ TagSize \in Nat \ {0}
  /\ MaxCompleted \in Nat
  /\ Datagrams \subseteq [kind : {"tag", "data"}, format : KnownFormats, channels : Nat,
                          count : Nat, at : Nat, len : Nat]

\* What udpsend~ sends: a frame of BlockSize sample frames, on both sides.
TagsFit ==
  \A d \in Datagrams : (d.kind = "tag" /\ d.channels <= NOutlets) =>
    /\ d.len = BlockSize * SizeOf(d.format) * d.channels
    /\ d.len <= BufBytes

Foreign == -1
Stale == -2
Blank == [p \in 0..(BufBytes - 1) |-> Stale]
NoTag == [format |-> "none", channels |-> 0, framesize |-> 0, count |-> 0]

VARIABLES
  x_frames,       \* slots: [tag, data]
  x_framein, x_frameout, x_maxframes, x_nbytes, x_counter, x_overflow,
  x_buffering, x_sync, x_vecsize, x_blocksperrecv, x_blockssincerecv,
  chain,          \* vector size perform is in the DSP chain with; 0: not in it
  \* history: frames since the last reset
  completed, played

queuevars == <<x_framein, x_frameout, x_overflow, completed, played>>
pollvars == <<x_frames, x_nbytes, x_counter, x_sync>>
playvars == <<x_buffering, x_vecsize, x_blocksperrecv, x_blockssincerecv>>
rvars == <<queuevars, pollvars, playvars, x_maxframes, chain>>

Succ(i) == (i + 1) % NFrames
QUEUESIZE == (x_framein + NFrames - x_frameout) % NFrames

-----------------------------------------------------------------------------
(* Creation and messages.                                                  *)

RInit ==
  /\ x_frames = [i \in 0..(NFrames - 1) |-> [tag |-> NoTag, data |-> Blank]]
  /\ x_framein = 0 /\ x_frameout = 0
  /\ x_maxframes = QueueLength
  /\ x_nbytes = 0
  /\ x_counter = 0
  /\ x_overflow = 0
  /\ x_buffering = TRUE
  /\ x_sync = TRUE
  /\ x_vecsize = DefaultVecSize
  /\ x_blocksperrecv = BlockSize \div DefaultVecSize
  /\ x_blockssincerecv = 0
  /\ chain = 0
  /\ completed = 0 /\ played = 0

\* Mutant: x_counter keeps the frames of before.
ResetKeepsCounter(b) ==
  /\ x_nbytes' = 0
  /\ x_framein' = 0 /\ x_frameout' = 0
  /\ x_blockssincerecv' = 0
  /\ x_blocksperrecv' = BlockSize \div x_vecsize
  /\ x_maxframes' = (IF b \in 1..(NFrames - 1) THEN b ELSE x_maxframes)
  /\ x_overflow' = 0
  /\ x_buffering' = TRUE
  /\ completed' = 0 /\ played' = 0
  /\ UNCHANGED <<x_frames, x_sync, x_vecsize, chain, x_counter>>

\* Mutant: x_frameout is not reset.
ResetKeepsFrameOut(b) ==
  /\ x_counter' = 0
  /\ x_nbytes' = 0
  /\ x_framein' = 0
  /\ x_blockssincerecv' = 0
  /\ x_blocksperrecv' = BlockSize \div x_vecsize
  /\ x_maxframes' = (IF b \in 1..(NFrames - 1) THEN b ELSE x_maxframes)
  /\ x_overflow' = 0
  /\ x_buffering' = TRUE
  /\ completed' = 0 /\ played' = 0
  /\ UNCHANGED <<x_frames, x_frameout, x_sync, x_vecsize, chain>>

\* "reset" and "buffer": b out of range, 0 included, leaves the queue length.
\* datapoll does the same, with b = 0, when recvfrom() fails for good.
Reset(b) ==
  /\ x_counter' = 0
  /\ x_nbytes' = 0
  /\ x_framein' = 0 /\ x_frameout' = 0
  /\ x_blockssincerecv' = 0
  /\ x_blocksperrecv' = BlockSize \div x_vecsize
  /\ x_maxframes' = (IF b \in 1..(NFrames - 1) THEN b ELSE x_maxframes)
  /\ x_overflow' = 0
  /\ x_buffering' = TRUE
  /\ completed' = 0 /\ played' = 0
  /\ UNCHANGED <<x_frames, x_sync, x_vecsize, chain>>

\* The DSP graph is rebuilt: perform joins the chain if dsp accepts the
\* vector size.
Dsp(n) ==
  /\ chain' = (IF BlockSize % n = 0 THEN n ELSE 0)
  /\ UNCHANGED <<queuevars, pollvars, playvars, x_maxframes>>

DspOff ==
  /\ chain # 0
  /\ chain' = 0
  /\ UNCHANGED <<queuevars, pollvars, playvars, x_maxframes>>

-----------------------------------------------------------------------------
(* udpreceive_tilde_datapoll, called when a datagram d is readable.        *)

WireSize(d) == IF d.kind = "tag" THEN TagSize ELSE d.len

\* The tag field of the slot to be filled is where a tag is received.
StoreTag(tag) == x_frames' = [x_frames EXCEPT ![x_framein].tag = tag]

TagOf(d) ==
  [format |-> d.format, channels |-> d.channels, framesize |-> d.len, count |-> d.count]

\* Not a whole tag: try again with the next datagram.
PollIncompleteTag(d) ==
  /\ x_nbytes = 0
  /\ WireSize(d) < TagSize
  /\ StoreTag(NoTag)
  /\ UNCHANGED <<queuevars, x_nbytes, x_counter, x_sync>>

\* Data where a tag was expected.
PollBadTag(d) ==
  /\ x_nbytes = 0
  /\ WireSize(d) >= TagSize
  /\ d.kind # "tag"
  /\ StoreTag(NoTag)
  /\ x_sync' = FALSE
  /\ UNCHANGED <<queuevars, x_nbytes, x_counter>>

\* A tag of a stream with more channels than there are outlets.
PollTooManyChannels(d) ==
  /\ x_nbytes = 0
  /\ d.kind = "tag" /\ d.channels > NOutlets
  /\ StoreTag(TagOf(d))
  /\ x_counter' = 0
  /\ UNCHANGED <<queuevars, x_nbytes, x_sync>>

\* A tag begins a frame; one that announces nothing does not.
PollTag(d) ==
  /\ x_nbytes = 0
  /\ d.kind = "tag" /\ d.channels <= NOutlets
  /\ x_frames' = [x_frames EXCEPT ![x_framein] = [tag |-> TagOf(d), data |-> Blank]]
  /\ x_nbytes' = d.len
  /\ x_sync' = TRUE
  /\ UNCHANGED <<queuevars, x_counter>>

\* Bytes of d that are received, and where the first of them goes.
Received(d) == IF WireSize(d) < x_nbytes THEN WireSize(d) ELSE x_nbytes
Offset == x_frames[x_framein].tag.framesize - x_nbytes

StoredData(d) ==
  [p \in 0..(BufBytes - 1) |->
     IF p \in Offset..(Offset + Received(d) - 1)
     THEN IF d.kind = "data" /\ d.at = Offset THEN d.count ELSE Foreign
     ELSE x_frames[x_framein].data[p]]

\* Mutant: the frame is handed over although a byte is missing.
FrameEndsOneEarly(d) == Received(d) >= x_nbytes - 1

\* This datagram completes the frame.
FrameEnds(d) == Received(d) = x_nbytes

\* Mutant: the oldest frame makes room.
EnqueueDropsOldest ==
  /\ completed < MaxCompleted
  /\ completed' = completed + 1
  /\ x_counter' = x_counter + 1
  /\ x_framein' = Succ(x_framein)
  /\ x_frameout' = (IF x_framein' = x_frameout THEN Succ(x_frameout) ELSE x_frameout)
  /\ UNCHANGED <<x_overflow, played>>

\* A completed frame joins the queue.
Enqueue ==
  /\ completed < MaxCompleted
  /\ completed' = completed + 1
  /\ x_counter' = x_counter + 1
  /\ x_framein' = Succ(x_framein)
  /\ x_overflow' = (IF x_framein' = x_frameout THEN x_overflow + 1 ELSE x_overflow)
  /\ UNCHANGED <<x_frameout, played>>

\* Anything is taken for the next bytes of the frame while some are missing.
\* A completed AAC frame is dropped: its slot is used again.
PollData(d) ==
  /\ x_nbytes > 0
  /\ WireSize(d) > 0
  /\ x_frames' = [x_frames EXCEPT ![x_framein].data = StoredData(d)]
  /\ x_nbytes' = (IF FrameEnds(d) THEN 0 ELSE x_nbytes - Received(d))
  /\ IF FrameEnds(d) /\ x_frames[x_framein].tag.format # "aac"
     THEN Enqueue
     ELSE UNCHANGED <<queuevars, x_counter>>
  /\ UNCHANGED x_sync

DataPoll(d) ==
  /\ \/ PollIncompleteTag(d)
     \/ PollBadTag(d)
     \/ PollTooManyChannels(d)
     \/ PollTag(d)
     \/ PollData(d)
  /\ UNCHANGED <<playvars, x_maxframes, chain>>

-----------------------------------------------------------------------------
(* udpreceive_tilde_perform.                                               *)

\* Mutant: a new vector size does not begin the frame again.
NextBlockGoesOn(n) == x_blockssincerecv

\* x_blockssincerecv and x_blocksperrecv after the check of the vector size.
NextBlock(n) == IF n = x_vecsize THEN x_blockssincerecv ELSE 0
BlocksPer(n) == IF n = x_vecsize THEN x_blocksperrecv ELSE BlockSize \div n

StillBuffering == x_buffering /\ x_counter < x_maxframes

\* Silence while the queue is being filled,
PerformBuffering(n) ==
  /\ StillBuffering
  /\ x_blockssincerecv' = NextBlock(n)
  /\ UNCHANGED <<x_buffering, x_frameout, played>>

\* and when it is empty.
PerformUnderflow(n) ==
  /\ ~StillBuffering
  /\ x_buffering' = FALSE
  /\ x_framein = x_frameout
  /\ x_blockssincerecv' = NextBlock(n)
  /\ UNCHANGED <<x_frameout, played>>

CanPlay == ~StillBuffering /\ x_framein # x_frameout

\* A block is played, not the last one of its frame,
PerformBlock(n) ==
  /\ CanPlay
  /\ x_buffering' = FALSE
  /\ NextBlock(n) < BlocksPer(n) - 1
  /\ x_blockssincerecv' = NextBlock(n) + 1
  /\ UNCHANGED <<x_frameout, played>>

\* and the last one.
PerformLastBlock(n) ==
  /\ CanPlay
  /\ x_buffering' = FALSE
  /\ ~(NextBlock(n) < BlocksPer(n) - 1)
  /\ x_blockssincerecv' = 0
  /\ x_frameout' = Succ(x_frameout)
  /\ played' = played + 1

Perform(n) ==
  /\ n = chain /\ n # 0
  /\ x_vecsize' = n
  /\ x_blocksperrecv' = BlocksPer(n)
  /\ \/ PerformBuffering(n)
     \/ PerformUnderflow(n)
     \/ PerformBlock(n)
     \/ PerformLastBlock(n)
  /\ UNCHANGED <<pollvars, x_framein, x_overflow, x_maxframes, chain, completed>>

-----------------------------------------------------------------------------
RNext ==
  \/ \E b \in 0..NFrames : Reset(b)
  \/ \E n \in VecSizes : Dsp(n)
  \/ DspOff
  \/ \E d \in Datagrams : DataPoll(d)
  \/ \E n \in VecSizes : Perform(n)

RSpec == RInit /\ [][RNext]_rvars

-----------------------------------------------------------------------------
(* Properties.                                                             *)

Slots == 0..(NFrames - 1)
Bytes == 0..(BufBytes - 1)

\* Every variable has its type.
RTypeOK ==
  /\ x_frames \in [Slots -> [tag : [format : KnownFormats \cup {"none"}, channels : Nat,
                                    framesize : Nat, count : Nat],
                             data : [Bytes -> Nat \cup {Foreign, Stale}]]]
  /\ x_framein \in Slots
  /\ x_frameout \in Slots
  /\ x_maxframes \in 1..(NFrames - 1)
  /\ x_nbytes \in Nat
  /\ x_counter \in Nat
  /\ x_overflow \in Nat
  /\ x_buffering \in BOOLEAN
  /\ x_sync \in BOOLEAN
  /\ x_vecsize \in VecSizes \cup {DefaultVecSize}
  /\ x_blocksperrecv \in Nat
  /\ x_blockssincerecv \in Nat
  /\ chain \in VecSizes \cup {0}
  /\ completed \in 0..MaxCompleted
  /\ played \in Nat

\* The slots between x_frameout and x_framein.
Queued(i) ==
  IF x_frameout <= x_framein THEN x_frameout <= i /\ i < x_framein
                             ELSE x_frameout <= i \/ i < x_framein

\* Every frame in the queue is complete: all the bytes its tag announces were
\* received after the tag, whatever tags, short datagrams, resets and
\* overflows came in between.
QueuedFramesComplete ==
  \A i \in Slots : Queued(i) =>
    /\ x_frames[i].tag.framesize > 0
    /\ \A p \in Bytes : p < x_frames[i].tag.framesize => x_frames[i].data[p] # Stale

\* The bytes of the slot at x_frameout that the next perform reads.
ReadBytes ==
  LET tag == x_frames[x_frameout].tag
      width == chain * tag.channels * SizeOf(tag.format)
  IN  (NextBlock(chain) * width)..(NextBlock(chain) * width + width - 1)

\* perform plays only bytes of the frame: the block it is at lies within the
\* frame and was received, although x_blockssincerecv may have been advanced
\* for a frame of another format, before an overflow replaced it.
PlaysReceivedBytes ==
  (chain # 0 /\ CanPlay) =>
    \A p \in ReadBytes : p < x_frames[x_frameout].tag.framesize /\ x_frames[x_frameout].data[p] # Stale

\* The frames completed and not played are those in the queue, and a whole
\* buffer of frames for each overflow counted: "info" tells how much was lost.
FramesAccounted == completed - played = QUEUESIZE + NFrames * x_overflow

\* The queue holds what it should: complete frames, and all of them that are neither
\* played nor counted as lost.
QueueIsTrue == QueuedFramesComplete /\ FramesAccounted

\* The frame that is being played is not overwritten unless the overflow is
\* counted.
PlayedFrameIsHeld ==
  [][(x_blockssincerecv > 0 /\ x_overflow = 0)
       => x_frames'[x_frameout] = x_frames[x_frameout]]_rvars

\* Playing starts with at least x_maxframes frames in the queue, or after an
\* overflow emptied it.
StartsWithFullQueue ==
  [][(x_buffering /\ ~x_buffering' /\ x_overflow = 0) => QUEUESIZE >= x_maxframes]_rvars
=============================================================================
