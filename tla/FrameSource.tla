---------------------------- MODULE FrameSource ----------------------------
(***************************************************************************)
(* What udpsend~ promises to the network: one frame after the other, each  *)
(* in the layout of its tag and split into datagrams, of which the last    *)
(* ones are missing if a send fails; the layout changes only between two   *)
(* frames, and not after a failure.                                        *)
(*                                                                         *)
(* This is the abstract specification of the audio side of UdpSendTilde,   *)
(* and the sender in AudioStream.                                          *)
(***************************************************************************)
EXTENDS AudioFormat, Sequences

CONSTANTS
  NInlets,     \* x_ninlets
  PacketSize,  \* DEFAULT_UDP_PACKT_SIZE
  CountModulus \* bound: x_count is counted modulo this

ASSUME SourceAssumption ==
  /\ NInlets \in Nat \ {0}
  /\ PacketSize \in Nat \ {0}
  /\ CountModulus \in Nat \ {0}

VARIABLES
  x_tag,   \* format and channel count of the frame in assembly
  x_count, \* number of the last frame
  sent     \* history: the datagrams of the last frame that was sent

fvars == <<x_tag, x_count, sent>>

Tags == [format : Formats, channels : 0..NInlets]
FirstTag == [format |-> "float", channels |-> NInlets]

-----------------------------------------------------------------------------
(* The datagrams of a frame.                                               *)

\* Bytes in a frame.
Length == BlockSize * SizeOf(x_tag.format) * x_tag.channels

\* Mutant: the last, shorter packet is forgotten.
PacketsRoundedDown == Length \div PacketSize

\* The data of a frame goes out in packets of PacketSize, the last one
\* shorter if need be.
Packets == (Length + PacketSize - 1) \div PacketSize

\* Mutant: the size is not cut down for the last packet.
PacketLenWhole(i) == PacketSize

PacketLen(i) ==
  IF i * PacketSize <= Length THEN PacketSize ELSE Length - (i - 1) * PacketSize

\* A tag announces a frame of len bytes.  format, channels, count and at (the
\* offset in the frame) of a data datagram are not in the packet; they say
\* which audio it is.
Datagram(kind, at, len) ==
  [kind |-> kind, format |-> x_tag.format, channels |-> x_tag.channels,
   count |-> (x_count + 1) % CountModulus, at |-> at, len |-> len]

FrameDatagrams ==
  <<Datagram("tag", 0, Length)>> \o
  [i \in 1..Packets |-> Datagram("data", (i - 1) * PacketSize, PacketLen(i))]

-----------------------------------------------------------------------------
FInit ==
  /\ x_tag = FirstTag
  /\ x_count = 0
  /\ sent = <<>>

NextCount == x_count' = (x_count + 1) % CountModulus

\* A frame is sent.
SendFrame ==
  /\ NextCount
  /\ sent' = FrameDatagrams
  /\ x_tag' \in Tags

\* A frame of which only the first k datagrams are sent.
SendPart(k) ==
  /\ NextCount
  /\ k < Len(FrameDatagrams)
  /\ sent' = SubSeq(FrameDatagrams, 1, k)
  /\ UNCHANGED x_tag

\* A frame is dropped, for want of a socket.
SkipFrame ==
  /\ NextCount
  /\ x_tag' \in Tags
  /\ UNCHANGED sent

\* A connection is made, perhaps by a new object.
Restart ==
  /\ x_count' = 0
  /\ x_tag' \in {x_tag, FirstTag}
  /\ UNCHANGED sent

FNext ==
  \/ SendFrame
  \/ \E k \in 0..Packets : SendPart(k)
  \/ SkipFrame
  \/ Restart

FSpec == FInit /\ [][FNext]_fvars

-----------------------------------------------------------------------------
\* The data datagrams of a frame add up to the size its tag announces, and
\* none is empty: send() returning 0 counts as a failure.
TotalLen(s) ==
  LET sum[k \in 0..Len(s)] == IF k = 0 THEN 0 ELSE sum[k - 1] + s[k].len
  IN  sum[Len(s)]

DataMatchesTag ==
  /\ TotalLen(Tail(FrameDatagrams)) = Head(FrameDatagrams).len
  /\ \A i \in 1..Packets : PacketLen(i) > 0
=============================================================================
