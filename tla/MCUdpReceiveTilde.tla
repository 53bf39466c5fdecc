------------------------- MODULE MCUdpReceiveTilde -------------------------
(***************************************************************************)
(* UdpReceiveTilde for TLC: frames of two formats and of a format that     *)
(* cannot be decoded, a tag without data, a tag of a stream that is too    *)
(* wide, data that fills a frame in one or in two datagrams, and data      *)
(* shorter than a tag.  All of it arrives in any order.                    *)
(***************************************************************************)
EXTENDS UdpReceiveTilde

Tag(format, channels) ==
  [kind |-> "tag", format |-> format, channels |-> channels, count |-> 0, at |-> 0,
   len |-> BlockSize * SizeOf(format) * channels]

\* No property of this module asks whose data a slot has received, so all of
\* it is Foreign: its offset is that of no frame.
Data(len) ==
  [kind |-> "data", format |-> "8bit", channels |-> 1, count |-> 0, at |-> BufBytes, len |-> len]

MCDatagrams ==
  {Tag("8bit", 1), Tag("16bit", 1), Tag("aac", 1), Tag("8bit", 0), Tag("8bit", 2),
   Data(1), Data(3)}

ASSUME TagsFit
=============================================================================
