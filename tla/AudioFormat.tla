---------------------------- MODULE AudioFormat ----------------------------
(***************************************************************************)
(* What udpsend~ and udpreceive~ agree on: the sample formats and the size *)
(* of an audio frame (src/udpsend~.h, included by both).                   *)
(***************************************************************************)
EXTENDS Integers

CONSTANTS
  BlockSize,      \* x_blocksize: sample frames in an audio frame
  AudioBufferSize \* DEFAULT_AUDIO_BUFFER_SIZE, the largest x_blocksize

ASSUME FormatAssumption ==
  /\ BlockSize \in Nat \ {0}
  /\ AudioBufferSize \in Nat \ {0}

\* "blocksize must fit snugly in" it: neither object is made with another one.
ASSUME SnugAssumption == AudioBufferSize % BlockSize = 0

\* The formats udpsend~ can produce.
Formats == {"float", "16bit", "8bit"}
SizeOf(f) == IF f = "float" THEN 4 ELSE IF f = "16bit" THEN 2 ELSE 1
=============================================================================
