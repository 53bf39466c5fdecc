--------------------------- MODULE TcpServerInput ---------------------------
(***************************************************************************)
(* The circular input buffer of a tcpserver client.  One callback receives *)
(* up to the end of the buffer and at once puts out what is between        *)
(* sr_intail and sr_inhead.                                                *)
(*                                                                         *)
(* A cell of the buffer holds the place, in the stream, of the byte that   *)
(* was received there last.                                                *)
(***************************************************************************)
EXTENDS Integers

CONSTANTS
  INBUFSIZE,  \* a power of two in the code
  MaxStream   \* bound: bytes the client sends

ASSUME InputAssumption == INBUFSIZE \in Nat \ {0} /\ MaxStream \in Nat

VARIABLES
  sr_inbuf, sr_inhead, sr_intail,
  \* history
  recvd,      \* bytes received so far,
  lastn,      \* and how many of them by the last callback
  outlet      \* what that callback put out, a function on 1..n

invars == <<sr_inbuf, sr_inhead, sr_intail, recvd, lastn, outlet>>

BufIndex == 0..(INBUFSIZE - 1)
Nothing == [i \in 1..0 |-> 0]

IInit ==
  /\ sr_inbuf = [i \in BufIndex |-> 0]
  /\ sr_inhead = 0 /\ sr_intail = 0
  /\ recvd = 0 /\ lastn = 0
  /\ outlet = Nothing

\* What recv() may fill ends before readto.
readto == IF sr_inhead >= sr_intail THEN INBUFSIZE ELSE sr_intail - 1

\* The branch for no room ("drop the whole thing") is left out: there always is some,
\* see OutputsWhatItReceives.
Room == readto - sr_inhead

\* The buffer with n bytes received.
Filled(n) ==
  [i \in BufIndex |->
     IF i \in sr_inhead..(sr_inhead + n - 1) THEN recvd + i - sr_inhead + 1 ELSE sr_inbuf[i]]

\* Mutant: the head does not go back to the beginning.
HeadNotWrapped(n) == sr_inhead + n

\* Where the head is after n bytes.
HeadAfter(n) == IF sr_inhead + n >= INBUFSIZE THEN 0 ELSE sr_inhead + n

\* doread: from the tail up to the head, around the end; none when they are equal.
Pending(n) ==
  IF HeadAfter(n) >= sr_intail THEN HeadAfter(n) - sr_intail
  ELSE HeadAfter(n) - sr_intail + INBUFSIZE

ReadInput(n) ==
  /\ n <= Room /\ recvd + n <= MaxStream
  /\ sr_inbuf' = Filled(n)
  /\ recvd' = recvd + n
  /\ lastn' = n
  /\ outlet' = [i \in 1..Pending(n) |-> Filled(n)[(sr_intail + i - 1) % INBUFSIZE]]
  /\ sr_inhead' = HeadAfter(n)
  /\ sr_intail' = HeadAfter(n)

INext == \E n \in 1..INBUFSIZE : ReadInput(n)

ISpec == IInit /\ [][INext]_invars

-----------------------------------------------------------------------------
(* Property.                                                               *)

\* What a callback receives it puts out, all of it, in order and nothing else, however
\* the bytes lie around the end of the buffer; but bytes that fill the whole buffer at
\* once are lost without a word, the head having met the tail.  There is always room
\* for a byte before recv(), which would else return 0 as if the client had left.
OutputsWhatItReceives ==
  /\ Room > 0
  /\ outlet = IF lastn = INBUFSIZE THEN Nothing
              ELSE [i \in 1..lastn |-> recvd - lastn + i]
=============================================================================
