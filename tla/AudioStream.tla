---------------------------- MODULE AudioStream ----------------------------
(***************************************************************************)
(* One udpsend~ and one udpreceive~ with a network between them that may   *)
(* lose, duplicate and reorder datagrams.                                  *)
(*                                                                         *)
(* The sender is FrameSource, which UdpSendTilde implements; the receiver  *)
(* is UdpReceiveTilde with its own actions.  Frames are numbered in the    *)
(* order they are begun, independently of x_count, so that the properties  *)
(* can tell them apart; that number stands for the audio in the frame.     *)
(***************************************************************************)
EXTENDS FrameSource, UdpReceiveTilde, SequencesExt

CONSTANTS
  Layouts,    \* bound: the parts of Tags that a patch asks for
  FaultKinds, \* what the network may do: {"lose", "duplicate", "overtake"}
  MaxFrames,  \* bound: frames sent
  MaxFaults,  \* bound: faults of the network, the sender and the receiver
  MaxInFlight \* bound: datagrams in the network when a frame is sent

ASSUME StreamAssumption ==
  /\ FirstTag \in Layouts /\ Layouts \subseteq Tags
  /\ FaultKinds \subseteq {"lose", "duplicate", "overtake"}
  /\ MaxFrames \in Nat
  /\ MaxFaults \in Nat
  /\ MaxInFlight \in Nat

VARIABLES
  net,     \* the datagrams under way, oldest first
  \* history
  lens,    \* bytes of audio in each frame sent
  hit,     \* frames that a fault struck
  faults,  \* number of faults
  whole,   \* frames that joined the queue with every byte in its place
  heard    \* the last frame played of those no fault struck, 0 if none was

streamvars == <<net, lens, hit, faults, whole, heard>>
avars == <<fvars, rvars, streamvars>>

serial == Len(lens)
Frames == 1..serial

Stamp(s) == [i \in DOMAIN s |-> [s[i] EXCEPT !.count = serial + 1]]

Fault == faults < MaxFaults /\ faults' = faults + 1

AInit ==
  /\ FInit
  /\ RInit
  /\ net = <<>>
  /\ lens = <<>>
  /\ hit = {}
  /\ faults = 0
  /\ whole = {}
  /\ heard = 0

-----------------------------------------------------------------------------
(* The sender.                                                             *)

Transmit ==
  /\ serial < MaxFrames
  /\ Len(net) <= MaxInFlight
  /\ net' = net \o Stamp(sent')
  /\ lens' = Append(lens, Length)
  /\ UNCHANGED <<rvars, whole, heard>>

SendWhole ==
  /\ SendFrame
  /\ x_tag' \in Layouts
  /\ Transmit
  /\ UNCHANGED <<hit, faults>>

\* A send fails in mid-frame.
SendSome(k) ==
  /\ SendPart(k)
  /\ Transmit
  /\ hit' = hit \cup {serial + 1}
  /\ Fault

\* A frame is dropped, or the sender connects again.
NotSent ==
  /\ SkipFrame \/ Restart
  /\ x_tag' \in Layouts
  /\ UNCHANGED <<rvars, streamvars>>

-----------------------------------------------------------------------------
(* The network.                                                            *)

Lose(i) ==
  /\ "lose" \in FaultKinds
  /\ net' = RemoveAt(net, i)
  /\ hit' = hit \cup {net[i].count}
  /\ Fault
  /\ UNCHANGED <<fvars, rvars, lens, whole, heard>>

Duplicate(i) ==
  /\ "duplicate" \in FaultKinds
  /\ net' = InsertAt(net, i, net[i])
  /\ hit' = hit \cup {net[i].count}
  /\ Fault
  /\ UNCHANGED <<fvars, rvars, lens, whole, heard>>

\* A datagram overtakes the one sent before it.
Overtake(i) ==
  /\ "overtake" \in FaultKinds
  /\ i > 1
  /\ net' = [net EXCEPT ![i] = net[i - 1], ![i - 1] = net[i]]
  /\ hit' = hit \cup {net[i].count, net[i - 1].count}
  /\ Fault
  /\ UNCHANGED <<fvars, rvars, lens, whole, heard>>

-----------------------------------------------------------------------------
(* The receiver.                                                           *)

\* The slot holds all the bytes of the frame its tag names, and no other.
Intact(slot) ==
  \A p \in 0..(slot.tag.framesize - 1) : slot.data[p] = slot.tag.count

Deliver ==
  /\ net # <<>>
  /\ DataPoll(Head(net))
  /\ net' = Tail(net)
  /\ whole' = IF completed' > completed /\ Intact(x_frames'[x_framein])
              THEN whole \cup {x_frames'[x_framein].tag.count}
              ELSE whole
  /\ UNCHANGED <<fvars, lens, hit, faults, heard>>

Play ==
  /\ \E n \in VecSizes : Perform(n)
  /\ heard' = (IF played' > played /\ x_frames[x_frameout].tag.count \notin hit
              THEN x_frames[x_frameout].tag.count
              ELSE heard)
  /\ UNCHANGED <<fvars, net, lens, hit, faults, whole>>

\* "reset": the frame that is being received is lost.
ResetMsg ==
  /\ Reset(0)
  /\ hit' = IF x_nbytes > 0 THEN hit \cup {x_frames[x_framein].tag.count} ELSE hit
  /\ Fault
  /\ UNCHANGED <<fvars, net, lens, whole, heard>>

SwitchDsp ==
  /\ DspOff \/ \E n \in VecSizes : chain = 0 /\ Dsp(n)
  /\ UNCHANGED <<fvars, streamvars>>

-----------------------------------------------------------------------------
ANext ==
  \/ SendWhole
  \/ \E k \in 0..Packets : SendSome(k)
  \/ NotSent
  \/ \E i \in DOMAIN net : Lose(i) \/ Duplicate(i) \/ Overtake(i)
  \/ Deliver
  \/ Play
  \/ ResetMsg
  \/ SwitchDsp

ASpec == AInit /\ [][ANext]_avars

-----------------------------------------------------------------------------
(* Properties.                                                             *)

\* A frame in the queue that no fault struck is exactly the frame that was
\* sent: bytes of a damaged frame never end up in a frame that was delivered
\* without a fault.
QueuedIsIntact ==
  \A i \in Slots :
    Queued(i) /\ x_frames[i].tag.count \notin hit => Intact(x_frames[i])

\* Bytes that reach the receiver between frames m and n > m from frames no fault struck,
\* if l are the lengths of the frames and h those that a fault struck.
Undisturbed(l, h, m, n) ==
  LET sum[k \in m..(n - 1)] ==
        IF k = m THEN 0 ELSE sum[k - 1] + (IF k \in h THEN 0 ELSE TagSize + l[k])
  IN  sum[n - 1]

\* Frame m can do harm to frame n > m: what comes undisturbed between the two
\* is not enough to make up for the bytes of m that may be missing.
InReach(m, n) == Undisturbed(lens, hit, m, n) < lens[m]

\* "eventually we should resync on a tag": every frame that has been received
\* is whole, unless a fault struck it or a frame before it in whose reach it
\* is.  If all frames are equally long that is the frame after a damaged one.  And what
\* the queue holds of such a frame is what was sent.
DamageIsLocal ==
  /\ QueuedIsIntact
  /\ \A n \in Frames :
      \/ \E i \in DOMAIN net : net[i].count = n
      \/ n \in whole
      \/ lens[n] = 0
      \/ n \in hit
      \/ \E m \in hit : m < n /\ InReach(m, n)

\* The frames that no fault struck are heard in the order they were sent, none
\* of them twice, whatever is done to the others.
Fifo == INSTANCE LossyFifo WITH newest <- serial, last <- heard
ImplementsFifo == Fifo!Spec
=============================================================================
