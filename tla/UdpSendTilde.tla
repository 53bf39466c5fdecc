--------------------------- MODULE UdpSendTilde ---------------------------
(***************************************************************************)
(* The udpsend~ external: UdpSendConnector together with the DSP side,     *)
(* which collects x_blockspersend signal vectors into one frame in x_cbuf  *)
(* and sends the frame as a tag datagram followed by data datagrams.       *)
(*                                                                         *)
(* perform sends with x_mutex held; when a send fails it unlocks and then  *)
(* calls disconnect, which locks again: two actions, between which the     *)
(* child may run.  Every other handler is one action.                      *)
(*                                                                         *)
(* Audio is abstracted to its layout: a block of x_cbuf is the format, the *)
(* channel count and the vector size it was written with, or Stale when it *)
(* was not written since the frame was begun.                              *)
(***************************************************************************)
EXTENDS UdpSendConnector, FrameSource

CONSTANTS
  DefaultVecSize,  \* x_vecsize before the first perform
  VecSizes         \* vector sizes Pd may run with

ASSUME TildeAssumption ==
  /\ DefaultVecSize \in Nat \ {0}
  /\ VecSizes \subseteq Nat \ {0}

VARIABLES
  x_format, x_channels,  \* what the messages asked for
  x_vecsize, x_blockspersend, x_blockssincesend, x_cbuf,
  chain,      \* vector size perform is in the DSP chain with; 0: not in it
  pd,         \* "idle", or "sendfailed" between unlock and disconnect
  \* history
  failedFd    \* the socket whose send failed, while pd is "sendfailed"

paramvars == <<x_format, x_channels>>
framevars == <<fvars, x_vecsize, x_blockspersend, x_blockssincesend, x_cbuf>>
audiovars == <<paramvars, framevars, chain, pd, failedFd>>
vars == <<cvars, audiovars>>

Stale == [format |-> "none", channels |-> 0, vecsize |-> 0]
AllStale == [i \in 0..BlockSize |-> Stale]
Layout(n) == [format |-> x_tag.format, channels |-> x_tag.channels, vecsize |-> n]

\* Bytes in x_cbuf.
CbufSize == BlockSize * SizeOf("float") * NInlets

-----------------------------------------------------------------------------
(* udpsend_tilde_new, after the connection fields.                         *)

InitialParams(format, channels, tag) ==
  /\ format = "float"
  /\ channels = NInlets
  /\ tag = FirstTag

InitialBlocks(vec, per, since, count, buf) ==
  /\ vec = DefaultVecSize
  /\ per = BlockSize \div DefaultVecSize
  /\ since = 0
  /\ count = 0
  /\ buf = AllStale

Init ==
  /\ CInit
  /\ InitialParams(x_format, x_channels, x_tag)
  /\ InitialBlocks(x_vecsize, x_blockspersend, x_blockssincesend, x_count, x_cbuf)
  /\ sent = <<>>
  /\ chain = 0
  /\ pd = "idle"
  /\ failedFd = NoFd

NewTilde ==
  /\ New
  /\ InitialParams(x_format', x_channels', x_tag')
  /\ InitialBlocks(x_vecsize', x_blockspersend', x_blockssincesend', x_count', x_cbuf')
  /\ chain' = 0
  /\ UNCHANGED <<sent, pd, failedFd>>

FreeTilde ==
  /\ pd = "idle"
  /\ Free
  /\ chain' = 0
  /\ UNCHANGED <<paramvars, framevars, pd, failedFd>>

-----------------------------------------------------------------------------
(* Messages.                                                               *)

\* Mutant: "already trying to connect" is not checked.
ConnectTildeAgain(h) ==
  /\ pd = "idle"
  /\ ConnectAgain(h)
  /\ x_count' = 0
  /\ UNCHANGED <<paramvars, x_tag, sent, x_vecsize, x_blockspersend,
                 x_blockssincesend, x_cbuf, chain, pd, failedFd>>

\* Accepted "connect": the frame count starts again, in mid-frame if need be.
ConnectTilde(h) ==
  /\ pd = "idle"
  /\ Connect(h)
  /\ x_count' = 0
  /\ UNCHANGED <<paramvars, x_tag, sent, x_vecsize, x_blockspersend,
                 x_blockssincesend, x_cbuf, chain, pd, failedFd>>

DisconnectTilde ==
  /\ pd = "idle"
  /\ Disconnect
  /\ UNCHANGED audiovars

NotifyTilde ==
  /\ pd = "idle"
  /\ Notify
  /\ UNCHANGED audiovars

\* "channels": out of range is refused.
Channels(c) ==
  /\ ~freed /\ ~stuck /\ pd = "idle"
  /\ c \in 0..NInlets
  /\ x_channels' = c
  /\ UNCHANGED <<cvars, x_format, framevars, chain, pd, failedFd>>

\* "format": stored only if it differs from the format in use; the console is
\* told that it is set in any case.
FormatSet(f) == IF x_tag.format # f THEN f ELSE x_format

Format(f) ==
  /\ ~freed /\ ~stuck /\ pd = "idle"
  /\ x_format' = FormatSet(f)
  /\ UNCHANGED <<cvars, x_channels, framevars, chain, pd, failedFd>>

\* The DSP graph is rebuilt: perform joins the chain if dsp accepts the
\* vector size.
Dsp(n) ==
  /\ ~freed /\ ~stuck /\ pd = "idle"
  /\ chain' = (IF AudioBufferSize % n = 0 THEN n ELSE 0)
  /\ UNCHANGED <<cvars, paramvars, framevars, pd, failedFd>>

\* DSP is switched off.
DspOff ==
  /\ ~freed /\ ~stuck /\ pd = "idle"
  /\ chain # 0
  /\ chain' = 0
  /\ UNCHANGED <<cvars, paramvars, framevars, pd, failedFd>>

-----------------------------------------------------------------------------
(* udpsend_tilde_perform.                                                  *)

\* Mutant: a new vector size does not begin the frame again.
NextBlockGoesOn(n) == x_blockssincesend

\* The block this call writes, and x_blockspersend as this call leaves it.
NextBlock(n) == IF n = x_vecsize THEN x_blockssincesend ELSE 0
BlocksPer(n) == IF n = x_vecsize THEN x_blockspersend ELSE BlockSize \div n

\* x_cbuf after this call wrote its block; a new vector size begins the frame
\* again.
Written(n) ==
  [(IF n = x_vecsize THEN x_cbuf ELSE AllStale) EXCEPT ![NextBlock(n)] = Layout(n)]

\* Mutant: one block too many.
InMidFrameOffByOne(n) == NextBlock(n) < BlocksPer(n)

InMidFrame(n) == NextBlock(n) < BlocksPer(n) - 1

\* A block that does not complete the frame.
PerformBlock(n) ==
  /\ InMidFrame(n)
  /\ x_blockssincesend' = NextBlock(n) + 1
  /\ x_cbuf' = Written(n)
  /\ UNCHANGED <<fvars, pd, failedFd>>

\* The block that completes it.
CompleteFrame(n) ==
  /\ ~InMidFrame(n)
  /\ x_blockssincesend' = 0
  /\ NextCount
  /\ x_cbuf' = AllStale

\* The parameters asked for are taken over between two frames.
TakeOverParams == x_tag' = [format |-> x_format, channels |-> x_channels]

\* The frame is dropped when there is no socket,
PerformNoSocket(n) ==
  /\ x_fd = NoFd
  /\ CompleteFrame(n)
  /\ TakeOverParams
  /\ UNCHANGED <<sent, pd, failedFd>>

\* sent on x_fd,
PerformSend(n) ==
  /\ x_fd # NoFd
  /\ CompleteFrame(n)
  /\ sent' = FrameDatagrams
  /\ TakeOverParams
  /\ UNCHANGED <<pd, failedFd>>

\* Mutant: the parameters are taken over after a failure, too.
PerformSendFailsTakesOver(n, k) ==
  /\ x_fd # NoFd
  /\ CompleteFrame(n)
  /\ k < Len(FrameDatagrams)
  /\ sent' = SubSeq(FrameDatagrams, 1, k)
  /\ pd' = "sendfailed"
  /\ failedFd' = x_fd
  /\ TakeOverParams

\* or sent in part; the parameters asked for are then not taken over.
PerformSendFails(n, k) ==
  /\ x_fd # NoFd
  /\ CompleteFrame(n)
  /\ k < Len(FrameDatagrams)
  /\ sent' = SubSeq(FrameDatagrams, 1, k)
  /\ pd' = "sendfailed"
  /\ failedFd' = x_fd
  /\ UNCHANGED x_tag

Perform(n) ==
  /\ ~freed /\ ~stuck /\ pd = "idle"
  /\ n = chain /\ n # 0
  /\ x_vecsize' = n
  /\ x_blockspersend' = BlocksPer(n)
  /\ \/ PerformBlock(n)
     \/ PerformNoSocket(n)
     \/ PerformSend(n)
     \/ \E k \in 0..Packets : PerformSendFails(n, k)
  /\ UNCHANGED <<cvars, paramvars, chain>>

\* The disconnect perform calls after it released x_mutex.
DisconnectAfterFailure ==
  /\ pd = "sendfailed"
  /\ pd' = "idle"
  /\ IF x_fd # NoFd THEN Disconnect ELSE UNCHANGED cvars
  /\ failedFd' = NoFd
  /\ UNCHANGED <<paramvars, framevars, chain>>

-----------------------------------------------------------------------------
Next ==
  \/ \E h \in Hosts : ConnectTilde(h)
  \/ DisconnectTilde
  \/ NotifyTilde
  \/ FreeTilde
  \/ NewTilde
  \/ \E t \in Threads : (ChildStep(t) \/ ChildAfterFree(t)) /\ UNCHANGED audiovars
  \/ \E c \in 0..NInlets : Channels(c)
  \/ \E f \in Formats : Format(f)
  \/ \E n \in VecSizes : Dsp(n)
  \/ DspOff
  \/ \E n \in VecSizes : Perform(n)
  \/ DisconnectAfterFailure

Spec == Init /\ [][Next]_vars

\* The frames the network sees, as specified by FrameSource.
SourceSpec == FSpec

-----------------------------------------------------------------------------
(* Properties.                                                             *)

Layouts == [format : Formats, channels : 0..NInlets, vecsize : VecSizes \cup {DefaultVecSize}]

\* Every variable of the DSP side has its type.
AudioTypeOK ==
  /\ x_format \in Formats
  /\ x_channels \in 0..NInlets
  /\ x_tag.format \in Formats
  /\ x_tag.channels \in 0..NInlets
  /\ x_vecsize \in VecSizes \cup {DefaultVecSize}
  /\ x_blockspersend \in Nat
  /\ x_blockssincesend \in 0..BlockSize
  /\ x_count \in 0..(CountModulus - 1)
  /\ x_cbuf \in [0..BlockSize -> Layouts \cup {Stale}]
  /\ chain \in VecSizes \cup {0}
  /\ pd \in {"idle", "sendfailed"}
  /\ failedFd \in Fds \cup {NoFd}

\* The blocks collected so far were all written with the format and channel
\* count the tag will announce and with the current vector size, and nothing
\* is left of an earlier frame: no message or vector-size change in mid-frame
\* mixes two layouts.
FrameInAssembly ==
  \A i \in 0..BlockSize :
    x_cbuf[i] = IF i < x_blockssincesend THEN Layout(x_vecsize) ELSE Stale

\* The frame that perform is about to hand over covers BlockSize sample
\* frames, no block missing and none too many, in the layout of its tag.
FrameIsWhole ==
  (chain # 0 /\ ~InMidFrame(chain)) =>
    \A i \in 0..BlockSize :
      Written(chain)[i] = IF i * chain < BlockSize THEN Layout(chain) ELSE Stale

\* The next block perform writes lies within x_cbuf.
BlockFits ==
  chain # 0 => (NextBlock(chain) + 1) * chain * x_tag.channels * SizeOf(x_tag.format)
                 <= CbufSize

\* The socket that disconnect closes after a failed send is the one that
\* failed, although x_mutex was free in between.
ClosesTheFailedSocket == pd = "sendfailed" => x_fd = failedFd
=============================================================================
