------------------------ MODULE GCDAsyncUdpSocket ------------------------
(***************************************************************************)
(* How an OSC message of the app leaves over UDP: F53OSCClient gives each  *)
(* message to the one GCDAsyncUdpSocket it keeps, and asks it to close     *)
(* after sending, every time.  The socket is worked on by the blocks of    *)
(* its serial queue, socketQueue; the name of the host is looked up on     *)
(* another thread, and the kernel may have no room or refuse the datagram. *)
(*                                                                         *)
(* The blocks call maybeDequeueSend, doPreSend and doSend, which call each *)
(* other last: `calls` is the one that is to run, and nothing else of the  *)
(* queue runs before it has.  (When maybeDequeueSend comes back from       *)
(* doPreSend it looks again whether it is to close; by then the inner call *)
(* has closed, and cleared the flags, or there is a current send.)         *)
(***************************************************************************)
EXTENDS Naturals, Sequences, SequencesExt

CONSTANT MaxPackets \* bound: messages that are sent

ASSUME UdpSocketAssumption == MaxPackets \in Nat

VARIABLES
  given,          \* the messages handed over so far; a packet is its place among them
  dispatching,    \* blocks that the caller is still to put on the queue
  socketQueue,    \* blocks on the queue
  resolving,      \* packets whose host is being looked up
  packet,         \* the fields of each packet that its lookup sets
  sendQueue, currentSend, flags, sendTimer, calls,
  \* history
  onWire,         \* packets that sendto() took, in order
  notSent,        \* packets the delegate was told of as not sent, in order
  discarded,      \* packets thrown away by a close that had an error
  forgotten       \* packets thrown away by one that had none

queuevars == <<given, dispatching, socketQueue, resolving>>
socketvars == <<packet, sendQueue, currentSend, flags, sendTimer, calls>>
fate == <<onWire, notSent, discarded, forgotten>>
gvars == <<queuevars, socketvars, fate>>

None == 0
Packets == 1..MaxPackets
Resolving == [resolveInProgress |-> TRUE, resolveError |-> FALSE]
Found == [resolveInProgress |-> FALSE, resolveError |-> FALSE]
NotFound == [resolveInProgress |-> FALSE, resolveError |-> TRUE]

\* Blocks of the queue.
EnqueueBlock(p) == [block |-> "enqueue", packet |-> p, result |-> NotFound]
CloseBlock == [block |-> "closeAfterSending", packet |-> None, result |-> NotFound]
ResolvedBlock(p, result) == [block |-> "resolved", packet |-> p, result |-> result]

UInit ==
  /\ given = 0 /\ dispatching = <<>> /\ socketQueue = <<>> /\ resolving = {}
  /\ packet = [p \in Packets |-> Resolving]
  /\ sendQueue = <<>> /\ currentSend = None /\ flags = {} /\ sendTimer = FALSE
  /\ calls = "none"
  /\ onWire = <<>> /\ notSent = <<>> /\ discarded = {} /\ forgotten = {}

-----------------------------------------------------------------------------
(* The callers' side: the main thread and the lookups.                     *)

\* sendPacket:toHost:onPort: dispatches three things: the lookup of the host, the
\* packet, the close.  An empty name has become nil, for which the first is a block
\* of the socket's queue at once.
SendPacket ==
  LET p == given + 1 IN
  /\ dispatching = <<>> /\ given < MaxPackets
  /\ given' = p
  /\ \/ /\ resolving' = resolving \cup {p}
        /\ UNCHANGED socketQueue
     \/ /\ socketQueue' = Append(socketQueue, ResolvedBlock(p, NotFound))
        /\ UNCHANGED resolving
  /\ dispatching' = <<EnqueueBlock(p), CloseBlock>>
  /\ UNCHANGED <<socketvars, fate>>

Dispatch ==
  /\ dispatching # <<>>
  /\ socketQueue' = Append(socketQueue, Head(dispatching))
  /\ dispatching' = Tail(dispatching)
  /\ UNCHANGED <<given, resolving, socketvars, fate>>

\* getaddrinfo() has found the host, or has not.
Resolve(p) ==
  /\ p \in resolving
  /\ \E result \in {Found, NotFound} :
       socketQueue' = Append(socketQueue, ResolvedBlock(p, result))
  /\ resolving' = resolving \ {p}
  /\ UNCHANGED <<given, dispatching, socketvars, fate>>

-----------------------------------------------------------------------------
(* The socket.                                                             *)

\* The queue is emptied, the sockets are closed and all flags are cleared.
closeWithError(failed) ==
  LET dropped == Range(sendQueue) \cup ({currentSend} \ {None}) IN
  /\ currentSend' = None /\ sendTimer' = FALSE
  /\ sendQueue' = <<>>
  /\ flags' = {}
  /\ discarded' = IF failed THEN discarded \cup dropped ELSE discarded
  /\ forgotten' = IF failed THEN forgotten ELSE forgotten \cup dropped

endCurrentSend == currentSend' = None /\ sendTimer' = FALSE

NotSendingNow(p) == notSent' = Append(notSent, p)

\* A block of the queue adds a packet.
Enqueue ==
  /\ calls = "none" /\ socketQueue # <<>> /\ Head(socketQueue).block = "enqueue"
  /\ sendQueue' = Append(sendQueue, Head(socketQueue).packet)
  /\ socketQueue' = Tail(socketQueue)
  /\ calls' = "maybeDequeueSend"
  /\ UNCHANGED <<given, dispatching, resolving, packet, currentSend, flags, sendTimer, fate>>

\* Mutant: the packet that waits for its address is not gone on with.
ResolvedForgets ==
  /\ calls = "none" /\ socketQueue # <<>> /\ Head(socketQueue).block = "resolved"
  /\ packet' = [packet EXCEPT ![Head(socketQueue).packet] = Head(socketQueue).result]
  /\ socketQueue' = Tail(socketQueue)
  /\ UNCHANGED <<given, dispatching, resolving, sendQueue, currentSend, flags, sendTimer, calls,
                 fate>>

\* The completion block of a lookup: goes on with the packet if it is the current one.
Resolved ==
  LET p == Head(socketQueue).packet IN
  /\ calls = "none" /\ socketQueue # <<>> /\ Head(socketQueue).block = "resolved"
  /\ packet' = [packet EXCEPT ![p] = Head(socketQueue).result]
  /\ socketQueue' = Tail(socketQueue)
  /\ calls' = IF currentSend = p THEN "doPreSend" ELSE "none"
  /\ UNCHANGED <<given, dispatching, resolving, sendQueue, currentSend, flags, sendTimer, fate>>

\* Mutant: closes although there is something to send.
ClosesAtOnce ==
  /\ calls = "none" /\ socketQueue # <<>> /\ Head(socketQueue).block = "closeAfterSending"
  /\ closeWithError(FALSE)
  /\ socketQueue' = Tail(socketQueue)
  /\ UNCHANGED <<given, dispatching, resolving, packet, calls, onWire, notSent>>

CloseAfterSending ==
  /\ calls = "none" /\ socketQueue # <<>> /\ Head(socketQueue).block = "closeAfterSending"
  /\ \/ /\ currentSend = None /\ sendQueue = <<>>
        /\ closeWithError(FALSE)
     \/ /\ currentSend # None \/ sendQueue # <<>>
        /\ flags' = flags \cup {"kCloseAfterSends"}
        /\ UNCHANGED <<sendQueue, currentSend, sendTimer, discarded, forgotten>>
  /\ socketQueue' = Tail(socketQueue)
  /\ UNCHANGED <<given, dispatching, resolving, packet, calls, onWire, notSent>>

-----------------------------------------------------------------------------
(* maybeDequeueSend, once for each turn of its loop.                       *)

\* There is a send already.
LeaveQueue ==
  /\ calls = "maybeDequeueSend" /\ currentSend # None
  /\ calls' = "none"
  /\ UNCHANGED <<queuevars, packet, sendQueue, currentSend, flags, sendTimer, fate>>

\* socket() may fail.
createSockets ==
  /\ calls = "maybeDequeueSend" /\ currentSend = None /\ "kDidCreateSockets" \notin flags
  /\ \/ /\ flags' = flags \cup {"kDidCreateSockets", "kSockCanAcceptBytes", "kSendSourceSuspended"}
        /\ UNCHANGED <<sendQueue, currentSend, sendTimer, discarded, forgotten, calls>>
     \/ /\ closeWithError(TRUE)
        /\ calls' = "none"
  /\ UNCHANGED <<queuevars, packet, onWire, notSent>>

Ready == calls = "maybeDequeueSend" /\ currentSend = None /\ "kDidCreateSockets" \in flags

\* A packet whose lookup has failed meanwhile is reported, and the next one is taken.
SkipUnresolved ==
  /\ Ready /\ sendQueue # <<>> /\ packet[Head(sendQueue)].resolveError
  /\ NotSendingNow(Head(sendQueue))
  /\ sendQueue' = Tail(sendQueue)
  /\ UNCHANGED <<queuevars, packet, currentSend, flags, sendTimer, calls, onWire, discarded,
                 forgotten>>

TakeNext ==
  /\ Ready /\ sendQueue # <<>> /\ ~packet[Head(sendQueue)].resolveError
  /\ currentSend' = Head(sendQueue)
  /\ sendQueue' = Tail(sendQueue)
  /\ calls' = "doPreSend"
  /\ UNCHANGED <<queuevars, packet, flags, sendTimer, fate>>

QueueIsEmpty ==
  /\ Ready /\ sendQueue = <<>>
  /\ \/ /\ "kCloseAfterSends" \in flags
        /\ closeWithError(FALSE)
     \/ /\ "kCloseAfterSends" \notin flags
        /\ UNCHANGED <<sendQueue, currentSend, flags, sendTimer, discarded, forgotten>>
  /\ calls' = "none"
  /\ UNCHANGED <<queuevars, packet, onWire, notSent>>

maybeDequeueSend == LeaveQueue \/ createSockets \/ SkipUnresolved \/ TakeNext \/ QueueIsEmpty

-----------------------------------------------------------------------------
(* The current send.                                                       *)

\* Waits for the lookup, gives up, or goes on to send.
doPreSend ==
  LET send == packet[currentSend] IN
  /\ calls = "doPreSend"
  /\ \/ /\ send.resolveInProgress
        /\ calls' = "none"
        /\ UNCHANGED <<currentSend, sendTimer, notSent>>
     \/ /\ send.resolveError
        /\ NotSendingNow(currentSend) /\ endCurrentSend
        /\ calls' = "maybeDequeueSend"
     \/ /\ ~send.resolveInProgress /\ ~send.resolveError
        /\ calls' = "doSend"
        /\ UNCHANGED <<currentSend, sendTimer, notSent>>
  /\ UNCHANGED <<queuevars, packet, sendQueue, flags, onWire, discarded, forgotten>>

\* sendto() takes the datagram.
SendsIt ==
  /\ onWire' = Append(onWire, currentSend)
  /\ endCurrentSend
  /\ calls' = "maybeDequeueSend"
  /\ UNCHANGED <<sendQueue, flags, notSent, discarded, forgotten>>

\* There is no room: waits for the timer, F53OSC giving every send a timeout.  A
\* notification of available space would be awaited too, were the source resumed;
\* but kSockCanAcceptBytes is set with the socket and cleared only with it, so that
\* the source stays suspended and has no event that would be an action here.
WaitsForRoom ==
  /\ sendTimer' = TRUE
  /\ flags' = IF "kSockCanAcceptBytes" \in flags THEN flags ELSE flags \ {"kSendSourceSuspended"}
  /\ calls' = "none"
  /\ UNCHANGED <<sendQueue, currentSend, fate>>

\* It fails, for this destination or altogether: everything is closed.
SendRefused ==
  /\ closeWithError(TRUE)
  /\ calls' = "none"
  /\ UNCHANGED <<onWire, notSent>>

doSend ==
  /\ calls = "doSend"
  /\ SendsIt \/ WaitsForRoom \/ SendRefused
  /\ UNCHANGED <<queuevars, packet>>

doSendTimeout ==
  /\ calls = "none" /\ sendTimer
  /\ NotSendingNow(currentSend) /\ endCurrentSend
  /\ calls' = "maybeDequeueSend"
  /\ UNCHANGED <<queuevars, packet, sendQueue, flags, onWire, discarded, forgotten>>

-----------------------------------------------------------------------------
(* Specification.                                                          *)

\* What runs on the socket's queue.
OnSocketQueue ==
  Enqueue \/ Resolved \/ CloseAfterSending \/ maybeDequeueSend \/ doPreSend \/ doSend

UNext ==
  \/ SendPacket
  \/ Dispatch
  \/ \E p \in Packets : Resolve(p)
  \/ OnSocketQueue
  \/ doSendTimeout

\* Queues run what is put on them, a lookup ends, a timer that was set fires.
UFairness ==
  /\ WF_gvars(Dispatch)
  /\ \A p \in Packets : WF_gvars(Resolve(p))
  /\ WF_gvars(OnSocketQueue)
  /\ WF_gvars(doSendTimeout)

USpec == UInit /\ [][UNext]_gvars /\ UFairness

-----------------------------------------------------------------------------
(* Properties.                                                             *)

Settled == Range(onWire) \cup Range(notSent) \cup discarded

\* Whatever the lookups take and however sends, closes and failures interleave on the
\* socket: the datagrams leave in the order the messages were given, each once; one
\* that has left is neither reported as not sent nor thrown away, and none is
\* reported twice.  And what the header promises of closeAfterSending, that it closes
\* after all pending sends, holds although F53OSC asks for it after every message and
\* may give the next one before, at or after the close: no message is lost to a close
\* without an error.  The timer only runs for a current send that waits for room.
SentOnceInOrder ==
  /\ \A i, j \in DOMAIN onWire : i < j => onWire[i] < onWire[j]
  /\ IsInjective(notSent)
  /\ Range(onWire) \cap (Range(notSent) \cup discarded) = {}
  /\ Range(notSent) \cap discarded = {}
  /\ forgotten = {}
  /\ sendTimer => currentSend # None /\ ~packet[currentSend].resolveInProgress

\* Every message that is given ends on the wire, in a report that it was not sent, or
\* with a close for an error: none waits for ever behind another.
EveryMessageSettles == \A p \in Packets : (p <= given) ~> (p \in Settled)
=============================================================================
