------------------------- MODULE UdpSendTilde_proofs -------------------------
(***************************************************************************)
(* Proofs about udpsend~, for any numbers of threads, descriptors,         *)
(* destinations, and any sizes.                                            *)
(*                                                                         *)
(* First the connection part, UdpSendConnector: its safety properties are  *)
(* proved together, CInv adding to them where each child's descriptor and  *)
(* its copy of the destination stand at each point of the child            *)
(* (ChildFdInv, ChildTargetInv) and that a pending report means "still     *)
(* trying" (ClockInv); and it keeps the promise of ConnectorObject.        *)
(*                                                                         *)
(* Then the whole: the actions of UdpSendTilde are those of its connection *)
(* part or leave it alone, so that its invariant carries over; frames are  *)
(* assembled in one layout, and the socket closed after a failed send is   *)
(* the one that failed.                                                    *)
(***************************************************************************)
EXTENDS UdpSendTilde, BasicLemmas

Connected == {"resolve", "connect", "publish"}   \* the child has a socket

ChildFdInv ==
  \A t \in Threads :
    /\ child[t] \in {"none", "start", "socket"} => childFd[t] = NoFd
    /\ child[t] \in Connected => childFd[t] \in Fds

ChildTargetInv ==
  \A t \in Threads :
    /\ child[t] \in Connected \cup {"socket"} => childHost[t] = x_host
    /\ child[t] \in {"connect", "publish"} => childAddr[t] = x_host
    /\ child[t] = "publish" => peer[childFd[t]] = <<x_host, x_host>>

ClockInv == clock => x_childthread_result = 0

FreedInv == freed => x_fd = NoFd /\ ~clock

ReportInv == ReportedWhenSettled /\ NeverStuckTrying

CInv ==
  /\ CTypeOK
  /\ OneConnector
  /\ ChildFdInv
  /\ ChildTargetInv
  /\ ClockInv
  /\ StateMatchesSocket
  /\ SocketsAccounted
  /\ ConnectedToNamedHost
  /\ FreedInv
  /\ ReportInv

-----------------------------------------------------------------------------
(* The initial state.                                                      *)

\* The initial state has every part of the invariant.
LEMMA CInitInv == CInit => CInv
<1> SUFFICES ASSUME CInit PROVE CInv
  OBVIOUS
<1>1. DefaultHost \in Hosts
  BY ConnectorAssumption DEF DefaultHost
<1>2. CTypeOK
  BY <1>1 DEF CInit, Fresh, CTypeOK, ChildStates
<1>3. OneConnector /\ ChildFdInv /\ ChildTargetInv
  BY DEF CInit, OneConnector, ChildFdInv, ChildTargetInv, Alive, Connected
<1>4. ClockInv /\ StateMatchesSocket /\ ConnectedToNamedHost /\ FreedInv /\ ReportInv
  BY DEF CInit, Fresh, ClockInv, StateMatchesSocket, ConnectedToNamedHost,
         FreedInv, ReportInv, ReportedWhenSettled, NeverStuckTrying, NO_CHILDTHREAD
<1>5. SocketsAccounted
  BY ConnectorAssumption DEF CInit, Fresh, SocketsAccounted
<1> QED
  BY <1>2, <1>3, <1>4, <1>5 DEF CInv

-----------------------------------------------------------------------------
(* One lemma for each action.                                              *)

\* A refused connect aside, starting a child keeps the invariant: no other
\* child is alive, because x_childthread_result is not zero.
LEMMA ConnectInv == ASSUME CInv, NEW h \in Hosts, Connect(h) PROVE CInv'
<1> USE DEF CInv, Connect, StartChild, osvars, EAGAIN
<1>1. CTypeOK'
  BY DEF CTypeOK, ChildStates
<1>2. \A t \in Threads : child[t] = "none"
  BY DEF OneConnector, Alive
<1>3. OneConnector'
  BY <1>2 DEF CTypeOK, OneConnector, Alive, ClockInv
<1>4. ChildFdInv' /\ ChildTargetInv'
  BY <1>2 DEF CTypeOK, ChildFdInv, ChildTargetInv, Connected
<1>5. ClockInv' /\ StateMatchesSocket' /\ ConnectedToNamedHost' /\ FreedInv' /\ ReportInv'
  BY DEF ClockInv, StateMatchesSocket, ConnectedToNamedHost,
         FreedInv, ReportInv, ReportedWhenSettled, NeverStuckTrying, Alive, CTypeOK
<1>6. SocketsAccounted'
  BY DEF SocketsAccounted
<1> QED
  BY <1>1, <1>3, <1>4, <1>5, <1>6

\* Closing the socket leaves no trace of it outside peer.
LEMMA DisconnectInv == ASSUME CInv, Disconnect PROVE CInv'
<1> USE DEF CInv, Disconnect, CloseSocket, PatchAnswers, childvars
<1>1. CTypeOK'
  BY DEF CTypeOK
<1>2. OneConnector' /\ ChildFdInv' /\ ChildTargetInv' /\ ClockInv'
  BY DEF OneConnector, Alive, ChildFdInv, ChildTargetInv, ClockInv
<1>3. StateMatchesSocket' /\ ConnectedToNamedHost' /\ FreedInv' /\ ReportInv'
  BY DEF StateMatchesSocket, ConnectedToNamedHost,
         FreedInv, ReportInv, ReportedWhenSettled, NeverStuckTrying, Alive, CTypeOK
<1>4. SocketsAccounted'
  BY ConnectorAssumption DEF SocketsAccounted, CTypeOK
<1> QED
  BY <1>1, <1>2, <1>3, <1>4

\* The clock callback runs when no child is left.
LEMMA NotifyInv == ASSUME CInv, Notify PROVE CInv'
<1> USE DEF CInv, Notify, PatchAnswers, childvars, osvars, NO_CHILDTHREAD
<1>1. CTypeOK'
  BY DEF CTypeOK
<1>2. \A t \in Threads : child[t] = "none"
  BY DEF OneConnector, Alive
<1>3. OneConnector' /\ ChildFdInv' /\ ChildTargetInv' /\ ClockInv'
  BY <1>2 DEF OneConnector, Alive, ChildFdInv, ChildTargetInv, ClockInv
<1>4. StateMatchesSocket' /\ ConnectedToNamedHost' /\ FreedInv' /\ ReportInv'
  BY DEF StateMatchesSocket, ConnectedToNamedHost,
         FreedInv, ReportInv, ReportedWhenSettled, NeverStuckTrying, Alive, CTypeOK
<1>5. SocketsAccounted'
  BY DEF SocketsAccounted
<1> QED
  BY <1>1, <1>3, <1>4, <1>5

\* Deleting the object closes its socket; a child keeps its own.
LEMMA FreeInv == ASSUME CInv, Free PROVE CInv'
<1> USE DEF CInv, Free, CloseSocket, childvars
<1>1. CTypeOK'
  BY DEF CTypeOK
<1>2. OneConnector' /\ ChildFdInv' /\ ChildTargetInv' /\ ClockInv'
  BY DEF OneConnector, Alive, ChildFdInv, ChildTargetInv, ClockInv
<1>3. StateMatchesSocket' /\ ConnectedToNamedHost' /\ FreedInv' /\ ReportInv'
  BY DEF StateMatchesSocket, ConnectedToNamedHost,
         FreedInv, ReportInv, ReportedWhenSettled, NeverStuckTrying, Alive, CTypeOK
<1>4. SocketsAccounted'
  BY ConnectorAssumption DEF SocketsAccounted, CTypeOK
<1> QED
  BY <1>1, <1>2, <1>3, <1>4

\* A new object starts from the initial fields; the descriptors its
\* predecessor leaked stay leaked.
LEMMA NewInv == ASSUME CInv, New PROVE CInv'
<1> USE DEF CInv, New, Fresh, childvars, osvars, NO_CHILDTHREAD
<1>1. DefaultHost \in Hosts
  BY ConnectorAssumption DEF DefaultHost
<1>2. CTypeOK'
  BY <1>1 DEF CTypeOK
<1>3. OneConnector' /\ ChildFdInv' /\ ChildTargetInv' /\ ClockInv'
  BY DEF OneConnector, Alive, ChildFdInv, ChildTargetInv, ClockInv, Connected
<1>4. StateMatchesSocket' /\ ConnectedToNamedHost' /\ FreedInv' /\ ReportInv'
  BY DEF StateMatchesSocket, ConnectedToNamedHost,
         FreedInv, ReportInv, ReportedWhenSettled, NeverStuckTrying, Alive, CTypeOK
<1>5. x_fd = NoFd
  BY DEF FreedInv
<1>6. SocketsAccounted'
  BY <1>5, ConnectorAssumption DEF SocketsAccounted
<1> QED
  BY <1>2, <1>3, <1>4, <1>6

\* Copying the destination.
LEMMA ChildCopyHostInv ==
  ASSUME CInv, NEW t \in Threads, ChildCopyHost(t) PROVE CInv'
<1> USE DEF CInv, ChildCopyHost, connvars, osvars
<1>1. CTypeOK'
  BY DEF CTypeOK, ChildStates
<1>2. OneConnector'
  BY DEF OneConnector, Alive, CTypeOK
<1>3. ChildFdInv' /\ ChildTargetInv'
  BY DEF CTypeOK, ChildFdInv, ChildTargetInv, Connected
<1>4. ClockInv' /\ StateMatchesSocket' /\ ConnectedToNamedHost' /\ FreedInv' /\ ReportInv'
  BY DEF ClockInv, StateMatchesSocket, ConnectedToNamedHost,
         FreedInv, ReportInv, ReportedWhenSettled, NeverStuckTrying, Alive, CTypeOK
<1>5. SocketsAccounted'
  BY DEF SocketsAccounted
<1> QED
  BY <1>1, <1>2, <1>3, <1>4, <1>5

\* socket() gives a descriptor nobody holds, or the child ends.
LEMMA ChildSocketInv ==
  ASSUME CInv, NEW t \in Threads, ChildSocket(t), ~freed PROVE CInv'
<1> USE DEF CInv, ChildSocket, ChildGivesUp, NO_CHILDTHREAD
<1>0. x_fd = NoFd /\ ~clock /\ \A u \in Threads : child[u] # "none" => u = t
  BY DEF OneConnector, Alive
<1>1. CTypeOK'
  BY DEF CTypeOK, ChildStates
<1>2. OneConnector'
  BY <1>0 DEF OneConnector, Alive, CTypeOK
<1>3. ChildFdInv' /\ ChildTargetInv'
  BY DEF CTypeOK, ChildFdInv, ChildTargetInv, Connected
<1>4. ClockInv' /\ StateMatchesSocket' /\ ConnectedToNamedHost' /\ FreedInv' /\ ReportInv'
  BY <1>0 DEF ClockInv, StateMatchesSocket, ConnectedToNamedHost,
         FreedInv, ReportInv, ReportedWhenSettled, NeverStuckTrying, Alive, CTypeOK
<1>5. SocketsAccounted'
  <2>1. ASSUME NEW f \in Fds \ open, open' = open \cup {f},
               childFd' = [childFd EXCEPT ![t] = f]
        PROVE  SocketsAccounted'
    <3>1. childFd[t] = NoFd
      BY DEF ChildFdInv
    <3> QED
      BY <2>1, <3>1, <1>0, ConnectorAssumption DEF SocketsAccounted, CTypeOK
  <2>2. CASE UNCHANGED <<open, childFd>>
    BY <2>2 DEF SocketsAccounted
  <2> QED
    BY <2>1, <2>2
<1> QED
  BY <1>1, <1>2, <1>3, <1>4, <1>5

\* The address comes from x_host, which nothing changes while a child is
\* alive; or the descriptor becomes a leaked one.
LEMMA ChildResolveInv ==
  ASSUME CInv, NEW t \in Threads, ChildResolve(t), ~freed PROVE CInv'
<1> USE DEF CInv, ChildResolve, ChildGivesUp, NO_CHILDTHREAD
<1>0. x_fd = NoFd /\ ~clock /\ \A u \in Threads : child[u] # "none" => u = t
  BY DEF OneConnector, Alive
<1>1. CTypeOK'
  BY DEF CTypeOK, ChildStates, ChildFdInv, Connected
<1>2. OneConnector'
  BY <1>0 DEF OneConnector, Alive, CTypeOK
<1>3. ChildFdInv' /\ ChildTargetInv'
  BY DEF CTypeOK, ChildFdInv, ChildTargetInv, Connected
<1>4. ClockInv' /\ StateMatchesSocket' /\ ConnectedToNamedHost' /\ FreedInv' /\ ReportInv'
  BY <1>0 DEF ClockInv, StateMatchesSocket, ConnectedToNamedHost,
         FreedInv, ReportInv, ReportedWhenSettled, NeverStuckTrying, Alive, CTypeOK
<1>5. SocketsAccounted'
  <2>1. childFd[t] \in Fds
    BY DEF ChildFdInv, Connected
  <2> QED
    BY <2>1, <1>0, ConnectorAssumption DEF SocketsAccounted, CTypeOK
<1> QED
  BY <1>1, <1>2, <1>3, <1>4, <1>5

\* connect() records the peer of the child's own descriptor, or the child
\* closes it.
LEMMA ChildConnectInv ==
  ASSUME CInv, NEW t \in Threads, ChildConnect(t), ~freed PROVE CInv'
<1> USE DEF CInv, ChildConnect, ChildGivesUp, NO_CHILDTHREAD
<1>0. x_fd = NoFd /\ ~clock /\ \A u \in Threads : child[u] # "none" => u = t
  BY DEF OneConnector, Alive
<1>01. childFd[t] \in Fds
  BY DEF ChildFdInv, Connected
<1>1. CTypeOK'
  BY <1>01 DEF CTypeOK, ChildStates
<1>2. OneConnector'
  BY <1>0 DEF OneConnector, Alive, CTypeOK
<1>3. ChildFdInv' /\ ChildTargetInv'
  BY <1>0, <1>01 DEF CTypeOK, ChildFdInv, ChildTargetInv, Connected
<1>4. ClockInv' /\ StateMatchesSocket' /\ ConnectedToNamedHost' /\ FreedInv' /\ ReportInv'
  BY <1>0 DEF ClockInv, StateMatchesSocket, ConnectedToNamedHost,
         FreedInv, ReportInv, ReportedWhenSettled, NeverStuckTrying, Alive, CTypeOK
<1>5. SocketsAccounted'
  BY <1>0, <1>01, ConnectorAssumption DEF SocketsAccounted, CTypeOK
<1> QED
  BY <1>1, <1>2, <1>3, <1>4, <1>5

\* The socket passes from the child to the object.
LEMMA ChildPublishInv ==
  ASSUME CInv, NEW t \in Threads, ChildPublish(t), ~freed PROVE CInv'
<1> USE DEF CInv, ChildPublish, osvars
<1>0. /\ x_fd = NoFd /\ x_childthread_result = 0
      /\ \A u \in Threads : child[u] # "none" => u = t
  BY DEF OneConnector, Alive
<1>01. childFd[t] \in Fds
  BY DEF ChildFdInv, Connected
<1>1. CTypeOK'
  BY <1>01 DEF CTypeOK, ChildStates
<1>2. OneConnector'
  BY <1>0 DEF OneConnector, Alive, CTypeOK
<1>3. ChildFdInv' /\ ChildTargetInv'
  BY <1>0 DEF CTypeOK, ChildFdInv, ChildTargetInv, Connected
<1>4. ClockInv' /\ StateMatchesSocket' /\ ConnectedToNamedHost' /\ FreedInv' /\ ReportInv'
  BY <1>0, <1>01, ConnectorAssumption
  DEF ClockInv, StateMatchesSocket, ConnectedToNamedHost, ChildTargetInv,
         FreedInv, ReportInv, ReportedWhenSettled, NeverStuckTrying, CTypeOK
<1>5. SocketsAccounted'
  BY <1>0, <1>01, ConnectorAssumption DEF SocketsAccounted, CTypeOK
<1> QED
  BY <1>1, <1>2, <1>3, <1>4, <1>5

\* After the object is gone its child only becomes undefined.
LEMMA ChildAfterFreeInv ==
  ASSUME CInv, NEW t \in Threads, ChildAfterFree(t) PROVE CInv'
<1> USE DEF CInv, ChildAfterFree, connvars, osvars
<1>1. CTypeOK'
  BY DEF CTypeOK, ChildStates
<1>2. OneConnector'
  BY DEF OneConnector, Alive, CTypeOK
<1>3. ChildFdInv' /\ ChildTargetInv'
  BY DEF CTypeOK, ChildFdInv, ChildTargetInv, Connected
<1>4. ClockInv' /\ StateMatchesSocket' /\ ConnectedToNamedHost' /\ FreedInv' /\ ReportInv'
  BY DEF ClockInv, StateMatchesSocket, ConnectedToNamedHost, FreedInv, ReportInv,
         ReportedWhenSettled, NeverStuckTrying
<1>5. SocketsAccounted'
  BY DEF SocketsAccounted
<1> QED
  BY <1>1, <1>2, <1>3, <1>4, <1>5

-----------------------------------------------------------------------------
(* The theorems.                                                           *)

\* CInv is inductive.
LEMMA CNextInv == CInv /\ [CNext]_cvars => CInv'
<1> SUFFICES ASSUME CInv, [CNext]_cvars PROVE CInv'
  OBVIOUS
<1>1. ASSUME NEW h \in Hosts, Connect(h) PROVE CInv'
  BY <1>1, ConnectInv
<1>2. CASE Disconnect
  BY <1>2, DisconnectInv
<1>3. CASE Notify
  BY <1>3, NotifyInv
<1>4. CASE Free
  BY <1>4, FreeInv
<1>5. CASE New
  BY <1>5, NewInv
<1>6. ASSUME NEW t \in Threads, ChildStep(t) PROVE CInv'
  BY <1>6, ChildCopyHostInv, ChildSocketInv, ChildResolveInv, ChildConnectInv,
     ChildPublishInv DEF ChildStep
<1>7. ASSUME NEW t \in Threads, ChildAfterFree(t) PROVE CInv'
  BY <1>7, ChildAfterFreeInv
<1>8. CASE UNCHANGED cvars
  <2> USE <1>8 DEF cvars, connvars, childvars, osvars, CInv
  <2>1. CTypeOK' /\ OneConnector' /\ ChildFdInv' /\ ChildTargetInv'
    BY DEF CTypeOK, OneConnector, Alive, ChildFdInv, ChildTargetInv
  <2>2. ClockInv' /\ StateMatchesSocket' /\ ConnectedToNamedHost' /\ FreedInv' /\ ReportInv'
    BY DEF ClockInv, StateMatchesSocket, ConnectedToNamedHost, FreedInv, ReportInv,
           ReportedWhenSettled, NeverStuckTrying, Alive
  <2>3. SocketsAccounted'
    BY DEF SocketsAccounted
  <2> QED
    BY <2>1, <2>2, <2>3
<1> QED
  BY <1>1, <1>2, <1>3, <1>4, <1>5, <1>6, <1>7, <1>8 DEF CNext

\* The inductive invariant holds throughout.
THEOREM ConnectorInvariant == CSpec => []CInv
  BY CInitInv, CNextInv, PTL DEF CSpec

\* Type correctness.
THEOREM ConnectorTypeCorrect == CSpec => []CTypeOK
<1>1. CInv => CTypeOK
  BY DEF CInv
<1> QED
  BY <1>1, ConnectorInvariant, PTL

\* The comment on x_childthread_result is true: while a child exists the
\* field is zero, and there is never more than one.
THEOREM AtMostOneConnector == CSpec => []OneConnector
<1>1. CInv => OneConnector
  BY DEF CInv
<1> QED
  BY <1>1, ConnectorInvariant, PTL

\* No open descriptor is lost except on the path of a bad host name, and
\* none is closed while it is in use.
THEOREM NoSocketLost == CSpec => []SocketsAccounted
<1>1. CInv => SocketsAccounted
  BY DEF CInv
<1> QED
  BY <1>1, ConnectorInvariant, PTL

\* Both, as one run checks them.
THEOREM OneChildAndItsSocket == CSpec => []OneConnectorOneSocket
BY AtMostOneConnector, NoSocketLost, PTL DEF OneConnectorOneSocket

\* The state reported to the patch is the state of the socket, and the socket
\* is connected to the destination the object names.
THEOREM SocketIsWhatItSays == CSpec => [](StateMatchesSocket /\ ConnectedToNamedHost)
<1>1. CInv => StateMatchesSocket /\ ConnectedToNamedHost
  BY DEF CInv
<1> QED
  BY <1>1, ConnectorInvariant, PTL

\* The object refuses to connect only while something is trying, and the
\* patch knows the state once it is settled.
THEOREM ReportsAreTimely == CSpec => [](NeverStuckTrying /\ ReportedWhenSettled)
<1>1. CInv => NeverStuckTrying /\ ReportedWhenSettled
  BY DEF CInv, ReportInv
<1> QED
  BY <1>1, ConnectorInvariant, PTL

-----------------------------------------------------------------------------
(* The refinement.  Where a child is alive the object tries, and nothing    *)
(* else of it is to be seen; where none is, it is what x_fd and the clock   *)
(* say.                                                                     *)

LEMMA ObjectTrying ==
  ASSUME CInv, ~freed, NEW t \in Threads, Alive(t)
  PROVE  object = [phase |-> "trying", to |-> NoHost, asked |-> x_host]
BY DEF CInv, OneConnector, object

LEMMA ObjectWithoutChild ==
  ASSUME CInv, \A t \in Threads : ~Alive(t)
  PROVE  object = [phase |-> IF clock THEN "due" ELSE "rest",
                   to    |-> IF x_fd = NoFd THEN NoHost ELSE x_host,
                   asked |-> NoHost]
BY DEF CInv, FreedInv, object

LEMMA ObjectFreed ==
  ASSUME CInv, freed
  PROVE  object = Object!AtRest
BY DEF CInv, FreedInv, object, Object!AtRest

\* An early return: the only child is gone, and there is no socket.
LEMMA GivenUp ==
  ASSUME CInv, CInv', ~freed, UNCHANGED <<freed, x_fd, clock, x_host>>,
         NEW t \in Threads, Alive(t), child' = [child EXCEPT ![t] = "none"]
  PROVE  object' \in Object!Steps(object)
<1>1. x_fd = NoFd /\ ~clock /\ \A u \in Threads : u # t => child[u] = "none"
  BY DEF CInv, OneConnector, Alive
<1>2. \A u \in Threads : ~(Alive(u)')
  BY <1>1 DEF CInv, CTypeOK, Alive
<1>3. object' = Object!AtRest
  BY <1>1, <1>2 DEF object, Object!AtRest
<1> QED
  BY <1>3 DEF Object!Steps

\* A step of the child that is not its last is not to be seen.
LEMMA StillTrying ==
  ASSUME CInv, CInv', ~freed, UNCHANGED <<freed, x_host>>,
         NEW t \in Threads, Alive(t), Alive(t)'
  PROVE  object' = object
<1>1. object = [phase |-> "trying", to |-> NoHost, asked |-> x_host]
  BY ObjectTrying
<1>2. x_fd' = NoFd
  BY DEF CInv, OneConnector
<1>3. object' = [phase |-> "trying", to |-> NoHost, asked |-> x_host]
  BY <1>2 DEF object
<1> QED
  BY <1>1, <1>3

\* The steps of the child.
LEMMA ChildPromise ==
  ASSUME CInv, CInv', NEW t \in Threads, ChildStep(t)
  PROVE  object' \in Object!Steps(object) \/ object' = object
<1> USE DEF ChildStep
<1>1. ~freed /\ Alive(t) /\ UNCHANGED <<freed, x_host>>
  BY DEF ChildCopyHost, ChildSocket, ChildResolve, ChildConnect, ChildPublish,
         connvars, Alive
<1>2. CASE ~ChildPublish(t)
  <2>1. \/ child' = [child EXCEPT ![t] = "none"]
        \/ child' = [child EXCEPT ![t] = "socket"]
        \/ child' = [child EXCEPT ![t] = "resolve"]
        \/ child' = [child EXCEPT ![t] = "connect"]
        \/ child' = [child EXCEPT ![t] = "publish"]
    BY <1>2 DEF ChildCopyHost, ChildSocket, ChildResolve, ChildConnect, ChildGivesUp
  <2>2. UNCHANGED <<x_fd, clock>>
    BY <1>2 DEF ChildCopyHost, ChildSocket, ChildResolve, ChildConnect, connvars
  <2>3. CASE child' = [child EXCEPT ![t] = "none"]
    BY <1>1, <2>2, <2>3, GivenUp
  <2>4. CASE child' # [child EXCEPT ![t] = "none"]
    <3>1. Alive(t)'
      BY <2>1, <2>4 DEF CInv, CTypeOK, Alive
    <3> QED
      BY <1>1, <3>1, StillTrying
  <2> QED
    BY <2>3, <2>4
<1>3. CASE ChildPublish(t)
  <2>1. object = [phase |-> "trying", to |-> NoHost, asked |-> x_host]
    BY <1>1, ObjectTrying
  <2>2. x_fd' # NoFd /\ clock'
    BY <1>3, ConnectorAssumption DEF ChildPublish, CInv, ChildFdInv, Connected, CTypeOK
  <2>3. \A u \in Threads : ~(Alive(u)')
    BY <2>2 DEF CInv, OneConnector
  <2>4. object' = [phase |-> "due", to |-> x_host, asked |-> NoHost]
    BY <1>1, <2>2, <2>3 DEF object
  <2>5. object' \in Object!Progress(object)
    BY <2>1, <2>4 DEF Object!Progress, Object!Connected
  <2> QED
    BY <2>5 DEF Object!Steps
<1> QED
  BY <1>2, <1>3

\* The messages, the clock, creation and deletion.
LEMMA MessagePromise ==
  ASSUME CInv, CInv',
         (\E h \in Hosts : Connect(h)) \/ Disconnect \/ Notify \/ Free \/ New
  PROVE  object' \in Object!Steps(object) \/ object' = object
<1>1. ASSUME NEW h \in Hosts, Connect(h)
      PROVE  object' \in Object!Steps(object) \/ object' = object
  <2>1. ~freed /\ x_fd = NoFd /\ ~clock /\ \A t \in Threads : ~Alive(t)
    BY <1>1 DEF Connect, CInv, ClockInv, OneConnector
  <2>2. object = Object!AtRest
    BY <2>1, ObjectWithoutChild DEF Object!AtRest
  <2>3. UNCHANGED <<freed, x_fd, clock>> /\ x_host' = h
    BY <1>1 DEF Connect
  <2>4. CASE child' = child
    <3>1. \A t \in Threads : ~(Alive(t)')
      BY <2>1, <2>4 DEF Alive
    <3>2. object' = Object!AtRest
      BY <2>1, <2>3, <3>1 DEF object, Object!AtRest
    <3> QED
      BY <2>2, <3>2
  <2>5. ASSUME NEW t \in Threads, child' = [child EXCEPT ![t] = "start"]
        PROVE  object' \in Object!Steps(object) \/ object' = object
    <3>1. Alive(t)'
      BY <2>5 DEF CInv, CTypeOK, Alive
    <3>2. object' = [phase |-> "trying", to |-> NoHost, asked |-> h]
      BY <2>1, <2>3, <3>1 DEF object
    <3>3. object' = Object!TakeConnect(object, h)
      BY <2>2, <3>2 DEF Object!TakeConnect, Object!Accepts, Object!AtRest
    <3> QED
      BY <3>3 DEF Object!Steps
  <2> QED
    BY <1>1, <2>4, <2>5 DEF Connect, StartChild
<1>2. CASE Disconnect
  <2>1. ~freed /\ x_fd # NoFd /\ \A t \in Threads : ~Alive(t)
    BY <1>2 DEF Disconnect, CInv, OneConnector
  <2>2. x_fd' = NoFd /\ UNCHANGED <<clock, child, freed, x_host>>
    BY <1>2 DEF Disconnect, CloseSocket, childvars
  <2>3. \A t \in Threads : ~(Alive(t)')
    BY <2>1, <2>2 DEF Alive
  <2>4. object = [phase |-> IF clock THEN "due" ELSE "rest", to |-> x_host,
                  asked |-> NoHost]
    BY <2>1, ObjectWithoutChild
  <2>5. object' = [phase |-> IF clock THEN "due" ELSE "rest", to |-> NoHost,
                   asked |-> NoHost]
    BY <2>1, <2>2, <2>3 DEF object
  <2>6. object' = Object!TakeDisconnect(object)
    BY <2>4, <2>5 DEF Object!TakeDisconnect
  <2> QED
    BY <2>6 DEF Object!Steps
<1>3. CASE Notify
  <2>1. ~freed /\ clock /\ \A t \in Threads : ~Alive(t)
    BY <1>3 DEF Notify, CInv, OneConnector
  <2>2. ~clock' /\ UNCHANGED <<x_fd, child, freed, x_host>>
    BY <1>3 DEF Notify, childvars
  <2>3. \A t \in Threads : ~(Alive(t)')
    BY <2>1, <2>2 DEF Alive
  <2>4. object.phase = "due" /\ object' = Object!Connected(object.to, "rest")
    BY <2>1, <2>2, <2>3 DEF object, Object!Connected
  <2>5. object' \in Object!Progress(object)
    BY <2>4 DEF Object!Progress
  <2> QED
    BY <2>5 DEF Object!Steps
<1>4. CASE Free \/ New
  <2>1. object' = Object!AtRest
    <3>1. CASE Free
      <4>1. freed' /\ x_fd' = NoFd
        BY <3>1 DEF Free, CloseSocket
      <4> QED
        BY <4>1 DEF object, Object!AtRest
    <3>2. CASE New
      <4>1. ~freed' /\ x_fd' = NoFd /\ ~clock' /\ \A t \in Threads : ~(Alive(t)')
        BY <3>2 DEF New, Fresh, childvars, Alive
      <4> QED
        BY <4>1 DEF object, Object!AtRest
    <3> QED
      BY <1>4, <3>1, <3>2
  <2> QED
    BY <2>1 DEF Object!Steps
<1> QED
  BY <1>1, <1>2, <1>3, <1>4

\* Threads, sockets and the clock of udpsend~ are not to be noticed by who
\* sends it messages: it implements ConnectorObject.
THEOREM ImplementsConnectorObject == CSpec => KeepsPromise
<1>1. CInit => object = Object!AtRest
  BY DEF CInit, Fresh, object, Object!AtRest, Alive
<1>2. CInv /\ CInv' /\ [CNext]_cvars => [object' \in Object!Steps(object)]_object
  <2> SUFFICES ASSUME CInv, CInv', [CNext]_cvars
               PROVE  object' \in Object!Steps(object) \/ object' = object
    OBVIOUS
  <2>1. CASE (\E h \in Hosts : Connect(h)) \/ Disconnect \/ Notify \/ Free \/ New
    BY <2>1, MessagePromise
  <2>2. ASSUME NEW t \in Threads, ChildStep(t)
        PROVE  object' \in Object!Steps(object) \/ object' = object
    BY <2>2, ChildPromise
  <2>3. ASSUME NEW t \in Threads, ChildAfterFree(t)
        PROVE  object' = object
    <3>1. freed /\ freed'
      BY <2>3 DEF ChildAfterFree, connvars
    <3>2. object = Object!AtRest /\ object' = Object!AtRest
      BY <3>1, ObjectFreed DEF CInv, FreedInv, object, Object!AtRest
    <3> QED
      BY <3>2
  <2>4. CASE UNCHANGED cvars
    BY <2>4 DEF cvars, connvars, childvars, object, Alive
  <2> QED
    BY <2>1, <2>2, <2>3, <2>4 DEF CNext
<1> QED
  BY <1>1, <1>2, ConnectorInvariant, PTL DEF CSpec, KeepsPromise

\* What Pd and the choice of x_blocksize give when dsp's check does its work:
\* powers of two no larger than x_blocksize.
VecSizesFit ==
  \A v \in VecSizes \cup {DefaultVecSize} : v <= BlockSize /\ BlockSize % v = 0

-----------------------------------------------------------------------------
(* The connection part.                                                    *)

\* Every step of udpsend~ is a step of its connection part or leaves it alone.
LEMMA StepRefines == [Next]_vars => [CNext]_cvars
<1> SUFFICES ASSUME [Next]_vars PROVE [CNext]_cvars
  OBVIOUS
<1>1. ASSUME NEW h \in Hosts, ConnectTilde(h) PROVE CNext
  BY <1>1 DEF ConnectTilde, CNext
<1>2. CASE DisconnectTilde \/ NotifyTilde \/ FreeTilde \/ NewTilde
  BY <1>2 DEF DisconnectTilde, NotifyTilde, FreeTilde, NewTilde, CNext
<1>3. ASSUME NEW t \in Threads, ChildStep(t) \/ ChildAfterFree(t) PROVE CNext
  BY <1>3 DEF CNext
<1>4. ASSUME NEW c \in 0..NInlets, Channels(c) PROVE UNCHANGED cvars
  BY <1>4 DEF Channels
<1>5. ASSUME NEW f \in Formats, Format(f) PROVE UNCHANGED cvars
  BY <1>5 DEF Format
<1>6. ASSUME NEW n \in VecSizes, Dsp(n) \/ DspOff \/ Perform(n) PROVE UNCHANGED cvars
  BY <1>6 DEF Dsp, DspOff, Perform
<1>7. CASE DspOff
  BY <1>7 DEF DspOff
<1>8. CASE DisconnectAfterFailure
  BY <1>8 DEF DisconnectAfterFailure, CNext
<1>9. CASE UNCHANGED vars
  BY <1>9 DEF vars
<1> QED
  BY <1>1, <1>2, <1>3, <1>4, <1>5, <1>6, <1>7, <1>8, <1>9 DEF Next

\* The connection part's invariant holds of the whole.
LEMMA TildeCInv == Spec => []CInv
<1>1. Init => CInit
  BY DEF Init
<1>2. Spec => CSpec
  BY <1>1, StepRefines, PTL DEF Spec, CSpec
<1> QED
  BY <1>2, ConnectorInvariant

-----------------------------------------------------------------------------
(* A failed send.                                                          *)

FailedInv ==
  /\ pd \in {"idle", "sendfailed"}
  /\ pd = "sendfailed" => (x_fd = failedFd /\ x_fd # NoFd)

\* In the window between the unlock after a failed send and the lock of
\* disconnect, the only other thread that could run does not exist: a child
\* is started only while there is no socket.
THEOREM FailedSocketIsClosed == Spec => []ClosesTheFailedSocket
<1>1. Init => FailedInv
  BY DEF Init, FailedInv
<1>2. CInv /\ FailedInv /\ [Next]_vars => FailedInv'
  <2> SUFFICES ASSUME CInv, FailedInv, [Next]_vars PROVE FailedInv'
    OBVIOUS
  <2> USE DEF FailedInv
  <2>1. ASSUME NEW h \in Hosts, ConnectTilde(h) PROVE FailedInv'
    BY <2>1 DEF ConnectTilde
  <2>2. CASE DisconnectTilde \/ NotifyTilde
    BY <2>2 DEF DisconnectTilde, NotifyTilde, audiovars
  <2>3. CASE FreeTilde
    BY <2>3 DEF FreeTilde
  <2>4. CASE NewTilde
    BY <2>4 DEF NewTilde, New, Fresh, CInv, FreedInv
  <2>5. ASSUME NEW t \in Threads, ChildStep(t), UNCHANGED audiovars PROVE FailedInv'
    <3>1. x_fd = NoFd
      BY <2>5 DEF CInv, OneConnector, Alive, ChildStep, ChildCopyHost, ChildSocket,
                  ChildResolve, ChildConnect, ChildPublish
    <3> QED
      BY <2>5, <3>1 DEF audiovars
  <2>6. ASSUME NEW t \in Threads, ChildAfterFree(t), UNCHANGED audiovars PROVE FailedInv'
    BY <2>6 DEF ChildAfterFree, connvars, audiovars
  <2>7. ASSUME NEW c \in 0..NInlets, Channels(c) PROVE FailedInv'
    BY <2>7 DEF Channels, cvars, connvars
  <2>8. ASSUME NEW f \in Formats, Format(f) PROVE FailedInv'
    BY <2>8 DEF Format, cvars, connvars
  <2>9. ASSUME NEW n \in VecSizes, Dsp(n) PROVE FailedInv'
    BY <2>9 DEF Dsp, cvars, connvars
  <2>10. CASE DspOff
    BY <2>10 DEF DspOff, cvars, connvars
  <2>11. ASSUME NEW n \in VecSizes, Perform(n) PROVE FailedInv'
    BY <2>11 DEF Perform, PerformBlock, PerformNoSocket, PerformSend,
                 PerformSendFails, cvars, connvars
  <2>12. CASE DisconnectAfterFailure
    BY <2>12 DEF DisconnectAfterFailure
  <2>13. CASE UNCHANGED vars
    BY <2>13 DEF vars, cvars, connvars, audiovars
  <2> QED
    BY <2>1, <2>2, <2>3, <2>4, <2>5, <2>6, <2>7, <2>8, <2>9, <2>10, <2>11,
       <2>12, <2>13 DEF Next
<1>3. FailedInv => ClosesTheFailedSocket
  BY DEF FailedInv, ClosesTheFailedSocket
<1> QED
  BY <1>1, <1>2, <1>3, TildeCInv, PTL DEF Spec

-----------------------------------------------------------------------------
(* Assembly of a frame.                                                    *)

AssemblyInv ==
  /\ AudioTypeOK
  /\ x_blockspersend = BlockSize \div x_vecsize
  /\ x_blockssincesend = 0 \/ x_blockssincesend < x_blockspersend
  /\ FrameInAssembly

\* The fields udpsend_tilde_new sets.
LEMMA InitialAssembly ==
  ASSUME InitialParams(x_format, x_channels, x_tag),
         InitialBlocks(x_vecsize, x_blockspersend, x_blockssincesend, x_count, x_cbuf),
         chain = 0, pd \in {"idle", "sendfailed"}, failedFd \in Fds \cup {NoFd}
  PROVE  AssemblyInv
<1>1. BlockSize \div DefaultVecSize \in Nat
  BY TildeAssumption, FormatAssumption, SourceAssumption, DivBounds
<1>2. AudioTypeOK
  BY <1>1, TildeAssumption, FormatAssumption, SourceAssumption
  DEF InitialParams, InitialBlocks, AudioTypeOK, Formats, AllStale, FirstTag
<1>3. FrameInAssembly
  BY TildeAssumption, FormatAssumption, SourceAssumption DEF InitialBlocks, FrameInAssembly, AllStale
<1> QED
  BY <1>1, <1>2, <1>3 DEF AssemblyInv, InitialBlocks

\* A block written by perform extends the frame in assembly, or completes it
\* and leaves x_cbuf to the next one.
LEMMA PerformAssembly ==
  ASSUME CTypeOK, AssemblyInv, NEW n \in VecSizes, Perform(n) PROVE AssemblyInv'
<1> DEFINE b == NextBlock(n)
           per == BlockSize \div n
<1>0. n \in Nat \ {0} /\ BlockSize \in Nat \ {0} /\ CountModulus \in Nat \ {0}
  BY TildeAssumption, FormatAssumption, SourceAssumption
<1>1. per \in Nat /\ per <= BlockSize
  BY <1>0, DivBounds
<1>2. BlocksPer(n) = per
  BY DEF BlocksPer, AssemblyInv
<1>3. b \in 0..BlockSize /\ (b = 0 \/ b < per)
  BY <1>0 DEF NextBlock, AssemblyInv, AudioTypeOK
<1>4. x_vecsize' = n /\ x_blockspersend' = per /\ chain' = chain
      /\ x_format' = x_format /\ x_channels' = x_channels
  BY <1>2 DEF Perform, paramvars
<1>5. CASE PerformBlock(n)
  <2> USE <1>5 DEF PerformBlock, fvars
  <2>1. b < per - 1 /\ x_blockssincesend' = b + 1 /\ x_tag' = x_tag
    BY <1>2 DEF InMidFrame
  <2>2. \A i \in 0..BlockSize :
          x_cbuf'[i] = IF i < b + 1 THEN Layout(n) ELSE Stale
    <3>1. CASE n = x_vecsize
      BY <3>1, <1>3 DEF Written, NextBlock, AssemblyInv, FrameInAssembly, AudioTypeOK
    <3>2. CASE n # x_vecsize
      BY <3>2, <1>3 DEF Written, NextBlock, AllStale
    <3> QED
      BY <3>1, <3>2
  <2>3. FrameInAssembly'
    BY <2>1, <2>2, <1>4 DEF FrameInAssembly, Layout
  <2>4. x_cbuf' \in [0..BlockSize -> Layouts \cup {Stale}]
    <3>1. Layout(n) \in Layouts
      BY DEF Layout, Layouts, AssemblyInv, AudioTypeOK
    <3>2. (IF n = x_vecsize THEN x_cbuf ELSE AllStale) \in [0..BlockSize -> Layouts \cup {Stale}]
      BY DEF AssemblyInv, AudioTypeOK, AllStale
    <3> QED
      BY <3>1, <3>2 DEF Written
  <2>5. AudioTypeOK'
    BY <2>1, <2>4, <1>0, <1>1, <1>3, <1>4 DEF AssemblyInv, AudioTypeOK
  <2> QED
    BY <2>1, <2>3, <2>5, <1>1, <1>3, <1>4 DEF AssemblyInv
<1>6. CASE ~PerformBlock(n)
  <2>1. /\ CompleteFrame(n)
        /\ x_tag' = x_tag \/ TakeOverParams
        /\ pd' \in {"idle", "sendfailed"} /\ failedFd' \in {failedFd, x_fd}
    BY <1>6 DEF Perform, PerformNoSocket, PerformSend, PerformSendFails
  <2>2. x_count' \in 0..(CountModulus - 1)
    BY <2>1, <1>0 DEF CompleteFrame, NextCount, AssemblyInv, AudioTypeOK
  <2>3. FrameInAssembly' /\ x_cbuf' \in [0..BlockSize -> Layouts \cup {Stale}]
    BY <2>1, <1>0 DEF CompleteFrame, FrameInAssembly, AllStale
  <2>4. x_tag'.format \in Formats /\ x_tag'.channels \in 0..NInlets
    BY <2>1 DEF TakeOverParams, AssemblyInv, AudioTypeOK
  <2>5. failedFd' \in Fds \cup {NoFd}
    BY <2>1 DEF CTypeOK, AssemblyInv, AudioTypeOK
  <2>6. AudioTypeOK'
    BY <2>1, <2>2, <2>3, <2>4, <2>5, <1>0, <1>1, <1>4
    DEF CompleteFrame, AssemblyInv, AudioTypeOK
  <2> QED
    BY <2>1, <2>3, <2>6, <1>4 DEF CompleteFrame, AssemblyInv
<1> QED
  BY <1>5, <1>6

\* AssemblyInv is inductive.
LEMMA AssemblyNext == CTypeOK /\ AssemblyInv /\ [Next]_vars => AssemblyInv'
<1> SUFFICES ASSUME CTypeOK, AssemblyInv, [Next]_vars PROVE AssemblyInv'
  OBVIOUS
<1>1. ASSUME UNCHANGED audiovars PROVE AssemblyInv'
  BY <1>1 DEF audiovars, paramvars, framevars, fvars, AssemblyInv, AudioTypeOK,
              FrameInAssembly, Layout
<1>2. ASSUME NEW h \in Hosts, ConnectTilde(h) PROVE AssemblyInv'
  BY <1>2, TildeAssumption, FormatAssumption, SourceAssumption
  DEF ConnectTilde, paramvars, AssemblyInv, AudioTypeOK, FrameInAssembly, Layout
<1>3. CASE DisconnectTilde \/ NotifyTilde
  BY <1>1, <1>3 DEF DisconnectTilde, NotifyTilde
<1>4. CASE FreeTilde
  BY <1>4 DEF FreeTilde, paramvars, framevars, fvars, AssemblyInv, AudioTypeOK,
              FrameInAssembly, Layout
<1>5. CASE NewTilde
  <2>1. /\ InitialParams(x_format', x_channels', x_tag')
        /\ InitialBlocks(x_vecsize', x_blockspersend', x_blockssincesend', x_count', x_cbuf')
        /\ chain' = 0 /\ pd' \in {"idle", "sendfailed"} /\ failedFd' \in Fds \cup {NoFd}
    BY <1>5 DEF NewTilde, AssemblyInv, AudioTypeOK
  <2>2. BlockSize \div DefaultVecSize \in Nat
    BY TildeAssumption, FormatAssumption, SourceAssumption, DivBounds
  <2>3. AudioTypeOK'
    BY <2>1, <2>2, TildeAssumption, FormatAssumption, SourceAssumption
    DEF InitialParams, InitialBlocks, AudioTypeOK, Formats, AllStale, FirstTag
  <2>4. FrameInAssembly'
    BY <2>1, TildeAssumption, FormatAssumption, SourceAssumption DEF InitialBlocks, FrameInAssembly, AllStale
  <2> QED
    BY <2>1, <2>3, <2>4 DEF AssemblyInv, InitialBlocks
<1>6. ASSUME NEW c \in 0..NInlets, Channels(c) PROVE AssemblyInv'
  BY <1>6 DEF Channels, framevars, fvars, AssemblyInv, AudioTypeOK, FrameInAssembly, Layout
<1>7. ASSUME NEW f \in Formats, Format(f) PROVE AssemblyInv'
  BY <1>7 DEF Format, FormatSet, framevars, fvars, AssemblyInv, AudioTypeOK,
              FrameInAssembly, Layout
<1>8. ASSUME NEW n \in VecSizes, Dsp(n) PROVE AssemblyInv'
  BY <1>8 DEF Dsp, paramvars, framevars, fvars, AssemblyInv, AudioTypeOK,
              FrameInAssembly, Layout
<1>9. CASE DspOff
  BY <1>9 DEF DspOff, paramvars, framevars, fvars, AssemblyInv, AudioTypeOK,
              FrameInAssembly, Layout
<1>10. CASE DisconnectAfterFailure
  BY <1>10 DEF DisconnectAfterFailure, paramvars, framevars, fvars, AssemblyInv,
               AudioTypeOK, FrameInAssembly, Layout
<1> QED
  BY <1>1, <1>2, <1>3, <1>4, <1>5, <1>6, <1>7, <1>8, <1>9, <1>10,
     PerformAssembly DEF Next, vars

\* The inductive invariant of frame assembly holds in every reachable state: it
\* is AudioTypeOK and FrameInAssembly, with the facts on x_vecsize and
\* x_blockspersend they rest on.
THEOREM AssemblyInvariant == Spec => []AssemblyInv
<1>1. Init => AssemblyInv
  BY InitialAssembly DEF Init
<1>2. CInv => CTypeOK
  BY DEF CInv
<1> QED
  BY <1>1, <1>2, TildeCInv, AssemblyNext, PTL DEF Spec

\* Type correctness of the DSP side.
THEOREM AudioTypeCorrect == Spec => []AudioTypeOK
<1>1. AssemblyInv => AudioTypeOK
  BY DEF AssemblyInv
<1> QED
  BY <1>1, AssemblyInvariant, PTL

\* Whatever messages and vector sizes come in mid-frame, the blocks collected
\* for a frame have one layout, the one its tag will announce.
THEOREM OneLayoutPerFrame == Spec => []FrameInAssembly
<1>1. AssemblyInv => FrameInAssembly
  BY DEF AssemblyInv
<1> QED
  BY <1>1, AssemblyInvariant, PTL

-----------------------------------------------------------------------------
(* The buffer.                                                             *)

\* With vector sizes that fit, perform writes inside x_cbuf in every state.
THEOREM BlocksStayInBuffer ==
  ASSUME VecSizesFit
  PROVE  Spec => []BlockFits
<1>1. AssemblyInv => BlockFits
  <2> SUFFICES ASSUME AssemblyInv, chain # 0
               PROVE  (NextBlock(chain) + 1) * chain * x_tag.channels * SizeOf(x_tag.format)
                        <= CbufSize
    BY DEF BlockFits
  <2> DEFINE b == NextBlock(chain)
             per == BlockSize \div chain
             ch == x_tag.channels
             sz == SizeOf(x_tag.format)
  <2>1. chain \in VecSizes /\ chain \in Nat \ {0} /\ BlockSize \in Nat /\ NInlets \in Nat
    BY TildeAssumption, FormatAssumption, SourceAssumption DEF AssemblyInv, AudioTypeOK
  <2>2. per \in Nat /\ per >= 1 /\ per * chain <= BlockSize
    BY <2>1, DivBounds, VecSizesFit DEF VecSizesFit
  <2>3. b \in Nat /\ b + 1 <= per
    BY <2>1, <2>2 DEF NextBlock, AssemblyInv, AudioTypeOK
  <2>4. (b + 1) * chain <= BlockSize /\ (b + 1) * chain \in Nat
    BY <2>1, <2>2, <2>3, MulMono
  <2>5. ch \in Nat /\ ch <= NInlets /\ sz \in 1..4
    BY <2>1 DEF AssemblyInv, AudioTypeOK, SizeOf
  <2>6. (b + 1) * chain * ch <= BlockSize * ch /\ (b + 1) * chain * ch \in Nat
    BY <2>4, <2>5, <2>1, MulMono
  <2>7. ch * BlockSize <= NInlets * BlockSize
    BY <2>5, <2>1, MulMono
  <2>8. (b + 1) * chain * ch <= BlockSize * NInlets
    BY <2>6, <2>7, <2>1, <2>5
  <2>9. ((b + 1) * chain * ch) * sz <= ((b + 1) * chain * ch) * 4
    BY <2>5, <2>6
  <2>10. ((b + 1) * chain * ch) * 4 <= (BlockSize * NInlets) * 4
    BY <2>1, <2>6, <2>8
  <2>11. CbufSize = (BlockSize * NInlets) * 4
    BY <2>1 DEF CbufSize, SizeOf
  <2> HIDE DEF b, ch, sz
  <2>12. (b + 1) * chain * ch * sz <= CbufSize
    BY <2>9, <2>10, <2>11, <2>6, <2>1, <2>5
  <2> QED
    BY <2>12 DEF b, ch, sz
<1> QED
  BY <1>1, AssemblyInvariant, PTL

\* With vector sizes that fit, the frame handed over covers x_blocksize sample
\* frames exactly.
THEOREM FramesAreWhole ==
  ASSUME VecSizesFit
  PROVE  Spec => []FrameIsWhole
<1>1. AssemblyInv => FrameIsWhole
  <2> SUFFICES ASSUME AssemblyInv, chain # 0, ~InMidFrame(chain),
                      NEW i \in 0..BlockSize
               PROVE  Written(chain)[i] =
                        IF i * chain < BlockSize THEN Layout(chain) ELSE Stale
    BY DEF FrameIsWhole
  <2> DEFINE b == NextBlock(chain)
             per == BlockSize \div chain
  <2>1. chain \in VecSizes /\ chain \in Nat \ {0} /\ BlockSize \in Nat \ {0}
    BY TildeAssumption, FormatAssumption, SourceAssumption DEF AssemblyInv, AudioTypeOK
  <2>2. per \in Nat /\ per >= 1 /\ per * chain = BlockSize /\ per <= BlockSize
    BY <2>1, DivBounds, VecSizesFit DEF VecSizesFit
  <2>3. BlocksPer(chain) = per
    BY DEF BlocksPer, AssemblyInv
  <2>4. b \in 0..BlockSize /\ (b = 0 \/ b < per)
    BY <2>1 DEF NextBlock, AssemblyInv, AudioTypeOK
  <2>5. b = per - 1
    BY <2>2, <2>3, <2>4 DEF InMidFrame
  <2>6. i < per <=> i * chain < BlockSize
    <3> HIDE DEF per
    <3>1. i \in Nat
      BY <2>1
    <3>2. CASE i < per
      <4>1. (i + 1) * chain <= per * chain
        BY <3>1, <3>2, <2>1, <2>2, MulMono
      <4>2. (i + 1) * chain = i * chain + chain /\ i * chain \in Nat
        BY <3>1, <2>1
      <4> QED
        BY <4>1, <4>2, <3>2, <2>1, <2>2
    <3>3. CASE per <= i
      <4>1. per * chain <= i * chain /\ i * chain \in Int
        BY <3>1, <3>3, <2>1, <2>2, MulMono
      <4> QED
        BY <4>1, <3>3, <3>1, <2>1, <2>2
    <3> QED
      BY <3>1, <3>2, <3>3, <2>2
  <2>7. Written(chain)[i] = IF i <= b THEN Layout(chain) ELSE Stale
    <3>1. CASE chain = x_vecsize
      BY <3>1, <2>4 DEF Written, NextBlock, AssemblyInv, FrameInAssembly, AudioTypeOK
    <3>2. CASE chain # x_vecsize
      BY <3>2, <2>4 DEF Written, NextBlock, AllStale
    <3> QED
      BY <3>1, <3>2
  <2> QED
    BY <2>2, <2>4, <2>5, <2>6, <2>7
<1> QED
  BY <1>1, AssemblyInvariant, PTL

-----------------------------------------------------------------------------
(* The frames the network sees.                                            *)

\* udpsend~ implements FrameSource: to the network it is one whole frame, or
\* the beginning of one, after the other.
THEOREM ImplementsSource == Spec => SourceSpec
<1>1. Init => FInit
  BY DEF Init, InitialParams, InitialBlocks, FInit
<1>2. AudioTypeOK /\ [Next]_vars => [FNext]_fvars
  <2> SUFFICES ASSUME AudioTypeOK, [Next]_vars PROVE [FNext]_fvars
    OBVIOUS
  <2>1. TakeOverParams => x_tag' \in Tags
    BY DEF TakeOverParams, AudioTypeOK, Tags
  <2>2. ASSUME NEW n \in VecSizes, Perform(n) PROVE [FNext]_fvars
    <3>1. CASE PerformBlock(n)
      BY <3>1 DEF PerformBlock
    <3>2. CASE PerformNoSocket(n)
      BY <2>1, <3>2 DEF PerformNoSocket, CompleteFrame, FNext, SkipFrame
    <3>3. CASE PerformSend(n)
      BY <2>1, <3>3 DEF PerformSend, CompleteFrame, FNext, SendFrame
    <3>4. ASSUME NEW k \in 0..Packets, PerformSendFails(n, k) PROVE FNext
      BY <3>4 DEF PerformSendFails, CompleteFrame, FNext, SendPart
    <3> QED
      BY <2>2, <3>1, <3>2, <3>3, <3>4 DEF Perform
  <2>3. ASSUME NEW h \in Hosts, ConnectTilde(h) PROVE FNext
    BY <2>3 DEF ConnectTilde, FNext, Restart
  <2>4. CASE NewTilde
    BY <2>4 DEF NewTilde, InitialParams, InitialBlocks, FNext, Restart
  <2>5. ASSUME UNCHANGED framevars PROVE [FNext]_fvars
    BY <2>5 DEF framevars
  <2>6. CASE DisconnectTilde \/ NotifyTilde \/ FreeTilde \/ DspOff
             \/ DisconnectAfterFailure \/ UNCHANGED vars
    BY <2>5, <2>6 DEF DisconnectTilde, NotifyTilde, FreeTilde, DspOff,
                      DisconnectAfterFailure, vars, audiovars
  <2>7. ASSUME \/ \E c \in 0..NInlets : Channels(c)
               \/ \E f \in Formats : Format(f)
               \/ \E n \in VecSizes : Dsp(n)
               \/ UNCHANGED audiovars
        PROVE  [FNext]_fvars
    BY <2>5, <2>7 DEF Channels, Format, Dsp, audiovars
  <2> QED
    BY <2>2, <2>3, <2>4, <2>6, <2>7 DEF Next
<1> QED
  BY <1>1, <1>2, AudioTypeCorrect, PTL DEF Spec, SourceSpec, FSpec
=============================================================================
