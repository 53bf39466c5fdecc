------------------------- MODULE UdpSendConnector -------------------------
(***************************************************************************)
(* The connection life cycle of the udpsend~ external: the messages        *)
(* "connect", "disconnect" and float, the detached child thread that       *)
(* resolves and connects, the clock that reports its success, and the      *)
(* creation and destruction of the object.                                 *)
(*                                                                         *)
(* Message handlers, the clock callback and DSP all run on the Pd thread,  *)
(* one at a time, and hold x_mutex over every access they make; a handler  *)
(* is one action here.  The child runs concurrently.  Its critical         *)
(* sections are one action each, and so is each of its unlocked parts      *)
(* between two system calls: the action ends with the write that the       *)
(* other thread can see.                                                   *)
(*                                                                         *)
(* A refused message ("already connected", "already trying to connect",    *)
(* disconnecting what is not connected) changes nothing but the console:   *)
(* it is a stuttering step and has no action.                              *)
(*                                                                         *)
(* The outlet is called with x_mutex held, which is not recursive: when    *)
(* the patch answers with a message to the object, or waits in any other   *)
(* way for x_mutex, Pd's thread waits for itself.                          *)
(***************************************************************************)
EXTENDS Integers, FiniteSets

CONSTANTS
  Threads,   \* threads pthread_create can start; all busy: creation fails
  Fds,       \* descriptors of the process; all open: socket() fails
  NoFd,      \* -1
  Hosts,     \* destinations, each a host name together with a port
  NoHost     \* none of them

ASSUME ConnectorAssumption ==
  /\ NoFd \notin Fds
  /\ Hosts # {}
  /\ NoHost \notin Hosts

NO_CHILDTHREAD == 1
EAGAIN == 35                  \* what a failing pthread_* call returns
DefaultHost == CHOOSE h \in Hosts : TRUE

VARIABLES
  \* fields of t_udpsend_tilde
  x_fd, x_connectstate, x_childthread_result, x_host,
  clock,      \* is x_clock set, so that notify will be called
  freed,      \* the object is deleted
  stuck,      \* Pd's thread waits for x_mutex, which it has got
  \* the child threads
  child,      \* where each one is; "none" when it does not exist
  childHost,  \* its copy of x_hostname and x_portno
  childAddr,  \* the address gethostbyname gave it
  childFd,    \* its sockfd
  \* the operating system
  open,       \* open descriptors
  peer,       \* whom each descriptor was last connected to
  \* history
  leaked,     \* descriptors whose only reference went out of scope
  reported    \* last value sent from the first outlet

connvars == <<x_fd, x_connectstate, x_childthread_result, x_host, clock, freed, stuck>>
childvars == <<child, childHost, childAddr, childFd>>
osvars == <<open, peer, leaked>>
cvars == <<connvars, childvars, osvars, reported>>

-----------------------------------------------------------------------------
(* Creation, and the messages of the Pd thread.                            *)

\* The fields as udpsend_tilde_new leaves them.
Fresh(fd, state, result, host, clk, gone) ==
  /\ fd = NoFd
  /\ state = 0
  /\ result = NO_CHILDTHREAD
  /\ host = DefaultHost
  /\ clk = FALSE
  /\ gone = FALSE

CInit ==
  /\ Fresh(x_fd, x_connectstate, x_childthread_result, x_host, clock, freed)
  /\ child = [t \in Threads |-> "none"]
  /\ childHost = [t \in Threads |-> DefaultHost]
  /\ childAddr = [t \in Threads |-> DefaultHost]
  /\ childFd = [t \in Threads |-> NoFd]
  /\ open = {}
  /\ peer = [f \in Fds |-> <<DefaultHost, DefaultHost>>]
  /\ leaked = {}
  /\ reported = 0
  /\ stuck = FALSE

\* What "connect" does once it accepts: start a child.  A failing pthread_*
\* call leaves its error in x_childthread_result, which is not zero.
StartChild ==
  \/ \E t \in Threads :
       /\ child[t] = "none"
       /\ child' = [child EXCEPT ![t] = "start"]
       /\ x_childthread_result' = 0
  \/ /\ x_childthread_result' = EAGAIN
     /\ child' = child

\* Mutant: "already trying to connect" is not checked.
ConnectAgain(h) ==
  /\ ~freed /\ ~stuck /\ x_fd = NoFd
  /\ x_host' = h
  /\ StartChild
  /\ UNCHANGED <<x_fd, x_connectstate, clock, freed, stuck, childHost, childAddr,
                 childFd, osvars, reported>>

\* Mutant: the destination is stored before the checks.
ConnectStoresFirst(h) ==
  /\ ~freed /\ ~stuck
  /\ x_host' = h
  /\ \/ x_childthread_result # 0 /\ x_fd = NoFd /\ StartChild
     \/ x_fd # NoFd /\ UNCHANGED <<x_childthread_result, child>>
  /\ UNCHANGED <<x_fd, x_connectstate, clock, freed, stuck, childHost, childAddr,
                 childFd, osvars, reported>>

\* Mutant: "already connected" is not checked.
ConnectWhileConnected(h) ==
  /\ ~freed /\ ~stuck /\ x_childthread_result # 0
  /\ x_host' = h
  /\ StartChild
  /\ UNCHANGED <<x_fd, x_connectstate, clock, freed, stuck, childHost, childAddr,
                 childFd, osvars, reported>>

\* "connect": refused while a connection exists or is being made.
Connect(h) ==
  /\ ~freed /\ ~stuck
  /\ x_childthread_result # 0
  /\ x_fd = NoFd
  /\ x_host' = h
  /\ StartChild
  /\ UNCHANGED <<x_fd, x_connectstate, clock, freed, stuck, childHost, childAddr,
                 childFd, osvars, reported>>

\* A float: 0 disconnects, anything else connects to where x_hostname and
\* x_portno already point, so it adds no behaviour to Connect.

\* Mutant: the patch is not told.
CloseSocketSilently ==
  /\ open' = open \ {x_fd} /\ x_fd' = NoFd /\ x_connectstate' = 0
  /\ UNCHANGED reported

\* The body of udpsend_tilde_disconnect when a socket is open.
CloseSocket ==
  /\ open' = open \ {x_fd}
  /\ x_fd' = NoFd
  /\ x_connectstate' = 0
  /\ reported' = 0

\* What the patch does with a number from the outlet, before it returns.
PatchAnswers == stuck' \in BOOLEAN

Disconnect ==
  /\ ~freed /\ ~stuck
  /\ x_fd # NoFd
  /\ CloseSocket
  /\ PatchAnswers
  /\ UNCHANGED <<x_childthread_result, x_host, clock, freed, childvars, peer, leaked>>

\* The clock callback.
Notify ==
  /\ ~freed /\ ~stuck
  /\ clock
  /\ clock' = FALSE
  /\ x_childthread_result' = NO_CHILDTHREAD
  /\ reported' = x_connectstate
  /\ PatchAnswers
  /\ UNCHANGED <<x_fd, x_connectstate, x_host, freed, childvars, osvars>>

\* udpsend_tilde_free: disconnect, then the memory, the clock and the mutex
\* go.  It does not wait for a child.  The outlet is not connected any more.
Free ==
  /\ ~freed /\ ~stuck
  /\ freed' = TRUE
  /\ clock' = FALSE
  /\ \/ x_fd # NoFd /\ CloseSocket
     \/ x_fd = NoFd /\ UNCHANGED <<open, x_fd, x_connectstate, reported>>
  /\ UNCHANGED <<x_childthread_result, x_host, stuck, childvars, peer, leaked>>

\* The patch creates the object again.  Not described while a child of the
\* deleted object still runs: what that child does is undefined.
New ==
  /\ freed /\ ~stuck
  /\ \A t \in Threads : child[t] = "none"
  /\ Fresh(x_fd', x_connectstate', x_childthread_result', x_host', clock', freed')
  /\ reported' = 0
  /\ UNCHANGED <<stuck, childvars, osvars>>

-----------------------------------------------------------------------------
(* The child thread, udpsend_tilde_doconnect.                              *)

\* Critical section: copy the destination.
ChildCopyHost(t) ==
  /\ child[t] = "start" /\ ~stuck
  /\ childHost' = [childHost EXCEPT ![t] = x_host]
  /\ child' = [child EXCEPT ![t] = "socket"]
  /\ UNCHANGED <<connvars, childAddr, childFd, osvars, reported>>

\* Mutant: an early return that leaves x_childthread_result alone.
ChildReturns(t) ==
  /\ child' = [child EXCEPT ![t] = "none"]
  /\ UNCHANGED x_childthread_result

\* The child's early returns: x_childthread_result is written without x_mutex.
ChildGivesUp(t) ==
  /\ x_childthread_result' = NO_CHILDTHREAD
  /\ child' = [child EXCEPT ![t] = "none"]

ChildSocket(t) ==
  /\ child[t] = "socket"
  /\ \/ \E f \in Fds \ open :
          /\ open' = open \cup {f}
          /\ childFd' = [childFd EXCEPT ![t] = f]
          /\ child' = [child EXCEPT ![t] = "resolve"]
          /\ UNCHANGED x_childthread_result
     \/ /\ ChildGivesUp(t)
        /\ UNCHANGED <<open, childFd>>
  /\ UNCHANGED <<x_fd, x_connectstate, x_host, clock, freed, stuck, childHost,
                 childAddr, peer, leaked, reported>>

\* gethostbyname is given x->x_hostname itself, not the copy, and outside the
\* lock.  When it fails, the thread returns without closing its socket.
ChildResolve(t) ==
  /\ child[t] = "resolve"
  /\ \/ /\ childAddr' = [childAddr EXCEPT ![t] = x_host]
        /\ child' = [child EXCEPT ![t] = "connect"]
        /\ UNCHANGED <<x_childthread_result, childFd, leaked>>
     \/ /\ ChildGivesUp(t)
        /\ leaked' = leaked \cup {childFd[t]}
        /\ childFd' = [childFd EXCEPT ![t] = NoFd]
        /\ UNCHANGED childAddr
  /\ UNCHANGED <<x_fd, x_connectstate, x_host, clock, freed, stuck, childHost,
                 open, peer, reported>>

\* Mutant: the socket of a failed connect() is not closed.
ChildConnectNoClose(t) ==
  /\ child[t] = "connect"
  /\ \/ /\ peer' = [peer EXCEPT ![childFd[t]] = <<childAddr[t], childHost[t]>>]
        /\ child' = [child EXCEPT ![t] = "publish"]
        /\ UNCHANGED <<x_childthread_result, childFd>>
     \/ /\ ChildGivesUp(t)
        /\ childFd' = [childFd EXCEPT ![t] = NoFd]
        /\ UNCHANGED peer
  /\ UNCHANGED <<x_fd, x_connectstate, x_host, clock, freed, stuck, childHost,
                 childAddr, open, leaked, reported>>

ChildConnect(t) ==
  /\ child[t] = "connect"
  /\ \/ /\ peer' = [peer EXCEPT ![childFd[t]] = <<childAddr[t], childHost[t]>>]
        /\ child' = [child EXCEPT ![t] = "publish"]
        /\ UNCHANGED <<x_childthread_result, childFd, open>>
     \/ /\ ChildGivesUp(t)
        /\ open' = open \ {childFd[t]}
        /\ childFd' = [childFd EXCEPT ![t] = NoFd]
        /\ UNCHANGED peer
  /\ UNCHANGED <<x_fd, x_connectstate, x_host, clock, freed, stuck, childHost,
                 childAddr, leaked, reported>>

\* Critical section: hand the socket over and set the clock.  (clock_delay
\* links it into the scheduler's list, which x_mutex does not protect; that
\* the Pd thread relinks the list at that moment is left out.)
ChildPublish(t) ==
  /\ child[t] = "publish" /\ ~stuck
  /\ x_fd' = childFd[t]
  /\ x_connectstate' = 1
  /\ clock' = TRUE
  /\ childFd' = [childFd EXCEPT ![t] = NoFd]
  /\ child' = [child EXCEPT ![t] = "none"]
  /\ UNCHANGED <<x_childthread_result, x_host, freed, stuck, childHost, childAddr,
                 osvars, reported>>

ChildStep(t) ==
  /\ ~freed
  /\ \/ ChildCopyHost(t) \/ ChildSocket(t) \/ ChildResolve(t)
     \/ ChildConnect(t) \/ ChildPublish(t)

\* The child goes on after the object, its mutex and its clock are gone.
ChildAfterFree(t) ==
  /\ freed
  /\ child[t] \notin {"none", "undefined"}
  /\ child' = [child EXCEPT ![t] = "undefined"]
  /\ UNCHANGED <<connvars, childHost, childAddr, childFd, osvars, reported>>

-----------------------------------------------------------------------------
CNext ==
  \/ \E h \in Hosts : Connect(h)
  \/ Disconnect
  \/ Notify
  \/ Free
  \/ New
  \/ \E t \in Threads : ChildStep(t) \/ ChildAfterFree(t)

CSpec == CInit /\ [][CNext]_cvars

\* The operating system runs every thread and every blocking call returns;
\* Pd's scheduler calls every clock that is due.
CFairness ==
  /\ \A t \in Threads : WF_cvars(ChildStep(t))
  /\ WF_cvars(Notify)

-----------------------------------------------------------------------------
(* Properties.                                                             *)

ChildStates ==
  {"none", "start", "socket", "resolve", "connect", "publish", "undefined"}

\* Every variable has its type.
CTypeOK ==
  /\ x_fd \in Fds \cup {NoFd}
  /\ x_connectstate \in {0, 1}
  /\ x_childthread_result \in {0, NO_CHILDTHREAD, EAGAIN}
  /\ x_host \in Hosts
  /\ clock \in BOOLEAN
  /\ freed \in BOOLEAN
  /\ stuck \in BOOLEAN
  /\ child \in [Threads -> ChildStates]
  /\ childHost \in [Threads -> Hosts]
  /\ childAddr \in [Threads -> Hosts]
  /\ childFd \in [Threads -> Fds \cup {NoFd}]
  /\ open \in SUBSET Fds
  /\ peer \in [Fds -> Hosts \X Hosts]
  /\ leaked \in SUBSET Fds
  /\ reported \in {0, 1}

Alive(t) == child[t] # "none"

\* "Zero if x_childthread represents a valid thread" (the comment on
\* x_childthread_result): at most one child exists, and while it does the
\* field is zero, so that connect refuses to start a second one, and no
\* socket is published under it.
OneConnector ==
  \A t \in Threads : Alive(t) =>
    /\ \A u \in Threads : Alive(u) => u = t
    /\ x_childthread_result = 0
    /\ x_fd = NoFd
    /\ ~clock

\* Connect answers "already trying to connect" only while something is
\* trying, or has succeeded and is about to be reported.  Every way out of
\* the child and the callback has to reset the field for this.
NeverStuckTrying ==
  (~freed /\ x_childthread_result = 0) => (clock \/ \E t \in Threads : Alive(t))

\* The state given to the patch and the socket the DSP thread sends on agree.
StateMatchesSocket == (x_connectstate = 1) <=> (x_fd # NoFd)

\* Every open descriptor is x_fd, or belongs to one child, or was leaked;
\* none is two of these, and none of them is closed.  A second child that
\* overwrote x_fd, or a path that forgot to close, breaks it.
SocketsAccounted ==
  /\ \A f \in Fds :
       f \in open <=> (f \in leaked \/ f = x_fd \/ \E t \in Threads : childFd[t] = f)
  /\ x_fd \notin leaked
  /\ \A t \in Threads : childFd[t] # NoFd =>
       /\ childFd[t] \notin leaked
       /\ childFd[t] # x_fd
       /\ \A u \in Threads : childFd[u] = childFd[t] => u = t

\* However connects, disconnects and the ends of children follow each other, there are
\* never two children at work, and no socket is lost or is in two hands.
OneConnectorOneSocket == OneConnector /\ SocketsAccounted

\* While connected, x_hostname and x_portno (which "info" prints and the float
\* message reconnects to) name the peer of the socket, though one half of the
\* address was read from the object without a lock and the other from a copy.
ConnectedToNamedHost == x_fd # NoFd => peer[x_fd] = <<x_host, x_host>>

\* Whenever no report is due, the last value the patch was given is the state.
ReportedWhenSettled == (~freed /\ ~clock) => reported = x_connectstate

\* An attempt to connect ends, one way or the other: the object does not
\* refuse "connect" for ever, unless Pd's thread is stuck.
AttemptEnds ==
  (~freed /\ x_childthread_result = 0) ~> (freed \/ x_childthread_result # 0 \/ stuck)

\* What the patch can tell of the object.
Object == INSTANCE ConnectorObject

object ==
  [phase |-> IF freed THEN "rest"
             ELSE IF \E t \in Threads : Alive(t) THEN "trying"
             ELSE IF clock THEN "due" ELSE "rest",
   to    |-> IF x_fd = NoFd THEN NoHost ELSE x_host,
   asked |-> IF ~freed /\ \E t \in Threads : Alive(t) THEN x_host ELSE NoHost]

\* Seen through its messages, udpsend~ does what ConnectorObject says: threads,
\* sockets and the clock are not to be noticed.  This is what the patch of
\* module Session relies on.
KeepsPromise == object = Object!AtRest /\ [][object' \in Object!Steps(object)]_object
=============================================================================
