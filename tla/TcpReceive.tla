---------------------------- MODULE TcpReceive ----------------------------
(***************************************************************************)
(* The tcpreceive external: objects that listen, accept up to              *)
(* MAX_CONNECTIONS connections each and keep a table of them.  All their   *)
(* functions are called from Pd's poll loop.                               *)
(*                                                                         *)
(* External are the peers and the kernel: descriptors are reused, lowest   *)
(* first, and both recv() and accept() block when there is nothing to get. *)
(* A message is abstracted to whether there is something unread.           *)
(***************************************************************************)
EXTENDS PollLoop

CONSTANTS
  Objs,            \* the objects of the patch, all created when it is loaded
  Conns,           \* peers; each has at most one connection at a time
  MAX_CONNECTIONS,
  MaxFd,           \* descriptors of the process
  Backlog          \* connections the kernel accepts ahead, 5 in the code

ASSUME TcpReceiveAssumption ==
  /\ Objs # {} /\ IsFiniteSet(Objs)
  /\ MAX_CONNECTIONS \in Nat \ {0}
  /\ MaxFd \in Nat /\ MaxFd >= Cardinality(Objs)
  /\ Backlog \in Nat \ {0}
  /\ {"none", "listening"} \cap Conns = {}

VARIABLES
  x_connectsocket, x_nconnections, x_connection,
  \* kernel and peers
  backlog, \* connections to an object that it has not accepted
  fdconn,  \* the connection a descriptor is for
  peer,    \* "idle", "connected", or "closed" by the peer
  unread   \* peers whose data has not been received

tablevars == <<x_nconnections, x_connection>>
kernelvars == <<backlog, fdconn, peer, unread>>
vars == <<pollvars, tablevars, x_connectsocket, kernelvars>>

Fds == 1..MaxFd
Slots == 0..(MAX_CONNECTIONS - 1)
NoConn == "none"
Listening == "listening"
NoSocket == -1
FreeSlot == [socket |-> NoSocket, addr |-> NoConn]
FreeFds == {fd \in Fds : fdconn[fd] = NoConn}
Used(o) == {i \in Slots : x_connection[o][i].socket # NoSocket}

-----------------------------------------------------------------------------
(* Creation: the objects get the first descriptors, in some order.         *)

Init ==
  /\ x_connectsocket = CHOOSE f \in [Objs -> 1..Cardinality(Objs)] : IsInjective(f)
  /\ sys_fdpoll = [i \in 1..Cardinality(Objs) |->
                     [fd |-> i, fn |-> "connectpoll",
                      obj |-> CHOOSE o \in Objs : x_connectsocket[o] = i]]
  /\ PollInit
  /\ x_nconnections = [o \in Objs |-> 0]
  /\ x_connection = [o \in Objs |-> [i \in Slots |-> FreeSlot]]
  /\ backlog = [o \in Objs |-> <<>>]
  /\ fdconn = [fd \in Fds |-> IF fd <= Cardinality(Objs) THEN Listening ELSE NoConn]
  /\ peer = [c \in Conns |-> "idle"]
  /\ unread = {}

-----------------------------------------------------------------------------
(* Peers and kernel.                                                       *)

PeerConnect(c, o) ==
  /\ peer[c] = "idle"
  /\ x_connectsocket[o] # NoSocket
  /\ Len(backlog[o]) < Backlog
  /\ backlog' = [backlog EXCEPT ![o] = Append(@, c)]
  /\ peer' = [peer EXCEPT ![c] = "connected"]
  /\ UNCHANGED <<pollvars, tablevars, x_connectsocket, fdconn, unread>>

PeerSend(c) ==
  /\ peer[c] = "connected"
  /\ c \notin unread
  /\ unread' = unread \cup {c}
  /\ UNCHANGED <<pollvars, tablevars, x_connectsocket, backlog, fdconn, peer>>

\* An orderly close leaves what is unread to be read, a reset does not.
PeerClose(c) ==
  /\ peer[c] = "connected"
  /\ peer' = [peer EXCEPT ![c] = "closed"]
  /\ unread' \in {unread, unread \ {c}}
  /\ UNCHANGED <<pollvars, tablevars, x_connectsocket, backlog, fdconn>>

Readable(fd) ==
  IF fdconn[fd] = Listening
  THEN \E o \in Objs : x_connectsocket[o] = fd /\ backlog[o] # <<>>
  ELSE fdconn[fd] # NoConn /\ (fdconn[fd] \in unread \/ peer[fdconn[fd]] = "closed")

\* The connections cs are over.
Gone(cs) ==
  /\ peer' = [c \in Conns |-> IF c \in cs THEN "idle" ELSE peer[c]]
  /\ unread' = unread \ cs

-----------------------------------------------------------------------------
(* tcpreceive_connectpoll, for the object o at which the walk is.          *)

\* The table with a connection added in the first free slot.
Added(o, fd, c) ==
  LET i == CHOOSE j \in Slots \ Used(o) : \A k \in Slots \ Used(o) : j <= k
  IN  [x_connection EXCEPT ![o][i] = [socket |-> fd, addr |-> c]]

Connection(o) ==
  LET c == Head(backlog[o])
      fd == CHOOSE f \in FreeFds : \A g \in FreeFds : f <= g
  IN  /\ Used(o) # Slots
      /\ fdconn' = [fdconn EXCEPT ![fd] = c]
      /\ x_connection' = Added(o, fd, c)
      /\ sys_fdpoll' = Registered(sys_fdpoll, [fd |-> fd, fn |-> "read", obj |-> o])
      /\ x_nconnections' = [x_nconnections EXCEPT ![o] = @ + 1]
      /\ UNCHANGED <<peer, unread>>

\* Mutant: nothing is done about a connection there is no slot for.
TooManyStaysOpen(o) ==
  LET c == Head(backlog[o])
      fd == CHOOSE f \in FreeFds : \A g \in FreeFds : f <= g
  IN  /\ Used(o) = Slots
      /\ fdconn' = [fdconn EXCEPT ![fd] = c]
      /\ UNCHANGED <<sys_fdpoll, tablevars, peer, unread>>

\* "Too many connections": closed at once.
TooMany(o) ==
  /\ Used(o) = Slots
  /\ Gone({Head(backlog[o])})
  /\ UNCHANGED <<sys_fdpoll, tablevars, fdconn>>

ConnectPoll(o) ==
  /\ AtReadable
  /\ sys_fdpoll[at].fn = "connectpoll" /\ sys_fdpoll[at].obj = o
  /\ backlog[o] # <<>>
  /\ FreeFds # {}
  /\ backlog' = [backlog EXCEPT ![o] = Tail(@)]
  /\ Connection(o) \/ TooMany(o)
  /\ Called
  /\ UNCHANGED <<readset, x_connectsocket>>

\* accept() fails.
AcceptFails(o) ==
  /\ AtReadable
  /\ sys_fdpoll[at].fn = "connectpoll" /\ sys_fdpoll[at].obj = o
  /\ FreeFds = {}
  /\ Called
  /\ UNCHANGED <<sys_fdpoll, readset, tablevars, x_connectsocket, kernelvars>>

-----------------------------------------------------------------------------
(* tcpreceive_read, for the connection on fd.                              *)

ReadData(fd) ==
  /\ fdconn[fd] \in unread
  /\ unread' = unread \ {fdconn[fd]}
  /\ UNCHANGED <<sys_fdpoll, tablevars, backlog, fdconn, peer>>

Removed(o, fd) ==
  [x_connection EXCEPT ![o] = [i \in Slots |-> IF @[i].socket = fd THEN FreeSlot ELSE @[i]]]

\* EOF or an error.
ReadEnd(o, fd) ==
  /\ fdconn[fd] \notin unread
  /\ peer[fdconn[fd]] = "closed"
  /\ sys_fdpoll' = Unregistered(sys_fdpoll, fd)
  /\ fdconn' = [fdconn EXCEPT ![fd] = NoConn]
  /\ x_connection' = Removed(o, fd)
  /\ x_nconnections' = [x_nconnections EXCEPT ![o] = @ - 1]
  /\ Gone({fdconn[fd]})
  /\ UNCHANGED backlog

Read(o, fd) ==
  /\ AtReadable
  /\ sys_fdpoll[at] = [fd |-> fd, fn |-> "read", obj |-> o]
  /\ ReadData(fd) \/ ReadEnd(o, fd)
  /\ Called
  /\ UNCHANGED <<readset, x_connectsocket>>

-----------------------------------------------------------------------------
\* tcpreceive_free: the listening socket, then as many connections as
\* x_nconnections says, each with its slot.
SocketsOf(o) == {x_connectsocket[o]} \cup {x_connection[o][i].socket : i \in Used(o)}

Free(o) ==
  /\ at = 0
  /\ x_connectsocket[o] # NoSocket
  /\ sys_fdpoll' = AllUnregistered(sys_fdpoll, SocketsOf(o))
  /\ fdconn' = [fd \in Fds |-> IF fd \in SocketsOf(o) THEN NoConn ELSE fdconn[fd]]
  /\ x_connectsocket' = [x_connectsocket EXCEPT ![o] = NoSocket]
  /\ x_connection' = [x_connection EXCEPT ![o] = [i \in Slots |-> FreeSlot]]
  /\ x_nconnections' = [x_nconnections EXCEPT ![o] = 0]
  /\ backlog' = [backlog EXCEPT ![o] = <<>>]
  /\ Gone(Range(backlog[o]) \cup {x_connection[o][i].addr : i \in Used(o)})
  /\ UNCHANGED <<readset, at>>

-----------------------------------------------------------------------------
Round ==
  \/ Select({fd \in Fds : Readable(fd)}) /\ UNCHANGED <<tablevars, x_connectsocket, kernelvars>>
  \/ (Pass \/ EndRound) /\ UNCHANGED <<tablevars, x_connectsocket, kernelvars>>
  \/ \E o \in Objs : ConnectPoll(o) \/ AcceptFails(o)
  \/ \E o \in Objs, fd \in Fds : Read(o, fd)

Next ==
  \/ \E c \in Conns, o \in Objs : PeerConnect(c, o)
  \/ \E c \in Conns : PeerSend(c) \/ PeerClose(c)
  \/ Round
  \/ \E o \in Objs : Free(o)

Spec == Init /\ [][Next]_vars

\* Pd calls the poll loop again and again.
FairSpec == Spec /\ WF_vars(Round)

-----------------------------------------------------------------------------
(* Properties.                                                             *)

TypeOK ==
  /\ sys_fdpoll \in Seq([fd : Fds, fn : {"connectpoll", "read"}, obj : Objs])
  /\ readset \subseteq Fds
  /\ at \in 0..(MaxFd + 1)
  /\ x_connectsocket \in [Objs -> Fds \cup {NoSocket}]
  /\ x_nconnections \in [Objs -> 0..MAX_CONNECTIONS]
  /\ x_connection \in [Objs -> [Slots -> [socket : Fds \cup {NoSocket}, addr : Conns \cup {NoConn}]]]
  /\ backlog \in [Objs -> Seq(Conns)]
  /\ fdconn \in [Fds -> Conns \cup {NoConn, Listening}]
  /\ peer \in [Conns -> {"idle", "connected", "closed"}]
  /\ unread \subseteq Conns

\* The table, the poll list and the descriptors agree, across removals and
\* the reuse of descriptors: an entry of the table has the address of the
\* connection its socket is for, which is what goes to the address outlet; no
\* socket is in two entries; the sockets of the tables and the listening ones
\* are those that are open, and each is polled once, for its object; the count
\* the patch is told, by which closeall finds them, is that of the entries.
TableIsTrue ==
  /\ \A o \in Objs : x_nconnections[o] = Cardinality(Used(o))
  /\ \A o \in Objs : \A i \in Used(o) :
       /\ fdconn[x_connection[o][i].socket] = x_connection[o][i].addr
       /\ \E k \in DOMAIN sys_fdpoll :
            sys_fdpoll[k] = [fd |-> x_connection[o][i].socket, fn |-> "read", obj |-> o]
  /\ Len(sys_fdpoll) = Cardinality(PollFds)
  /\ PollFds = Fds \ FreeFds
  /\ PollFds = (UNION {SocketsOf(o) : o \in Objs}) \ {NoSocket}
  /\ \A o \in Objs : \A i \in Used(o) :
       /\ x_connection[o][i].socket # x_connectsocket[o]
       /\ \A j \in Used(o) \ {i} : x_connection[o][i].socket # x_connection[o][j].socket
  /\ \A o \in Objs : \A p \in Objs \ {o} : SocketsOf(o) \cap SocketsOf(p) \subseteq {NoSocket}

\* Pd never blocks in recv() or accept(): what the walk finds in readset is
\* readable, although select() was asked before the functions called earlier
\* in the round closed descriptors and accepted connections on them again.
NeverBlocks == AtReadable => Readable(sys_fdpoll[at].fd)

\* Both: of a descriptor, what the tables say, what the poll list says and what
\* select() has said of it stay true of the connection it is for at any moment.
DescriptorsAreTrue == TableIsTrue /\ NeverBlocks

Pending(c) == \E o \in Objs : c \in Range(backlog[o])

\* A peer that connects is accepted or turned away while there are descriptors,
\* what it sends then is read and its leaving is noticed, although an entry that
\* moves up in the list is skipped in that round, and however busy the other
\* peers are.
PeersAreServed ==
  \A c \in Conns :
    /\ Pending(c) ~> (~Pending(c) \/ FreeFds = {})
    /\ (c \in unread /\ ~Pending(c)) ~> c \notin unread
    /\ (peer[c] = "closed" /\ ~Pending(c)) ~> peer[c] # "closed"
=============================================================================
