-------------------------- MODULE MessageSockets --------------------------
(***************************************************************************)
(* The externals udpsend, tcpsend and udpreceive: objects of one patch,    *)
(* each with one socket, which share the descriptors of the process and    *)
(* Pd's poll loop.  All their functions run on Pd's thread: as messages    *)
(* between two rounds of the loop, or, when the patch answers what         *)
(* udpreceive puts out, from within a call of the loop.                    *)
(*                                                                         *)
(* External are the kernel (the lowest free descriptor is given, and a     *)
(* closed one makes select() fail) and what arrives at the sockets.        *)
(***************************************************************************)
EXTENDS PollLoop

CONSTANTS
  UdpSenders, TcpSenders, Receivers, \* objects
  Named,          \* receivers that are given an address, which may be multicast
  MaxFd,          \* descriptors of the process
  Messages,       \* arguments of send: sequences of items,
  BadItem,        \* of which this is one that is refused
  BYTE_BUF_LEN,   \* 65536 in the code
  MaxAffected, MaxLeaked \* bounds of the model

ASSUME MessageSocketsAssumption ==
  /\ UdpSenders \cap TcpSenders = {} /\ (UdpSenders \cup TcpSenders) \cap Receivers = {}
  /\ Named \subseteq Receivers
  /\ MaxFd \in Nat \ {0}
  /\ BYTE_BUF_LEN \in Nat \ {0}
  /\ \A m \in Messages :
       m \in Seq(Range(m)) /\ \A item \in Range(m) \ {BadItem} : item \in Seq(Range(item))
  /\ {"none", "closed"} \cap (UdpSenders \cup TcpSenders \cup Receivers) = {}

VARIABLES
  x_fd,               \* of the senders
  reported,           \* what a sender put out last: 1 connected, 0 not
  x_connectsocket,    \* of the receivers
  call,               \* udpreceive_read between recvfrom() and its end
  sending,            \* the loop in udpsend_send or tcpsend_send
  \* kernel
  sock,               \* the object that opened the socket of a descriptor
  ready,              \* descriptors at which there is something to receive
  \* history
  leaked,             \* open descriptors that no object has kept
  affected,           \* objects that closed their socket and kept its number,
                      \* and those whose socket was then closed by another
  fresh               \* descriptors opened since select() was asked, in a round

sendvars == <<x_fd, reported>>
history == <<leaked, affected, fresh>>
mvars == <<pollvars, sendvars, x_connectsocket, call, sending, sock, ready, history>>

Senders == UdpSenders \cup TcpSenders
Fds == 1..MaxFd
NoFd == -1
Closed == "closed"
NoCall == [obj |-> "none", failed |-> FALSE]
NotSending == [obj |-> "none", byte_buf |-> <<>>, sent |-> 0, parts |-> 0, wire |-> <<>>]
FreeFds(table) == {fd \in Fds : table[fd] = Closed}
Lowest(fds) == CHOOSE fd \in fds : \A g \in fds : fd <= g

MInit ==
  /\ sys_fdpoll = <<>> /\ PollInit
  /\ x_fd = [s \in Senders |-> NoFd]
  /\ reported = [s \in Senders |-> 0]
  /\ x_connectsocket = [r \in Receivers |-> NoFd]
  /\ call = NoCall /\ sending = NotSending
  /\ sock = [fd \in Fds |-> Closed]
  /\ ready = {}
  /\ leaked = {} /\ affected = {} /\ fresh = {}

New(fds) == fresh' = IF at = 0 THEN {} ELSE fresh \cup fds

\* Pd's thread can take a message.  Patches send no more of them when more than
\* MaxAffected objects are affected.
Idle ==
  /\ sending = NotSending
  /\ at = 0 \/ call # NoCall
  /\ Cardinality(affected) <= MaxAffected

-----------------------------------------------------------------------------
(* Descriptors.                                                            *)

\* The object o closes the socket it has the number fd of, whosever that is;
\* stays: it does not get another number; forgotten are new descriptors it loses.
Closes(o, fd, stays, forgotten) ==
  LET victims == IF fd = NoFd \/ sock[fd] = Closed THEN {} ELSE {sock[fd]} \ {o} IN
  /\ leaked' = (leaked \ {fd}) \cup forgotten
  /\ affected' = affected \cup victims \cup {i \in {o} : stays /\ fd # NoFd}

TableWithout(fd) == [g \in Fds |-> IF g = fd THEN Closed ELSE sock[g]]

-----------------------------------------------------------------------------
(* udpsend and tcpsend.                                                    *)

Connect(s) ==
  LET fd == Lowest(FreeFds(sock)) IN
  /\ Idle /\ x_fd[s] = NoFd
  /\ FreeFds(sock) # {}
  /\ sock' = [sock EXCEPT ![fd] = s]
  /\ x_fd' = [x_fd EXCEPT ![s] = fd]
  /\ reported' = [reported EXCEPT ![s] = 1]
  /\ New({fd})
  /\ UNCHANGED <<pollvars, x_connectsocket, call, sending, ready, leaked, affected>>

\* gethostbyname() fails: the descriptor is forgotten.
BadHost(s) ==
  LET fd == Lowest(FreeFds(sock)) IN
  /\ Idle /\ x_fd[s] = NoFd
  /\ FreeFds(sock) # {}
  /\ Cardinality(leaked) < MaxLeaked
  /\ sock' = [sock EXCEPT ![fd] = s]
  /\ leaked' = leaked \cup {fd}
  /\ New({fd})
  /\ UNCHANGED <<pollvars, sendvars, x_connectsocket, call, sending, ready, affected>>

\* Mutant: the number is kept.
CloseSocketKeepsNumber(s) ==
  /\ sock' = TableWithout(x_fd[s])
  /\ ready' = ready \ {x_fd[s]}
  /\ Closes(s, x_fd[s], FALSE, {})
  /\ reported' = [reported EXCEPT ![s] = 0]
  /\ UNCHANGED x_fd

\* The body of disconnect when there is a socket.
CloseSocket(s) ==
  /\ sock' = TableWithout(x_fd[s])
  /\ ready' = ready \ {x_fd[s]}
  /\ Closes(s, x_fd[s], FALSE, {})
  /\ x_fd' = [x_fd EXCEPT ![s] = NoFd]
  /\ reported' = [reported EXCEPT ![s] = 0]

\* disconnect and free.
Disconnect(s) ==
  /\ Idle /\ x_fd[s] # NoFd
  /\ CloseSocket(s)
  /\ UNCHANGED <<pollvars, x_connectsocket, call, sending, fresh>>

\* The bytes of a message.  An item is the bytes of a number or of a file; the
\* first is written without a look at the room there is.  buf[n] is what there is of
\* the first n items.  (A function, as in ListParts.)
Bytes(m) ==
  LET buf[n \in 0..Len(m)] ==
        IF n = 0 THEN <<>>
        ELSE SubSeq(buf[n - 1] \o m[n], 1, Min({Len(buf[n - 1] \o m[n]), BYTE_BUF_LEN}))
  IN  buf[Len(m)]

\* A number that is no byte, or a file that is missing, is BadItem.
Refused(m) == BadItem \in Range(m)

\* byte_buf is full and an item follows: it is written behind it, and nothing
\* is said about what happens then.
Overruns(m) ==
  \E i \in DOMAIN m : m[i] # <<>> /\ Len(Bytes(SubSeq(m, 1, i - 1))) = BYTE_BUF_LEN

Send(s, m) ==
  /\ Idle
  /\ ~Refused(m) /\ ~Overruns(m)
  /\ x_fd[s] # NoFd /\ Bytes(m) # <<>>
  /\ sending' = [obj |-> s, byte_buf |-> Bytes(m), sent |-> 0, parts |-> 0, wire |-> <<>>]
  /\ UNCHANGED <<pollvars, sendvars, x_connectsocket, call, sock, ready, history>>

\* How many bytes send() takes: of a datagram all, of a stream as many as the
\* system has room for, of a socket that is closed or not connected none.
Takes(fd, length) ==
  IF sock[fd] \notin Senders \/ fd \in leaked THEN {}
  ELSE IF sock[fd] \in UdpSenders THEN {length}
  ELSE 1..length

\* Mutant: the whole length is asked for again.
SendWhole(n) ==
  /\ n \in Takes(x_fd[sending.obj], Len(sending.byte_buf))
  /\ sending' = [sending EXCEPT !.sent = @ + n, !.parts = @ + 1,
                                !.wire = @ \o SubSeq(sending.byte_buf, 1, n)]

\* One turn: as many bytes as are still to be sent, from the start of byte_buf.
SendRest(n) ==
  /\ n \in Takes(x_fd[sending.obj], Len(sending.byte_buf) - sending.sent)
  /\ sending' = [sending EXCEPT !.sent = @ + n, !.parts = @ + 1,
                                !.wire = @ \o SubSeq(sending.byte_buf, 1, n)]

SendTurn ==
  /\ sending # NotSending /\ sending.sent < Len(sending.byte_buf)
  /\ \E n \in 1..BYTE_BUF_LEN : SendRest(n)
  /\ UNCHANGED <<pollvars, sendvars, x_connectsocket, call, sock, ready, history>>

SendEnds ==
  /\ sending # NotSending /\ sending.sent >= Len(sending.byte_buf)
  /\ sending' = NotSending
  /\ UNCHANGED <<pollvars, sendvars, x_connectsocket, call, sock, ready, history>>

SendFails ==
  /\ sending # NotSending /\ sending.sent < Len(sending.byte_buf)
  /\ CloseSocket(sending.obj)
  /\ sending' = NotSending
  /\ UNCHANGED <<pollvars, x_connectsocket, call, fresh>>

-----------------------------------------------------------------------------
(* udpreceive.                                                             *)

\* socket() and bind() succeed, for a multicast address also joining or not.
Bound(r, table, list) ==
  LET fd == Lowest(FreeFds(table)) IN
  /\ FreeFds(table) # {}
  /\ sock' = [table EXCEPT ![fd] = r]
  /\ x_connectsocket' = [x_connectsocket EXCEPT ![r] = fd]
  /\ sys_fdpoll' = Registered(list, [fd |-> fd, fn |-> "read", obj |-> r])
  /\ New({fd})
  /\ Closes(r, x_connectsocket[r], FALSE, {})

\* One of them fails: x_connectsocket keeps the number of the closed socket.
NotBound(r, table, list) ==
  /\ sock' = table
  /\ sys_fdpoll' = list
  /\ Closes(r, x_connectsocket[r], TRUE, {})
  /\ New({})
  /\ UNCHANGED x_connectsocket

\* gethostbyname() fails: so it does, and the new descriptor is forgotten.
NoAddress(r, table, list) ==
  LET fd == Lowest(FreeFds(table)) IN
  /\ r \in Named
  /\ FreeFds(table) # {}
  /\ Cardinality(leaked) < MaxLeaked
  /\ sock' = [table EXCEPT ![fd] = r]
  /\ sys_fdpoll' = list
  /\ Closes(r, x_connectsocket[r], TRUE, {fd})
  /\ New({fd})
  /\ UNCHANGED x_connectsocket

\* Mutant: the poll function of the old socket stays.
StillPolled(fd) == sys_fdpoll

NotPolled(fd) == Unregistered(sys_fdpoll, fd)

\* udpreceive_new_socket, called by new and by the message port.
NewSocket(r) ==
  LET old == x_connectsocket[r]
      table == TableWithout(old)
      list == NotPolled(old)
  IN  /\ Idle
      /\ ready' = ready \ {old}
      /\ Bound(r, table, list) \/ NotBound(r, table, list) \/ NoAddress(r, table, list)
      /\ UNCHANGED <<readset, at, sendvars, call, sending>>

\* udpreceive_free.
FreeReceiver(r) ==
  LET old == x_connectsocket[r] IN
  /\ Idle /\ at = 0
  /\ old # NoFd
  /\ sys_fdpoll' = NotPolled(old)
  /\ sock' = TableWithout(old)
  /\ ready' = ready \ {old}
  /\ Closes(r, old, FALSE, {})
  /\ x_connectsocket' = [x_connectsocket EXCEPT ![r] = NoFd]
  /\ UNCHANGED <<readset, at, sendvars, call, sending, fresh>>

\* udpreceive_read up to the outlet that says where it comes from.  recvfrom()
\* waits when there is nothing, and may fail when there is something.
Read(r, fd) ==
  /\ AtReadable /\ call = NoCall /\ sending = NotSending
  /\ sys_fdpoll[at] = [fd |-> fd, fn |-> "read", obj |-> r]
  /\ sock[fd] = Closed \/ fd \in ready
  /\ \E failed \in {TRUE, sock[fd] = Closed} : call' = [obj |-> r, failed |-> failed]
  /\ ready' = ready \ {fd}
  /\ UNCHANGED <<pollvars, sendvars, x_connectsocket, sending, sock, history>>

\* The rest: what was received goes to the outlets, or x_connectsocket, which
\* may have changed meanwhile, is closed and stays registered.
Return ==
  /\ call # NoCall /\ sending = NotSending
  /\ IF call.failed
     THEN /\ sock' = TableWithout(x_connectsocket[call.obj])
          /\ ready' = ready \ {x_connectsocket[call.obj]}
          /\ Closes(call.obj, x_connectsocket[call.obj], TRUE, {})
     ELSE UNCHANGED <<sock, ready, leaked, affected>>
  /\ call' = NoCall
  /\ Called
  /\ UNCHANGED <<sys_fdpoll, readset, sendvars, x_connectsocket, sending, fresh>>

-----------------------------------------------------------------------------
(* Kernel and poll loop.                                                   *)

\* A datagram, bytes, an end or an error.  Only what is polled is received.
Arrive(fd) ==
  /\ sock[fd] # Closed
  /\ fd \in PollFds \ ready
  /\ ready' = ready \cup {fd}
  /\ UNCHANGED <<pollvars, sendvars, x_connectsocket, call, sending, sock, history>>

\* With a closed descriptor in the list select() fails and leaves the set as it
\* was given, and the loop does not look at its result.
Readable ==
  IF \E fd \in PollFds : sock[fd] = Closed THEN PollFds
  ELSE PollFds \cap ready

Round ==
  /\ call = NoCall /\ sending = NotSending
  /\ Select(Readable) \/ Pass \/ EndRound
  /\ fresh' = IF at' = 0 THEN {} ELSE fresh
  /\ UNCHANGED <<sendvars, x_connectsocket, call, sending, sock, ready, leaked, affected>>

MNext ==
  \/ \E s \in Senders : Connect(s) \/ BadHost(s) \/ Disconnect(s)
  \/ \E s \in Senders, m \in Messages : Send(s, m)
  \/ SendTurn \/ SendEnds \/ SendFails
  \/ \E r \in Receivers : NewSocket(r) \/ FreeReceiver(r)
  \/ \E r \in Receivers, fd \in Fds : Read(r, fd)
  \/ Return
  \/ \E fd \in Fds : Arrive(fd)
  \/ Round

MSpec == MInit /\ [][MNext]_mvars

-----------------------------------------------------------------------------
(* Properties.                                                             *)

\* What a sender tells of its socket.
TellsItsSocket(s) ==
  IF x_fd[s] = NoFd THEN reported[s] = 0
  ELSE reported[s] = 1 /\ sock[x_fd[s]] = s /\ x_fd[s] \notin leaked

ListensOnItsSocket(r) ==
  x_connectsocket[r] # NoFd =>
    /\ sock[x_connectsocket[r]] = r
    /\ [fd |-> x_connectsocket[r], fn |-> "read", obj |-> r] \in Range(sys_fdpoll)

Held == {x_fd[s] : s \in Senders} \cup {x_connectsocket[r] : r \in Receivers}

\* However descriptors are given back and given out again, an object's number
\* is that of its own open socket, of which it tells the patch the truth and which
\* is polled for it, unless a udpreceive has closed its socket without getting
\* another and has then acted on the number it kept.  While none has, no open
\* descriptor is lost but by a bad host name, and only receivers are polled.
HoldsItsOwn ==
  /\ \A s \in Senders \ affected : TellsItsSocket(s)
  /\ \A r \in Receivers \ affected : ListensOnItsSocket(r)
  /\ affected = {} =>
       /\ Fds \ FreeFds(sock) = (Held \ {NoFd}) \cup leaked
       /\ PollFds = {x_connectsocket[r] : r \in Receivers} \ {NoFd}
       /\ Len(sys_fdpoll) = Cardinality(PollFds)

\* Pd does not wait in recvfrom(), though the patch may open and close sockets
\* between select() and the call: not while every udpreceive has its socket, and
\* not for a socket that was there when select() was asked.
NeverBlocks ==
  (/\ AtReadable /\ call = NoCall
   /\ affected \cap Receivers = {}
   /\ sys_fdpoll[at].fd \notin fresh)
     => sys_fdpoll[at].fd \in ready

\* Both: what number an object has tells it whose socket that is, and whether there is
\* something to read, however descriptors are given back and out again in a round.
UsesItsOwn == HoldsItsOwn /\ NeverBlocks

\* As many bytes leave as the message has, through the object's own socket; they
\* are the message's when the system takes them in one part, which for a
\* datagram it always does.
SendsTheMessage ==
  sending # NotSending =>
    /\ sending.sent = Len(sending.wire)
    /\ sending.sent <= Len(sending.byte_buf)
    /\ sending.parts = 1 => IsPrefix(sending.wire, sending.byte_buf)
    /\ sending.obj \notin affected =>
         /\ sock[x_fd[sending.obj]] = sending.obj
         /\ sending.parts > 1 => sending.obj \in TcpSenders
=============================================================================
