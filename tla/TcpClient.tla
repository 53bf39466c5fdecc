----------------------------- MODULE TcpClient -----------------------------
(***************************************************************************)
(* The tcpclient external: connector threads, one per connect message,     *)
(* that publish their socket in x_fd, and sender threads, one per buffer,  *)
(* whose parameters are in slots used round robin.  Pd's thread handles    *)
(* one message or poll at a time and spins where it waits for a slot.      *)
(*                                                                         *)
(* Nothing is locked.  The steps are the reads and writes of x_fd,         *)
(* x_connectstate and threadisvalid in the order of the code; it is        *)
(* assumed that the spinning loops read threadisvalid anew each time, as   *)
(* written.  Host and port, the data received and what goes to outlets     *)
(* from clock callbacks are left out.  A freed object is where the model   *)
(* stops: what a connector does to it is undefined.                        *)
(***************************************************************************)
EXTENDS Integers, FiniteSets

CONSTANTS
  MAX_TCPCLIENT_THREADS, \* slots
  Data,                  \* contents of a buffer
  Connectors,            \* bound: connector threads at a time
  MaxFd                  \* bound: descriptors of the process, lowest first

ASSUME TcpClientAssumption ==
  /\ MAX_TCPCLIENT_THREADS \in Nat \ {0}
  /\ Data # {}
  /\ MaxFd \in Nat

NoFd == -1
NoData == "nothing"
Fds == 1..MaxFd
Slots == 0..(MAX_TCPCLIENT_THREADS - 1)

VARIABLES
  x_fd, x_connectstate, x_blocked, x_nextthread,
  selectFailed, \* history: a poll could not ask for data, and closed the socket of x_fd
  x_tsp,      \* Slots -> [x_sendbuf, threadisvalid]
  pd,         \* "idle", or where Pd's thread is
  object,     \* "live", "freeing", "freed"
  connector,  \* Connectors -> [pc, fd]
  sender,     \* Slots -> where the sender thread of the slot is
  given,      \* history: the data its thread was created to send, if it was
  fdstate     \* kernel: "free", "open", or "ended" by the peer

connvars == <<x_fd, x_connectstate, x_blocked, selectFailed>>
slotvars == <<x_nextthread, x_tsp, sender, given>>
vars == <<connvars, slotvars, pd, object, connector, fdstate>>

NoThread == [pc |-> "none", fd |-> NoFd]
PdIdle == object = "live" /\ pd = "idle"
Open == {fd \in Fds : fdstate[fd] # "free"}

Init ==
  /\ x_fd = NoFd
  /\ x_connectstate = 0
  /\ x_blocked = TRUE
  /\ selectFailed = FALSE
  /\ x_nextthread = 0
  /\ x_tsp = [s \in Slots |-> [x_sendbuf |-> NoData, threadisvalid |-> FALSE]]
  /\ pd = "idle"
  /\ object = "live"
  /\ connector = [t \in Connectors |-> NoThread]
  /\ sender = [s \in Slots |-> "none"]
  /\ given = [s \in Slots |-> NoData]
  /\ fdstate = [fd \in Fds |-> "free"]

-----------------------------------------------------------------------------
(* Connecting.                                                             *)

\* tcpclient_connect asks only x_connectstate, which a connector sets last;
\* a thread that cannot be had leaves everything as it is.
Connect(t) ==
  /\ PdIdle
  /\ x_connectstate = 0
  /\ connector[t] = NoThread
  /\ connector' = [connector EXCEPT ![t].pc = "start"]
  /\ UNCHANGED <<connvars, slotvars, pd, object, fdstate>>

\* tcpclient_child_connect: "already connected", or not,
ConnectorStart(t) ==
  /\ connector[t].pc = "start"
  /\ connector' = [connector EXCEPT ![t].pc = IF x_fd # NoFd THEN "none" ELSE "socket"]
  /\ UNCHANGED <<connvars, slotvars, pd, object, fdstate>>

\* then the lowest free socket, if there is one.
ConnectorSocket(t) ==
  /\ connector[t].pc = "socket"
  /\ IF Open = Fds
     THEN /\ connector' = [connector EXCEPT ![t] = NoThread]
          /\ UNCHANGED fdstate
     ELSE LET fd == CHOOSE f \in Fds \ Open : \A g \in Fds \ Open : f <= g
          IN  /\ connector' = [connector EXCEPT ![t] = [pc |-> "connect", fd |-> fd]]
              /\ fdstate' = [fdstate EXCEPT ![fd] = "open"]
  /\ UNCHANGED <<connvars, slotvars, pd, object>>

\* A bad host: the socket stays open.
ConnectorBadHost(t) ==
  /\ connector[t].pc = "connect"
  /\ connector' = [connector EXCEPT ![t] = NoThread]
  /\ UNCHANGED <<connvars, slotvars, pd, object, fdstate>>

ConnectorRefused(t) ==
  /\ connector[t].pc = "connect"
  /\ fdstate' = [fdstate EXCEPT ![connector[t].fd] = "free"]
  /\ connector' = [connector EXCEPT ![t] = NoThread]
  /\ UNCHANGED <<connvars, slotvars, pd, object>>

\* Connected: x_fd is set,
ConnectorPublish(t) ==
  /\ connector[t].pc = "connect"
  /\ x_fd' = connector[t].fd
  /\ connector' = [connector EXCEPT ![t].pc = "state"]
  /\ UNCHANGED <<x_connectstate, x_blocked, selectFailed, slotvars, pd, object, fdstate>>

\* then x_connectstate,
ConnectorState(t) ==
  /\ connector[t].pc = "state"
  /\ x_connectstate' = 1
  /\ connector' = [connector EXCEPT ![t].pc = "unblock"]
  /\ UNCHANGED <<x_fd, x_blocked, selectFailed, slotvars, pd, object, fdstate>>

\* then x_blocked.
ConnectorUnblock(t) ==
  /\ connector[t].pc = "unblock"
  /\ x_blocked' = FALSE
  /\ connector' = [connector EXCEPT ![t] = NoThread]
  /\ UNCHANGED <<x_fd, x_connectstate, selectFailed, slotvars, pd, object, fdstate>>

ConnectorStep(t) ==
  /\ object # "freed"
  /\ \/ ConnectorStart(t) \/ ConnectorSocket(t) \/ ConnectorBadHost(t) \/ ConnectorRefused(t)
     \/ ConnectorPublish(t) \/ ConnectorState(t) \/ ConnectorUnblock(t)

PeerClose(fd) ==
  /\ object # "freed"
  /\ fdstate[fd] = "open"
  /\ \A t \in Connectors : ~(connector[t].pc = "connect" /\ connector[t].fd = fd)
  /\ fdstate' = [fdstate EXCEPT ![fd] = "ended"]
  /\ UNCHANGED <<connvars, slotvars, pd, object, connector>>

-----------------------------------------------------------------------------
(* Disconnecting.                                                          *)

\* The message; without a socket it does nothing.
Disconnect ==
  /\ PdIdle
  /\ x_fd # NoFd
  /\ pd' = "wait"
  /\ UNCHANGED <<connvars, slotvars, object, connector, fdstate>>

\* tcpclient_poll finds the end of the connection and disconnects.
Poll ==
  /\ PdIdle
  /\ x_connectstate = 1 /\ x_fd # NoFd
  /\ fdstate[x_fd] = "ended"
  /\ pd' = "wait"
  /\ UNCHANGED <<connvars, slotvars, object, connector, fdstate>>

\* select() fails in tcpclient_poll: the socket is closed, and x_fd and x_connectstate
\* stay as they are.  It fails again for a descriptor that nobody opened since.
PollFails ==
  /\ PdIdle
  /\ x_connectstate = 1 /\ x_fd # NoFd
  /\ fdstate' = [fdstate EXCEPT ![x_fd] = "free"]
  /\ selectFailed' = TRUE
  /\ UNCHANGED <<x_fd, x_connectstate, x_blocked, slotvars, pd, object, connector>>

\* tcpclient_free
FreeClient ==
  /\ PdIdle
  /\ IF x_fd = NoFd
     THEN object' = "freed" /\ UNCHANGED pd
     ELSE object' = "freeing" /\ pd' = "wait"
  /\ UNCHANGED <<connvars, slotvars, connector, fdstate>>

\* Mutant: only the slot used last is waited for.
OneSlotClear == ~x_tsp[(x_nextthread - 1) % MAX_TCPCLIENT_THREADS].threadisvalid

SlotsClear == \A s \in Slots : ~x_tsp[s].threadisvalid

\* All slots are clear: the socket is closed,
CloseSocket ==
  /\ pd = "wait"
  /\ SlotsClear
  /\ fdstate' = [fdstate EXCEPT ![x_fd] = "free"]
  /\ pd' = "closed"
  /\ UNCHANGED <<connvars, slotvars, object, connector>>

\* x_fd is cleared,
ClearFd ==
  /\ pd = "closed"
  /\ x_fd' = NoFd
  /\ pd' = "cleared"
  /\ UNCHANGED <<x_connectstate, x_blocked, selectFailed, slotvars, object, connector, fdstate>>

\* and x_connectstate.
ClearState ==
  /\ pd = "cleared"
  /\ x_connectstate' = 0
  /\ pd' = "idle"
  /\ object' = IF object = "freeing" THEN "freed" ELSE object
  /\ UNCHANGED <<x_fd, x_blocked, selectFailed, slotvars, connector, fdstate>>

-----------------------------------------------------------------------------
(* Sending: tcpclient_send_buf, once for every buffer a message fills.     *)

SendNotConnected ==
  /\ PdIdle
  /\ ~x_blocked /\ x_fd = NoFd
  /\ x_blocked' = TRUE
  /\ UNCHANGED <<x_fd, x_connectstate, selectFailed, slotvars, pd, object, connector, fdstate>>

SendBuf ==
  /\ PdIdle
  /\ ~x_blocked /\ x_fd # NoFd
  /\ pd' = "send"
  /\ UNCHANGED <<connvars, slotvars, object, connector, fdstate>>

\* Mutant: the slot is taken without waiting for its thread.
SlotTaken == TRUE

SlotFree == ~x_tsp[x_nextthread].threadisvalid

NextSlot == (x_nextthread + 1) % MAX_TCPCLIENT_THREADS

\* The slot is clear: it is filled and given to a thread.  pthread_create
\* returns an error number, never less than 0, so a failure passes for success.
FillSlot(d) ==
  /\ pd = "send"
  /\ SlotFree
  /\ x_tsp' = [x_tsp EXCEPT ![x_nextthread] = [x_sendbuf |-> d, threadisvalid |-> TRUE]]
  /\ \/ /\ sender' = [sender EXCEPT ![x_nextthread] = "started"]
        /\ given' = [given EXCEPT ![x_nextthread] = d]
     \/ /\ given' = [given EXCEPT ![x_nextthread] = NoData]
        /\ UNCHANGED sender
  /\ x_nextthread' = NextSlot
  /\ pd' = "idle"
  /\ UNCHANGED <<connvars, object, connector, fdstate>>

Unblock ==
  /\ PdIdle
  /\ x_blocked
  /\ x_blocked' = FALSE
  /\ UNCHANGED <<x_fd, x_connectstate, selectFailed, slotvars, pd, object, connector, fdstate>>

\* tcpclient_child_send: the data goes out,
SenderSend(s) ==
  /\ object # "freed"
  /\ sender[s] = "started"
  /\ sender' = [sender EXCEPT ![s] = "sent"]
  /\ UNCHANGED <<connvars, x_nextthread, x_tsp, given, pd, object, connector, fdstate>>

\* Mutant: the thread leaves its slot marked.
SlotStaysValid(s) == UNCHANGED x_tsp

SlotCleared(s) == x_tsp' = [x_tsp EXCEPT ![s].threadisvalid = FALSE]

\* and, after x_sendclock is set, "this thread is over".
SenderDone(s) ==
  /\ object # "freed"
  /\ sender[s] = "sent"
  /\ SlotCleared(s)
  /\ sender' = [sender EXCEPT ![s] = "none"]
  /\ UNCHANGED <<connvars, x_nextthread, given, pd, object, connector, fdstate>>

-----------------------------------------------------------------------------
CallGoesOn ==
  \/ CloseSocket \/ ClearFd \/ ClearState
  \/ \E d \in Data : FillSlot(d)

SenderStep(s) == SenderSend(s) \/ SenderDone(s)

Next ==
  \/ \E t \in Connectors : Connect(t) \/ ConnectorStep(t)
  \/ \E fd \in Fds : PeerClose(fd)
  \/ Disconnect
  \/ Poll
  \/ PollFails
  \/ FreeClient
  \/ SendNotConnected
  \/ SendBuf
  \/ Unblock
  \/ CallGoesOn
  \/ \E s \in Slots : SenderStep(s)

Spec == Init /\ [][Next]_vars

\* Pd's thread goes on when it can; sender threads run, and send() comes back:
\* the peer reads or the connection breaks.
FairSpec == Spec /\ WF_vars(CallGoesOn) /\ \A s \in Slots : WF_vars(SenderStep(s))

-----------------------------------------------------------------------------
(* Properties.                                                             *)

TypeOK ==
  /\ x_fd \in Fds \cup {NoFd}
  /\ x_connectstate \in {0, 1}
  /\ x_blocked \in BOOLEAN /\ selectFailed \in BOOLEAN
  /\ x_nextthread \in Slots
  /\ x_tsp \in [Slots -> [x_sendbuf : Data \cup {NoData}, threadisvalid : BOOLEAN]]
  /\ pd \in {"idle", "wait", "closed", "cleared", "send"}
  /\ object \in {"live", "freeing", "freed"}
  /\ connector \in [Connectors -> [pc : {"none", "start", "socket", "connect", "state", "unblock"},
                                 fd : Fds \cup {NoFd}]]
  /\ sender \in [Slots -> {"none", "started", "sent"}]
  /\ given \in [Slots -> Data \cup {NoData}]
  /\ fdstate \in [Fds -> {"free", "open", "ended"}]

\* Outside tcpclient_disconnect x_fd is never a descriptor that was closed, so
\* that nothing is sent to or read from one that may be somebody else's,
\* however many connectors race with each other and with disconnects.  This ends when
\* select() fails: then x_fd remains what was closed.
FdIsOpen == (x_fd # NoFd /\ pd # "closed" /\ ~selectFailed) => x_fd \in Open

\* As long as a thread has its data to send there is an open socket to send it
\* to: disconnect, by whatever way it is called, waits for all of them; the poll
\* for which select() fails does not.
SendsWhileOpen ==
  ~selectFailed => \A s \in Slots : sender[s] = "started" => x_fd \in Open

\* No sender thread outlives the object, whose memory it uses.
FreedAlone == object = "freed" => \A s \in Slots : sender[s] = "none"

\* "to avoid overwriting buffers when doing multiple sends": the buffer of a
\* thread that has not sent holds what was given to it, through a full ring.
SendsItsData ==
  \A s \in Slots : sender[s] = "started" => x_tsp[s].x_sendbuf = given[s]

\* What a thread or Pd itself uses is there: an open socket, until select() fails for
\* it, and always the object, and in the buffer of a thread its own data.
UsesWhatIsThere == FdIsOpen /\ SendsWhileOpen /\ FreedAlone /\ SendsItsData

\* Pd's thread never spins for ever, except for a slot whose thread was never
\* created: a disconnect, a send and a free come to their end.
WaitsEnd ==
  pd # "idle" ~> (pd = "idle" \/ \E s \in Slots : x_tsp[s].threadisvalid /\ given[s] = NoData)

\* "0 = not connected, 1 = connected", when Pd is idle and no connector is at
\* work.
StateIsTrue ==
  (PdIdle /\ \A t \in Connectors : connector[t] = NoThread)
    => (x_connectstate = 1 <=> x_fd # NoFd)
=============================================================================
