----------------------------- MODULE TcpServer -----------------------------
(***************************************************************************)
(* The tcpserver external: the table of clients x_sr, the messages that    *)
(* send to a client or disconnect it, and the detached threads that do the *)
(* sending.                                                                *)
(*                                                                         *)
(* Pd's thread handles one message or poll callback at a time (pd says     *)
(* which one it is in, where a thread may run meanwhile): each chunk of a  *)
(* message has a thread of its own, and broadcast has one that walks x_sr  *)
(* without a lock.  The receiver of a client is named after the client; it *)
(* is in live while it is allocated.  Following a NULL or freed pointer,   *)
(* and freeing twice, is a crash; nothing is claimed of what comes after.  *)
(*                                                                         *)
(* The patch may answer what a handler puts out with messages, which are   *)
(* then handled within it.  The outlets are called where the table is      *)
(* whole, except by tcpserver_notify, which has counted the client out but *)
(* not taken it off: a disconnect from there works on the table under the  *)
(* outer call's hands, and changes x_sock_fd, by which this goes on.  The  *)
(* table is torn then and the model stops.  Otherwise x_sock_fd is set by  *)
(* every function before it is used, and is left out.                      *)
(***************************************************************************)
EXTENDS Integers, FiniteSets

CONSTANTS
  Clients,     \* peers; each has at most one connection at a time
  MaxFd,       \* descriptors, reused lowest first
  MAX_CONNECT, \* places in x_sr
  Senders,     \* bound: sender threads at a time
  MaxSends,    \* bound: "send" and "client" messages
  MaxChunks,   \* bound: buffers a message fills
  MaxBroadcasts \* bound: "broadcast" messages

Null == "null"

ASSUME TcpServerAssumption ==
  /\ IsFiniteSet(Clients) /\ Null \notin Clients
  /\ MAX_CONNECT \in Nat /\ MAX_CONNECT >= Cardinality(Clients)
  /\ MaxFd \in Nat /\ MaxFd >= Cardinality(Clients)
  /\ MaxSends \in Nat /\ MaxChunks \in Nat /\ MaxBroadcasts \in Nat

Fds == 1..MaxFd
Places == 0..(MAX_CONNECT - 1)
NoChunk == <<0, 0>>
Chunks == (1..MaxSends) \X (1..MaxChunks)

VARIABLES
  x_sr, x_nconnections, x_blocked,
  live, sr_fd,      \* the receivers
  byte_buf,         \* what the static buffer of send_bytes holds
  pd,               \* the message Pd's thread is in
  notify,           \* what it is at in tcpserver_notify, if in this
  poll,             \* and the poll function that has called outlets
  senders,          \* Senders -> the send a thread is to do, or Free
  broadcast,        \* what the thread of broadcast is at
  fdconn, peer,     \* kernel and peers
  crashed, torn,
  \* history
  sends, broadcasts,
  audience,         \* clients that have been there since the broadcast under way began
  got,              \* how many copies of it these have got
  doubled,          \* those it has seen while their entry stood twice
  astray            \* a client got something else than what was sent to it

tablevars == <<x_sr, x_nconnections, live, sr_fd>>
sendvars == <<x_blocked, byte_buf, senders, sends, astray>>
castvars == <<broadcast, broadcasts>>
heardvars == <<audience, got, doubled>>
kernelvars == <<fdconn, peer>>
callvars == <<notify, poll>>
vars == <<tablevars, sendvars, castvars, kernelvars, heardvars, callvars, pd, crashed, torn>>

Idle == [op |-> "idle"]
Free == [op |-> "none"]
Runs == ~crashed /\ ~torn
PdIdle == Runs /\ pd = Idle
Entries == 0..(x_nconnections - 1)

\* Pd calls a poll function when it is in no other; the patch sends messages then,
\* and from within the outlets of one.
PollIdle == PdIdle /\ notify = Free /\ poll = Free
MayMessage == PdIdle /\ notify.op # "move"

Init ==
  /\ x_sr = [i \in Places |-> Null]
  /\ x_nconnections = 0
  /\ x_blocked = 0
  /\ live = {}
  /\ sr_fd = [c \in Clients |-> 0]
  /\ byte_buf = NoChunk
  /\ pd = Idle /\ notify = Free /\ poll = Free
  /\ senders = [t \in Senders |-> Free]
  /\ broadcast = Free
  /\ fdconn = [fd \in Fds |-> Null]
  /\ peer = [c \in Clients |-> "idle"]
  /\ crashed = FALSE /\ torn = FALSE
  /\ sends = 0 /\ broadcasts = 0
  /\ got = [c \in Clients |-> 0]
  /\ audience = {} /\ doubled = {}
  /\ astray = FALSE

Crash ==
  /\ crashed' = TRUE
  /\ UNCHANGED <<tablevars, sendvars, castvars, kernelvars, heardvars, callvars, pd, torn>>

\* A message disconnects a client from within tcpserver_notify.
Tear ==
  /\ torn' = TRUE
  /\ UNCHANGED <<tablevars, sendvars, castvars, kernelvars, heardvars, callvars, pd, crashed>>

-----------------------------------------------------------------------------
(* Connections.                                                            *)

\* tcpserver_connectpoll: a client connects.  The code does not check that there
\* is a place for it; here there is, by TcpServerAssumption.
ConnectPoll(c) ==
  LET free == {f \in Fds : fdconn[f] = Null}
      fd == CHOOSE f \in free : \A g \in free : f <= g
  IN  /\ PollIdle
      /\ peer[c] = "idle" /\ c \notin live /\ free # {}
      /\ peer' = [peer EXCEPT ![c] = "connected"]
      /\ fdconn' = [fdconn EXCEPT ![fd] = c]
      /\ live' = live \cup {c}
      /\ sr_fd' = [sr_fd EXCEPT ![c] = fd]
      /\ x_sr' = [x_sr EXCEPT ![x_nconnections] = c]
      /\ x_nconnections' = x_nconnections + 1
      /\ poll' = [op |-> "told", at |-> x_nconnections]
      /\ UNCHANGED <<sendvars, castvars, heardvars, notify, pd, crashed, torn>>

\* The address of the client is put out, and then its socket, taken from its
\* entry again.
PutOutSocket ==
  /\ PdIdle /\ notify = Free
  /\ poll.op = "told"
  /\ IF x_sr[poll.at] \in live
     THEN /\ poll' = Free
          /\ UNCHANGED <<tablevars, sendvars, castvars, kernelvars, heardvars, notify, pd, crashed, torn>>
     ELSE Crash

PeerClose(c) ==
  /\ Runs
  /\ peer[c] = "connected"
  /\ peer' = [peer EXCEPT ![c] = "closed"]
  /\ UNCHANGED <<tablevars, sendvars, castvars, fdconn, heardvars, callvars, pd, crashed, torn>>

\* tcpserver_notify for the client with entry i, up to its outlets,
Notify(i) ==
  /\ notify' = [op |-> "out", at |-> i, fd |-> sr_fd[x_sr[i]]]
  /\ x_nconnections' = x_nconnections - 1
  /\ audience' = audience \ {x_sr[i]}
  /\ got' = [got EXCEPT ![x_sr[i]] = 0]
  /\ doubled' = doubled \ {x_sr[i]}
  /\ UNCHANGED <<x_sr, live, sr_fd, sendvars, castvars, kernelvars, poll, pd, crashed, torn>>

\* the receiver's end,
NotifyFrees ==
  /\ PdIdle
  /\ notify.op = "out"
  /\ live' = live \ {x_sr[notify.at]}
  /\ x_sr' = [x_sr EXCEPT ![notify.at] = Null]
  /\ notify' = [op |-> "move", to |-> notify.at, fd |-> notify.fd]
  /\ UNCHANGED <<x_nconnections, sr_fd, sendvars, castvars, kernelvars, heardvars, poll, pd, crashed, torn>>

\* Mutant: the list is not rearranged.
MovedNot(k) == x_sr

Moved(k) == [x_sr EXCEPT ![k] = x_sr[k + 1]]

\* the rearrangement, entry by entry,
MoveEntry ==
  /\ Runs
  /\ notify.op = "move" /\ notify.to < x_nconnections
  /\ x_sr' = Moved(notify.to)
  /\ notify' = [notify EXCEPT !.to = @ + 1]
  /\ UNCHANGED <<x_nconnections, live, sr_fd, sendvars, castvars, kernelvars, heardvars, poll, pd, crashed, torn>>

\* and the closing of the socket by its caller.
CloseSocket ==
  /\ Runs
  /\ notify.op = "move" /\ notify.to >= x_nconnections
  /\ fdconn' = [fdconn EXCEPT ![notify.fd] = Null]
  /\ peer' = [c \in Clients |-> IF c = fdconn[notify.fd] THEN "idle" ELSE peer[c]]
  /\ notify' = Free
  /\ UNCHANGED <<tablevars, sendvars, castvars, heardvars, poll, pd, crashed, torn>>

\* tcpserver_socketreceiver_read at the end of a connection.
ReadEnd(c) ==
  /\ PollIdle
  /\ peer[c] = "closed" /\ c \in live
  /\ \E i \in Entries : x_sr[i] = c /\ Notify(i)

\* tcpserver_socketreceiver_read with data: the address and the socket are put
\* out, and then, from the receiver's buffer, the data.
ReadData(c) ==
  /\ PollIdle
  /\ peer[c] # "idle" /\ c \in live
  /\ poll' = [op |-> "read", of |-> c]
  /\ UNCHANGED <<tablevars, sendvars, castvars, kernelvars, heardvars, notify, pd, crashed, torn>>

PutOutData ==
  /\ PdIdle /\ notify = Free
  /\ poll.op = "read"
  /\ IF poll.of \in live
     THEN /\ poll' = Free
          /\ UNCHANGED <<tablevars, sendvars, castvars, kernelvars, heardvars, notify, pd, crashed, torn>>
     ELSE Crash

\* A client number a message may have; entry k - 1 of x_sr is then used.
InRange(k) == k > 0 /\ k < MAX_CONNECT

Entry(k) == k - 1

Alive(k) == x_sr[Entry(k)] \in live

\* "disconnectclient"; a stale entry may name a client that has another one.
ClientDisconnect(k) ==
  /\ MayMessage
  /\ x_nconnections > 0 /\ InRange(k)
  /\ IF ~Alive(k) THEN Crash
     ELSE IF notify.op = "out" THEN Tear
     ELSE \E i \in Entries : sr_fd[x_sr[i]] = sr_fd[x_sr[Entry(k)]] /\ Notify(i)

\* "disconnectsocket"; the last client is not found from within notify, but its
\* socket is left in x_sock_fd.
SocketDisconnect(fd) ==
  /\ MayMessage
  /\ x_nconnections > 0
  /\ IF notify.op = "out"
     THEN (\E i \in 0..x_nconnections : sr_fd[x_sr[i]] = fd) /\ Tear
     ELSE \E i \in Entries : sr_fd[x_sr[i]] = fd /\ Notify(i)

\* tcpserver_free ends in a crash if an entry of x_sr was freed already.
FreeServer ==
  /\ PollIdle
  /\ \E i, j \in Places :
       x_sr[i] # Null /\ (x_sr[i] \notin live \/ (i # j /\ x_sr[j] = x_sr[i]))
  /\ Crash

-----------------------------------------------------------------------------
(* "send" and "client": tcpserver_send_bytes.                              *)

\* Pd's thread is about to put chunk n of a message to x_sr[i] into byte_buf.
Sending(i) == [op |-> "send", to |-> x_sr[i], fd |-> sr_fd[x_sr[i]], n |-> 1]

\* Nothing is sent while x_blocked is set.
BeginSend(i) ==
  /\ sends < MaxSends
  /\ sends' = sends + 1
  /\ x_blocked = 0
  /\ pd' = Sending(i)
  /\ UNCHANGED <<tablevars, x_blocked, byte_buf, senders, astray, castvars, kernelvars, heardvars, callvars,
                 crashed, torn>>

Send(fd) ==
  /\ MayMessage
  /\ \E i \in Entries : sr_fd[x_sr[i]] = fd /\ BeginSend(i)

ClientSend(k) ==
  /\ MayMessage
  /\ x_nconnections > 0 /\ InRange(k)
  /\ IF Alive(k) THEN BeginSend(Entry(k)) ELSE Crash

\* A chunk fills the buffer and gets a thread; the message goes on or ends.
SendChunk(t) ==
  /\ Runs
  /\ pd.op = "send"
  /\ senders[t] = Free
  /\ byte_buf' = <<sends, pd.n>>
  /\ senders' = [senders EXCEPT ![t] =
       [op |-> "send", fd |-> pd.fd, to |-> pd.to, chunk |-> <<sends, pd.n>>]]
  /\ pd' \in {Idle} \cup {[pd EXCEPT !.n = n] : n \in {pd.n + 1} \cap 1..MaxChunks}
  /\ UNCHANGED <<tablevars, x_blocked, sends, astray, castvars, kernelvars, heardvars, callvars, crashed, torn>>

\* An item that is no byte, or no thread to be had: the rest is not sent.
SendFails ==
  /\ Runs
  /\ pd.op = "send"
  /\ byte_buf' \in {byte_buf, <<sends, pd.n>>}
  /\ x_blocked' \in {x_blocked, x_blocked + 1}
  /\ pd' = Idle
  /\ UNCHANGED <<tablevars, senders, sends, astray, castvars, kernelvars, heardvars, callvars, crashed, torn>>

Unblock ==
  /\ MayMessage
  /\ x_blocked # 0
  /\ x_blocked' = 0
  /\ UNCHANGED <<tablevars, byte_buf, senders, sends, astray, castvars, kernelvars, heardvars, callvars, pd,
                 crashed, torn>>

\* tcpserver_send_buf_thread: what is in the buffer now goes to whoever has
\* the descriptor now.
SenderThread(t) ==
  /\ Runs
  /\ senders[t] # Free
  /\ senders' = [senders EXCEPT ![t] = Free]
  /\ astray' = (astray \/ (fdconn[senders[t].fd] # Null /\
                  (fdconn[senders[t].fd] # senders[t].to \/ byte_buf # senders[t].chunk)))
  /\ UNCHANGED <<tablevars, x_blocked, byte_buf, sends, castvars, kernelvars, heardvars, callvars, pd, crashed, torn>>

-----------------------------------------------------------------------------
(* "broadcast" and its thread.                                             *)

\* Who is there, and not leaving.
Staying == IF notify.op = "out" THEN live \ {x_sr[notify.at]} ELSE live

Broadcast ==
  /\ MayMessage
  /\ x_nconnections # 0
  /\ broadcast = Free
  /\ broadcasts < MaxBroadcasts
  /\ broadcasts' = broadcasts + 1
  /\ broadcast' = [op |-> "read", at |-> 0]
  /\ got' = [c \in Clients |-> 0]
  /\ audience' = Staying
  /\ doubled' = {}
  /\ UNCHANGED <<tablevars, sendvars, kernelvars, callvars, pd, crashed, torn>>

\* The thread ends; who heard what is not asked any more.
CastEnds ==
  /\ broadcast' = Free
  /\ audience' = {} /\ got' = [c \in Clients |-> 0] /\ doubled' = {}

\* The entry is looked at,
CastRead ==
  /\ Runs
  /\ broadcast.op = "read"
  /\ IF broadcast.at >= x_nconnections
     THEN /\ CastEnds
          /\ UNCHANGED <<tablevars, sendvars, broadcasts, kernelvars, callvars, pd, crashed, torn>>
     ELSE IF x_sr[broadcast.at] \in live
     THEN /\ broadcast' = [op |-> "send", at |-> broadcast.at, fd |-> sr_fd[x_sr[broadcast.at]]]
          /\ doubled' = IF notify.op = "move" /\ notify.to = broadcast.at
                        THEN doubled \cup ({x_sr[broadcast.at]} \cap audience) ELSE doubled
          /\ UNCHANGED <<tablevars, sendvars, broadcasts, got, kernelvars, audience, callvars, pd, crashed, torn>>
     ELSE Crash

\* Mutant: the walk does not go on.
CastNextStays == [op |-> "read", at |-> broadcast.at]

CastNext == [op |-> "read", at |-> broadcast.at + 1]

\* and its socket is sent to; a failure ends the broadcast.
CastSend ==
  /\ Runs
  /\ broadcast.op = "send"
  /\ \/ /\ fdconn[broadcast.fd] # Null
        /\ got' = [c \in Clients |->
                     IF c = fdconn[broadcast.fd] /\ c \in audience THEN got[c] + 1 ELSE got[c]]
        /\ broadcast' = CastNext
        /\ UNCHANGED <<audience, doubled>>
     \/ /\ fdconn[broadcast.fd] \notin {c \in Clients : peer[c] = "connected"}
        /\ CastEnds
  /\ UNCHANGED <<tablevars, sendvars, broadcasts, kernelvars, callvars, pd, crashed, torn>>

-----------------------------------------------------------------------------
Next ==
  \/ \E c \in Clients : ConnectPoll(c) \/ PeerClose(c) \/ ReadEnd(c) \/ ReadData(c)
  \/ PutOutSocket \/ PutOutData
  \/ NotifyFrees \/ MoveEntry \/ CloseSocket
  \/ \E k \in 1..MAX_CONNECT : ClientDisconnect(k) \/ ClientSend(k)
  \/ \E fd \in Fds : SocketDisconnect(fd) \/ Send(fd)
  \/ FreeServer
  \/ \E t \in Senders : SendChunk(t) \/ SenderThread(t)
  \/ SendFails
  \/ Unblock
  \/ Broadcast
  \/ CastRead
  \/ CastSend

Spec == Init /\ [][Next]_vars

-----------------------------------------------------------------------------
(* Properties.                                                             *)

\* Whenever a client is not just being removed, the first x_nconnections entries
\* are the clients, each once and with a receiver of its own, whose descriptor is
\* that client's, and no other descriptor is open: whatever the order they left
\* in, and whatever the patch sends from within outlets, unless it disconnects
\* someone when it is told that someone has gone.
TableIsTrue ==
  PdIdle /\ notify = Free =>
    /\ \A i \in Entries : x_sr[i] \in live /\ fdconn[sr_fd[x_sr[i]]] = x_sr[i]
    /\ \A i, j \in Entries : x_sr[i] = x_sr[j] => i = j
    /\ live = {x_sr[i] : i \in Entries}
    /\ {fd \in Fds : fdconn[fd] # Null} = {sr_fd[c] : c \in live}

\* A client that stays gets no broadcast more than once, although the entries move
\* while the thread walks them, or are about to; only one that the thread has seen
\* in the moment in which its entry stood twice may get it twice, never more often.
BroadcastAtMostTwice == \A c \in audience : got[c] <= IF c \in doubled THEN 2 ELSE 1

\* "send message to client": what a client gets was sent to it.
ReachesItsClient == ~astray
=============================================================================
