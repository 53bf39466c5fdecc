----------------------------- MODULE Tcp_proofs -----------------------------
(***************************************************************************)
(* Proofs about a tcpserver, httpreceive, and OSC over TCP.                *)
(*                                                                         *)
(* The table of the server: whenever no client is being removed it names   *)
(* the clients, and a broadcast that walks it while its entries move one   *)
(* by one reaches nobody twice whom it has not seen in two places at once. *)
(*                                                                         *)
(* The input buffer of a client (TcpServerInput), for any size of it and   *)
(* any number of bytes: every callback puts out all it received, so that   *)
(* the head and the tail meet again at its end; from this follows what the *)
(* next one puts out.                                                      *)
(*                                                                         *)
(* httpreceive (HttpReceive), for any responses, sizes of its buffer and   *)
(* cuts: a header has its end where the four cells that are looked for are *)
(* and nowhere before, so that it is left with what was announced, and     *)
(* between two responses nothing is left of the first.                     *)
(*                                                                         *)
(* OSC (OscMessage, OscStream), for any packets, connections and cuts:     *)
(* what is written is read as what it was, argument by argument, message   *)
(* by message, byte by byte; so that reading what is under way over a      *)
(* connection always completes what was sent over it.                      *)
(***************************************************************************)
EXTENDS TcpServer, TcpServerInput, HttpReceive, OscStream, FiniteSetTheorems, BasicLemmas

\* The places of x_sr that name clients: in tcpserver_notify one more than are counted,
\* without the one that is to be overwritten next.
Named ==
  CASE notify.op = "out" -> 0..x_nconnections
    [] notify.op = "move" -> (0..x_nconnections) \ {notify.to}
    [] OTHER -> Entries

ServerTypeOK ==
  /\ x_sr \in [Places -> Clients \cup {Null}]
  /\ live \in SUBSET Clients
  /\ x_nconnections \in Nat
  /\ sr_fd \in [Clients -> Fds \cup {0}]
  /\ fdconn \in [Fds -> Clients \cup {Null}]
  /\ peer \in [Clients -> {"idle", "connected", "closed"}]
  /\ got \in [Clients -> Nat]
  /\ pd \in {Idle} \cup [op : {"send"}, to : Clients, fd : Fds, n : Nat]
  /\ notify \in {Free} \cup [op : {"out"}, at : Nat, fd : Fds] \cup [op : {"move"}, to : Nat, fd : Fds]
  /\ broadcast \in {Free} \cup [op : {"read"}, at : Nat] \cup [op : {"send"}, at : Nat, fd : Fds]

\* Each client that is there has one of these places; the place that is overwritten
\* next is the one that was freed, or names the client in the place before.
NamesInv ==
  /\ Cardinality(live) = IF notify.op = "out" THEN x_nconnections + 1 ELSE x_nconnections
  /\ Named \subseteq Places
  /\ \A i \in Named : x_sr[i] \in live
  /\ \A i, j \in Named : x_sr[i] = x_sr[j] => i = j
  /\ \A c \in live : \E i \in Named : x_sr[i] = c
  /\ notify.op = "out" =>
       /\ notify.at \in Named /\ notify.fd = sr_fd[x_sr[notify.at]]
       /\ x_sr[notify.at] \notin audience
  /\ notify.op = "move" =>
       /\ notify.to <= x_nconnections
       /\ x_sr[notify.to] = Null \/ (notify.to > 0 /\ x_sr[notify.to] = x_sr[notify.to - 1])

\* Each has one descriptor, and apart from the one that is being closed no other
\* descriptor is open.
DescriptorInv ==
  /\ \A c \in live : sr_fd[c] \in Fds /\ fdconn[sr_fd[c]] = c
  /\ \A fd \in Fds :
       IF notify.op = "move" /\ notify.fd = fd THEN fdconn[fd] \notin live
       ELSE fdconn[fd] # Null => fdconn[fd] \in live /\ sr_fd[fdconn[fd]] = fd

\* Of a client of the audience with place i: a copy says that the walk is behind i, and
\* two that it is behind the place after i as well, where it has seen the client again.
Walked(c, i) ==
  /\ broadcast # Free => /\ got[c] >= 1 => i < broadcast.at
                         /\ got[c] >= 2 => i + 1 < broadcast.at
  /\ broadcast.op = "send" /\ fdconn[broadcast.fd] = c =>
       \/ got[c] = 0 /\ i <= broadcast.at
       \/ got[c] = 1 /\ i + 1 <= broadcast.at /\ c \in doubled

WalkInv ==
  /\ audience \subseteq live
  /\ BroadcastAtMostTwice
  /\ \A i \in Named : x_sr[i] \in audience => Walked(x_sr[i], i)

ServerInv == ServerTypeOK /\ NamesInv /\ DescriptorInv /\ WalkInv

-----------------------------------------------------------------------------
\* What pd, notify and broadcast can be.
LEMMA PdIs ==
  ASSUME ServerTypeOK
  PROVE  /\ \/ pd = Idle
            \/ pd.op = "send" /\ pd.fd \in Fds /\ pd.to \in Clients /\ pd.n \in Nat
         /\ Idle.op = "idle"
         /\ pd = Idle <=> pd.op = "idle"
  BY DEF ServerTypeOK, Idle

LEMMA NotifyIs ==
  ASSUME ServerTypeOK
  PROVE  /\ \/ notify = Free
            \/ notify.op = "out" /\ notify.at \in Nat /\ notify.fd \in Fds
            \/ notify.op = "move" /\ notify.to \in Nat /\ notify.fd \in Fds
         /\ Free.op = "none"
         /\ notify = Free <=> notify.op \notin {"out", "move"}
  BY DEF ServerTypeOK, Free

LEMMA BroadcastIs ==
  ASSUME ServerTypeOK
  PROVE  /\ \/ broadcast = Free
            \/ broadcast.op = "read" /\ broadcast.at \in Nat
            \/ broadcast.op = "send" /\ broadcast.at \in Nat /\ broadcast.fd \in Fds
         /\ Free.op = "none"
         /\ broadcast = Free <=> broadcast.op = "none"
  BY DEF ServerTypeOK, Free

\* The places that name clients, in and out of tcpserver_notify.
LEMMA NamedIs ==
  /\ notify.op = "out" => Named = 0..x_nconnections
  /\ notify.op = "move" => Named = (0..x_nconnections) \ {notify.to}
  /\ notify.op \notin {"out", "move"} => Named = 0..(x_nconnections - 1)
<1>1. "out" # "move"
  OBVIOUS
<1> QED
  BY <1>1 DEF Named, Entries

LEMMA ServerBegins == Init => ServerInv
<1> SUFFICES ASSUME Init PROVE ServerInv
  OBVIOUS
<1>1. Idle.op = "idle" /\ Free.op = "none" /\ Cardinality({}) = 0
  BY FS_EmptySet DEF Idle, Free
<1>2. Named = {}
  BY <1>1, NamedIs DEF Init
<1>3. ServerTypeOK
  BY <1>1, TcpServerAssumption DEF Init, ServerTypeOK, Fds
<1>4. NamesInv
  BY <1>1, <1>2, TcpServerAssumption DEF Init, NamesInv
<1>5. DescriptorInv /\ WalkInv
  BY <1>1, <1>2, TcpServerAssumption DEF Init, DescriptorInv, WalkInv, BroadcastAtMostTwice, Fds
<1> QED
  BY <1>3, <1>4, <1>5 DEF ServerInv

\* The number of clients that are there.
LEMMA CountOfLive ==
  ASSUME ServerTypeOK
  PROVE  /\ IsFiniteSet(live) /\ Cardinality(live) \in Nat
         /\ \A c \in live : Cardinality(live \ {c}) = Cardinality(live) - 1
         /\ \A c \in Clients \ live : /\ Cardinality(live \cup {c}) = Cardinality(live) + 1
                                      /\ Cardinality(live) \in Places
<1>1. IsFiniteSet(live) /\ Cardinality(live) \in Nat
  BY FS_Subset, FS_CardinalityType, TcpServerAssumption DEF ServerTypeOK
<1>2. ASSUME NEW c \in live PROVE Cardinality(live \ {c}) = Cardinality(live) - 1
  BY <1>1, FS_RemoveElement DEF ServerTypeOK
<1>3. ASSUME NEW c \in Clients \ live
      PROVE  Cardinality(live \cup {c}) = Cardinality(live) + 1 /\ Cardinality(live) \in Places
  <2>1. Cardinality(live \cup {c}) = Cardinality(live) + 1
    BY <1>1, FS_AddElement DEF ServerTypeOK
  <2>2. live \cup {c} \subseteq Clients
    BY DEF ServerTypeOK
  <2>3. Cardinality(live \cup {c}) <= Cardinality(Clients) /\ Cardinality(Clients) \in Nat
    BY <2>2, FS_Subset, FS_CardinalityType, TcpServerAssumption
  <2> QED
    BY <1>1, <2>1, <2>3, TcpServerAssumption DEF Places
<1> QED
  BY <1>1, <1>2, <1>3

LEMMA ClientConnects ==
  ASSUME ServerInv, NEW c \in Clients, ConnectPoll(c)
  PROVE  ServerInv'
<1> DEFINE free == {f \in Fds : fdconn[f] = Null}
           fd == CHOOSE f \in free : \A g \in free : f <= g
<1>1. notify = Free /\ Free.op = "none" /\ c \notin live /\ free # {}
  BY NotifyIs DEF ConnectPoll, PollIdle, ServerInv
<1>2. fd \in free
  <2>1. free \in SUBSET Nat
    BY DEF Fds
  <2> HIDE DEF free
  <2>2. \E f \in free : \A g \in free : f <= g
    BY <1>1, <2>1, LeastNatural
  <2> QED
    BY <2>2
<1>3. /\ fdconn' = [fdconn EXCEPT ![fd] = c]
      /\ live' = live \cup {c}
      /\ sr_fd' = [sr_fd EXCEPT ![c] = fd]
      /\ x_sr' = [x_sr EXCEPT ![x_nconnections] = c]
      /\ x_nconnections' = x_nconnections + 1
      /\ peer' = [peer EXCEPT ![c] = "connected"]
      /\ UNCHANGED <<broadcast, audience, got, doubled, pd, notify>>
  BY DEF ConnectPoll, castvars, heardvars
<1>4. fd \in Fds /\ fdconn[fd] = Null
  BY <1>2
<1> HIDE DEF fd
<1>5. /\ x_nconnections \in Nat /\ x_nconnections = Cardinality(live) /\ x_nconnections \in Places
      /\ Cardinality(live') = x_nconnections'
  BY <1>1, <1>3, CountOfLive DEF ServerInv, ServerTypeOK, NamesInv
<1>6. /\ Named = 0..(x_nconnections - 1) /\ Named' = 0..x_nconnections
      /\ Named' = Named \cup {x_nconnections}
  BY <1>1, <1>3, <1>5, NamedIs DEF Named, Entries
<1> /\ \A i \in Named : x_sr'[i] = x_sr[i] /\ x_sr[i] \in live
    /\ x_sr'[x_nconnections] = c
    /\ x_nconnections \notin Named /\ Named' \subseteq Places
  BY <1>3, <1>5, <1>6 DEF ServerInv, ServerTypeOK, NamesInv
<1>7. ServerTypeOK'
  BY <1>1, <1>3, <1>4, <1>5 DEF ServerInv, ServerTypeOK
<1>8. NamesInv'
  <2>1. \A i \in Named' : x_sr'[i] \in live'
    BY <1>3, <1>6
  <2>2. \A i, j \in Named' : x_sr'[i] = x_sr'[j] => i = j
    BY <1>1, <1>6 DEF ServerInv, NamesInv
  <2>3. \A d \in live' : \E i \in Named' : x_sr'[i] = d
    BY <1>3, <1>6 DEF ServerInv, NamesInv
  <2>4. notify'.op = "none"
    BY <1>1, <1>3
  <2> QED
    BY <1>5, <2>1, <2>2, <2>3, <2>4 DEF NamesInv
<1>9. DescriptorInv'
  <2>1. notify.op = "none" /\ notify'.op = "none"
    BY <1>1, <1>3
  <2> QED
    BY <1>1, <1>3, <1>4, <2>1, TcpServerAssumption DEF ServerInv, ServerTypeOK, DescriptorInv
<1>10. WalkInv'
  <2>1. c \notin audience /\ c # Null
    BY <1>1, TcpServerAssumption DEF ServerInv, WalkInv
  <2>2. ASSUME NEW i \in Named', x_sr'[i] \in audience
        PROVE  i \in Named /\ x_sr'[i] = x_sr[i]
    BY <1>6, <2>1, <2>2
  <2>3. broadcast.op = "send" => broadcast.fd \in Fds
    BY BroadcastIs DEF ServerInv
  <2>4. ASSUME NEW i \in Named', x_sr'[i] \in audience
        PROVE  Walked(x_sr[i], i)'
    <3>1. broadcast.op = "send" /\ fdconn'[broadcast.fd] = x_sr[i] => fdconn[broadcast.fd] = x_sr[i]
      BY <1>3, <1>4, <2>1, <2>2, <2>3, <2>4 DEF ServerInv, ServerTypeOK
    <3>2. Walked(x_sr[i], i)
      BY <2>2, <2>4 DEF ServerInv, WalkInv
    <3>3. /\ broadcast' = broadcast /\ got' = got /\ doubled' = doubled
          /\ x_sr'[i] = x_sr[i]
      BY <1>3, <2>2, <2>4
    <3> QED
      BY <3>1, <3>2, <3>3 DEF Walked
  <2>5. audience' \subseteq live' /\ BroadcastAtMostTwice'
    BY <1>3 DEF ServerInv, WalkInv, BroadcastAtMostTwice
  <2> QED
    BY <1>3, <2>4, <2>5 DEF WalkInv
<1> QED
  BY <1>7, <1>8, <1>9, <1>10 DEF ServerInv

\* The client at i is counted out.
LEMMA EntryGoes ==
  ASSUME ServerInv, notify = Free, NEW i \in Entries, Notify(i)
  PROVE  ServerInv'
<1> DEFINE c == x_sr[i]
<1>1. notify.op = "none" /\ Named = Entries /\ x_nconnections \in Nat
  BY NotifyIs, NamedIs DEF ServerInv, ServerTypeOK, Entries
<1>2. /\ notify' = [op |-> "out", at |-> i, fd |-> sr_fd[c]]
      /\ x_nconnections' = x_nconnections - 1
      /\ audience' = audience \ {c}
      /\ got' = [got EXCEPT ![c] = 0]
      /\ doubled' = doubled \ {c}
      /\ UNCHANGED <<x_sr, live, sr_fd, broadcast, fdconn, peer, pd>>
  BY DEF Notify, castvars, kernelvars
<1>3. i \in Nat /\ c \in live /\ c \in Clients /\ sr_fd[c] \in Fds /\ x_nconnections' \in Nat
  BY <1>1, <1>2 DEF ServerInv, ServerTypeOK, NamesInv, DescriptorInv, Entries
<1>4. notify'.op = "out" /\ notify'.at = i /\ notify'.fd = sr_fd[c]
  BY <1>2
<1>5. Named' = Named
  <2>1. Named' = 0..x_nconnections'
    BY <1>4 DEF Named
  <2> QED
    BY <1>1, <1>2, <2>1 DEF Entries
<1>6. ServerTypeOK'
  <2>1. notify' \in [op : {"out"}, at : Nat, fd : Fds]
    BY <1>2, <1>3
  <2> QED
    BY <1>2, <1>3, <2>1 DEF ServerInv, ServerTypeOK
<1>7. NamesInv'
  <2>1. Cardinality(live) = x_nconnections' + 1
    BY <1>1, <1>2 DEF ServerInv, NamesInv
  <2> QED
    BY <1>1, <1>2, <1>4, <1>5, <2>1 DEF ServerInv, NamesInv
<1>8. DescriptorInv'
  BY <1>1, <1>2, <1>4 DEF ServerInv, DescriptorInv
<1>9. WalkInv'
  <2>1. ASSUME NEW j \in Named, x_sr[j] \in audience \ {c} PROVE Walked(x_sr[j], j)'
    <3>1. Walked(x_sr[j], j) /\ got'[x_sr[j]] = got[x_sr[j]]
      BY <1>2, <2>1 DEF ServerInv, ServerTypeOK, WalkInv
    <3> QED
      BY <1>2, <2>1, <3>1 DEF Walked
  <2>2. BroadcastAtMostTwice'
    BY <1>2 DEF ServerInv, ServerTypeOK, WalkInv, BroadcastAtMostTwice
  <2> QED
    BY <1>2, <1>5, <2>1, <2>2 DEF ServerInv, WalkInv
<1> QED
  BY <1>6, <1>7, <1>8, <1>9 DEF ServerInv

\* Its receiver is freed and its entry cleared.
LEMMA ReceiverIsFreed ==
  ASSUME ServerInv, NotifyFrees
  PROVE  ServerInv'
<1> DEFINE at == notify.at
           c == x_sr[at]
<1>1. /\ notify.op = "out" /\ at \in Nat /\ notify.fd \in Fds /\ x_nconnections \in Nat
      /\ Named = 0..x_nconnections
  BY NotifyIs, NamedIs DEF NotifyFrees, ServerInv, ServerTypeOK
<1>2. /\ live' = live \ {c}
      /\ x_sr' = [x_sr EXCEPT ![at] = Null]
      /\ notify' = [op |-> "move", to |-> at, fd |-> notify.fd]
      /\ UNCHANGED <<x_nconnections, sr_fd, broadcast, fdconn, peer, audience, got, doubled, pd>>
  BY DEF NotifyFrees, castvars, kernelvars, heardvars
<1>3. /\ at \in Named /\ at \in Places /\ at <= x_nconnections
      /\ c \in live /\ c \notin audience /\ notify.fd = sr_fd[c]
  BY <1>1 DEF ServerInv, NamesInv
<1>4. notify'.op = "move" /\ notify'.to = at /\ notify'.fd = notify.fd
  BY <1>2
<1>5. Named' = Named \ {at}
  <2>1. Named' = (0..x_nconnections') \ {notify'.to}
    BY <1>4 DEF Named
  <2> QED
    BY <1>1, <1>2, <1>4, <2>1
<1>6. \A j \in Named' : x_sr'[j] = x_sr[j] /\ x_sr[j] # c
  BY <1>2, <1>3, <1>5 DEF ServerInv, ServerTypeOK, NamesInv
<1>7. ServerTypeOK'
  <2>1. notify' \in [op : {"move"}, to : Nat, fd : Fds]
    BY <1>1, <1>2
  <2> QED
    BY <1>2, <2>1 DEF ServerInv, ServerTypeOK
<1>8. NamesInv'
  <2>1. Cardinality(live') = x_nconnections'
    BY <1>1, <1>2, <1>3, CountOfLive DEF ServerInv, NamesInv
  <2>2. x_sr'[notify'.to] = Null /\ notify'.to <= x_nconnections'
    BY <1>2, <1>3, <1>4 DEF ServerInv, ServerTypeOK
  <2>3. Named' \subseteq Places /\ \A j \in Named' : x_sr'[j] \in live'
    BY <1>2, <1>5, <1>6 DEF ServerInv, NamesInv
  <2>4. /\ \A j, k \in Named' : x_sr'[j] = x_sr'[k] => j = k
        /\ \A d \in live' : \E j \in Named' : x_sr'[j] = d
    BY <1>2, <1>5, <1>6 DEF ServerInv, NamesInv
  <2> QED
    BY <1>4, <2>1, <2>2, <2>3, <2>4 DEF NamesInv
<1>9. DescriptorInv'
  BY <1>1, <1>2, <1>3, <1>4 DEF ServerInv, ServerTypeOK, DescriptorInv
<1>10. WalkInv'
  <2>1. ASSUME NEW j \in Named', x_sr'[j] \in audience PROVE Walked(x_sr[j], j)'
    <3>1. Walked(x_sr[j], j)
      BY <1>5, <1>6, <2>1 DEF ServerInv, WalkInv
    <3> QED
      BY <1>2, <1>6, <2>1, <3>1 DEF Walked
  <2>2. audience' \subseteq live' /\ BroadcastAtMostTwice'
    BY <1>2, <1>3 DEF ServerInv, WalkInv, BroadcastAtMostTwice
  <2> QED
    BY <1>2, <2>1, <2>2 DEF WalkInv
<1> QED
  BY <1>7, <1>8, <1>9, <1>10 DEF ServerInv

\* An entry moves down one place.
LEMMA EntryMoves ==
  ASSUME ServerInv, MoveEntry
  PROVE  ServerInv'
<1> DEFINE k == notify.to
<1>1. /\ notify.op = "move" /\ k \in Nat /\ notify.fd \in Fds /\ k < x_nconnections
      /\ x_nconnections \in Nat /\ Named = (0..x_nconnections) \ {k}
  BY NotifyIs, NamedIs DEF MoveEntry, ServerInv, ServerTypeOK
<1>2. /\ x_sr' = [x_sr EXCEPT ![k] = x_sr[k + 1]]
      /\ notify' = [notify EXCEPT !.to = k + 1]
      /\ UNCHANGED <<x_nconnections, live, sr_fd, broadcast, fdconn, peer, audience, got, doubled, pd>>
  BY DEF MoveEntry, Moved, castvars, kernelvars, heardvars
<1>3. k + 1 \in Named /\ k + 1 \in Places /\ k \in Places
  BY <1>1, TcpServerAssumption DEF ServerInv, NamesInv, Places
<1>4. /\ notify'.op = "move" /\ notify'.to = k + 1 /\ notify'.fd = notify.fd
      /\ notify' \in [op : {"move"}, to : Nat, fd : Fds]
  <2>1. notify \in [op : {"move"}, to : Nat, fd : Fds]
    BY <1>1, NotifyIs DEF ServerInv, ServerTypeOK, Free
  <2> QED
    BY <1>1, <1>2, <2>1
<1>5. Named' = (Named \ {k + 1}) \cup {k}
  <2>1. Named' = (0..x_nconnections) \ {k + 1}
    BY <1>2, <1>4 DEF Named
  <2> QED
    BY <1>1, <2>1
<1>6. /\ x_sr'[k] = x_sr[k + 1] /\ x_sr'[k + 1] = x_sr[k + 1]
      /\ \A i \in Named \ {k + 1} : x_sr'[i] = x_sr[i] /\ i # k
  BY <1>1, <1>2, <1>3 DEF ServerInv, ServerTypeOK, NamesInv
<1>7. ServerTypeOK'
  BY <1>2, <1>3, <1>4 DEF ServerInv, ServerTypeOK
<1>8. NamesInv'
  <2>1. Cardinality(live') = x_nconnections' /\ notify'.op # "out"
    BY <1>1, <1>2, <1>4 DEF ServerInv, NamesInv
  <2>2. Named' \subseteq Places /\ \A i \in Named' : x_sr'[i] \in live'
    BY <1>2, <1>3, <1>5, <1>6 DEF ServerInv, NamesInv
  <2>3. \A i, j \in Named' : x_sr'[i] = x_sr'[j] => i = j
    BY <1>3, <1>5, <1>6 DEF ServerInv, NamesInv
  <2>4. \A d \in live' : \E i \in Named' : x_sr'[i] = d
    BY <1>2, <1>3, <1>5, <1>6 DEF ServerInv, NamesInv
  <2>5. notify'.to <= x_nconnections' /\ notify'.to > 0 /\ x_sr'[notify'.to] = x_sr'[notify'.to - 1]
    BY <1>1, <1>2, <1>4, <1>6
  <2> QED
    BY <2>1, <2>2, <2>3, <2>4, <2>5 DEF NamesInv
<1>9. DescriptorInv'
  BY <1>1, <1>2, <1>4 DEF ServerInv, DescriptorInv
<1>10. WalkInv'
  <2>1. ASSUME NEW i \in Named', x_sr'[i] \in audience PROVE Walked(x_sr[i], i)'
    <3>1. PICK j \in Named : j \in Nat /\ i \in Nat /\ i <= j /\ x_sr'[i] = x_sr[j]
      <4>1. CASE i = k
        BY <1>1, <1>3, <1>6, <4>1
      <4>2. CASE i # k
        BY <1>1, <1>5, <1>6, <4>2
      <4> QED
        BY <4>1, <4>2
    <3>2. Walked(x_sr[j], j)
      BY <2>1, <3>1 DEF ServerInv, WalkInv
    <3>3. /\ broadcast # Free => broadcast.at \in Nat
          /\ broadcast.op = "send" => broadcast # Free
      BY BroadcastIs DEF ServerInv
    <3> QED
      BY <1>2, <3>1, <3>2, <3>3 DEF Walked
  <2>2. audience' \subseteq live' /\ BroadcastAtMostTwice'
    BY <1>2 DEF ServerInv, WalkInv, BroadcastAtMostTwice
  <2> QED
    BY <1>2, <2>1, <2>2 DEF WalkInv
<1> QED
  BY <1>7, <1>8, <1>9, <1>10 DEF ServerInv

\* The socket of the client that went is closed.
LEMMA SocketCloses ==
  ASSUME ServerInv, CloseSocket
  PROVE  ServerInv'
<1>1. /\ notify.op = "move" /\ notify.to \in Nat /\ notify.fd \in Fds
      /\ x_nconnections \in Nat /\ notify.to = x_nconnections
      /\ Named = (0..x_nconnections) \ {notify.to}
  BY NotifyIs, NamedIs DEF CloseSocket, ServerInv, ServerTypeOK, NamesInv
<1>2. /\ fdconn' = [fdconn EXCEPT ![notify.fd] = Null]
      /\ peer' = [c \in Clients |-> IF c = fdconn[notify.fd] THEN "idle" ELSE peer[c]]
      /\ notify' = Free
      /\ UNCHANGED <<x_sr, x_nconnections, live, sr_fd, broadcast, audience, got, doubled, pd>>
  BY DEF CloseSocket, tablevars, castvars, heardvars
<1>3. notify'.op = "none"
  BY <1>2, NotifyIs DEF ServerInv
<1>4. Named' = Named
  <2>1. Named' = 0..(x_nconnections - 1)
    BY <1>2, <1>3 DEF Named, Entries
  <2> QED
    BY <1>1, <2>1
<1>5. ServerTypeOK'
  BY <1>2 DEF ServerInv, ServerTypeOK
<1>6. NamesInv'
  BY <1>1, <1>2, <1>3, <1>4 DEF ServerInv, NamesInv
<1>7. DescriptorInv'
  BY <1>1, <1>2, <1>3, TcpServerAssumption DEF ServerInv, ServerTypeOK, DescriptorInv
<1>8. WalkInv'
  <2>1. ASSUME NEW i \in Named, x_sr[i] \in audience PROVE Walked(x_sr[i], i)'
    <3>1. Walked(x_sr[i], i) /\ x_sr[i] # Null
      BY <2>1, TcpServerAssumption DEF ServerInv, ServerTypeOK, WalkInv
    <3>2. broadcast.op = "send" => broadcast.fd \in Fds
      BY BroadcastIs DEF ServerInv
    <3>3. broadcast.op = "send" /\ fdconn'[broadcast.fd] = x_sr[i] => fdconn[broadcast.fd] = x_sr[i]
      BY <1>2, <3>1, <3>2 DEF ServerInv, ServerTypeOK
    <3> QED
      BY <1>2, <3>1, <3>3 DEF Walked
  <2>2. audience' \subseteq live' /\ BroadcastAtMostTwice'
    BY <1>2 DEF ServerInv, WalkInv, BroadcastAtMostTwice
  <2> QED
    BY <1>2, <1>4, <2>1, <2>2 DEF WalkInv
<1> QED
  BY <1>5, <1>6, <1>7, <1>8 DEF ServerInv

-----------------------------------------------------------------------------
\* What leaves the table, the descriptors and the broadcast alone.
LEMMA TableStays ==
  ASSUME ServerInv, UNCHANGED <<tablevars, castvars, fdconn, heardvars, notify>>,
         peer' \in [Clients -> {"idle", "connected", "closed"}],
         UNCHANGED pd \/ pd' \in {Idle} \cup [op : {"send"}, to : Clients, fd : Fds, n : Nat]
  PROVE  ServerInv'
<1>1. Named' = Named
  BY DEF Named, Entries, tablevars
<1>2. ServerTypeOK'
  BY DEF ServerInv, ServerTypeOK, tablevars, castvars, heardvars
<1>3. NamesInv'
  BY <1>1 DEF ServerInv, NamesInv, tablevars, heardvars
<1>4. DescriptorInv'
  BY DEF ServerInv, DescriptorInv, tablevars
<1>5. WalkInv'
  BY <1>1 DEF ServerInv, WalkInv, BroadcastAtMostTwice, Walked, tablevars, castvars, heardvars
<1> QED
  BY <1>2, <1>3, <1>4, <1>5 DEF ServerInv

LEMMA SendBegins ==
  ASSUME ServerInv, NEW i \in Places, x_sr[i] \in live, BeginSend(i)
  PROVE  ServerInv'
<1>1. Sending(i) \in [op : {"send"}, to : Clients, fd : Fds, n : Nat]
  BY DEF Sending, ServerInv, ServerTypeOK, DescriptorInv
<1> QED
  BY <1>1, TableStays DEF BeginSend, ServerInv, ServerTypeOK, kernelvars, callvars

LEMMA ChunkIsSent ==
  ASSUME ServerInv, NEW t \in Senders, SendChunk(t)
  PROVE  ServerInv'
<1>1. pd \in [op : {"send"}, to : Clients, fd : Fds, n : Nat]
  BY DEF SendChunk, ServerInv, ServerTypeOK, Idle
<1>2. pd' \in {Idle} \cup [op : {"send"}, to : Clients, fd : Fds, n : Nat]
  BY <1>1 DEF SendChunk
<1> QED
  BY <1>2, TableStays DEF SendChunk, ServerInv, ServerTypeOK, kernelvars, callvars

-----------------------------------------------------------------------------
LEMMA CastBegins ==
  ASSUME ServerInv, Broadcast
  PROVE  ServerInv'
<1>1. /\ UNCHANGED <<tablevars, fdconn, peer, pd, notify>>
      /\ broadcast' = [op |-> "read", at |-> 0]
      /\ got' = [c \in Clients |-> 0]
      /\ audience' = Staying
  BY DEF Broadcast, kernelvars, callvars
<1>2. Named' = Named /\ broadcast'.op = "read"
  BY <1>1 DEF Named, Entries, tablevars
<1>3. /\ Staying \subseteq live
      /\ notify.op = "out" => x_sr[notify.at] \notin Staying
  BY DEF Staying
<1>4. ServerTypeOK'
  BY <1>1 DEF ServerInv, ServerTypeOK, tablevars
<1>5. NamesInv' /\ DescriptorInv'
  BY <1>1, <1>2, <1>3 DEF ServerInv, NamesInv, DescriptorInv, tablevars
<1>6. WalkInv'
  <2>1. \A c \in audience' : got'[c] = 0
    BY <1>1, <1>3 DEF ServerInv, ServerTypeOK
  <2> QED
    BY <1>1, <1>2, <1>3, <2>1 DEF WalkInv, BroadcastAtMostTwice, Walked, tablevars
<1> QED
  BY <1>4, <1>5, <1>6 DEF ServerInv

\* The thread's end leaves no audience.
LEMMA CastIsOver ==
  ASSUME ServerInv, CastEnds, UNCHANGED <<tablevars, kernelvars, pd, notify>>
  PROVE  ServerInv'
<1>1. Named' = Named
  BY DEF Named, Entries, tablevars
<1>2. ServerTypeOK'
  BY DEF CastEnds, ServerInv, ServerTypeOK, tablevars, kernelvars
<1>3. NamesInv' /\ DescriptorInv'
  BY <1>1 DEF CastEnds, ServerInv, NamesInv, DescriptorInv, tablevars, kernelvars
<1>4. WalkInv'
  BY DEF CastEnds, WalkInv, BroadcastAtMostTwice
<1> QED
  BY <1>2, <1>3, <1>4 DEF ServerInv

LEMMA CastReads ==
  ASSUME ServerInv, CastRead
  PROVE  ServerInv'
<1>1. broadcast.op = "read" /\ broadcast.at \in Nat /\ broadcast # Free
  BY BroadcastIs DEF CastRead, ServerInv
<1>2. CASE CastEnds /\ UNCHANGED <<tablevars, kernelvars, callvars, pd>>
  BY <1>2, CastIsOver DEF callvars
<1>3. CASE Crash
  BY <1>3, TableStays DEF Crash, ServerInv, ServerTypeOK, kernelvars, callvars
<1>4. CASE /\ broadcast.at < x_nconnections /\ x_sr[broadcast.at] \in live
           /\ broadcast' = [op |-> "send", at |-> broadcast.at, fd |-> sr_fd[x_sr[broadcast.at]]]
           /\ doubled' = IF notify.op = "move" /\ notify.to = broadcast.at
                         THEN doubled \cup ({x_sr[broadcast.at]} \cap audience) ELSE doubled
           /\ UNCHANGED <<tablevars, got, kernelvars, audience, callvars, pd>>
  <2> DEFINE b == broadcast.at
             c == x_sr[b]
  <2>1. sr_fd[c] \in Fds /\ fdconn[sr_fd[c]] = c
    BY <1>4 DEF ServerInv, DescriptorInv
  <2>2. /\ broadcast'.op = "send" /\ broadcast'.at = b /\ broadcast'.fd = sr_fd[c]
        /\ broadcast' \in [op : {"send"}, at : Nat, fd : Fds]
    BY <1>1, <1>4, <2>1
  <2>3. /\ Named' = Named
        /\ UNCHANGED <<x_sr, x_nconnections, live, sr_fd, fdconn, peer, got, audience, notify, pd>>
    BY <1>4 DEF Named, Entries, tablevars, kernelvars, callvars
  <2>4. ServerTypeOK'
    BY <2>2, <2>3 DEF ServerInv, ServerTypeOK
  <2>5. NamesInv' /\ DescriptorInv'
    BY <2>3 DEF ServerInv, NamesInv, DescriptorInv
  <2>6. ASSUME NEW i \in Named, x_sr[i] = c, c \in audience
        PROVE  \/ got[c] = 0 /\ i <= b
               \/ got[c] = 1 /\ i + 1 <= b /\ c \in doubled'
    <3>1. /\ Walked(c, i) /\ got[c] \in Nat
          /\ (got[c] >= 1 => i < b) /\ (got[c] >= 2 => i + 1 < b)
      BY <1>1, <2>6 DEF ServerInv, ServerTypeOK, WalkInv, Walked
    <3>2. x_nconnections \in Nat /\ (b \in Named \/ (notify.op = "move" /\ notify.to = b))
      BY <1>1, <1>4, NamedIs DEF ServerInv, ServerTypeOK
    <3>3. CASE b \in Named
      <4>1. i = b
        BY <1>4, <2>6, <3>3 DEF ServerInv, NamesInv
      <4> QED
        BY <1>1, <3>1, <4>1
    <3>4. CASE notify.op = "move" /\ notify.to = b
      <4>1. b > 0 /\ c = x_sr[b - 1]
        BY <1>1, <1>4, <3>4, TcpServerAssumption DEF ServerInv, ServerTypeOK, NamesInv
      <4>2. b - 1 \in Named
        BY <1>1, <1>4, <3>2, <3>4, <4>1, NamedIs
      <4>3. i = b - 1
        BY <2>6, <4>1, <4>2 DEF ServerInv, NamesInv
      <4>4. c \in doubled'
        BY <1>4, <2>6, <3>4
      <4> QED
        BY <1>1, <3>1, <4>3, <4>4
    <3> QED
      BY <3>2, <3>3, <3>4
  <2>7. ASSUME NEW i \in Named, x_sr[i] \in audience PROVE Walked(x_sr[i], i)'
    <3>1. Walked(x_sr[i], i)
      BY <2>7 DEF ServerInv, WalkInv
    <3> QED
      BY <1>1, <2>1, <2>2, <2>3, <2>6, <2>7, <3>1 DEF Walked
  <2>8. audience' \subseteq live' /\ BroadcastAtMostTwice'
    BY <1>4, <2>3 DEF ServerInv, ServerTypeOK, WalkInv, BroadcastAtMostTwice
  <2>9. WalkInv'
    BY <2>3, <2>7, <2>8 DEF WalkInv
  <2> QED
    BY <2>4, <2>5, <2>9 DEF ServerInv
<1> QED
  BY <1>1, <1>2, <1>3, <1>4 DEF CastRead, ServerInv, ServerTypeOK

LEMMA CastSends ==
  ASSUME ServerInv, CastSend
  PROVE  ServerInv'
<1>1. broadcast.op = "send" /\ broadcast.at \in Nat /\ broadcast.fd \in Fds /\ broadcast # Free
  BY BroadcastIs DEF CastSend, ServerInv
<1>2. UNCHANGED <<tablevars, kernelvars, pd, notify>>
  BY DEF CastSend, callvars
<1>3. CASE CastEnds
  BY <1>2, <1>3, CastIsOver
<1>4. CASE /\ got' = [c \in Clients |->
                IF c = fdconn[broadcast.fd] /\ c \in audience THEN got[c] + 1 ELSE got[c]]
           /\ broadcast' = CastNext
           /\ UNCHANGED <<audience, doubled>>
  <2> DEFINE c == fdconn[broadcast.fd]
  <2>1. /\ broadcast' \in [op : {"read"}, at : Nat] /\ broadcast'.op = "read"
        /\ broadcast'.at = broadcast.at + 1
    BY <1>1, <1>4 DEF CastNext
  <2>2. Named' = Named /\ UNCHANGED <<x_sr, x_nconnections, live, sr_fd, fdconn, peer>>
    BY <1>2 DEF Named, Entries, tablevars, kernelvars
  <2>3. ServerTypeOK'
    BY <1>2, <1>4, <2>1, <2>2 DEF ServerInv, ServerTypeOK
  <2>4. NamesInv' /\ DescriptorInv'
    BY <1>2, <1>4, <2>2 DEF ServerInv, NamesInv, DescriptorInv
  <2>5. ASSUME NEW i \in Named, x_sr[i] \in audience
        PROVE  /\ Walked(x_sr[i], i)'
               /\ got'[x_sr[i]] <= IF x_sr[i] \in doubled THEN 2 ELSE 1
    <3>1. /\ Walked(x_sr[i], i) /\ i \in Nat /\ got[x_sr[i]] \in Nat /\ x_sr[i] \in Clients
          /\ got[x_sr[i]] <= IF x_sr[i] \in doubled THEN 2 ELSE 1
      BY <2>5 DEF ServerInv, ServerTypeOK, NamesInv, WalkInv, BroadcastAtMostTwice, Places
    <3>2. CASE x_sr[i] = c
      <4>1. got'[x_sr[i]] = got[x_sr[i]] + 1
        BY <1>4, <2>5, <3>1, <3>2
      <4>2. \/ got[x_sr[i]] = 0 /\ i <= broadcast.at
            \/ got[x_sr[i]] = 1 /\ i + 1 <= broadcast.at /\ x_sr[i] \in doubled
        BY <1>1, <3>1, <3>2 DEF Walked
      <4> QED
        BY <1>1, <2>1, <2>2, <3>1, <4>1, <4>2 DEF Walked
    <3>3. CASE x_sr[i] # c
      <4>1. got'[x_sr[i]] = got[x_sr[i]]
        BY <1>4, <3>1, <3>3
      <4> QED
        BY <1>1, <2>1, <2>2, <3>1, <4>1 DEF Walked
    <3> QED
      BY <3>2, <3>3
  <2>6. \A d \in audience : \E i \in Named : x_sr[i] = d
    BY DEF ServerInv, NamesInv, WalkInv
  <2>7. WalkInv'
    BY <1>4, <2>2, <2>5, <2>6 DEF ServerInv, WalkInv, BroadcastAtMostTwice
  <2> QED
    BY <2>3, <2>4, <2>7 DEF ServerInv
<1> QED
  BY <1>3, <1>4 DEF CastSend

-----------------------------------------------------------------------------
LEMMA ServerStep == ServerInv /\ Next => ServerInv'
<1> SUFFICES ASSUME ServerInv, Next PROVE ServerInv'
  OBVIOUS
<1> USE DEF ServerInv
<1>1. ASSUME NEW c \in Clients, ConnectPoll(c) PROVE ServerInv'
  BY <1>1, ClientConnects
<1>2. ASSUME NEW c \in Clients, PeerClose(c) PROVE ServerInv'
  BY <1>2, TableStays DEF PeerClose, ServerTypeOK, callvars
<1>3. ASSUME NEW c \in Clients, ReadEnd(c) PROVE ServerInv'
  BY <1>3, EntryGoes DEF ReadEnd, PollIdle
<1>4. ASSUME Crash \/ Tear PROVE ServerInv'
  BY <1>4, TableStays DEF Crash, Tear, ServerTypeOK, kernelvars, callvars
<1>5. ASSUME NEW k \in 1..MAX_CONNECT, ClientDisconnect(k) PROVE ServerInv'
  <2>1. Tear \/ Crash \/ (notify = Free /\ \E i \in Entries : Notify(i))
    BY <1>5, NotifyIs DEF ClientDisconnect, MayMessage
  <2> QED
    BY <1>4, <2>1, EntryGoes
<1>6. ASSUME NEW k \in 1..MAX_CONNECT, ClientSend(k) PROVE ServerInv'
  <2>1. Entry(k) \in Places
    BY <1>6, TcpServerAssumption DEF ClientSend, InRange, Entry, Places
  <2> QED
    BY <1>4, <1>6, <2>1, SendBegins DEF ClientSend, Alive
<1>7. ASSUME NEW fd \in Fds, SocketDisconnect(fd) PROVE ServerInv'
  <2>1. Tear \/ (notify = Free /\ \E i \in Entries : Notify(i))
    BY <1>7, NotifyIs DEF SocketDisconnect, MayMessage
  <2> QED
    BY <1>4, <2>1, EntryGoes
<1>8. ASSUME NEW fd \in Fds, Send(fd) PROVE ServerInv'
  <2>1. notify.op # "move" /\ x_nconnections \in Nat
    BY <1>8 DEF Send, MayMessage, ServerTypeOK
  <2>2. Entries \subseteq Named
    BY <2>1, NamedIs DEF Entries
  <2>3. \A i \in Entries : i \in Places /\ x_sr[i] \in live
    BY <2>2 DEF NamesInv
  <2> QED
    BY <1>8, <2>3, SendBegins DEF Send
<1>9. ASSUME SendFails PROVE ServerInv'
  BY <1>9, TableStays DEF SendFails, ServerTypeOK, kernelvars, callvars
<1>10. ASSUME Unblock PROVE ServerInv'
  BY <1>10, TableStays DEF Unblock, ServerTypeOK, kernelvars, callvars
<1>11. ASSUME NEW t \in Senders, SenderThread(t) PROVE ServerInv'
  BY <1>11, TableStays DEF SenderThread, ServerTypeOK, kernelvars, callvars
<1>12. ASSUME NEW c \in Clients, ReadData(c) PROVE ServerInv'
  BY <1>12, TableStays DEF ReadData, ServerTypeOK, kernelvars
<1>13. ASSUME PutOutSocket \/ PutOutData PROVE ServerInv'
  BY <1>4, <1>13, TableStays DEF PutOutSocket, PutOutData, ServerTypeOK, kernelvars
<1> QED
  BY <1>1, <1>2, <1>3, <1>4, <1>5, <1>6, <1>7, <1>8, <1>9, <1>10, <1>11, <1>12, <1>13,
     ReceiverIsFreed, EntryMoves, SocketCloses, ChunkIsSent, CastBegins, CastReads, CastSends
  DEF Next, FreeServer

LEMMA ServerInvariant == Spec => []ServerInv
<1>1. ServerInv /\ UNCHANGED vars => ServerInv'
  BY TableStays DEF vars, kernelvars, callvars, ServerInv, ServerTypeOK
<1> QED
  BY <1>1, ServerBegins, ServerStep, PTL DEF Spec

\* Whenever no client is just being removed, the table of a tcpserver names each client
\* that is there once, with its own descriptor, and no other descriptor is open, in
\* whatever order they leave, and whatever messages come from within outlets.
THEOREM ServerTableIsTrue == Spec => []TableIsTrue
<1>1. ServerInv => TableIsTrue
  <2> SUFFICES ASSUME ServerInv, notify = Free PROVE TableIsTrue
    BY DEF TableIsTrue
  <2>1. Named = Entries /\ notify.op = "none"
    BY NotifyIs, NamedIs DEF ServerInv, Entries
  <2>2. live = {x_sr[i] : i \in Entries}
    BY <2>1 DEF ServerInv, NamesInv
  <2>3. {fd \in Fds : fdconn[fd] # Null} = {sr_fd[c] : c \in live}
    BY <2>1, TcpServerAssumption DEF ServerInv, ServerTypeOK, DescriptorInv
  <2> QED
    BY <2>1, <2>2, <2>3 DEF ServerInv, NamesInv, DescriptorInv, TableIsTrue
<1> QED
  BY <1>1, ServerInvariant, PTL

\* No client that stays gets a broadcast more than twice, and only one that the thread has
\* seen while its entry stood twice gets it more than once, although entries move under
\* the thread's hands, one by one, and descriptors are given out again.
THEOREM ServerBroadcastsAtMostTwice == Spec => []BroadcastAtMostTwice
<1>1. ServerInv => BroadcastAtMostTwice
  BY DEF ServerInv, WalkInv
<1> QED
  BY <1>1, ServerInvariant, PTL

-----------------------------------------------------------------------------
(* The input buffer of a client.                                           *)

ReadInputInv ==
  /\ sr_inhead \in BufIndex
  /\ sr_intail = sr_inhead
  /\ sr_inbuf \in [BufIndex -> Nat]
  /\ recvd \in Nat
  /\ lastn \in 0..INBUFSIZE
  /\ OutputsWhatItReceives

LEMMA InputBegins == IInit => ReadInputInv
<1> SUFFICES ASSUME IInit PROVE ReadInputInv
  OBVIOUS
<1>1. sr_inhead \in BufIndex /\ sr_inbuf \in [BufIndex -> Nat]
  BY InputAssumption DEF IInit, BufIndex
<1>2. Room > 0
  BY InputAssumption DEF IInit, Room, readto
<1>3. Nothing = [i \in 1..0 |-> 0 - 0 + i]
  BY DEF Nothing
<1> QED
  BY <1>1, <1>2, <1>3, InputAssumption DEF IInit, ReadInputInv, OutputsWhatItReceives

\* A callback puts out as many bytes as it received, unless they fill the buffer.
LEMMA PendingIsReceived ==
  ASSUME ReadInputInv, NEW n \in 1..INBUFSIZE, n <= Room
  PROVE  /\ HeadAfter(n) \in BufIndex
         /\ sr_inhead + n <= INBUFSIZE
         /\ Pending(n) = IF n = INBUFSIZE THEN 0 ELSE n
<1>1. /\ INBUFSIZE \in Nat \ {0} /\ sr_inhead \in 0..(INBUFSIZE - 1) /\ sr_intail = sr_inhead
      /\ n \in 1..INBUFSIZE
  BY InputAssumption DEF ReadInputInv, BufIndex
<1>2. sr_inhead + n <= INBUFSIZE
  BY <1>1 DEF Room, readto
<1>3. HeadAfter(n) = IF sr_inhead + n >= INBUFSIZE THEN 0 ELSE sr_inhead + n
  BY DEF HeadAfter
<1>4. Pending(n) = IF n = INBUFSIZE THEN 0 ELSE n
  BY <1>1, <1>2, <1>3 DEF Pending
<1> QED
  BY <1>1, <1>2, <1>3, <1>4 DEF BufIndex

LEMMA InputGoesOn ==
  ASSUME ReadInputInv, NEW n \in 1..INBUFSIZE, ReadInput(n)
  PROVE  ReadInputInv'
<1>1. /\ INBUFSIZE \in Nat \ {0} /\ sr_inhead \in 0..(INBUFSIZE - 1) /\ sr_intail = sr_inhead
      /\ recvd \in Nat /\ sr_inbuf \in [BufIndex -> Nat] /\ n \in 1..INBUFSIZE
  BY InputAssumption DEF ReadInputInv, BufIndex
<1>2. /\ HeadAfter(n) \in BufIndex
      /\ sr_inhead + n <= INBUFSIZE
      /\ Pending(n) = IF n = INBUFSIZE THEN 0 ELSE n
  BY PendingIsReceived DEF ReadInput
<1>3. /\ sr_inbuf' = Filled(n) /\ recvd' = recvd + n /\ lastn' = n
      /\ outlet' = [i \in 1..Pending(n) |-> Filled(n)[(sr_intail + i - 1) % INBUFSIZE]]
      /\ sr_inhead' = HeadAfter(n) /\ sr_intail' = HeadAfter(n)
  BY DEF ReadInput
<1>4. sr_inbuf' \in [BufIndex -> Nat]
  <2>1. ASSUME NEW i \in BufIndex
        PROVE  (IF i \in sr_inhead..(sr_inhead + n - 1) THEN recvd + i - sr_inhead + 1
                ELSE sr_inbuf[i]) \in Nat
    BY <1>1 DEF BufIndex
  <2> QED
    BY <1>3, <2>1 DEF Filled
<1>5. Room' > 0
  BY <1>1, <1>2, <1>3 DEF Room, readto, BufIndex
<1>6. CASE n = INBUFSIZE
  <2>1. outlet' = Nothing
    BY <1>1, <1>2, <1>3, <1>6 DEF Nothing
  <2> QED
    BY <1>1, <1>2, <1>3, <1>4, <1>5, <1>6, <2>1 DEF ReadInputInv, OutputsWhatItReceives
<1>7. CASE n # INBUFSIZE
  <2>1. ASSUME NEW i \in 1..n
        PROVE  Filled(n)[(sr_intail + i - 1) % INBUFSIZE] = recvd' - lastn' + i
    <3> DEFINE k == sr_inhead + i - 1
    <3>1. k \in 0..(INBUFSIZE - 1) /\ k \in sr_inhead..(sr_inhead + n - 1)
      BY <1>1, <1>2
    <3>2. k \in 0..(2 * INBUFSIZE - 1) /\ k < INBUFSIZE
      BY <1>1, <3>1
    <3>3. sr_intail + i - 1 = k
      BY <1>1
    <3> HIDE DEF k
    <3>4. k % INBUFSIZE = k
      BY <1>1, <3>2, ModSmall
    <3>5. Filled(n)[k] = recvd + k - sr_inhead + 1
      BY <3>1 DEF Filled, BufIndex
    <3>6. recvd + k - sr_inhead + 1 = recvd + i
      BY <1>1, <3>3
    <3>7. recvd' - lastn' + i = recvd + i
      BY <1>1, <1>3
    <3> QED
      BY <3>3, <3>4, <3>5, <3>6, <3>7
  <2>2. outlet' = [i \in 1..lastn' |-> recvd' - lastn' + i]
    BY <1>2, <1>3, <1>7, <2>1
  <2>3. lastn' # INBUFSIZE
    BY <1>3, <1>7
  <2>4. OutputsWhatItReceives'
    BY <1>5, <2>2, <2>3 DEF OutputsWhatItReceives
  <2>5. recvd' \in Nat /\ lastn' \in 0..INBUFSIZE
    BY <1>1, <1>3
  <2> QED
    BY <1>2, <1>3, <1>4, <2>4, <2>5 DEF ReadInputInv
<1> QED
  BY <1>6, <1>7

\* What a callback receives it puts out, all of it and in order, for every size of the
\* buffer, unless the bytes fill it; and there is always room for recv().
THEOREM InputIsPutOut == ISpec => []OutputsWhatItReceives
<1>1. ReadInputInv /\ [INext]_invars => ReadInputInv'
  <2> SUFFICES ASSUME ReadInputInv, [INext]_invars PROVE ReadInputInv'
    OBVIOUS
  <2>1. CASE INext
    BY <2>1, InputGoesOn DEF INext
  <2>2. CASE UNCHANGED invars
    <3>1. /\ sr_inbuf' = sr_inbuf /\ sr_inhead' = sr_inhead /\ sr_intail' = sr_intail
          /\ recvd' = recvd /\ lastn' = lastn /\ outlet' = outlet
      BY <2>2 DEF invars
    <3>2. Room' = Room
      BY <3>1 DEF Room, readto
    <3>3. OutputsWhatItReceives' = OutputsWhatItReceives
      BY <3>1, <3>2 DEF OutputsWhatItReceives, Nothing
    <3> QED
      BY <3>1, <3>3 DEF ReadInputInv
  <2> QED
    BY <2>1, <2>2
<1>2. ReadInputInv => OutputsWhatItReceives
  BY DEF ReadInputInv
<1> QED
  BY InputBegins, <1>1, <1>2, PTL DEF ISpec

-----------------------------------------------------------------------------
(* httpreceive: the cells of a header.                                     *)

Cells ==
  [what : {"CR", "LF", "byte", "status", "field"},
   name : {"", "Content-Length", "content-length", "other"}, value : Nat, length : Nat]

FieldCell(r, i) == Field(r.fields[i])
FieldCells(r) == [i \in 1..Len(r.fields) |-> FieldCell(r, i)]

LEMMA ResponseParts ==
  ASSUME NEW r \in Responses
  PROVE  /\ r.message \in Nat /\ Len(r.fields) \in Nat /\ DOMAIN r.fields = 1..Len(r.fields)
         /\ CR \in Cells /\ LF \in Cells /\ Byte \in Cells /\ Status(r) \in Cells
         /\ \A i \in 1..Len(r.fields) : FieldCell(r, i) \in Cells /\ r.fields[i].value \in Nat
         /\ Message(r) \in Seq(Cells) /\ Len(Message(r)) = r.message
<1> DEFINE Names == {"Content-Length", "content-length", "other"}
           F == [name : Names, value : Nat, length : Nat]
<1>1. r.code \in Nat /\ r.reason \in Nat /\ r.message \in Nat /\ r.fields \in Seq(F)
  BY HttpAssumption
<1>2. Len(r.fields) \in Nat /\ DOMAIN r.fields = 1..Len(r.fields)
  BY <1>1, LenProperties
<1>3. CR \in Cells /\ LF \in Cells /\ Byte \in Cells /\ Status(r) \in Cells
  BY <1>1 DEF CR, LF, Byte, Status, Cell, Cells
<1>4. ASSUME NEW i \in 1..Len(r.fields)
      PROVE  FieldCell(r, i) \in Cells /\ r.fields[i].value \in Nat
  <2>1. r.fields[i] \in F
    BY <1>1, ElementOfSeq
  <2> QED
    BY <2>1 DEF FieldCell, Field, Cell, Cells
<1>5. Message(r) \in Seq(Cells) /\ Len(Message(r)) = r.message
  BY <1>1, <1>3 DEF Message
<1> QED
  BY <1>1, <1>2, <1>3, <1>4, <1>5

\* Where a header has its lines: h is one with n fields, of which c gives the cells.
HasLines(h, n, c) ==
  /\ h \in Seq(Cells) /\ Len(h) = 3 * n
  /\ \A i \in 1..n : h[3 * i - 2] = c[i] /\ h[3 * i - 1] = CR /\ h[3 * i] = LF

LEMMA LineMore ==
  ASSUME NEW n \in Nat, NEW c, NEW h, HasLines(h, n, c), NEW e \in Cells, c[n + 1] = e,
         CR \in Cells, LF \in Cells
  PROVE  HasLines(h \o Line(e), n + 1, c) /\ Line(e) \in Seq(Cells)
<1> DEFINE l == Line(e)
<1>1. l \in Seq(Cells) /\ Len(l) = 3 /\ l[1] = e /\ l[2] = CR /\ l[3] = LF
  BY DEF Line
<1> HIDE DEF l
<1>2. h \in Seq(Cells) /\ Len(h) = 3 * n
  BY DEF HasLines
<1>3. /\ h \o l \in Seq(Cells) /\ Len(h \o l) = 3 * n + 3
      /\ \A i \in 1..(3 * n + 3) : (h \o l)[i] = IF i <= 3 * n THEN h[i] ELSE l[i - 3 * n]
  <2>1. /\ h \o l \in Seq(Cells) /\ Len(h \o l) = Len(h) + Len(l)
        /\ \A i \in 1..(Len(h) + Len(l)) : (h \o l)[i] = IF i <= Len(h) THEN h[i] ELSE l[i - Len(h)]
    BY <1>1, <1>2, ConcatProperties
  <2> QED
    BY <1>1, <1>2, <2>1
<1> DEFINE g == h \o l
<1> HIDE DEF g
<1>4. /\ g \in Seq(Cells) /\ Len(g) = 3 * n + 3
      /\ \A i \in 1..(3 * n + 3) : g[i] = IF i <= 3 * n THEN h[i] ELSE l[i - 3 * n]
  BY <1>3 DEF g
<1>5. ASSUME NEW i \in 1..n
      PROVE  g[3 * i - 2] = c[i] /\ g[3 * i - 1] = CR /\ g[3 * i] = LF
  <2>1. h[3 * i - 2] = c[i] /\ h[3 * i - 1] = CR /\ h[3 * i] = LF
    BY DEF HasLines
  <2>2. /\ 3 * i - 2 \in 1..(3 * n + 3) /\ 3 * i - 1 \in 1..(3 * n + 3) /\ 3 * i \in 1..(3 * n + 3)
        /\ 3 * i - 2 <= 3 * n /\ 3 * i - 1 <= 3 * n /\ 3 * i <= 3 * n
    OBVIOUS
  <2> QED
    BY <1>4, <2>1, <2>2
<1>6. g[3 * n + 1] = e /\ g[3 * n + 2] = CR /\ g[3 * n + 3] = LF
  <2>1. /\ 3 * n + 1 \in 1..(3 * n + 3) /\ 3 * n + 2 \in 1..(3 * n + 3) /\ 3 * n + 3 \in 1..(3 * n + 3)
        /\ (3 * n + 1) - 3 * n = 1 /\ (3 * n + 2) - 3 * n = 2 /\ (3 * n + 3) - 3 * n = 3
    OBVIOUS
  <2> QED
    BY <1>1, <1>4, <2>1
<1>7. HasLines(g, n + 1, c)
  <2>1. ASSUME NEW i \in 1..(n + 1)
        PROVE  g[3 * i - 2] = c[i] /\ g[3 * i - 1] = CR /\ g[3 * i] = LF
    <3>1. CASE i = n + 1
      <4>1. 3 * i - 2 = 3 * n + 1 /\ 3 * i - 1 = 3 * n + 2 /\ 3 * i = 3 * n + 3
        BY <3>1
      <4> QED
        BY <1>6, <3>1, <4>1
    <3>2. CASE i # n + 1
      <4>1. i \in 1..n
        BY <3>2
      <4> QED
        BY <1>5, <4>1
    <3> QED
      BY <3>1, <3>2
  <2>2. 3 * (n + 1) = 3 * n + 3
    OBVIOUS
  <2> QED
    BY <1>4, <2>1, <2>2 DEF HasLines
<1> QED
  BY <1>1, <1>7 DEF g, l

\* The lines of the fields.
LEMMA FieldLines ==
  ASSUME NEW r \in Responses
  PROVE  HasLines(FlattenSeq([i \in DOMAIN r.fields |-> Line(Field(r.fields[i]))]),
                  Len(r.fields), FieldCells(r))
<1> DEFINE n == Len(r.fields)
           c == FieldCells(r)
           L(k) == [i \in 1..k |-> Line(FieldCell(r, i))]
           Good(k) == L(k) \in Seq(Seq(Cells)) /\ HasLines(FlattenSeq(L(k)), k, c)
           Bad == {k \in 0..n : ~Good(k)}
<1>1. /\ n \in Nat /\ DOMAIN r.fields = 1..n /\ CR \in Cells /\ LF \in Cells
      /\ \A i \in 1..n : FieldCell(r, i) \in Cells /\ c[i] = FieldCell(r, i)
  BY ResponseParts DEF FieldCells
<1> HIDE DEF n, c
<1>2. Good(0)
  <2>1. L(0) = <<>>
    OBVIOUS
  <2>2. <<>> \in Seq(Seq(Cells)) /\ <<>> \in Seq(Cells) /\ Len(<<>>) = 0
    BY EmptySeq
  <2>3. FlattenSeq(<<>>) = <<>>
    BY <2>2, FlattenProperties
  <2>4. HasLines(<<>>, 0, c)
    BY <2>2 DEF HasLines
  <2> QED
    BY <2>1, <2>2, <2>3, <2>4
<1>3. ASSUME NEW k \in 1..n, Good(k - 1) PROVE Good(k)
  <2> DEFINE e == FieldCell(r, k)
             l == L(k - 1)
  <2>1. k - 1 \in Nat /\ (k - 1) + 1 = k /\ e \in Cells /\ c[k] = e
    BY <1>1
  <2>2. l \in Seq(Seq(Cells)) /\ HasLines(FlattenSeq(l), k - 1, c)
    BY <1>3
  <2>3. Line(e) \in Seq(Cells) /\ HasLines(FlattenSeq(l) \o Line(e), k, c)
    <3> HIDE DEF l, e
    <3>1. HasLines(FlattenSeq(l) \o Line(e), (k - 1) + 1, c) /\ Line(e) \in Seq(Cells)
      BY <1>1, <2>1, <2>2, LineMore
    <3> QED
      BY <2>1, <3>1
  <2>4. L(k) = Append(l, Line(e))
    BY <2>1
  <2> HIDE DEF l, e
  <2>5. Append(l, Line(e)) \in Seq(Seq(Cells))
    BY <2>2, <2>3, AppendProperties
  <2>6. FlattenSeq(Append(l, Line(e))) = FlattenSeq(l) \o Line(e)
    BY <2>2, <2>3, FlattenProperties
  <2> HIDE DEF L
  <2> QED
    BY <2>3, <2>4, <2>5, <2>6
<1>4. Bad = {}
  <2> HIDE DEF Good
  <2>1. SUFFICES ASSUME Bad # {} PROVE FALSE
    OBVIOUS
  <2>2. PICK k \in Bad : \A j \in Bad : k <= j
    <3>1. Bad \subseteq Nat
      BY <1>1
    <3> HIDE DEF Bad
    <3> QED
      BY <2>1, <3>1, LeastNatural
  <2>3. k \in 1..n /\ k - 1 \in 0..n
    BY <1>1, <1>2, <2>2
  <2>4. Good(k - 1)
    BY <2>2, <2>3
  <2> QED
    BY <1>3, <2>2, <2>3, <2>4
<1>5. Good(n)
  <2> HIDE DEF Good
  <2> QED
    BY <1>1, <1>4
<1>6. L(n) = [i \in DOMAIN r.fields |-> Line(Field(r.fields[i]))]
  BY <1>1 DEF FieldCell
<1> QED
  BY <1>5, <1>6 DEF n, c

\* A header: a line for the status, one for each field, an empty one.
IsHeader(h, n, r) ==
  /\ h \in Seq(Cells) /\ Len(h) = 3 * n + 5
  /\ h[1] = Status(r) /\ h[2] = CR /\ h[3] = LF
  /\ \A i \in 1..n : h[3 * i + 1] = FieldCell(r, i) /\ h[3 * i + 2] = CR /\ h[3 * i + 3] = LF
  /\ h[3 * n + 4] = CR /\ h[3 * n + 5] = LF

LEMMA HeaderProperties ==
  ASSUME NEW r \in Responses
  PROVE  IsHeader(Header(r), Len(r.fields), r)
<1> DEFINE n == Len(r.fields)
           s == Line(Status(r))
           f == FlattenSeq([i \in DOMAIN r.fields |-> Line(Field(r.fields[i]))])
           e == <<CR, LF>>
<1>1. /\ n \in Nat /\ CR \in Cells /\ LF \in Cells /\ Status(r) \in Cells
      /\ \A i \in 1..n : FieldCells(r)[i] = FieldCell(r, i)
  BY ResponseParts DEF FieldCells
<1>2. HasLines(f, n, FieldCells(r))
  BY FieldLines
<1>3. s \in Seq(Cells) /\ Len(s) = 3 /\ s[1] = Status(r) /\ s[2] = CR /\ s[3] = LF
  BY <1>1 DEF Line
<1>4. e \in Seq(Cells) /\ Len(e) = 2 /\ e[1] = CR /\ e[2] = LF
  BY <1>1
<1>5. Header(r) = s \o f \o e
  BY DEF Header
<1> HIDE DEF s, f, e, n
<1>6. f \in Seq(Cells) /\ Len(f) = 3 * n
      /\ \A i \in 1..n : f[3 * i - 2] = FieldCell(r, i) /\ f[3 * i - 1] = CR /\ f[3 * i] = LF
  BY <1>1, <1>2 DEF HasLines
<1> DEFINE g == s \o f
           h == g \o e
<1>7. /\ g \in Seq(Cells) /\ Len(g) = 3 + 3 * n
      /\ \A i \in 1..(3 + 3 * n) : g[i] = IF i <= 3 THEN s[i] ELSE f[i - 3]
  <2>1. /\ g \in Seq(Cells) /\ Len(g) = Len(s) + Len(f)
        /\ \A i \in 1..(Len(s) + Len(f)) : g[i] = IF i <= Len(s) THEN s[i] ELSE f[i - Len(s)]
    BY <1>3, <1>6, ConcatProperties
  <2> HIDE DEF g
  <2> QED
    BY <1>3, <1>6, <2>1
<1> HIDE DEF g
<1>8. /\ h \in Seq(Cells) /\ Len(h) = 3 * n + 5
      /\ \A i \in 1..(3 * n + 5) : h[i] = IF i <= 3 + 3 * n THEN g[i] ELSE e[i - (3 + 3 * n)]
  <2>1. /\ h \in Seq(Cells) /\ Len(h) = Len(g) + Len(e)
        /\ \A i \in 1..(Len(g) + Len(e)) : h[i] = IF i <= Len(g) THEN g[i] ELSE e[i - Len(g)]
    BY <1>4, <1>7, ConcatProperties
  <2>2. Len(g) + Len(e) = 3 * n + 5
    BY <1>1, <1>4, <1>7
  <2> HIDE DEF h
  <2> QED
    BY <1>7, <2>1, <2>2
<1> HIDE DEF h
<1>9. h[1] = Status(r) /\ h[2] = CR /\ h[3] = LF
  <2>1. \A i \in {1, 2, 3} : i \in 1..(3 * n + 5) /\ i \in 1..(3 + 3 * n) /\ i <= 3 + 3 * n /\ i <= 3
    BY <1>1
  <2> QED
    BY <1>3, <1>7, <1>8, <2>1
<1>10. ASSUME NEW i \in 1..n
       PROVE  h[3 * i + 1] = FieldCell(r, i) /\ h[3 * i + 2] = CR /\ h[3 * i + 3] = LF
  <2>1. \A k \in {3 * i - 2, 3 * i - 1, 3 * i} :
          /\ k + 3 \in 1..(3 * n + 5) /\ k + 3 \in 1..(3 + 3 * n) /\ k + 3 <= 3 + 3 * n
          /\ ~(k + 3 <= 3) /\ (k + 3) - 3 = k
    BY <1>1
  <2>2. \A k \in {3 * i - 2, 3 * i - 1, 3 * i} : h[k + 3] = f[k]
    BY <1>7, <1>8, <2>1
  <2>3. (3 * i - 2) + 3 = 3 * i + 1 /\ (3 * i - 1) + 3 = 3 * i + 2
    BY <1>1
  <2> QED
    BY <1>6, <2>2, <2>3
<1>11. h[3 * n + 4] = CR /\ h[3 * n + 5] = LF
  <2>1. /\ 3 * n + 4 \in 1..(3 * n + 5) /\ ~(3 * n + 4 <= 3 + 3 * n) /\ (3 * n + 4) - (3 + 3 * n) = 1
        /\ 3 * n + 5 \in 1..(3 * n + 5) /\ ~(3 * n + 5 <= 3 + 3 * n) /\ (3 * n + 5) - (3 + 3 * n) = 2
    BY <1>1
  <2> QED
    BY <1>4, <1>8, <2>1
<1> QED
  BY <1>5, <1>8, <1>9, <1>10, <1>11 DEF IsHeader, h, g, n

-----------------------------------------------------------------------------
(* httpreceive: what is seen in a header.                                  *)

\* The four cells that end a header.
LEMMA SuffixIs ==
  ASSUME NEW s \in Seq(Cells), Len(s) > 4, CR \in Cells, LF \in Cells
  PROVE  HeaderIsComplete(s) <=>
           s[Len(s) - 3] = CR /\ s[Len(s) - 2] = LF /\ s[Len(s) - 1] = CR /\ s[Len(s)] = LF
<1> DEFINE k == Len(s)
           end == Reverse(CRLFCRLF)
           back == Reverse(s)
           p == SubSeq(back, 1, 4)
<1>1. k \in Nat /\ k > 4 /\ \A i \in 1..k : s[i] \in Cells
  BY LenProperties, ElementOfSeq
<1>2. CRLFCRLF \in Seq(Cells) /\ Len(CRLFCRLF) = 4
  BY DEF CRLFCRLF
<1>3. end = [j \in 1..4 |-> CRLFCRLF[(4 - j) + 1]]
  BY <1>2 DEF Reverse
<1>4. end \in Seq(Cells) /\ Len(end) = 4 /\ end[1] = LF /\ end[2] = CR /\ end[3] = LF /\ end[4] = CR
  <2>1. /\ CRLFCRLF[(4 - 1) + 1] = LF /\ CRLFCRLF[(4 - 2) + 1] = CR
        /\ CRLFCRLF[(4 - 3) + 1] = LF /\ CRLFCRLF[(4 - 4) + 1] = CR
    BY DEF CRLFCRLF
  <2>2. \A j \in 1..4 : CRLFCRLF[(4 - j) + 1] \in Cells
    <3>1. \A j \in 1..4 : (4 - j) + 1 \in 1..Len(CRLFCRLF)
      BY <1>2
    <3> QED
      BY <1>2, <3>1, ElementOfSeq
  <2> QED
    BY <1>3, <2>1, <2>2
<1>5. back = [j \in 1..k |-> s[(k - j) + 1]]
  BY DEF Reverse
<1> HIDE DEF end, back, k
<1>6. Len(back) = k /\ \A j \in 1..4 : back[j] = s[(k - j) + 1] /\ back[j] \in Cells
  <2>1. \A j \in 1..4 : j \in 1..k /\ (k - j) + 1 \in 1..k
    BY <1>1
  <2>2. Len(back) = k
    BY <1>1, <1>5
  <2> QED
    BY <1>1, <1>5, <2>1, <2>2
<1>7. p \in Seq(Cells) /\ Len(p) = 4 /\ \A j \in 1..4 : p[j] = back[j]
  <2>1. /\ p \in Seq(Cells)
        /\ Len(p) = IF 1 <= 4 THEN 4 - 1 + 1 ELSE 0
        /\ \A j \in 1..(4 - 1 + 1) : p[j] = back[1 + j - 1]
    BY <1>6, SubSeqProperties
  <2> QED
    BY <2>1
<1> HIDE DEF p
<1>8. SubSeq(end, 1, Len(end)) = end
  BY <1>4, SubSeqFull
<1>9. HeaderIsComplete(s) <=> end = p
  <2>1. HeaderIsComplete(s) <=>
          Len(end) <= Len(back) /\ SubSeq(end, 1, Len(end)) = SubSeq(back, 1, Len(end))
    BY <1>1 DEF HeaderIsComplete, IsSuffix, IsPrefix, end, back, k
  <2> QED
    BY <1>1, <1>4, <1>6, <1>8, <2>1 DEF p
<1>10. end = p <=> p[1] = LF /\ p[2] = CR /\ p[3] = LF /\ p[4] = CR
  <2>1. ASSUME p[1] = LF, p[2] = CR, p[3] = LF, p[4] = CR PROVE end = p
    <3>1. \A j \in 1..Len(end) : end[j] = p[j]
      BY <1>4, <2>1
    <3> QED
      BY <1>4, <1>7, <3>1, SeqEqual
  <2> QED
    BY <1>4, <2>1
<1>11. p[1] = s[k] /\ p[2] = s[k - 1] /\ p[3] = s[k - 2] /\ p[4] = s[k - 3]
  <2>1. (k - 1) + 1 = k /\ (k - 2) + 1 = k - 1 /\ (k - 3) + 1 = k - 2 /\ (k - 4) + 1 = k - 3
    BY <1>1
  <2> QED
    BY <1>6, <1>7, <2>1
<1> QED
  BY <1>9, <1>10, <1>11 DEF k

LEMMA CellsDiffer ==
  ASSUME NEW r, NEW i
  PROVE  /\ CR # LF /\ Status(r) # LF /\ Status(r) # CR
         /\ FieldCell(r, i) # LF /\ FieldCell(r, i) # CR
         /\ Status(r).what = "status" /\ FieldCell(r, i).what = "field"
         /\ CR.what = "CR" /\ LF.what = "LF"
<1>1. /\ CR.what = "CR" /\ LF.what = "LF" /\ Status(r).what = "status"
      /\ FieldCell(r, i).what = "field"
  BY DEF CR, LF, Status, FieldCell, Field, Cell
<1> QED
  BY <1>1

\* However much of a header has come, its end is seen where it is and nowhere else.
LEMMA HeaderEnds ==
  ASSUME NEW r \in Responses, NEW h, NEW n \in Nat, IsHeader(h, n, r), n = Len(r.fields),
         NEW buf \in Seq(Cells), Len(buf) <= Len(h), \A i \in 1..Len(buf) : buf[i] = h[i]
  PROVE  HeaderIsComplete(buf) <=> Len(buf) = Len(h)
<1> DEFINE k == Len(buf)
<1>1. k \in Nat /\ CR \in Cells /\ LF \in Cells /\ Len(h) = 3 * n + 5
  BY LenProperties, ResponseParts DEF IsHeader
<1>2. ASSUME k > 4
      PROVE  HeaderIsComplete(buf) <=>
               buf[k - 3] = CR /\ buf[k - 2] = LF /\ buf[k - 1] = CR /\ buf[k] = LF
  BY <1>1, <1>2, SuffixIs
<1>3. HeaderIsComplete(buf) => k > 4
  BY DEF HeaderIsComplete
<1> HIDE DEF k
<1>k. k <= 3 * n + 5 /\ \A i \in 1..k : buf[i] = h[i]
  BY <1>1 DEF k
<1>4. CASE k = 3 * n + 5
  <2>1. h[3 * n + 2] = CR /\ h[3 * n + 3] = LF
    <3>1. CASE n = 0
      <4>1. 3 * n + 2 = 2 /\ 3 * n + 3 = 3
        BY <3>1
      <4> QED
        BY <4>1 DEF IsHeader
    <3>2. CASE n # 0
      <4>1. n \in 1..n
        BY <3>2
      <4> QED
        BY <4>1 DEF IsHeader
    <3> QED
      BY <3>1, <3>2
  <2>2. h[3 * n + 4] = CR /\ h[3 * n + 5] = LF
    BY DEF IsHeader
  <2>3. /\ k > 4 /\ k - 3 = 3 * n + 2 /\ k - 2 = 3 * n + 3 /\ k - 1 = 3 * n + 4
        /\ k - 3 \in 1..k /\ k - 2 \in 1..k /\ k - 1 \in 1..k /\ k \in 1..k
    BY <1>4
  <2>4. buf[k - 3] = CR /\ buf[k - 2] = LF /\ buf[k - 1] = CR /\ buf[k] = LF
    BY <1>4, <1>k, <2>1, <2>2, <2>3
  <2> QED
    BY <1>1, <1>2, <1>4, <2>3, <2>4 DEF k
<1>5. CASE k # 3 * n + 5
  <2> SUFFICES ASSUME HeaderIsComplete(buf) PROVE FALSE
    BY <1>1, <1>5 DEF k
  <2>1. k > 4
    BY <1>3
  <2>2. k - 2 \in 1..k /\ k \in 1..k
    BY <1>1, <2>1
  <2>3. h[k] = LF /\ h[k - 2] = LF
    BY <1>2, <1>k, <2>1, <2>2
  <2> DEFINE i == (k - 1) \div 3
  <2>4. i \in Nat /\ (k = 3 * i + 1 \/ k = 3 * i + 2 \/ k = 3 * i + 3)
    <3> DEFINE j == k - 1
               q == j \div 3
    <3>1. j \in Nat
      BY <1>1, <2>1
    <3> HIDE DEF j
    <3>2. q \in Int /\ j % 3 \in 0..2 /\ j = 3 * q + (j % 3)
      BY <3>1
    <3>3. i = q
      BY DEF j
    <3> HIDE DEF q, i
    <3>4. q \in Nat /\ (j = 3 * q \/ j = 3 * q + 1 \/ j = 3 * q + 2)
      BY <3>1, <3>2
    <3>5. k = j + 1
      BY <1>1 DEF j
    <3> QED
      BY <3>3, <3>4, <3>5
  <2> HIDE DEF i
  <2>5. i >= 1 /\ i <= n + 1
    BY <1>k, <2>1, <2>4
  <2>6. CASE i = n + 1
    <3>1. k = 3 * n + 4
      BY <1>5, <1>k, <2>4, <2>6
    <3>2. h[k] = CR
      BY <3>1 DEF IsHeader
    <3> QED
      BY <2>3, <3>2, CellsDiffer
  <2>7. CASE i # n + 1
    <3>1. i \in 1..n
      BY <2>4, <2>5, <2>7
    <3>2. h[3 * i + 1] = FieldCell(r, i) /\ h[3 * i + 2] = CR
      BY <3>1 DEF IsHeader
    <3>3. k = 3 * i + 3
      BY <2>3, <2>4, <3>2, CellsDiffer
    <3>4. k - 2 = 3 * i + 1
      BY <2>4, <3>3
    <3> QED
      BY <2>3, <3>2, <3>4, CellsDiffer
  <2> QED
    BY <2>6, <2>7
<1> QED
  BY <1>4, <1>5

\* Without the rest of the header the cells of the fields are left.
LEMMA FieldsOfHeader ==
  ASSUME NEW r \in Responses, NEW h, IsHeader(h, Len(r.fields), r)
  PROVE  /\ Omit(h, {i \in DOMAIN h : h[i].what # "field"}) = FieldCells(r)
         /\ FieldCells(r) \in Seq(Cells) /\ Len(FieldCells(r)) = Len(r.fields)
<1> DEFINE n == Len(r.fields)
           gone == {i \in DOMAIN h : h[i].what # "field"}
<1>1. n \in Nat /\ \A i \in 1..n : FieldCell(r, i) \in Cells
  BY ResponseParts
<1>2. h \in Seq(Cells) /\ Len(h) = 3 * n + 5 /\ DOMAIN h = 1..(3 * n + 5)
  BY LenProperties DEF IsHeader
<1>3. /\ 1 \in gone /\ 2 \in gone /\ 3 \in gone
      /\ 3 * n + 4 \in gone /\ 3 * n + 5 \in gone
      /\ \A i \in 1..n : 3 * i + 1 \notin gone /\ 3 * i + 2 \in gone /\ 3 * i + 3 \in gone
  <2>1. /\ h[1].what # "field" /\ h[2].what # "field" /\ h[3].what # "field"
        /\ h[3 * n + 4].what # "field" /\ h[3 * n + 5].what # "field"
    BY CellsDiffer DEF IsHeader
  <2>2. \A i \in 1..n : h[3 * i + 1].what = "field" /\ h[3 * i + 2].what # "field" /\ h[3 * i + 3].what # "field"
    BY CellsDiffer DEF IsHeader
  <2>3. /\ 1 \in DOMAIN h /\ 2 \in DOMAIN h /\ 3 \in DOMAIN h
        /\ 3 * n + 4 \in DOMAIN h /\ 3 * n + 5 \in DOMAIN h
        /\ \A i \in 1..n : 3 * i + 2 \in DOMAIN h /\ 3 * i + 3 \in DOMAIN h
    BY <1>1, <1>2
  <2> QED
    BY <2>1, <2>2, <2>3
<1>4. PICK kept :
        /\ Omit(h, gone) = kept[Len(h)]
        /\ kept[0] = <<>>
        /\ \A i \in 1..Len(h) : kept[i] = IF i \in gone THEN kept[i - 1] ELSE Append(kept[i - 1], h[i])
  <2> HIDE DEF gone
  <2>1. Len(h) \in Nat
    BY <1>1, <1>2
  <2> QED
    BY <2>1, OmitIsDefined
<1> HIDE DEF gone
<1>5. \A i \in 1..(3 * n + 5) : kept[i] = IF i \in gone THEN kept[i - 1] ELSE Append(kept[i - 1], h[i])
  BY <1>2, <1>4
<1> DEFINE G(k) == [j \in 1..k |-> FieldCell(r, j)]
           Good(k) == kept[3 * k + 3] = G(k)
           Bad == {k \in 0..n : ~Good(k)}
<1>6. Good(0)
  <2>1. \A i \in {1, 2, 3} : i \in 1..(3 * n + 5)
    BY <1>1
  <2>2. kept[1] = kept[1 - 1] /\ kept[2] = kept[2 - 1] /\ kept[3] = kept[3 - 1]
    BY <1>3, <1>5, <2>1
  <2>3. kept[3] = <<>>
    BY <1>4, <2>2
  <2> QED
    BY <2>3
<1>7. ASSUME NEW k \in 1..n, Good(k - 1) PROVE Good(k)
  <2>1. /\ 3 * k + 1 \in 1..(3 * n + 5) /\ 3 * k + 2 \in 1..(3 * n + 5) /\ 3 * k + 3 \in 1..(3 * n + 5)
        /\ (3 * k + 1) - 1 = 3 * (k - 1) + 3 /\ (3 * k + 2) - 1 = 3 * k + 1 /\ (3 * k + 3) - 1 = 3 * k + 2
    BY <1>1
  <2>2. kept[3 * k + 3] = kept[3 * k + 2] /\ kept[3 * k + 2] = kept[3 * k + 1]
    BY <1>3, <1>5, <2>1
  <2>3. kept[3 * k + 1] = Append(kept[3 * (k - 1) + 3], h[3 * k + 1])
    BY <1>3, <1>5, <2>1
  <2>4. h[3 * k + 1] = FieldCell(r, k)
    BY DEF IsHeader
  <2>5. kept[3 * (k - 1) + 3] = G(k - 1)
    BY <1>7
  <2>6. Append(G(k - 1), FieldCell(r, k)) = G(k)
    <3>1. Len(G(k - 1)) = k - 1
      BY <1>1
    <3> QED
      BY <1>1, <3>1
  <2> HIDE DEF G
  <2> QED
    BY <2>2, <2>3, <2>4, <2>5, <2>6
<1>8. Bad = {}
  <2> HIDE DEF Good
  <2>1. SUFFICES ASSUME Bad # {} PROVE FALSE
    OBVIOUS
  <2>2. PICK k \in Bad : \A j \in Bad : k <= j
    <3>1. Bad \subseteq Nat
      BY <1>1
    <3> HIDE DEF Bad
    <3> QED
      BY <2>1, <3>1, LeastNatural
  <2>3. k \in 1..n /\ k - 1 \in 0..n
    BY <1>1, <1>6, <2>2
  <2>4. Good(k - 1)
    BY <2>2, <2>3
  <2> QED
    BY <1>7, <2>2, <2>3, <2>4
<1>9. kept[3 * n + 3] = G(n)
  <2> HIDE DEF Good
  <2>1. Good(n)
    BY <1>1, <1>8
  <2> QED
    BY <2>1 DEF Good
<1>10. kept[3 * n + 5] = kept[3 * n + 3]
  <2>1. /\ 3 * n + 4 \in 1..(3 * n + 5) /\ 3 * n + 5 \in 1..(3 * n + 5)
        /\ (3 * n + 4) - 1 = 3 * n + 3 /\ (3 * n + 5) - 1 = 3 * n + 4
    BY <1>1
  <2> QED
    BY <1>3, <1>5, <2>1
<1>11. G(n) = FieldCells(r)
  BY DEF FieldCells
<1>12. FieldCells(r) \in Seq(Cells) /\ Len(FieldCells(r)) = n
  BY <1>1 DEF FieldCells
<1>13. Omit(h, gone) = FieldCells(r)
  BY <1>2, <1>4, <1>9, <1>10, <1>11
<1> QED
  BY <1>12, <1>13 DEF gone, n

\* A plain header gives the status code and the fields, and announces the message.
LEMMA HeaderIsParsed ==
  ASSUME NEW r \in Responses, Plain(r), NEW h, IsHeader(h, Len(r.fields), r)
  PROVE  /\ Parsed(h) = <<Status(r)>> \o FieldCells(r)
         /\ Parsed(h) \in Seq(Cells)
         /\ x_remaining = 0 => Announced(Parsed(h)) = r.message
         /\ ~Overruns(h)
<1> DEFINE n == Len(r.fields)
           s == <<Status(r)>>
           f == FieldCells(r)
           p == s \o f
           lengths == {i \in DOMAIN r.fields : r.fields[i].name = "Content-Length"}
           ahead == {i \in DOMAIN p : p[i].name = "Content-Length"}
<1>1. /\ n \in Nat /\ DOMAIN r.fields = 1..n /\ Status(r) \in Cells
      /\ r.message \in Nat
  BY ResponseParts
<1>2. /\ Omit(h, {i \in DOMAIN h : h[i].what # "field"}) = f
      /\ f \in Seq(Cells) /\ Len(f) = n /\ \A i \in 1..n : f[i] = FieldCell(r, i)
  BY FieldsOfHeader DEF FieldCells
<1>3. h[1].what = "status" /\ h[1].value # 0 /\ Status(r).name = ""
  <2>1. h[1] = Status(r)
    BY DEF IsHeader
  <2>2. r.code # 0
    BY DEF Plain
  <2>3. Status(r).what = "status" /\ Status(r).name = "" /\ Status(r).value = r.code
    BY DEF Status, Cell
  <2> QED
    BY <2>1, <2>2, <2>3
<1>4. f # <<>>
  <2>1. n # 0
    <3>1. /\ r.fields \in Seq([name : {"Content-Length", "content-length", "other"},
                                value : Nat, length : Nat])
          /\ r.fields # <<>>
      BY HttpAssumption DEF Plain
    <3> QED
      BY <3>1, EmptySeq
  <2> HIDE DEF n, f
  <2> QED
    BY <1>2, <2>1, EmptySeq
<1>5. Parsed(h) = p
  <2>1. Omit(h, {i \in DOMAIN h : h[i].what # "field"}) = f
    BY <1>2
  <2>2. ~(h[1].what # "status" \/ h[1].value = 0) /\ h[1] = Status(r)
    BY <1>3 DEF IsHeader
  <2>3. f # <<>>
    BY <1>4
  <2> HIDE DEF f
  <2> QED
    BY <2>1, <2>2, <2>3, Zenon DEF Parsed
<1>6. s \in Seq(Cells) /\ Len(s) = 1 /\ s[1] = Status(r)
  BY <1>1
<1> HIDE DEF s, f
<1>7. /\ p \in Seq(Cells) /\ Len(p) = n + 1
      /\ \A i \in 1..(n + 1) : p[i] = IF i <= 1 THEN s[i] ELSE f[i - 1]
  <2>1. /\ p \in Seq(Cells) /\ Len(p) = Len(s) + Len(f)
        /\ \A i \in 1..(Len(s) + Len(f)) : p[i] = IF i <= Len(s) THEN s[i] ELSE f[i - Len(s)]
    <3>1. s \in Seq(Cells) /\ f \in Seq(Cells)
      BY <1>2, <1>6
    <3> QED
      BY <3>1, ConcatProperties
  <2> HIDE DEF p
  <2> QED
    BY <1>1, <1>2, <1>6, <2>1
<1> HIDE DEF p, n
<1>8. DOMAIN p = 1..(n + 1)
  BY <1>7, LenProperties
<1>9. \A i \in ahead : i - 1 \in lengths /\ p[i].value = r.fields[i - 1].value
  <2> SUFFICES ASSUME NEW i \in ahead PROVE i - 1 \in lengths /\ p[i].value = r.fields[i - 1].value
    OBVIOUS
  <2>1. i \in 1..(n + 1) /\ p[i].name = "Content-Length"
    BY <1>8
  <2>2. i # 1
    <3>1. s[1].name = ""
      BY <1>3, <1>6
    <3>2. i = 1 => p[i] = s[1]
      BY <1>7, <2>1
    <3> QED
      BY <2>1, <3>1, <3>2
  <2>3. i - 1 \in 1..n /\ p[i] = FieldCell(r, i - 1)
    BY <1>1, <1>2, <1>7, <2>1, <2>2
  <2>4. p[i].name = r.fields[i - 1].name /\ p[i].value = r.fields[i - 1].value
    BY <2>3 DEF FieldCell, Field, Cell
  <2> QED
    BY <1>1, <2>1, <2>3, <2>4
<1>10. \A i \in lengths : i + 1 \in ahead
  <2> SUFFICES ASSUME NEW i \in lengths PROVE i + 1 \in ahead
    OBVIOUS
  <2>1. i \in 1..n /\ r.fields[i].name = "Content-Length"
    BY <1>1
  <2>2. i + 1 \in 1..(n + 1) /\ p[i + 1] = FieldCell(r, i)
    BY <1>1, <1>2, <1>7, <2>1
  <2> QED
    BY <1>8, <2>1, <2>2 DEF FieldCell, Field, Cell
<1>11. ahead # {} => Max(ahead) \in ahead
  <2>1. n + 1 \in Nat /\ ahead \subseteq 0..(n + 1)
    BY <1>1, <1>8
  <2> HIDE DEF ahead
  <2> QED
    BY <2>1, GreatestElement
<1>12. Announced(p) = IF ahead = {} THEN x_remaining ELSE p[Max(ahead)].value
  BY DEF Announced
<1>13. IF r.message = 0 THEN \A i \in lengths : r.fields[i].value = 0
       ELSE \E i \in lengths : lengths = {i} /\ r.fields[i].value = r.message
  BY DEF Plain
<1> HIDE DEF ahead, lengths
<1>14. ASSUME x_remaining = 0 PROVE Announced(p) = r.message
  <2>1. CASE r.message = 0
    BY <1>9, <1>11, <1>12, <1>13, <1>14, <2>1
  <2>2. CASE r.message # 0
    <3>1. PICK i \in lengths : lengths = {i} /\ r.fields[i].value = r.message
      BY <1>13, <2>2
    <3>2. ahead # {} /\ Max(ahead) - 1 = i
      BY <1>9, <1>10, <1>11, <3>1
    <3> QED
      BY <1>9, <1>11, <1>12, <3>1, <3>2
  <2> QED
    BY <2>1, <2>2
<1>15. ASSUME NEW i \in DOMAIN p PROVE ~(p[i].length >= BufLength)
  <2>1. r.reason < BufLength /\ \A k \in 1..n : r.fields[k].length < BufLength
    BY <1>1 DEF Plain
  <2>2. r.reason \in Nat /\ BufLength \in Nat /\ i \in 1..(n + 1)
    BY <1>8, <1>15, HttpAssumption
  <2>3. CASE i = 1
    <3>1. p[i] = Status(r)
      BY <1>6, <1>7, <2>2, <2>3
    <3>2. Status(r).length = r.reason
      BY DEF Status, Cell
    <3> QED
      BY <2>1, <2>2, <3>1, <3>2
  <2>4. CASE i # 1
    <3>1. i - 1 \in 1..n /\ p[i] = FieldCell(r, i - 1)
      BY <1>1, <1>2, <1>7, <2>2, <2>4
    <3>2. p[i].length = r.fields[i - 1].length /\ p[i] \in Cells
      BY <1>1, <3>1, ResponseParts DEF FieldCell, Field, Cell
    <3>3. p[i].length \in Nat
      BY <3>2 DEF Cells
    <3>4. p[i].length < BufLength
      BY <2>1, <3>1, <3>2
    <3> QED
      BY <2>2, <3>3, <3>4
  <2> QED
    BY <2>3, <2>4
<1>16. Len(h) # STATUS_BUF_LEN
  <2>1. Len(h) = 3 * n + 5 /\ Len(Header(r)) = 3 * n + 5
    BY HeaderProperties DEF IsHeader, n
  <2>2. Len(Header(r)) < STATUS_BUF_LEN /\ STATUS_BUF_LEN \in Nat
    BY HttpAssumption DEF Plain
  <2> QED
    BY <1>1, <2>1, <2>2
<1>17. ~Overruns(h)
  BY <1>5, <1>15, <1>16 DEF Overruns
<1> QED
  BY <1>5, <1>7, <1>14, <1>17 DEF p, s, f

-----------------------------------------------------------------------------
(* httpreceive: between two responses, in a header, or in a message.       *)

Contents(a) == FlattenSeq([i \in DOMAIN a |-> Content(a[i])])

HTypeOK ==
  /\ x_state \in {0, 1} /\ inList \in BOOLEAN /\ overrun \in BOOLEAN
  /\ x_status_buf \in Seq(Cells) /\ list \in Seq(Cells) /\ out \in Seq(Cells) /\ stream \in Seq(Cells)
  /\ answered \in Seq(Responses)

BetweenResponses ==
  /\ x_state = 0 /\ x_remaining = 0 /\ x_status_buf = <<>>
  /\ stream = <<>> /\ ~inList
  /\ out = Contents(answered)

\* The header and the message of r are in x_status_buf, the list and the stream.
InHeader(r) ==
  /\ x_state = 0 /\ x_remaining = 0
  /\ x_status_buf \o (list \o stream) = Header(r) \o Message(r)
  /\ Len(x_status_buf) < Len(Header(r))
  /\ out \o Content(r) = Contents(answered)

\* What is still to come out is in the list and the stream.
InMessage ==
  /\ x_state = 1
  /\ out \o (list \o stream) = Contents(answered)
  /\ x_remaining = Len(list) + Len(stream)
  /\ inList \/ x_remaining > 0

WhereItIs ==
  plain => /\ ~overrun
           /\ BetweenResponses \/ InMessage \/ \E r \in Responses : Plain(r) /\ InHeader(r)

HttpInv == HTypeOK /\ (~inList => list = <<>>) /\ WhereItIs

LEMMA ContentIs ==
  ASSUME NEW r \in Responses
  PROVE  /\ Content(r) = (<<Status(r)>> \o FieldCells(r)) \o Message(r)
         /\ Content(r) \in Seq(Cells)
         /\ Header(r) \in Seq(Cells) /\ Message(r) \in Seq(Cells)
<1>1. Content(r) = (<<Status(r)>> \o FieldCells(r)) \o Message(r)
  <2>1. [i \in DOMAIN r.fields |-> Field(r.fields[i])] = FieldCells(r)
    BY ResponseParts DEF FieldCells, FieldCell
  <2> QED
    BY <2>1 DEF Content
<1>2. <<Status(r)>> \in Seq(Cells) /\ Message(r) \in Seq(Cells)
  BY ResponseParts
<1>3. FieldCells(r) \in Seq(Cells)
  BY ResponseParts DEF FieldCells
<1>4. <<Status(r)>> \o FieldCells(r) \in Seq(Cells)
  BY <1>2, <1>3, ConcatProperties
<1>5. (<<Status(r)>> \o FieldCells(r)) \o Message(r) \in Seq(Cells)
  BY <1>2, <1>4, ConcatProperties
<1>6. Header(r) \in Seq(Cells)
  BY HeaderProperties DEF IsHeader
<1> QED
  BY <1>1, <1>2, <1>5, <1>6

LEMMA OneMoreAnswered ==
  ASSUME NEW a \in Seq(Responses)
  PROVE  /\ Contents(a) \in Seq(Cells)
         /\ a = <<>> => Contents(a) = <<>>
         /\ \A r \in Responses : Contents(Append(a, r)) = Contents(a) \o Content(r)
<1> DEFINE C(b) == [i \in DOMAIN b |-> Content(b[i])]
<1>1. DOMAIN a = 1..Len(a) /\ Len(a) \in Nat /\ \A i \in 1..Len(a) : a[i] \in Responses
  BY LenProperties, ElementOfSeq
<1>2. C(a) \in Seq(Seq(Cells)) /\ Len(C(a)) = Len(a)
  <2>1. \A i \in 1..Len(a) : Content(a[i]) \in Seq(Cells)
    BY <1>1, ContentIs
  <2> QED
    BY <1>1, <2>1
<1>3. a = <<>> => C(a) = <<>>
  OBVIOUS
<1>4. ASSUME NEW r \in Responses PROVE C(Append(a, r)) = Append(C(a), Content(r))
  <2> DEFINE b == Append(a, r)
  <2>1. /\ b \in Seq(Responses) /\ Len(b) = Len(a) + 1
        /\ \A i \in 1..Len(a) : b[i] = a[i]
        /\ b[Len(a) + 1] = r
    BY AppendProperties
  <2> HIDE DEF b
  <2>2. DOMAIN b = 1..(Len(a) + 1)
    BY <2>1, LenProperties
  <2>3. C(b) = [i \in 1..(Len(a) + 1) |-> IF i = Len(a) + 1 THEN Content(r) ELSE Content(a[i])]
    BY <1>1, <2>1, <2>2
  <2>4. Append(C(a), Content(r)) =
          [i \in 1..(Len(a) + 1) |-> IF i = Len(a) + 1 THEN Content(r) ELSE Content(a[i])]
    BY <1>1, <1>2
  <2> QED
    BY <2>3, <2>4 DEF b
<1> DEFINE c == C(a)
<1>5. Contents(a) = FlattenSeq(c) /\ \A r \in Responses : Contents(Append(a, r)) = FlattenSeq(Append(c, Content(r)))
  BY <1>4 DEF Contents
<1> HIDE DEF c
<1>6. c \in Seq(Seq(Cells)) /\ (a = <<>> => c = <<>>)
  BY <1>2, <1>3 DEF c
<1>7. FlattenSeq(c) \in Seq(Cells) /\ (c = <<>> => FlattenSeq(c) = <<>>)
  BY <1>6, FlattenProperties
<1>8. \A r \in Responses : FlattenSeq(Append(c, Content(r))) = FlattenSeq(c) \o Content(r)
  BY <1>6, ContentIs, FlattenProperties
<1> QED
  BY <1>5, <1>6, <1>7, <1>8

LEMMA PrefixOfConcat ==
  ASSUME NEW S, NEW s \in Seq(S), NEW t \in Seq(S)
  PROVE  IsPrefix(s, s \o t) /\ IsPrefix(s, s)
<1>1. Len(s) \in Nat /\ Len(t) \in Nat /\ s \o t \in Seq(S) /\ Len(s \o t) = Len(s) + Len(t)
  BY LenProperties, ConcatProperties
<1>2. SubSeq(s, 1, Len(s)) = SubSeq(s \o t, 1, Len(s))
  <2>1. CASE Len(s) = 0
    BY <1>1, <2>1, SubSeqEmpty
  <2>2. CASE Len(s) # 0
    <3>1. 1 \in 1..Len(s) /\ Len(s) \in 1..Len(s)
      BY <1>1, <2>2
    <3> QED
      BY <3>1, SubSeqOfConcat1
  <2> QED
    BY <2>1, <2>2
<1> QED
  BY <1>1, <1>2 DEF IsPrefix

-----------------------------------------------------------------------------
(* httpreceive: the steps.                                                 *)

LEMMA HttpBegins == HInit => HttpInv
<1> SUFFICES ASSUME HInit PROVE HttpInv
  OBVIOUS
<1>1. <<>> \in Seq(Cells) /\ <<>> \in Seq(Responses)
  BY EmptySeq
<1>2. Contents(<<>>) = <<>>
  BY <1>1, OneMoreAnswered
<1> QED
  BY <1>1, <1>2 DEF HInit, HttpInv, HTypeOK, WhereItIs, BetweenResponses

\* Where nothing is on the way, no response is being received.
LEMMA NothingOnTheWay ==
  ASSUME HttpInv, plain, stream = <<>>, ~inList
  PROVE  BetweenResponses
<1>1. list = <<>>
  BY DEF HttpInv
<1>2. Len(list) = 0 /\ Len(stream) = 0
  BY <1>1, EmptySeq
<1>3. ~InMessage
  BY <1>2 DEF InMessage
<1>4. ASSUME NEW r \in Responses, InHeader(r) PROVE FALSE
  <2>1. Header(r) \in Seq(Cells) /\ Message(r) \in Seq(Cells) /\ x_status_buf \in Seq(Cells)
    BY ContentIs DEF HttpInv, HTypeOK
  <2>2. x_status_buf \o (list \o stream) = x_status_buf
    <3>1. list \o stream = <<>>
      BY <1>1
    <3> QED
      BY <2>1, <3>1, ConcatEmptySeq
  <2>3. Len(x_status_buf) = Len(Header(r)) + Len(Message(r))
    <3>1. x_status_buf = Header(r) \o Message(r)
      BY <1>4, <2>2 DEF InHeader
    <3>2. Len(Header(r) \o Message(r)) = Len(Header(r)) + Len(Message(r))
      BY <2>1, ConcatProperties
    <3> QED
      BY <3>1, <3>2
  <2>4. Len(Message(r)) \in Nat /\ Len(Header(r)) \in Nat
    BY <2>1, LenProperties
  <2> QED
    BY <1>4, <2>3, <2>4 DEF InHeader
<1> QED
  BY <1>3, <1>4 DEF HttpInv, WhereItIs

LEMMA RespondStep ==
  ASSUME HttpInv, NEW r \in Responses, Respond(r)
  PROVE  HttpInv'
<1> DEFINE h == Header(r)
           m == Message(r)
<1>1. /\ stream' = stream \o h \o m
      /\ answered' = Append(answered, r)
      /\ UNCHANGED <<x_state, x_remaining, x_status_buf, list, inList, out, overrun>>
      /\ plain' => plain /\ Plain(r) /\ stream = <<>> /\ ~inList
  BY DEF Respond
<1>2. h \in Seq(Cells) /\ m \in Seq(Cells) /\ Content(r) \in Seq(Cells)
  BY ContentIs
<1>3. Len(h) \in Nat \ {0}
  <2>1. Len(h) = 3 * Len(r.fields) + 5
    BY HeaderProperties DEF IsHeader
  <2> HIDE DEF h
  <2> QED
    BY <2>1, ResponseParts
<1>4. HTypeOK'
  <2>1. stream \o h \in Seq(Cells)
    BY <1>2, ConcatProperties DEF HttpInv, HTypeOK
  <2>2. stream' \in Seq(Cells)
    BY <1>1, <1>2, <2>1, ConcatProperties
  <2>3. answered' \in Seq(Responses)
    BY <1>1, AppendProperties DEF HttpInv, HTypeOK
  <2> QED
    BY <1>1, <2>2, <2>3 DEF HttpInv, HTypeOK
<1>5. ~inList' => list' = <<>>
  BY <1>1 DEF HttpInv
<1>6. ASSUME plain' PROVE Plain(r) /\ InHeader(r)'
  <2>1. plain /\ Plain(r) /\ stream = <<>> /\ ~inList
    BY <1>1, <1>6
  <2>2. BetweenResponses /\ list = <<>>
    BY <2>1, NothingOnTheWay DEF HttpInv
  <2>3. stream' = h \o m
    <3>1. stream \o h = h
      BY <1>2, <2>1, ConcatEmptySeq
    <3> QED
      BY <1>1, <3>1
  <2>4. x_status_buf' \o (list' \o stream') = h \o m
    <3> DEFINE w == h \o m
    <3>1. w \in Seq(Cells)
      BY <1>2, ConcatProperties
    <3> HIDE DEF w
    <3>2. <<>> \o w = w /\ <<>> \o (<<>> \o w) = w
      BY <3>1, ConcatEmptySeq
    <3>3. stream' = w /\ list' = <<>> /\ x_status_buf' = <<>>
      BY <1>1, <2>2, <2>3 DEF w, BetweenResponses
    <3> QED
      BY <3>2, <3>3 DEF w
  <2>5. Len(x_status_buf') < Len(h)
    BY <1>1, <1>3, <2>2, EmptySeq DEF BetweenResponses
  <2>6. out' \o Content(r) = Contents(answered')
    <3>1. answered \in Seq(Responses)
      BY DEF HttpInv, HTypeOK
    <3>2. Contents(Append(answered, r)) = Contents(answered) \o Content(r)
      BY <3>1, OneMoreAnswered
    <3> QED
      BY <1>1, <2>2, <3>2 DEF BetweenResponses
  <2>7. x_state' = 0 /\ x_remaining' = 0
    BY <1>1, <2>2 DEF BetweenResponses
  <2> HIDE DEF h, m
  <2>8. InHeader(r)'
    BY <2>4, <2>5, <2>6, <2>7 DEF InHeader, h, m
  <2> QED
    BY <2>1, <2>8
<1>7. WhereItIs'
  BY <1>1, <1>6 DEF HttpInv, WhereItIs
<1> QED
  BY <1>4, <1>5, <1>7 DEF HttpInv

LEMMA ReceiveStep ==
  ASSUME HttpInv, NEW n \in 1..Len(stream), Receive(n)
  PROVE  HttpInv'
<1>1. /\ list' = SubSeq(stream, 1, n) /\ stream' = SubSeq(stream, n + 1, Len(stream))
      /\ inList' = TRUE /\ ~inList
      /\ UNCHANGED <<x_state, x_remaining, x_status_buf, out, overrun, answered, plain>>
  BY DEF Receive
<1>2. stream \in Seq(Cells) /\ Len(stream) \in Nat /\ n \in Nat
  BY LenProperties DEF HttpInv, HTypeOK
<1>3. \A i \in 1..Len(stream) : stream[i] \in Cells
  BY <1>2, ElementOfSeq
<1>4. list' \in Seq(Cells) /\ Len(list') = n
  <2>1. \A i \in 1..n : stream[i] \in Cells
    BY <1>2, <1>3
  <2>2. SubSeq(stream, 1, n) \in Seq(Cells) /\ Len(SubSeq(stream, 1, n)) = IF 1 <= n THEN n - 1 + 1 ELSE 0
    BY <1>2, <2>1, SubSeqProperties
  <2> QED
    BY <1>1, <1>2, <2>2
<1>5. stream' \in Seq(Cells) /\ Len(stream') = Len(stream) - n
  <2>1. \A i \in (n + 1)..Len(stream) : stream[i] \in Cells
    BY <1>2, <1>3
  <2>2. /\ SubSeq(stream, n + 1, Len(stream)) \in Seq(Cells)
        /\ Len(SubSeq(stream, n + 1, Len(stream))) =
             IF n + 1 <= Len(stream) THEN Len(stream) - (n + 1) + 1 ELSE 0
    BY <1>2, <2>1, SubSeqProperties
  <2> QED
    BY <1>1, <1>2, <2>2
<1>6. list' \o stream' = stream
  <2>1. 1 \in 1..(Len(stream) + 1) /\ n \in (1 - 1)..Len(stream) /\ Len(stream) \in n..Len(stream)
    BY <1>2
  <2>2. SubSeq(stream, 1, n) \o SubSeq(stream, n + 1, Len(stream)) = SubSeq(stream, 1, Len(stream))
    BY <1>2, <2>1, ConcatAdjacentSubSeq
  <2> QED
    BY <1>1, <1>2, <2>2, SubSeqFull
<1>7. list \o stream = stream /\ Len(list) = 0 /\ list = <<>>
  <2>1. list = <<>>
    BY <1>1 DEF HttpInv
  <2> QED
    BY <1>2, <2>1, ConcatEmptySeq, EmptySeq
<1>8. HTypeOK'
  BY <1>1, <1>4, <1>5 DEF HttpInv, HTypeOK
<1>9. WhereItIs'
  <2>1. SUFFICES ASSUME plain'
                 PROVE  (InMessage \/ \E r \in Responses : Plain(r) /\ InHeader(r))'
    BY <1>1 DEF HttpInv, WhereItIs
  <2>2. ~BetweenResponses
    <3>1. stream # <<>>
      BY <1>2, EmptySeq
    <3> QED
      BY <3>1 DEF BetweenResponses
  <2>3. plain
    BY <1>1, <2>1
  <2>4. CASE InMessage
    <3>1. Len(list') + Len(stream') = Len(list) + Len(stream)
      BY <1>2, <1>4, <1>5, <1>7
    <3>2. InMessage'
      BY <1>1, <1>6, <1>7, <2>4, <3>1 DEF InMessage
    <3> QED
      BY <3>2
  <2>5. ASSUME NEW r \in Responses, Plain(r), InHeader(r) PROVE InHeader(r)'
    BY <1>1, <1>6, <1>7, <2>5 DEF InHeader
  <2> QED
    BY <2>2, <2>3, <2>4, <2>5 DEF HttpInv, WhereItIs
<1> QED
  BY <1>1, <1>8, <1>9 DEF HttpInv

\* Where the parentheses are does not matter.
Regroups(a, b, c, d) == (a \o b) \o (c \o d) = a \o ((b \o c) \o d)
Associates(a, b, c) == (a \o b) \o c = a \o (b \o c)

LEMMA Regrouped ==
  ASSUME NEW S
  PROVE  /\ \A a, b, c \in Seq(S) : Associates(a, b, c)
         /\ \A a, b, c, d \in Seq(S) : Regroups(a, b, c, d)
<1>1. ASSUME NEW a \in Seq(S), NEW b \in Seq(S), NEW c \in Seq(S)
      PROVE  Associates(a, b, c)
  <2>1. (a \o b) \o c = a \o (b \o c)
    BY ConcatAssociative
  <2> QED
    BY <2>1, Zenon DEF Associates
<1>2. ASSUME NEW a \in Seq(S), NEW b \in Seq(S), NEW c \in Seq(S), NEW d \in Seq(S)
      PROVE  Regroups(a, b, c, d)
  <2>1. c \o d \in Seq(S)
    BY ConcatProperties
  <2>2. Associates(a, b, c \o d) /\ Associates(b, c, d)
    BY <1>1, <2>1, Zenon
  <2> QED
    BY <2>2, Zenon DEF Associates, Regroups
<1> QED
  BY <1>1, <1>2, Zenon

\* One cell goes from the list to the buffer.
NothingIsLost(b, l, t) == Append(b, Head(l)) \o (Tail(l) \o t) = b \o (l \o t)

LEMMA CellMoves ==
  ASSUME NEW S, NEW b \in Seq(S), NEW l \in Seq(S), l # <<>>, NEW t \in Seq(S)
  PROVE  /\ Append(b, Head(l)) \in Seq(S) /\ Len(Append(b, Head(l))) = Len(b) + 1
         /\ Tail(l) \in Seq(S) /\ Len(Tail(l)) = Len(l) - 1
         /\ NothingIsLost(b, l, t)
<1>1. Head(l) \in S /\ Tail(l) \in Seq(S) /\ Len(Tail(l)) = Len(l) - 1
  BY HeadTailProperties
<1>2. Append(b, Head(l)) \in Seq(S) /\ Len(Append(b, Head(l))) = Len(b) + 1
  BY <1>1, AppendProperties
<1> DEFINE e == <<Head(l)>>
           u == Tail(l)
<1>3. e \in Seq(S) /\ u \in Seq(S)
  BY <1>1
<1>4. l = e \o u
  BY <1>1
<1>5. Append(b, Head(l)) = b \o e
  BY <1>1, AppendIsConcat
<1> HIDE DEF e, u
<1>6. (b \o e) \o (u \o t) = b \o ((e \o u) \o t)
  <2>1. Regroups(b, e, u, t)
    BY <1>3, Regrouped, Zenon
  <2> QED
    BY <2>1, Zenon DEF Regroups
<1>7. (b \o e) \o (u \o t) = b \o (l \o t)
  BY <1>4, <1>6, Zenon
<1> QED
  BY <1>1, <1>2, <1>5, <1>7, Zenon DEF u, NothingIsLost

\* Two ways to cut a list: the shorter beginning agrees with the longer one.
LEMMA CutTwice ==
  ASSUME NEW S, NEW b \in Seq(S), NEW t \in Seq(S), NEW h \in Seq(S), NEW m \in Seq(S),
         b \o t = h \o m, Len(b) <= Len(h)
  PROVE  /\ \A i \in 1..Len(b) : b[i] = h[i]
         /\ Len(b) = Len(h) => b = h /\ t = m
<1>1. /\ Len(b) \in Nat /\ Len(t) \in Nat /\ Len(h) \in Nat /\ Len(m) \in Nat
  BY LenProperties
<1>2. \A i \in 1..(Len(b) + Len(t)) : (b \o t)[i] = IF i <= Len(b) THEN b[i] ELSE t[i - Len(b)]
  BY ConcatProperties
<1>3. \A i \in 1..(Len(h) + Len(m)) : (h \o m)[i] = IF i <= Len(h) THEN h[i] ELSE m[i - Len(h)]
  BY ConcatProperties
<1> DEFINE w == h \o m
<1> HIDE DEF w
<1>4. ASSUME NEW i \in 1..Len(b) PROVE b[i] = h[i]
  <2>1. i \in 1..(Len(b) + Len(t)) /\ i \in 1..(Len(h) + Len(m)) /\ i <= Len(b) /\ i <= Len(h)
    BY <1>1
  <2>2. w[i] = b[i]
    BY <1>2, <2>1 DEF w
  <2>3. w[i] = h[i]
    BY <1>3, <2>1 DEF w
  <2> QED
    BY <2>2, <2>3
<1>5. ASSUME Len(b) = Len(h) PROVE b = h /\ t = m
  <2>1. b = h
    BY <1>4, <1>5, SeqEqual
  <2> QED
    BY <2>1, ConcatSimplifications
<1> QED
  BY <1>4, <1>5

LEMMA StatusByteStep ==
  ASSUME HttpInv, StatusByte
  PROVE  HttpInv'
<1> DEFINE buf == Append(x_status_buf, Head(list))
           rest == Tail(list)
<1>1. /\ inList /\ x_state = 0 /\ list # <<>> /\ list' = rest
      /\ inList' = inList /\ stream' = stream /\ answered' = answered /\ plain' = plain
      /\ overrun' = (HeaderIsComplete(buf) /\ Overruns(buf))
  BY DEF StatusByte
<1>2. \/ /\ HeaderIsComplete(buf)
         /\ x_state' = 1 /\ x_status_buf' = buf
         /\ out' = out \o Parsed(buf)
         /\ x_remaining' = Announced(Parsed(buf))
      \/ /\ ~HeaderIsComplete(buf) /\ Len(buf) < STATUS_BUF_LEN
         /\ x_status_buf' = buf
         /\ x_state' = x_state /\ x_remaining' = x_remaining /\ out' = out
      \/ /\ ~HeaderIsComplete(buf) /\ Len(buf) >= STATUS_BUF_LEN
         /\ x_status_buf' = <<>> /\ x_state' = x_state /\ out' = out
  BY DEF StatusByte
<1>3. /\ x_status_buf \in Seq(Cells) /\ list \in Seq(Cells) /\ out \in Seq(Cells)
      /\ stream \in Seq(Cells) /\ answered \in Seq(Responses)
  BY DEF HttpInv, HTypeOK
<1>4. /\ buf \in Seq(Cells) /\ Len(buf) = Len(x_status_buf) + 1 /\ rest \in Seq(Cells)
      /\ buf \o (rest \o stream) = x_status_buf \o (list \o stream)
  <2>1. list # <<>>
    BY <1>1
  <2>2. /\ buf \in Seq(Cells) /\ Len(buf) = Len(x_status_buf) + 1 /\ rest \in Seq(Cells)
        /\ NothingIsLost(x_status_buf, list, stream)
    BY <1>3, <2>1, CellMoves
  <2> QED
    BY <2>2, Zenon DEF NothingIsLost
<1>5. Len(x_status_buf) \in Nat /\ Len(rest) \in Nat /\ Len(stream) \in Nat
  BY <1>3, <1>4, LenProperties
<1> HIDE DEF buf, rest
<1>6. Parsed(buf) \in Seq(Cells)
  <2> DEFINE gone == {i \in DOMAIN buf : buf[i].what # "field"}
             fields == Omit(buf, gone)
             none == Cell("field", "", 0, 0)
  <2>1. buf[1] \in Cells
    <3>1. 1 \in 1..Len(buf)
      BY <1>4, <1>5
    <3> QED
      BY <1>4, <3>1, ElementOfSeq
  <2>2. none \in Cells
    BY DEF Cell, Cells
  <2>3. fields \in Seq(Cells)
    <3> HIDE DEF gone
    <3> QED
      BY <1>4, OmitProperties
  <2> HIDE DEF fields, none
  <2>4. <<>> \in Seq(Cells) /\ <<buf[1]>> \in Seq(Cells) /\ <<none>> \in Seq(Cells)
    BY <2>1, <2>2, EmptySeq
  <2> DEFINE one == <<buf[1]>>
             null == <<none>>
  <2> HIDE DEF one, null
  <2>5. one \o null \in Seq(Cells) /\ one \o fields \in Seq(Cells)
    <3>1. one \in Seq(Cells) /\ null \in Seq(Cells)
      BY <2>4 DEF one, null
    <3> QED
      BY <2>3, <3>1, ConcatProperties
  <2>6. Parsed(buf) \in {<<>>, one \o null, one \o fields}
    BY Zenon DEF Parsed, one, null, none, fields
  <2> QED
    BY <2>4, <2>5, <2>6
<1>7. HTypeOK'
  <2>1. x_state' \in {0, 1}
    BY <1>1, <1>2
  <2>2. x_status_buf' \in Seq(Cells)
    BY <1>2, <1>4, EmptySeq
  <2>3. out' \in Seq(Cells)
    <3>1. out \o Parsed(buf) \in Seq(Cells)
      BY <1>3, <1>6, ConcatProperties
    <3> QED
      BY <1>2, <1>3, <3>1
  <2>4. inList' \in BOOLEAN /\ list' \in Seq(Cells) /\ stream' \in Seq(Cells) /\ answered' \in Seq(Responses)
    BY <1>1, <1>3, <1>4 DEF HttpInv, HTypeOK
  <2>5. overrun' \in BOOLEAN
    BY <1>1
  <2> QED
    BY <2>1, <2>2, <2>3, <2>4, <2>5 DEF HTypeOK
<1>8. ASSUME plain
      PROVE  ~overrun' /\ (InMessage' \/ \E r \in Responses : Plain(r) /\ InHeader(r)')
  <2>1. PICK r \in Responses : Plain(r) /\ InHeader(r)
    <3>1. ~BetweenResponses /\ ~InMessage
      BY <1>1 DEF BetweenResponses, InMessage
    <3> QED
      BY <1>8, <3>1 DEF HttpInv, WhereItIs
  <2> DEFINE h == Header(r)
             m == Message(r)
  <2>2. /\ h \in Seq(Cells) /\ m \in Seq(Cells) /\ Content(r) = Parsed(h) \o m
        /\ Parsed(h) \in Seq(Cells)
        /\ x_remaining = 0 => Announced(Parsed(h)) = r.message
        /\ ~Overruns(h)
    <3>1. IsHeader(h, Len(r.fields), r)
      BY HeaderProperties
    <3>2. Parsed(h) = <<Status(r)>> \o FieldCells(r)
      BY <2>1, <3>1, HeaderIsParsed
    <3>3. /\ Parsed(h) \in Seq(Cells) /\ (x_remaining = 0 => Announced(Parsed(h)) = r.message)
          /\ ~Overruns(h)
      BY <2>1, <3>1, HeaderIsParsed
    <3>4. Content(r) = (<<Status(r)>> \o FieldCells(r)) \o Message(r)
      BY ContentIs
    <3>5. h \in Seq(Cells) /\ m \in Seq(Cells)
      BY ContentIs
    <3> HIDE DEF h
    <3> QED
      BY <3>2, <3>3, <3>4, <3>5
  <2>3. Len(m) = r.message
    BY ResponseParts
  <2>4. /\ x_remaining = 0 /\ x_status_buf \o (list \o stream) = h \o m
        /\ Len(x_status_buf) < Len(h)
        /\ out \o Content(r) = Contents(answered)
    BY <2>1 DEF InHeader
  <2>5. Len(h) < STATUS_BUF_LEN /\ STATUS_BUF_LEN \in Nat
    BY <2>1, HttpAssumption DEF Plain
  <2>6. HeaderIsComplete(buf) <=> Len(buf) = Len(h)
    <3>1. IsHeader(h, Len(r.fields), r) /\ Len(r.fields) \in Nat
      BY HeaderProperties, ResponseParts
    <3> HIDE DEF h, m
    <3>2. Len(h) \in Nat /\ Len(buf) <= Len(h)
      BY <1>4, <1>5, <2>2, <2>4, LenProperties
    <3>3. rest \o stream \in Seq(Cells) /\ buf \o (rest \o stream) = h \o m
      <4>1. rest \o stream \in Seq(Cells)
        BY <1>3, <1>4, ConcatProperties
      <4> QED
        BY <1>4, <2>4, <4>1, Zenon
    <3>4. \A i \in 1..Len(buf) : buf[i] = h[i]
      <4> DEFINE tail == rest \o stream
      <4> HIDE DEF tail
      <4>1. tail \in Seq(Cells) /\ buf \o tail = h \o m
        BY <3>3 DEF tail
      <4> QED
        BY <1>4, <2>2, <3>2, <4>1, CutTwice
    <3> QED
      BY <1>4, <3>1, <3>2, <3>4, HeaderEnds
  <2>7. Len(buf) <= Len(h) /\ Len(h) \in Nat
    <3> HIDE DEF h
    <3> QED
      BY <1>4, <1>5, <2>2, <2>4, LenProperties
  <2> HIDE DEF h, m
  <2>8. CASE HeaderIsComplete(buf)
    <3>1. /\ x_state' = 1 /\ out' = out \o Parsed(buf) /\ x_remaining' = Announced(Parsed(buf))
      BY <1>2, <2>8
    <3>2. buf = h /\ rest \o stream = m
      <4> DEFINE tail == rest \o stream
      <4>1. tail \in Seq(Cells)
        BY <1>3, <1>4, ConcatProperties
      <4>2. buf \o tail = h \o m
        BY <1>4, <2>4, Zenon
      <4> HIDE DEF tail
      <4>3. buf = h /\ tail = m
        BY <1>4, <2>2, <2>6, <2>7, <2>8, <4>1, <4>2, CutTwice
      <4> QED
        BY <4>3 DEF tail
    <3>3. out' \o (list' \o stream') = Contents(answered')
      <4>1. Associates(out, Parsed(h), m)
        BY <1>3, <2>2, Regrouped, Zenon
      <4>2. out' = out \o Parsed(h) /\ list' \o stream' = m /\ answered' = answered
        BY <1>1, <3>1, <3>2, Zenon
      <4> QED
        BY <2>2, <2>4, <4>1, <4>2, Zenon DEF Associates
    <3>4. x_remaining' = Len(list') + Len(stream')
      <4>1. Len(rest \o stream) = Len(rest) + Len(stream)
        BY <1>3, <1>4, ConcatProperties
      <4>2. x_remaining' = Len(m)
        BY <2>2, <2>3, <2>4, <3>1, <3>2
      <4> QED
        BY <1>1, <3>2, <4>1, <4>2
    <3>5. InMessage'
      BY <1>1, <3>1, <3>3, <3>4 DEF InMessage
    <3>6. ~overrun'
      BY <1>1, <2>2, <3>2
    <3> QED
      BY <3>5, <3>6
  <2>9. CASE ~HeaderIsComplete(buf)
    <3>1. Len(buf) < Len(h) /\ Len(buf) \in Nat
      BY <1>4, <1>5, <2>6, <2>7, <2>9
    <3>2. /\ x_status_buf' = buf /\ x_state' = x_state /\ x_remaining' = x_remaining /\ out' = out
      BY <1>2, <2>5, <2>7, <2>9, <3>1
    <3>3. x_status_buf' \o (list' \o stream') = h \o m
      BY <1>1, <1>4, <2>4, <3>2, Zenon
    <3>4. InHeader(r)'
      BY <1>1, <2>4, <3>1, <3>2, <3>3 DEF InHeader, h, m
    <3> QED
      BY <1>1, <2>1, <2>9, <3>4
  <2> QED
    BY <2>8, <2>9
<1>9. WhereItIs'
  <2>1. plain' => plain
    BY <1>1
  <2> QED
    BY <1>8, <2>1 DEF WhereItIs
<1> QED
  BY <1>1, <1>7, <1>9 DEF HttpInv

LEMMA MessagePartStep ==
  ASSUME HttpInv, MessagePart
  PROVE  HttpInv'
<1>1. /\ inList /\ x_state = 1
      /\ x_remaining' = IF Len(list) <= x_remaining THEN x_remaining - Len(list) ELSE x_remaining
      /\ out' = out \o list
      /\ x_status_buf' = <<>>
      /\ x_state' = IF x_remaining' = 0 THEN 0 ELSE 1
      /\ list' = <<>> /\ inList' = FALSE
      /\ stream' = stream /\ answered' = answered /\ plain' = plain /\ overrun' = overrun
  BY DEF MessagePart
<1>2. /\ list \in Seq(Cells) /\ out \in Seq(Cells) /\ stream \in Seq(Cells)
      /\ answered \in Seq(Responses)
  BY DEF HttpInv, HTypeOK
<1>3. Len(list) \in Nat /\ Len(stream) \in Nat /\ (Len(stream) = 0 => stream = <<>>)
  BY <1>2, LenProperties, EmptySeq
<1>4. out \o list \in Seq(Cells)
  BY <1>2, ConcatProperties
<1>5. <<>> \in Seq(Cells) /\ Len(<<>>) = 0
  BY EmptySeq
<1>6. HTypeOK'
  <2>1. overrun' \in BOOLEAN
    BY <1>1 DEF HttpInv, HTypeOK
  <2> QED
    BY <1>1, <1>2, <1>4, <1>5, <2>1 DEF HTypeOK
<1>7. ASSUME plain
      PROVE  BetweenResponses' \/ InMessage'
  <2>1. InMessage
    <3>1. ~BetweenResponses /\ ~ \E r \in Responses : InHeader(r)
      BY <1>1 DEF BetweenResponses, InHeader
    <3> QED
      BY <1>7, <3>1 DEF HttpInv, WhereItIs
  <2>2. out \o (list \o stream) = Contents(answered) /\ x_remaining = Len(list) + Len(stream)
    BY <2>1 DEF InMessage
  <2>3. x_remaining' = Len(stream)
    BY <1>1, <1>3, <2>2
  <2>4. out' \o stream' = Contents(answered')
    <3>1. Associates(out, list, stream)
      BY <1>2, Regrouped, Zenon
    <3> QED
      BY <1>1, <2>2, <3>1, Zenon DEF Associates
  <2>5. CASE Len(stream) = 0
    <3>1. stream' = <<>> /\ x_state' = 0 /\ x_remaining' = 0
      BY <1>1, <1>3, <2>3, <2>5
    <3>2. out' \o <<>> = out'
      BY <1>1, <1>4, ConcatEmptySeq
    <3>3. out' = Contents(answered')
      BY <2>4, <3>1, <3>2, Zenon
    <3> QED
      BY <1>1, <3>1, <3>3 DEF BetweenResponses
  <2>6. CASE Len(stream) # 0
    <3>1. x_state' = 1 /\ x_remaining' > 0 /\ x_remaining' = Len(list') + Len(stream')
      BY <1>1, <1>3, <1>5, <2>3, <2>6
    <3>2. list' \o stream' = stream'
      BY <1>1, <1>2, ConcatEmptySeq
    <3>3. out' \o (list' \o stream') = Contents(answered')
      BY <2>4, <3>2, Zenon
    <3> QED
      BY <3>1, <3>3 DEF InMessage
  <2> QED
    BY <2>5, <2>6
<1>8. WhereItIs'
  <2>1. plain' => plain
    BY <1>1
  <2> QED
    BY <1>1, <1>7, <2>1 DEF HttpInv, WhereItIs
<1> QED
  BY <1>1, <1>6, <1>8 DEF HttpInv

LEMMA EndOfListStep ==
  ASSUME HttpInv, EndOfList
  PROVE  HttpInv'
<1>1. /\ inList /\ x_state = 0 /\ list = <<>> /\ inList' = FALSE
      /\ UNCHANGED <<x_state, x_remaining, x_status_buf, list, out, stream, overrun, answered,
                     plain>>
  BY DEF EndOfList
<1>2. HTypeOK'
  BY <1>1 DEF HttpInv, HTypeOK
<1>3. ~BetweenResponses /\ ~InMessage
  BY <1>1 DEF BetweenResponses, InMessage
<1>4. ASSUME NEW r \in Responses, InHeader(r) PROVE InHeader(r)'
  BY <1>1, <1>4 DEF InHeader
<1>5. WhereItIs'
  BY <1>1, <1>3, <1>4 DEF HttpInv, WhereItIs
<1> QED
  BY <1>1, <1>2, <1>5 DEF HttpInv

LEMMA HttpStep == HttpInv /\ [HNext]_hvars => HttpInv'
<1> SUFFICES ASSUME HttpInv, [HNext]_hvars PROVE HttpInv'
  OBVIOUS
<1>1. CASE UNCHANGED hvars
  BY <1>1 DEF hvars, HttpInv, HTypeOK, WhereItIs, BetweenResponses, InHeader, InMessage
<1>2. CASE HNext
  BY <1>2, RespondStep, ReceiveStep, StatusByteStep, MessagePartStep, EndOfListStep DEF HNext
<1> QED
  BY <1>1, <1>2

LEMMA WhatHasComeOut == HttpInv => PassesResponses
<1> SUFFICES ASSUME HttpInv, plain
             PROVE  /\ ~overrun /\ IsPrefix(out, Contents(answered))
                    /\ stream = <<>> /\ ~inList => out = Contents(answered) /\ x_state = 0
  BY DEF PassesResponses, Contents
<1>1. /\ out \in Seq(Cells) /\ list \in Seq(Cells) /\ stream \in Seq(Cells)
  BY DEF HttpInv, HTypeOK
<1>2. stream = <<>> /\ ~inList => out = Contents(answered) /\ x_state = 0
  BY NothingOnTheWay DEF BetweenResponses
<1>3. \E more \in Seq(Cells) : Contents(answered) = out \/ Contents(answered) = out \o more
  <2>1. CASE BetweenResponses
    BY <1>1, <2>1 DEF BetweenResponses
  <2>2. CASE InMessage
    <3>1. list \o stream \in Seq(Cells)
      BY <1>1, ConcatProperties
    <3>2. Contents(answered) = out \o (list \o stream)
      BY <2>2 DEF InMessage
    <3> QED
      BY <3>1, <3>2, Zenon
  <2>3. ASSUME NEW r \in Responses, InHeader(r)
        PROVE  \E more \in Seq(Cells) : Contents(answered) = out \o more
    <3>1. Content(r) \in Seq(Cells)
      BY ContentIs
    <3>2. Contents(answered) = out \o Content(r)
      BY <2>3 DEF InHeader
    <3> QED
      BY <3>1, <3>2, Zenon
  <2> QED
    BY <2>1, <2>2, <2>3 DEF HttpInv, WhereItIs
<1>4. IsPrefix(out, Contents(answered))
  BY <1>1, <1>3, PrefixOfConcat
<1> QED
  BY <1>2, <1>4 DEF HttpInv, WhereItIs

\* However TCP cuts the responses of a server, what has come out of httpreceive is what
\* was sent so far, each response with its code, its fields and its message.
THEOREM HttpreceivePassesResponses == HSpec => []PassesResponses
<1>1. HSpec => []HttpInv
  BY HttpBegins, HttpStep, PTL DEF HSpec
<1> QED
  BY <1>1, WhatHasComeOut, PTL

-----------------------------------------------------------------------------
(* OSC: what data gives, by the equation that defines it.                  *)

GivenBy(f, data) ==
  [what \in {"packet", "elements"} |->
     LET size == 256 * data[3] + data[4] IN
     IF data = <<>> THEN <<>>
     ELSE IF what = "elements" THEN
       IF Len(data) <= 4 \/ size > Len(data) - 4 \/ data[5] \notin {Slash, Hash} THEN <<>>
       ELSE f[SubSeq(data, 5, 4 + size)]["packet"] \o f[From(data, 4 + size)]["elements"]
     ELSE IF data[1] = Slash THEN processMessageData(data)
     ELSE IF data[1] = Hash /\ ReadString(data).value = BundlePrefix
          THEN f[From(data, 16)]["elements"]
     ELSE <<>>]

SameBelow(f, g, n) ==
  \A data \in OscData : Len(data) < n => f[data] = g[data]

\* Parts of data are data, as long as they should be.
LEMMA PartsOfData ==
  ASSUME NEW data \in OscData, NEW n \in Nat
  PROVE  /\ From(data, n) \in OscData
         /\ Len(From(data, n)) = IF n <= Len(data) THEN Len(data) - n ELSE 0
         /\ \A m \in Nat : m + n <= Len(data) => SubSeq(data, m + 1, m + n) \in OscData
                                              /\ Len(SubSeq(data, m + 1, m + n)) = n
<1>1. Len(data) \in Nat /\ \A i \in 1..Len(data) : data[i] \in 0..255
  BY LenProperties, ElementOfSeq DEF OscData
<1>2. /\ SubSeq(data, n + 1, Len(data)) \in Seq(0..255)
      /\ Len(SubSeq(data, n + 1, Len(data))) =
           IF n + 1 <= Len(data) THEN Len(data) - (n + 1) + 1 ELSE 0
  <2>1. \A i \in (n + 1)..Len(data) : data[i] \in 0..255
    BY <1>1
  <2> QED
    BY <1>1, <2>1, SubSeqProperties
<1>3. ASSUME NEW m \in Nat, m + n <= Len(data)
      PROVE  /\ SubSeq(data, m + 1, m + n) \in Seq(0..255)
             /\ Len(SubSeq(data, m + 1, m + n)) = IF m + 1 <= m + n THEN (m + n) - (m + 1) + 1 ELSE 0
  <2>1. \A i \in (m + 1)..(m + n) : data[i] \in 0..255
    <3>1. \A i \in (m + 1)..(m + n) : i \in 1..Len(data)
      BY <1>1, <1>3
    <3> QED
      BY <1>1, <3>1
  <2> QED
    BY <2>1, SubSeqProperties
<1>4. From(data, n) \in OscData
  BY <1>2 DEF From, OscData
<1>5. Len(From(data, n)) = IF n <= Len(data) THEN Len(data) - n ELSE 0
  BY <1>1, <1>2 DEF From
<1>6. ASSUME NEW m \in Nat, m + n <= Len(data)
      PROVE  SubSeq(data, m + 1, m + n) \in OscData /\ Len(SubSeq(data, m + 1, m + n)) = n
  BY <1>3, <1>6 DEF OscData
<1> QED
  BY <1>4, <1>5, <1>6

\* What data gives depends on nothing but what shorter data gives.
LEMMA GivenByLess ==
  ASSUME NEW f, NEW g, NEW data \in OscData, SameBelow(f, g, Len(data))
  PROVE  GivenBy(f, data) = GivenBy(g, data)
<1> DEFINE size == 256 * data[3] + data[4]
           n == Len(data)
<1>1. n \in Nat /\ (data # <<>> => n # 0) /\ \A i \in 1..n : data[i] \in 0..255
  BY LenProperties, EmptySeq, ElementOfSeq DEF OscData
<1>2. data # <<>> => f[From(data, 16)] = g[From(data, 16)]
  <2>1. From(data, 16) \in OscData /\ (data # <<>> => Len(From(data, 16)) < n)
    <3>1. From(data, 16) \in OscData /\ Len(From(data, 16)) = IF 16 <= n THEN n - 16 ELSE 0
      BY PartsOfData
    <3> HIDE DEF n
    <3> QED
      BY <1>1, <3>1
  <2> QED
    BY <2>1 DEF SameBelow
<1>3. ASSUME ~(n <= 4 \/ size > n - 4)
      PROVE  /\ f[SubSeq(data, 5, 4 + size)] = g[SubSeq(data, 5, 4 + size)]
             /\ f[From(data, 4 + size)] = g[From(data, 4 + size)]
  <2>1. size \in Nat /\ 4 + size <= n
    <3>1. n > 4 /\ ~(size > n - 4)
      BY <1>1, <1>3
    <3>2. 3 \in 1..n /\ 4 \in 1..n
      BY <1>1, <3>1
    <3>3. data[3] \in 0..255 /\ data[4] \in 0..255
      BY <1>1, <3>2
    <3>4. size \in Nat
      <4>1. \A a, b \in 0..255 : 256 * a + b \in Nat
        OBVIOUS
      <4> QED
        BY <3>3, <4>1, Zenon
    <3> HIDE DEF size, n
    <3> QED
      BY <1>1, <3>1, <3>4
  <2> HIDE DEF size
  <2>2. From(data, 4 + size) \in OscData /\ Len(From(data, 4 + size)) < n
    <3>1. 4 + size \in Nat
      BY <2>1
    <3> QED
      BY <1>1, <2>1, <3>1, PartsOfData
  <2>3. SubSeq(data, 5, 4 + size) \in OscData /\ Len(SubSeq(data, 5, 4 + size)) < n
    <3>1. SubSeq(data, 4 + 1, 4 + size) \in OscData /\ Len(SubSeq(data, 4 + 1, 4 + size)) = size
      BY <2>1, PartsOfData
    <3> QED
      BY <1>1, <2>1, <3>1
  <2> QED
    BY <2>2, <2>3 DEF SameBelow
<1> QED
  BY <1>2, <1>3 DEF GivenBy

\* There is such a function: Given.
LEMMA GivenIsDefined ==
  ASSUME NEW data \in OscData
  PROVE  Given[data] = GivenBy(Given, data)
<1> DEFINE Shorter(m) == {d \in OscData : Len(d) < m}
           Solves(f, m) == f = [d \in Shorter(m) |-> GivenBy(f, d)]
           Bad == {m \in Nat : ~ \E f : Solves(f, m)}
<1>0. \A d \in OscData : Len(d) \in Nat
  BY LenProperties DEF OscData
<1>a. ASSUME NEW m, NEW f, Solves(f, m)
      PROVE  \A d \in Shorter(m) : f[d] = GivenBy(f, d)
  BY <1>a
<1>1. ASSUME NEW m \in Nat, NEW f, SameBelow(f, [d \in Shorter(m) |-> GivenBy(f, d)], m - 1)
      PROVE  Solves([d \in Shorter(m) |-> GivenBy(f, d)], m)
  <2> DEFINE g == [d \in Shorter(m) |-> GivenBy(f, d)]
  <2>1. ASSUME NEW d \in Shorter(m) PROVE GivenBy(f, d) = GivenBy(g, d)
    <3>1. SameBelow(f, g, Len(d))
      <4>1. Len(d) <= m - 1 /\ Len(d) \in Nat
        BY <1>0
      <4> HIDE DEF g
      <4>2. SameBelow(f, g, m - 1)
        BY <1>1 DEF g
      <4> QED
        BY <1>0, <4>1, <4>2 DEF SameBelow
    <3> HIDE DEF g
    <3> QED
      BY <3>1, GivenByLess
  <2>2. [d \in Shorter(m) |-> GivenBy(f, d)]
          = [d \in Shorter(m) |-> GivenBy(g, d)]
    <3> HIDE DEF g, Shorter
    <3> QED
      BY <2>1
  <2> QED
    BY <2>2
<1>2. Bad = {}
  <2>1. SUFFICES ASSUME Bad # {} PROVE FALSE
    OBVIOUS
  <2>2. PICK m \in Bad : \A k \in Bad : m <= k
    <3>1. Bad \subseteq Nat
      OBVIOUS
    <3> HIDE DEF Bad
    <3> QED
      BY <2>1, <3>1, LeastNatural
  <2>3. \E f : SameBelow(f, [d \in Shorter(m) |-> GivenBy(f, d)], m - 1)
    <3>1. CASE m = 0
      <4>1. SameBelow(<<>>, [d \in Shorter(m) |-> GivenBy(<<>>, d)], m - 1)
        BY <1>0, <3>1 DEF SameBelow
      <4> QED
        BY <4>1
    <3>2. CASE m # 0
      <4>1. m - 1 \in Nat /\ m - 1 \notin Bad
        <5>1. m \in Nat /\ m - 1 \in Nat /\ ~(m <= m - 1)
          BY <3>2
        <5> HIDE DEF Bad
        <5> QED
          BY <2>2, <5>1
      <4>2. PICK f : Solves(f, m - 1)
        <5> HIDE DEF Solves
        <5> QED
          BY <4>1
      <4>3. \A d \in Shorter(m - 1) : f[d] = GivenBy(f, d)
        <5> HIDE DEF Solves, Shorter
        <5> QED
          BY <1>a, <4>2
      <4>4. SameBelow(f, [d \in Shorter(m) |-> GivenBy(f, d)], m - 1)
        <5> DEFINE g == [d \in Shorter(m) |-> GivenBy(f, d)]
        <5>1. ASSUME NEW d \in OscData, Len(d) < m - 1 PROVE f[d] = g[d]
          <6>1. d \in Shorter(m - 1) /\ d \in Shorter(m)
            BY <1>0, <5>1
          <6>2. g[d] = GivenBy(f, d)
            BY <6>1
          <6> HIDE DEF g, Shorter
          <6> QED
            BY <4>3, <6>1, <6>2
        <5> HIDE DEF g
        <5>2. SameBelow(f, g, m - 1)
          BY <5>1 DEF SameBelow
        <5> QED
          BY <5>2 DEF g
      <4> QED
        BY <4>4
    <3> QED
      BY <3>1, <3>2
  <2>4. PICK f : SameBelow(f, [d \in Shorter(m) |-> GivenBy(f, d)], m - 1)
    BY <2>3
  <2>5. \E g : Solves(g, m)
    <3>1. Solves([d \in Shorter(m) |-> GivenBy(f, d)], m)
      BY <1>1, <2>2, <2>4
    <3> HIDE DEF Solves
    <3> QED
      BY <3>1
  <2> HIDE DEF Solves
  <2> QED
    BY <2>2, <2>5
<1>3. ASSUME NEW m \in Nat, NEW k \in Nat, NEW f, NEW g, Solves(f, m), Solves(g, k), m <= k
      PROVE  SameBelow(f, g, m)
  <2> DEFINE Differs == {n \in 0..m : ~SameBelow(f, g, n)}
  <2>1. Differs = {}
    <3>1. SUFFICES ASSUME Differs # {} PROVE FALSE
      OBVIOUS
    <3>2. PICK n \in Differs : \A j \in Differs : n <= j
      <4>1. Differs \subseteq Nat
        OBVIOUS
      <4> HIDE DEF Differs
      <4> QED
        BY <3>1, <4>1, LeastNatural
    <3>3. n # 0
      BY <1>0, <3>2 DEF SameBelow
    <3>4. SameBelow(f, g, n - 1)
      BY <3>2, <3>3
    <3>5. \A d \in Shorter(m) : f[d] = GivenBy(f, d)
      <4> HIDE DEF Solves, Shorter
      <4> QED
        BY <1>3, <1>a
    <3>6. \A d \in Shorter(k) : g[d] = GivenBy(g, d)
      <4> HIDE DEF Solves, Shorter
      <4> QED
        BY <1>3, <1>a
    <3>7. ASSUME NEW d \in OscData, Len(d) < n PROVE f[d] = g[d]
      <4>1. Len(d) \in Nat /\ Len(d) <= n - 1 /\ d \in Shorter(m) /\ d \in Shorter(k)
        BY <1>0, <1>3, <3>2, <3>7
      <4>2. SameBelow(f, g, Len(d))
        BY <1>0, <3>2, <3>4, <4>1 DEF SameBelow
      <4>3. GivenBy(f, d) = GivenBy(g, d)
        BY <4>2, GivenByLess
      <4> HIDE DEF Shorter
      <4> QED
        BY <3>5, <3>6, <4>1, <4>3
    <3>8. SameBelow(f, g, n)
      BY <3>7 DEF SameBelow
    <3> QED
      BY <3>2, <3>8
  <2> QED
    BY <2>1
<1> DEFINE Sol(m) == CHOOSE f : Solves(f, m)
           F == [d \in OscData |-> Sol(Len(d) + 1)[d]]
           Whole(f) == f = [d \in OscData |-> GivenBy(f, d)]
<1>4. \A m \in Nat : Solves(Sol(m), m)
  <2> HIDE DEF Solves
  <2> QED
    BY <1>2
<1>5. Whole(F)
  <2>1. ASSUME NEW d \in OscData PROVE F[d] = GivenBy(F, d)
    <3> DEFINE m == Len(d) + 1
               f == Sol(m)
    <3>1. F[d] = f[d]
      OBVIOUS
    <3>2. m \in Nat /\ m - 1 = Len(d) /\ d \in Shorter(m)
      BY <1>0
    <3>3. \A e \in OscData : F[e] = Sol(Len(e) + 1)[e]
      OBVIOUS
    <3> HIDE DEF F, Sol, m
    <3>4. Solves(f, m)
      BY <1>4, <3>2
    <3>5. f[d] = GivenBy(f, d)
      <4>1. \A e \in Shorter(m) : f[e] = GivenBy(f, e)
        <5> HIDE DEF Solves, Shorter, f
        <5> QED
          BY <1>a, <3>4
      <4> HIDE DEF f, Shorter, Solves
      <4> QED
        BY <3>2, <4>1
    <3>6. SameBelow(f, F, Len(d))
      <4>1. ASSUME NEW e \in OscData, Len(e) < Len(d) PROVE f[e] = F[e]
        <5>1. Len(e) + 1 \in Nat /\ Len(e) + 1 <= m /\ Len(e) < Len(e) + 1
          BY <1>0, <3>2, <4>1
        <5>2. Solves(Sol(Len(e) + 1), Len(e) + 1)
          BY <1>4, <5>1
        <5>3. SameBelow(Sol(Len(e) + 1), f, Len(e) + 1)
          <6> HIDE DEF Solves, f
          <6> QED
            BY <1>3, <3>2, <3>4, <5>1, <5>2
        <5>4. Sol(Len(e) + 1)[e] = f[e]
          BY <5>1, <5>3 DEF SameBelow
        <5> QED
          BY <3>3, <5>4
      <4> QED
        BY <4>1 DEF SameBelow
    <3>7. GivenBy(f, d) = GivenBy(F, d)
      BY <3>6, GivenByLess
    <3> QED
      BY <3>1, <3>5, <3>7
  <2>2. F = [d \in OscData |-> F[d]]
    OBVIOUS
  <2> HIDE DEF F
  <2>3. [d \in OscData |-> F[d]] = [d \in OscData |-> GivenBy(F, d)]
    BY <2>1
  <2> QED
    BY <2>2, <2>3
<1>6. Given = CHOOSE f : Whole(f)
  BY Zenon DEF Given, GivenBy
<1>7. Whole(Given)
  <2> HIDE DEF Whole, F
  <2> QED
    BY <1>5, <1>6
<1> HIDE DEF Solves, F, Sol
<1> QED
  BY <1>7

\* As a packet and as elements.
GivenElements(data) == Given[data]["elements"]

LEMMA GivenAs ==
  ASSUME NEW data \in OscData
  PROVE  /\ processOscData(data) =
              IF data = <<>> THEN <<>>
              ELSE IF data[1] = Slash THEN processMessageData(data)
              ELSE IF data[1] = Hash /\ ReadString(data).value = BundlePrefix
                   THEN GivenElements(From(data, 16))
              ELSE <<>>
         /\ GivenElements(data) =
              LET size == 256 * data[3] + data[4] IN
              IF data = <<>> \/ Len(data) <= 4 \/ size > Len(data) - 4 \/ data[5] \notin {Slash, Hash}
              THEN <<>>
              ELSE processOscData(SubSeq(data, 5, 4 + size)) \o GivenElements(From(data, 4 + size))
<1>1. Given[data] = GivenBy(Given, data)
  BY GivenIsDefined
<1>2. processOscData(data) = GivenBy(Given, data)["packet"] /\ GivenElements(data) = GivenBy(Given, data)["elements"]
  BY <1>1 DEF processOscData, GivenElements
<1> QED
  BY <1>2, Zenon DEF GivenBy, processOscData, GivenElements

-----------------------------------------------------------------------------
(* OSC: words, and parts of data.                                          *)

\* A number of whole words.
Words(n) == \E k \in Nat : n = 4 * k

\* The words that n bytes fill.
LEMMA RoundedProperties ==
  ASSUME NEW n \in Nat
  PROVE  /\ Rounded(n) \in Nat /\ n <= Rounded(n) /\ Rounded(n) <= n + 3
         /\ Words(Rounded(n))
         /\ Words(n) => Rounded(n) = n
<1> DEFINE q == (n + 3) \div 4
<1>1. q \in Nat /\ 4 * q <= n + 3 /\ n + 3 <= 4 * q + 3
  OBVIOUS
<1>2. Rounded(n) = q * 4
  BY DEF Rounded
<1> HIDE DEF q
<1>3. ASSUME NEW k \in Nat, n = 4 * k PROVE q = k
  BY <1>1, <1>3
<1>4. q * 4 = 4 * q
  BY <1>1
<1> QED
  BY <1>1, <1>2, <1>3, <1>4 DEF Words

\* Whole words behind whole words.
LEMMA WordsAdd ==
  ASSUME NEW a, NEW b, Words(a), Words(b)
  PROVE  Words(a + b)
<1>1. PICK j \in Nat : a = 4 * j
  BY DEF Words
<1>2. PICK k \in Nat : b = 4 * k
  BY DEF Words
<1>3. a + b = 4 * (j + k) /\ j + k \in Nat
  BY <1>1, <1>2
<1> QED
  BY <1>3 DEF Words

\* What is behind the first part, and the first part.
LEMMA TakenApart ==
  ASSUME NEW S, NEW a \in Seq(S), NEW b \in Seq(S)
  PROVE  From(a \o b, Len(a)) = b /\ SubSeq(a \o b, 1, Len(a)) = a
<1>1. /\ Len(a) \in Nat /\ Len(b) \in Nat /\ a \o b \in Seq(S) /\ Len(a \o b) = Len(a) + Len(b)
      /\ \A i \in 1..(Len(a) + Len(b)) : (a \o b)[i] = IF i <= Len(a) THEN a[i] ELSE b[i - Len(a)]
  BY LenProperties, ConcatProperties
<1>2. \A i \in 1..(Len(a) + Len(b)) : (a \o b)[i] \in S
  BY <1>1, ElementOfSeq
<1> DEFINE w == a \o b
<1> HIDE DEF w
<1>3. SubSeq(w, 1, Len(a)) = a
  <2>1. CASE Len(a) = 0
    BY <1>1, <2>1, SubSeqEmpty, EmptySeq
  <2>2. CASE Len(a) # 0
    <3>1. 1 \in 1..Len(a) /\ Len(a) \in 1..Len(a)
      BY <1>1, <2>2
    <3> QED
      BY <3>1, SubSeqOfConcat1, SubSeqFull DEF w
  <2> QED
    BY <2>1, <2>2
<1>4. SubSeq(w, Len(a) + 1, Len(a) + Len(b)) = b
  <2>1. CASE Len(b) = 0
    <3>1. Len(a) + Len(b) < Len(a) + 1 /\ Len(a) + 1 \in Int /\ Len(a) + Len(b) \in Int
      BY <1>1, <2>1
    <3>2. SubSeq(w, Len(a) + 1, Len(a) + Len(b)) = <<>>
      BY <3>1, SubSeqEmpty
    <3> QED
      BY <2>1, <3>2, EmptySeq
  <2>2. CASE Len(b) # 0
    <3>1. /\ Len(a) + 1 \in (Len(a) + 1)..(Len(a) + Len(b))
          /\ Len(a) + Len(b) \in (Len(a) + 1)..(Len(a) + Len(b))
          /\ (Len(a) + 1) - Len(a) = 1 /\ (Len(a) + Len(b)) - Len(a) = Len(b)
      BY <1>1, <2>2
    <3>2. SubSeq(w, Len(a) + 1, Len(a) + Len(b)) = SubSeq(b, (Len(a) + 1) - Len(a), (Len(a) + Len(b)) - Len(a))
      BY <3>1, SubSeqOfConcat2 DEF w
    <3> QED
      BY <3>1, <3>2, SubSeqFull
  <2> QED
    BY <2>1, <2>2
<1> QED
  BY <1>1, <1>3, <1>4 DEF From, w

-----------------------------------------------------------------------------
(* OSC: characters.                                                        *)

Code(c) == IF c < 128 THEN <<c>> ELSE <<192 + c \div 64, 128 + (c % 64)>>

\* The bytes of a character, none of which is zero.
LEMMA CodeProperties ==
  ASSUME NEW c \in Characters
  PROVE  /\ Code(c) \in Seq(1..255)
         /\ c < 128 => Code(c) = <<c>> /\ c \in 0..127
         /\ ~(c < 128) => \E q \in 2..31, r \in 0..63 :
              c = 64 * q + r /\ Code(c) = <<192 + q, 128 + r>>
<1> DEFINE high == c \div 64
           low == c % 64
<1>1. high \in 0..31 /\ low \in 0..63 /\ c = 64 * high + low /\ c \in 1..2047
  BY DEF Characters
<1>2. Code(c) = IF c < 128 THEN <<c>> ELSE <<192 + high, 128 + low>>
  BY DEF Code
<1> HIDE DEF high, low
<1>3. ASSUME c < 128
      PROVE  Code(c) = <<c>> /\ c \in 0..127 /\ Code(c) \in Seq(1..255)
  <2>1. Code(c) = <<c>>
    BY <1>2, <1>3
  <2>2. c \in 0..127 /\ c \in 1..255
    BY <1>1, <1>3
  <2>3. <<c>> \in Seq(1..255)
    BY <2>2
  <2> QED
    BY <2>1, <2>2, <2>3
<1>4. ASSUME ~(c < 128)
      PROVE  /\ high \in 2..31 /\ Code(c) = <<192 + high, 128 + low>>
             /\ Code(c) \in Seq(1..255)
  <2>1. Code(c) = <<192 + high, 128 + low>>
    BY <1>2, <1>4
  <2>2. high \in 2..31 /\ 192 + high \in 1..255 /\ 128 + low \in 1..255
    BY <1>1, <1>4
  <2>3. <<192 + high, 128 + low>> \in Seq(1..255)
    BY <2>2
  <2> QED
    BY <2>1, <2>2, <2>3
<1>5. Code(c) \in Seq(1..255)
  BY <1>3, <1>4
<1>6. ASSUME ~(c < 128)
      PROVE  \E q \in 2..31, r \in 0..63 : c = 64 * q + r /\ Code(c) = <<192 + q, 128 + r>>
  <2>1. high \in 2..31 /\ low \in 0..63 /\ c = 64 * high + low /\ Code(c) = <<192 + high, 128 + low>>
    BY <1>1, <1>4, <1>6
  <2> QED
    BY <2>1, Zenon
<1> QED
  BY <1>3, <1>5, <1>6

\* The bytes of a string, a character at a time.
LEMMA Utf8More ==
  ASSUME NEW s \in Seq(Characters)
  PROVE  /\ Utf8(s) \in Seq(1..255)
         /\ s = <<>> => Utf8(s) = <<>>
         /\ \A c \in Characters : Utf8(Append(s, c)) = Utf8(s) \o Code(c)
<1> DEFINE C(t) == [i \in DOMAIN t |-> Code(t[i])]
           k == C(s)
<1>1. DOMAIN s = 1..Len(s) /\ Len(s) \in Nat /\ \A i \in 1..Len(s) : s[i] \in Characters
  BY LenProperties, ElementOfSeq
<1>2. k \in Seq(Seq(1..255)) /\ Len(k) = Len(s)
  <2>1. \A i \in 1..Len(s) : Code(s[i]) \in Seq(1..255)
    BY <1>1, CodeProperties
  <2> QED
    BY <1>1, <2>1
<1>3. s = <<>> => k = <<>>
  OBVIOUS
<1>4. ASSUME NEW c \in Characters PROVE C(Append(s, c)) = Append(k, Code(c))
  <2> DEFINE t == Append(s, c)
  <2>1. /\ t \in Seq(Characters) /\ Len(t) = Len(s) + 1
        /\ \A i \in 1..Len(s) : t[i] = s[i]
        /\ t[Len(s) + 1] = c
    BY AppendProperties
  <2> HIDE DEF t
  <2>2. DOMAIN t = 1..(Len(s) + 1)
    BY <2>1, LenProperties
  <2>3. C(t) = [i \in 1..(Len(s) + 1) |-> IF i = Len(s) + 1 THEN Code(c) ELSE Code(s[i])]
    BY <1>1, <2>1, <2>2
  <2>4. Append(k, Code(c)) =
          [i \in 1..(Len(s) + 1) |-> IF i = Len(s) + 1 THEN Code(c) ELSE Code(s[i])]
    BY <1>1, <1>2
  <2> QED
    BY <2>3, <2>4 DEF t
<1>5. Utf8(s) = FlattenSeq(k) /\ \A c \in Characters : Utf8(Append(s, c)) = FlattenSeq(C(Append(s, c)))
  BY DEF Utf8, Code
<1>6. \A c \in Characters : Utf8(Append(s, c)) = FlattenSeq(Append(k, Code(c)))
  BY <1>4, <1>5, Zenon
<1> HIDE DEF k
<1>7. FlattenSeq(k) \in Seq(1..255) /\ (k = <<>> => FlattenSeq(k) = <<>>)
  BY <1>2, FlattenProperties
<1>8. \A c \in Characters : FlattenSeq(Append(k, Code(c))) = FlattenSeq(k) \o Code(c)
  BY <1>2, CodeProperties, FlattenProperties
<1>9. k = C(s)
  BY DEF k
<1> QED
  BY <1>3, <1>5, <1>6, <1>7, <1>8, <1>9

NoCharacters == [chars |-> <<>>, lead |-> 0, valid |-> TRUE]

\* What the first n bytes give, by the equation that defines it.
LEMMA DecodedIsDefined ==
  ASSUME NEW u, Len(u) \in Nat
  PROVE  \E state :
           /\ Decoded(u) = state[Len(u)]
           /\ state[0] = NoCharacters
           /\ \A n \in 1..Len(u) : state[n] = DecodeByte(state[n - 1], u[n])
<1> DEFINE Step(f, n) == IF n = 0 THEN NoCharacters ELSE DecodeByte(f[n - 1], u[n])
           Solves(f, m) == f = [n \in 0..m |-> Step(f, n)]
           Bad == {m \in 0..Len(u) : ~ \E f : Solves(f, m)}
<1>1. Bad = {}
  <2>1. SUFFICES ASSUME Bad # {} PROVE FALSE
    OBVIOUS
  <2>2. PICK m \in Bad : \A k \in Bad : m <= k
    <3> HIDE DEF Solves
    <3>1. Bad \subseteq Nat
      OBVIOUS
    <3> HIDE DEF Bad
    <3> QED
      BY <2>1, <3>1, LeastNatural
  <2>3. m # 0
    <3>1. Solves([n \in 0..0 |-> NoCharacters], 0)
      OBVIOUS
    <3> HIDE DEF Solves
    <3> QED
      BY <3>1
  <2>4. PICK f : Solves(f, m - 1)
    <3> HIDE DEF Solves
    <3>1. m - 1 \in 0..Len(u) /\ m - 1 \notin Bad
      BY <2>2, <2>3
    <3> QED
      BY <3>1
  <2> DEFINE g == [n \in 0..m |-> IF n = m THEN Step(f, m) ELSE f[n]]
  <2>5. Solves(g, m)
    <3>1. \A n \in 0..(m - 1) : f[n] = Step(f, n)
      BY <2>4
    <3>2. \A n \in 0..m : g[n] = Step(g, n)
      <4>1. ASSUME NEW n \in 0..m, n = m PROVE g[n] = Step(g, n)
        <5>1. g[m] = Step(f, m)
          OBVIOUS
        <5>2. m - 1 \in 0..m /\ m - 1 # m /\ g[m - 1] = f[m - 1]
          BY <2>3
        <5> HIDE DEF g
        <5> QED
          BY <4>1, <5>1, <5>2, <2>3
      <4>2. ASSUME NEW n \in 0..m, n # m PROVE g[n] = Step(g, n)
        <5>1. g[n] = f[n] /\ f[n] = Step(f, n)
          BY <3>1, <4>2
        <5>2. n # 0 => g[n - 1] = f[n - 1]
          BY <4>2
        <5> HIDE DEF g
        <5> QED
          BY <5>1, <5>2
      <4> QED
        BY <4>1, <4>2
    <3>3. g = [n \in 0..m |-> g[n]]
      OBVIOUS
    <3> HIDE DEF g
    <3>4. [n \in 0..m |-> g[n]] = [n \in 0..m |-> Step(g, n)]
      BY <3>2
    <3> QED
      BY <3>3, <3>4
  <2> HIDE DEF Solves
  <2> QED
    BY <2>2, <2>5
<1> DEFINE state == CHOOSE f : Solves(f, Len(u))
<1>2. Solves(state, Len(u))
  <2> HIDE DEF Solves
  <2>1. \E f : Solves(f, Len(u))
    BY <1>1
  <2> QED
    BY <2>1
<1>3. Decoded(u) = state[Len(u)]
  BY DEF Decoded, NoCharacters
<1> HIDE DEF state
<1>4. \A n \in 0..Len(u) : state[n] = Step(state, n)
  BY <1>2
<1> QED
  BY <1>3, <1>4

\* Bytes are decoded one at a time.
LEMMA DecodedMore ==
  ASSUME NEW S, NEW u \in Seq(S)
  PROVE  /\ u = <<>> => Decoded(u) = NoCharacters
         /\ \A b \in S : Decoded(Append(u, b)) = DecodeByte(Decoded(u), b)
<1> DEFINE m == Len(u)
<1>1. m \in Nat /\ (u = <<>> => m = 0)
  BY LenProperties, EmptySeq
<1>2. PICK state :
        /\ Decoded(u) = state[m]
        /\ state[0] = NoCharacters
        /\ \A n \in 1..m : state[n] = DecodeByte(state[n - 1], u[n])
  BY <1>1, DecodedIsDefined
<1>3. ASSUME NEW b \in S PROVE Decoded(Append(u, b)) = DecodeByte(Decoded(u), b)
  <2> DEFINE v == Append(u, b)
  <2>1. Len(v) = m + 1 /\ (\A i \in 1..m : v[i] = u[i]) /\ v[m + 1] = b
    BY AppendProperties
  <2> HIDE DEF v, m
  <2>2. PICK next :
          /\ Decoded(v) = next[m + 1]
          /\ next[0] = NoCharacters
          /\ \A n \in 1..(m + 1) : next[n] = DecodeByte(next[n - 1], v[n])
    <3>1. Len(v) \in Nat
      BY <1>1, <2>1
    <3>2. \E next :
            /\ Decoded(v) = next[Len(v)]
            /\ next[0] = NoCharacters
            /\ \A n \in 1..Len(v) : next[n] = DecodeByte(next[n - 1], v[n])
      BY <3>1, DecodedIsDefined
    <3> QED
      BY <2>1, <3>2
  <2> DEFINE Bad == {n \in 0..m : next[n] # state[n]}
  <2>3. Bad = {}
    <3>1. SUFFICES ASSUME Bad # {} PROVE FALSE
      OBVIOUS
    <3>2. PICK n \in Bad : \A j \in Bad : n <= j
      <4>1. Bad \subseteq Nat
        BY <1>1
      <4> HIDE DEF Bad
      <4> QED
        BY <3>1, <4>1, LeastNatural
    <3>3. n \in 1..m /\ n \in 1..(m + 1) /\ n - 1 \in 0..m /\ ~(n <= n - 1)
      BY <1>1, <1>2, <2>2, <3>2
    <3>4. next[n - 1] = state[n - 1]
      BY <3>2, <3>3
    <3>5. next[n] = state[n]
      BY <1>2, <2>1, <2>2, <3>3, <3>4
    <3> QED
      BY <3>2, <3>5
  <2>4. m \in 0..m /\ m + 1 \in 1..(m + 1) /\ (m + 1) - 1 = m
    BY <1>1
  <2>5. next[m + 1] = DecodeByte(state[m], b)
    BY <2>1, <2>2, <2>3, <2>4
  <2> QED
    BY <1>2, <2>2, <2>5 DEF v
<1> QED
  BY <1>1, <1>2, <1>3

\* What was read of the characters r, and the first byte of another.
Reading(r, lead) == [chars |-> r, lead |-> lead, valid |-> TRUE]

LEMMA LowByte ==
  ASSUME NEW r, NEW b \in 0..127
  PROVE  DecodeByte(Reading(r, 0), b) = Reading(Append(r, b), 0)
<1>1. b < 128
  OBVIOUS
<1> QED
  BY <1>1 DEF DecodeByte, Reading

LEMMA LeadByte ==
  ASSUME NEW r, NEW a \in 194..223
  PROVE  DecodeByte(Reading(r, 0), a) = Reading(r, a)
<1>1. ~(a < 128) /\ ~(a < 192)
  OBVIOUS
<1> QED
  BY <1>1 DEF DecodeByte, Reading

LEMMA TrailByte ==
  ASSUME NEW r, NEW a \in 194..223, NEW b \in 128..191
  PROVE  DecodeByte(Reading(r, a), b) = Reading(Append(r, 64 * (a - 192) + b - 128), 0)
<1>1. ~(b < 128) /\ b < 192 /\ a # 0
  OBVIOUS
<1> QED
  BY <1>1 DEF DecodeByte, Reading

LEMMA OctetAppended ==
  ASSUME NEW u \in Seq(1..255), NEW d \in 1..255
  PROVE  /\ Append(u, d) \in Seq(1..255) /\ Append(u, d) # <<>>
         /\ Len(Append(u, d)) = Len(u) + 1
         /\ \A i \in 1..Len(u) : Append(u, d)[i] = u[i]
<1> DEFINE S == 1..255
<1>1. u \in Seq(S) /\ d \in S
  OBVIOUS
<1> HIDE DEF S
<1>2. Append(u, d) \in Seq(S)
  BY <1>1, AppendProperties
<1>3. /\ Append(u, d) # <<>> /\ Len(Append(u, d)) = Len(u) + 1
      /\ \A i \in 1..Len(u) : Append(u, d)[i] = u[i]
  BY <1>1, AppendProperties
<1> QED
  BY <1>2, <1>3 DEF S

\* UTF-8 is read as what was written, and has no zeroes; a character below 128 is its byte.
IsRead(s) ==
  /\ Decoded(Utf8(s)) = Reading(s, 0)
  /\ (\A i \in 1..Len(s) : s[i] < 128) => Utf8(s) = s
  /\ s # <<>> /\ s[1] < 128 => Utf8(s) # <<>> /\ Utf8(s)[1] = s[1]

LEMMA Utf8IsRead ==
  ASSUME NEW s \in Seq(Characters)
  PROVE  IsRead(s)
<1> DEFINE Bad == {n \in Nat : \E t \in Seq(Characters) : Len(t) = n /\ ~IsRead(t)}
<1>1. Bad = {}
  <2>1. SUFFICES ASSUME Bad # {} PROVE FALSE
    OBVIOUS
  <2>2. PICK n \in Bad : \A j \in Bad : n <= j
    <3>1. Bad \subseteq Nat
      OBVIOUS
    <3> HIDE DEF Bad
    <3> QED
      BY <2>1, <3>1, LeastNatural
  <2>3. PICK t \in Seq(Characters) : Len(t) = n /\ ~IsRead(t)
    BY <2>2
  <2>4. t # <<>>
    <3>1. Decoded(<<>>) = NoCharacters
      <4>1. <<>> \in Seq(1..255)
        BY EmptySeq
      <4> QED
        BY <4>1, DecodedMore
    <3>2. <<>> \in Seq(Characters) /\ Utf8(<<>>) = <<>>
      BY EmptySeq, Utf8More
    <3> QED
      BY <2>3, <3>1, <3>2 DEF IsRead, NoCharacters, Reading
  <2>5. PICK r \in Seq(Characters), c \in Characters : t = Append(r, c)
    BY <2>4, SequenceEmptyOrAppend
  <2>6. /\ Len(r) \in Nat /\ n = Len(r) + 1 /\ t[n] = c /\ n # 0
        /\ \A i \in 1..Len(r) : t[i] = r[i]
    <3>1. Len(r) \in Nat
      BY LenProperties
    <3> QED
      BY <2>3, <2>5, <3>1, AppendProperties
  <2>7. IsRead(r)
    <3>1. Len(r) \notin Bad
      <4> HIDE DEF Bad
      <4> QED
        BY <2>2, <2>6
    <3> QED
      BY <2>6, <3>1
  <2> DEFINE u == Utf8(r)
  <2>8. Utf8(t) = u \o Code(c) /\ u \in Seq(1..255)
    BY <2>5, Utf8More
  <2>9. Decoded(u) = Reading(r, 0)
    BY <2>7 DEF IsRead
  <2>13. ASSUME NEW d \in 1..255 PROVE Append(u, d) \in Seq(1..255) /\ Append(u, d) # <<>>
    BY <2>8, OctetAppended
  <2>14. \A v \in Seq(1..255), d \in 1..255 : Decoded(Append(v, d)) = DecodeByte(Decoded(v), d)
    BY DecodedMore
  <2>15. c \in 1..2047
    BY DEF Characters
  <2>10. r # <<>> => Len(r) # 0
    BY EmptySeq
  <2> HIDE DEF u
  <2>11. CASE c < 128
    <3>1. Code(c) = <<c>> /\ c \in 0..127 /\ c \in 1..255
      <4>1. Code(c) = <<c>>
        BY <2>11, CodeProperties
      <4> QED
        BY <2>11, <2>15, <4>1
    <3>2. Utf8(t) = Append(u, c)
      BY <2>8, <3>1, AppendIsConcat
    <3>3. Decoded(Utf8(t)) = DecodeByte(Decoded(u), c)
      BY <2>8, <2>14, <3>1, <3>2
    <3>4. Decoded(Utf8(t)) = Reading(t, 0)
      BY <2>5, <2>9, <3>1, <3>3, LowByte
    <3>5. ASSUME \A i \in 1..Len(t) : t[i] < 128 PROVE Utf8(t) = t
      <4>1. \A i \in 1..Len(r) : r[i] < 128
        <5>1. \A i \in 1..Len(r) : i \in 1..Len(t)
          BY <2>3, <2>6
        <5> QED
          BY <2>6, <3>5, <5>1
      <4>2. u = r
        BY <2>7, <4>1 DEF IsRead, u
      <4> QED
        BY <2>5, <3>2, <4>2
    <3>6. ASSUME t[1] < 128 PROVE Utf8(t) # <<>> /\ Utf8(t)[1] = t[1]
      <4>1. CASE r = <<>>
        <5>1. u = <<>> /\ Len(r) = 0
          BY <4>1, Utf8More, EmptySeq DEF u
        <5> QED
          BY <2>6, <3>2, <5>1
      <4>2. CASE r # <<>>
        <5>1. 1 \in 1..Len(r) /\ t[1] = r[1]
          BY <2>6, <2>10, <4>2
        <5>2. u # <<>> /\ u[1] = r[1]
          BY <2>7, <3>6, <4>2, <5>1 DEF IsRead, u
        <5>3. 1 \in 1..Len(u)
          BY <2>8, <5>2, EmptySeq, LenProperties
        <5>4. Append(u, c)[1] = u[1] /\ Append(u, c) # <<>>
          BY <2>8, <3>1, <5>3, AppendProperties
        <5> QED
          BY <3>2, <5>1, <5>2, <5>4
      <4> QED
        BY <4>1, <4>2
    <3> QED
      BY <2>3, <2>5, <3>4, <3>5, <3>6 DEF IsRead
  <2>12. CASE ~(c < 128)
    <3>1. PICK q \in 2..31, k \in 0..63 : c = 64 * q + k /\ Code(c) = <<192 + q, 128 + k>>
      BY <2>12, CodeProperties
    <3> DEFINE a == 192 + q
               b == 128 + k
    <3>2. a \in 194..223 /\ b \in 128..191 /\ a \in 1..255 /\ b \in 1..255 /\ 64 * (a - 192) + b - 128 = c
      BY <3>1
    <3>3. Utf8(t) = u \o <<a, b>>
      BY <2>8, <3>1
    <3> HIDE DEF a, b
    <3>4. Utf8(t) = Append(Append(u, a), b)
      BY <2>8, <3>2, <3>3
    <3>5. Append(u, a) \in Seq(1..255) /\ Append(u, a) # <<>>
      BY <2>13, <3>2
    <3>6. Decoded(Append(u, a)) = DecodeByte(Decoded(u), a)
      BY <2>8, <2>14, <3>2
    <3>7. Decoded(Utf8(t)) = DecodeByte(Decoded(Append(u, a)), b)
      BY <2>14, <3>2, <3>4, <3>5
    <3>12. a \in 194..223 /\ b \in 128..191
      BY <3>2
    <3>13. DecodeByte(Reading(r, 0), a) = Reading(r, a)
      BY <3>12, LeadByte
    <3>8. Decoded(Append(u, a)) = Reading(r, a)
      BY <2>9, <3>6, <3>13
    <3>9. Decoded(Utf8(t)) = Reading(t, 0)
      <4>1. DecodeByte(Reading(r, a), b) = Reading(Append(r, 64 * (a - 192) + b - 128), 0)
        BY <3>12, TrailByte
      <4> QED
        BY <2>5, <3>2, <3>7, <3>8, <4>1
    <3>10. ~(t[n] < 128) /\ n \in 1..Len(t)
      BY <2>3, <2>6, <2>12
    <3>11. ASSUME t[1] < 128 PROVE Utf8(t) # <<>> /\ Utf8(t)[1] = t[1]
      <4>1. r # <<>>
        <5>1. r = <<>> => n = 1
          BY <2>6, EmptySeq
        <5> QED
          BY <3>10, <3>11, <5>1
      <4>2. 1 \in 1..Len(r) /\ t[1] = r[1]
        BY <2>6, <2>10, <4>1
      <4>3. u # <<>> /\ u[1] = r[1]
        BY <2>7, <3>11, <4>1, <4>2 DEF IsRead, u
      <4>4. 1 \in 1..Len(u)
        BY <2>8, <4>3, EmptySeq, LenProperties
      <4>5. Append(u, a)[1] = u[1] /\ 1 \in 1..Len(Append(u, a))
        <5>1. Append(u, a)[1] = u[1] /\ Len(Append(u, a)) = Len(u) + 1 /\ Len(u) \in Nat
          BY <2>8, <3>2, <4>4, AppendProperties, LenProperties
        <5> QED
          BY <5>1
      <4>6. Append(Append(u, a), b)[1] = Append(u, a)[1] /\ Append(Append(u, a), b) # <<>>
        <5> DEFINE v == Append(u, a)
        <5>1. v \in Seq(1..255) /\ 1 \in 1..Len(v) /\ b \in 1..255
          BY <3>2, <3>5, <4>5
        <5> HIDE DEF v
        <5>2. Append(v, b)[1] = v[1] /\ Append(v, b) # <<>>
          BY <5>1, AppendProperties
        <5> QED
          BY <5>2 DEF v
      <4> QED
        BY <3>4, <4>2, <4>3, <4>5, <4>6
    <3> QED
      BY <2>3, <2>5, <3>9, <3>10, <3>11 DEF IsRead
  <2> QED
    BY <2>11, <2>12
<1>2. Len(s) \in Nat /\ Len(s) \notin Bad
  <2> HIDE DEF Bad
  <2> QED
    BY <1>1, LenProperties
<1> QED
  BY <1>2

-----------------------------------------------------------------------------
(* OSC: data put together and taken apart.                                 *)

\* Data behind data.
LEMMA DataJoined ==
  ASSUME NEW a \in OscData, NEW b \in OscData
  PROVE  /\ a \o b \in OscData
         /\ Len(a \o b) = Len(a) + Len(b) /\ Len(a) \in Nat /\ Len(b) \in Nat
         /\ \A i \in 1..Len(a) : (a \o b)[i] = a[i]
<1> DEFINE S == 0..255
<1>1. a \in Seq(S) /\ b \in Seq(S)
  BY DEF OscData
<1> HIDE DEF S
<1>2. /\ a \o b \in Seq(S) /\ Len(a \o b) = Len(a) + Len(b)
      /\ \A i \in 1..(Len(a) + Len(b)) : (a \o b)[i] = IF i <= Len(a) THEN a[i] ELSE b[i - Len(a)]
  BY <1>1, ConcatProperties
<1>3. Len(a) \in Nat /\ Len(b) \in Nat
  BY <1>1, LenProperties
<1>4. a \o b \in OscData
  BY <1>2 DEF S, OscData
<1>5. \A i \in 1..Len(a) : (a \o b)[i] = a[i]
  BY <1>2, <1>3
<1> QED
  BY <1>2, <1>3, <1>4, <1>5

\* Behind a part, and a part.
LEMMA DataApart ==
  ASSUME NEW a \in OscData, NEW b \in OscData
  PROVE  From(a \o b, Len(a)) = b /\ SubSeq(a \o b, 1, Len(a)) = a
<1>1. a \in Seq(0..255) /\ b \in Seq(0..255)
  BY DEF OscData
<1> QED
  BY <1>1, TakenApart

LEMMA DataRegroups ==
  ASSUME NEW a \in OscData, NEW b \in OscData, NEW c \in OscData
  PROVE  (a \o b) \o c = a \o (b \o c)
<1>1. a \in Seq(0..255) /\ b \in Seq(0..255) /\ c \in Seq(0..255)
  BY DEF OscData
<1> QED
  BY <1>1, ConcatAssociative

\* The data that is empty.
LEMMA NoData ==
  /\ <<>> \in OscData
  /\ \A a \in OscData : /\ a \o <<>> = a /\ <<>> \o a = a
                        /\ Len(a) \in Nat /\ (a = <<>> <=> Len(a) = 0)
<1>1. <<>> \in OscData
  BY EmptySeq DEF OscData
<1>2. ASSUME NEW a \in OscData
      PROVE  a \o <<>> = a /\ <<>> \o a = a /\ Len(a) \in Nat /\ (a = <<>> <=> Len(a) = 0)
  <2>1. a \in Seq(0..255)
    BY DEF OscData
  <2>2. a \o <<>> = a /\ <<>> \o a = a
    BY <2>1, ConcatEmptySeq
  <2>3. Len(a) \in Nat /\ (a # <<>> => Len(a) \in Nat \ {0}) /\ Len(<<>>) = 0
    BY <2>1, LenProperties, EmptySeq
  <2> QED
    BY <2>2, <2>3
<1> QED
  BY <1>1, <1>2

LEMMA ZeroesProperties ==
  ASSUME NEW n \in Nat
  PROVE  Zeroes(n) \in OscData /\ Len(Zeroes(n)) = n /\ \A i \in 1..n : Zeroes(n)[i] = 0
<1>1. Zeroes(n) \in Seq(0..255) /\ Len(Zeroes(n)) = n /\ \A i \in 1..n : Zeroes(n)[i] = 0
  BY DEF Zeroes
<1> QED
  BY <1>1 DEF OscData

-----------------------------------------------------------------------------
(* OSC: strings.                                                           *)

\* The length of a string with its zeroes.
Padded(s) == Rounded(Len(Utf8(s)) + 1)

LEMMA Utf8IsData ==
  ASSUME NEW s \in Seq(Characters)
  PROVE  /\ Utf8(s) \in OscData /\ Len(Utf8(s)) \in Nat
         /\ \A i \in 1..Len(Utf8(s)) : Utf8(s)[i] # 0
<1>1. Utf8(s) \in Seq(1..255)
  BY Utf8More
<1>2. Utf8(s) \in Seq(0..255)
  <2> DEFINE S == 1..255
             T == 0..255
  <2>1. S \subseteq T /\ Utf8(s) \in Seq(S)
    BY <1>1
  <2> HIDE DEF S, T
  <2>2. Utf8(s) \in Seq(T)
    BY <2>1, SeqMonotonic
  <2> QED
    BY <2>2 DEF T
<1>3. \A i \in 1..Len(Utf8(s)) : Utf8(s)[i] \in 1..255
  BY <1>1, ElementOfSeq
<1>4. Len(Utf8(s)) \in Nat
  BY <1>1, LenProperties
<1>5. Utf8(s) \in OscData
  BY <1>2 DEF OscData
<1>6. \A i \in 1..Len(Utf8(s)) : Utf8(s)[i] # 0
  <2> DEFINE u == Utf8(s)
  <2>1. \A i \in 1..Len(u) : u[i] \in 1..255
    BY <1>3
  <2> HIDE DEF u
  <2>2. ASSUME NEW i \in 1..Len(u) PROVE u[i] # 0
    <3>1. u[i] \in 1..255
      BY <2>1
    <3>2. 0 \notin 1..255
      OBVIOUS
    <3> QED
      BY <3>1, <3>2, Zenon
  <2> QED
    BY <2>2 DEF u
<1> QED
  BY <1>4, <1>5, <1>6

\* What a string is written as.
LEMMA StringData ==
  ASSUME NEW s \in Seq(Characters)
  PROVE  /\ oscStringData(s) \in OscData
         /\ Len(oscStringData(s)) = Padded(s)
         /\ Words(Len(oscStringData(s))) /\ Len(oscStringData(s)) \in Nat \ {0}
         /\ Utf8(s) # <<>> => oscStringData(s)[1] = Utf8(s)[1]
         /\ \E k \in Nat \ {0} : oscStringData(s) = Utf8(s) \o Zeroes(k)
<1> DEFINE u == Utf8(s)
           n == Len(u)
           k == Rounded(n + 1) - n
<1>1. u \in OscData /\ n \in Nat /\ (u # <<>> => n # 0)
  <2>1. u \in OscData
    BY Utf8IsData
  <2> HIDE DEF u
  <2> QED
    BY <2>1, NoData
<1> HIDE DEF u, n
<1>2. n + 1 \in Nat
  BY <1>1
<1>3. Rounded(n + 1) \in Nat /\ n + 1 <= Rounded(n + 1) /\ Words(Rounded(n + 1))
  BY <1>2, RoundedProperties
<1>4. k \in Nat \ {0} /\ n + k = Rounded(n + 1)
  BY <1>1, <1>3
<1>5. oscStringData(s) = u \o Zeroes(k)
  BY DEF oscStringData, u, n
<1> HIDE DEF k
<1>6. Zeroes(k) \in OscData /\ Len(Zeroes(k)) = k
  BY <1>4, ZeroesProperties
<1>7. oscStringData(s) \in OscData /\ Len(oscStringData(s)) = n + k
      /\ \A i \in 1..n : oscStringData(s)[i] = u[i]
  <2> DEFINE z == Zeroes(k)
  <2>1. z \in OscData /\ Len(z) = k /\ n = Len(u)
    BY <1>6 DEF n
  <2> HIDE DEF z
  <2>2. u \o z \in OscData /\ Len(u \o z) = Len(u) + Len(z) /\ \A i \in 1..Len(u) : (u \o z)[i] = u[i]
    BY <1>1, <2>1, DataJoined
  <2>3. oscStringData(s) = u \o z
    BY <1>5 DEF z
  <2> QED
    BY <2>1, <2>2, <2>3
<1>8. u # <<>> => oscStringData(s)[1] = u[1]
  BY <1>1, <1>7
<1>9. Padded(s) = n + k
  BY <1>4 DEF Padded, u, n
<1>10. Len(oscStringData(s)) \in Nat \ {0}
  BY <1>1, <1>4, <1>7
<1> QED
  BY <1>3, <1>4, <1>5, <1>7, <1>8, <1>9, <1>10 DEF u

\* A string is read as it was written, up to its first zero; where the next thing is
\* looked for is another matter.
LEMMA StringIsRead ==
  ASSUME NEW s \in Seq(Characters), NEW rest \in OscData
  PROVE  ReadString(oscStringData(s) \o rest) =
           [valid |-> TRUE, value |-> s, length |-> Rounded(Len(s) + 1)]
<1> DEFINE u == Utf8(s)
           n == Len(u)
<1>1. u \in OscData /\ n \in Nat /\ \A i \in 1..n : u[i] # 0
  BY Utf8IsData
<1>2. PICK k \in Nat \ {0} : oscStringData(s) = u \o Zeroes(k)
  BY StringData
<1> HIDE DEF u
<1>3. Zeroes(k) \in OscData /\ Len(Zeroes(k)) = k /\ Zeroes(k)[1] = 0
  <2>1. 1 \in 1..k /\ k \in Nat
    BY <1>2
  <2> QED
    BY <2>1, ZeroesProperties
<1> DEFINE z == Zeroes(k) \o rest
           bytes == u \o z
           zeroes == {i \in DOMAIN bytes : bytes[i] = 0}
<1>4. z \in OscData /\ Len(z) = k + Len(rest) /\ Len(rest) \in Nat /\ z[1] = 0
  <2>1. 1 \in 1..Len(Zeroes(k))
    BY <1>2, <1>3
  <2> QED
    BY <1>3, <2>1, DataJoined
<1>5. oscStringData(s) \o rest = bytes
  BY <1>1, <1>2, <1>3, DataRegroups
<1> HIDE DEF z
<1>6. /\ bytes \in OscData /\ Len(bytes) = n + Len(z) /\ SubSeq(bytes, 1, n) = u
      /\ \A i \in 1..n : bytes[i] = u[i]
  BY <1>1, <1>4, DataJoined, DataApart
<1>7. bytes[n + 1] = 0
  <2>1. u \in Seq(0..255) /\ z \in Seq(0..255)
    BY <1>1, <1>4 DEF OscData
  <2>2. n + 1 \in 1..(Len(u) + Len(z)) /\ ~(n + 1 <= Len(u)) /\ (n + 1) - Len(u) = 1
    BY <1>1, <1>2, <1>4
  <2>3. bytes[n + 1] = z[1]
    <3> HIDE DEF n
    <3>1. bytes[n + 1] = IF n + 1 <= Len(u) THEN u[n + 1] ELSE z[(n + 1) - Len(u)]
      BY <2>1, <2>2, ConcatProperties
    <3> QED
      BY <2>2, <3>1
  <2> QED
    BY <1>4, <2>3
<1>8. DOMAIN bytes = 1..Len(bytes)
  <2>1. bytes \in Seq(0..255)
    BY <1>6 DEF OscData
  <2> HIDE DEF bytes
  <2> QED
    BY <2>1, LenProperties
<1> HIDE DEF n, bytes
<1>9. n + 1 \in zeroes /\ \A i \in zeroes : n + 1 <= i
  BY <1>1, <1>2, <1>4, <1>6, <1>7, <1>8
<1>10. zeroes \subseteq Nat
  BY <1>8
<1> HIDE DEF zeroes
<1>11. Min(zeroes) = n + 1
  <2>1. Min(zeroes) \in zeroes /\ \A y \in zeroes : Min(zeroes) <= y
    BY <1>9 DEF Min
  <2>2. Min(zeroes) \in Nat
    BY <1>10, <2>1
  <2> QED
    BY <1>1, <1>9, <2>1, <2>2
<1>12. ReadString(bytes) = StringOf(Decoded(SubSeq(bytes, 1, Min(zeroes) - 1)))
  BY <1>9 DEF ReadString, zeroes
<1>13. Min(zeroes) - 1 = n
  BY <1>1, <1>11
<1>14. ReadString(bytes) = StringOf(Reading(s, 0))
  <2>1. Decoded(u) = Reading(s, 0)
    BY Utf8IsRead DEF IsRead, u
  <2> QED
    BY <1>6, <1>12, <1>13, <2>1
<1>15. StringOf(Reading(s, 0)) = [valid |-> TRUE, value |-> s, length |-> Rounded(Len(s) + 1)]
  BY DEF StringOf, Reading
<1> QED
  BY <1>5, <1>14, <1>15

\* Of which as many bytes are characters fills the words its characters would fill.
Fits(s) == Rounded(Len(s) + 1) = Len(oscStringData(s))

LEMMA AsciiFits ==
  ASSUME NEW s \in Seq(Characters), \A i \in 1..Len(s) : s[i] < 128
  PROVE  Fits(s) /\ Utf8(s) = s
<1>1. Utf8(s) = s
  BY Utf8IsRead DEF IsRead
<1>2. Len(oscStringData(s)) = Padded(s)
  BY StringData
<1> QED
  BY <1>1, <1>2 DEF Fits, Padded

-----------------------------------------------------------------------------
(* OSC: blobs and numbers.                                                 *)

\* A part with another in front and another behind.
LEMMA DataBetween ==
  ASSUME NEW a \in OscData, NEW b \in OscData, NEW c \in OscData
  PROVE  SubSeq(a \o (b \o c), Len(a) + 1, Len(a) + Len(b)) = b
<1> DEFINE w == b \o c
<1>1. /\ w \in OscData /\ Len(w) = Len(b) + Len(c) /\ SubSeq(w, 1, Len(b)) = b
      /\ Len(a) \in Nat /\ Len(b) \in Nat /\ Len(c) \in Nat
  BY DataJoined, DataApart, NoData
<1> HIDE DEF w
<1>2. CASE Len(b) = 0
  <2>1. Len(a) + Len(b) < Len(a) + 1 /\ Len(a) + 1 \in Int /\ Len(a) + Len(b) \in Int
    BY <1>1, <1>2
  <2>2. SubSeq(a \o w, Len(a) + 1, Len(a) + Len(b)) = <<>>
    BY <2>1, SubSeqEmpty
  <2>3. b = <<>>
    BY <1>2, NoData
  <2> QED
    BY <2>2, <2>3 DEF w
<1>3. CASE Len(b) # 0
  <2>1. a \in Seq(0..255) /\ w \in Seq(0..255)
    BY <1>1 DEF OscData
  <2>2. /\ Len(a) + 1 \in (Len(a) + 1)..(Len(a) + Len(w))
        /\ Len(a) + Len(b) \in (Len(a) + 1)..(Len(a) + Len(w))
        /\ (Len(a) + 1) - Len(a) = 1 /\ (Len(a) + Len(b)) - Len(a) = Len(b)
    BY <1>1, <1>3
  <2>3. SubSeq(a \o w, Len(a) + 1, Len(a) + Len(b)) = SubSeq(w, (Len(a) + 1) - Len(a), (Len(a) + Len(b)) - Len(a))
    BY <2>1, <2>2, SubSeqOfConcat2
  <2> QED
    BY <1>1, <2>2, <2>3 DEF w
<1> QED
  BY <1>2, <1>3

\* The size of a blob, in four bytes of which the first two are zero.
Sizes == {n \in Nat : n <= 65535}
SizeData(size) == <<0, 0, size \div 256, size % 256>>

SizeIs(h, size) ==
  h \in OscData /\ Len(h) = 4 /\ h[1] = 0 /\ 256 * h[3] + h[4] = size

LEMMA SizeIsData ==
  ASSUME NEW size \in Sizes
  PROVE  SizeIs(SizeData(size), size)
<1>1. ASSUME NEW k \in Nat, k <= 65535 PROVE SizeIs(SizeData(k), k)
  <2> DEFINE hi == k \div 256
             lo == k % 256
  <2>0. hi \in Int /\ lo \in 0..255 /\ k = 256 * hi + lo
    OBVIOUS
  <2>2. SizeData(k) = <<0, 0, hi, lo>>
    BY DEF SizeData
  <2> HIDE DEF hi, lo
  <2>1. hi \in 0..255 /\ lo \in 0..255 /\ 256 * hi + lo = k
    BY <1>1, <2>0
  <2>3. <<0, 0, hi, lo>> \in Seq(0..255)
    BY <2>1
  <2>4. /\ Len(SizeData(k)) = 4 /\ SizeData(k)[1] = 0
        /\ SizeData(k)[3] = hi /\ SizeData(k)[4] = lo
    BY <2>2
  <2>5. SizeData(k) \in OscData
    BY <2>2, <2>3 DEF OscData
  <2> QED
    BY <2>1, <2>4, <2>5 DEF SizeIs
<1>2. size \in Nat /\ size <= 65535
  BY DEF Sizes
<1> QED
  BY <1>1, <1>2

IsBlob(bytes) == bytes \in OscData /\ Len(bytes) <= 65532

\* A blob with the zeroes that fill its last word.
FilledWords(bytes) == bytes \o Zeroes(Rounded(Len(bytes)) - Len(bytes))

\* What a blob is written as.
LEMMA BlobData ==
  ASSUME NEW bytes, IsBlob(bytes)
  PROVE  /\ oscBlobData(bytes) = SizeData(Rounded(Len(bytes))) \o FilledWords(bytes)
         /\ FilledWords(bytes) \in OscData /\ Len(FilledWords(bytes)) = Rounded(Len(bytes))
         /\ Rounded(Len(bytes)) \in Sizes
         /\ oscBlobData(bytes) \in OscData
         /\ Len(oscBlobData(bytes)) = 4 + Rounded(Len(bytes))
         /\ Words(Len(oscBlobData(bytes)))
         /\ From(oscBlobData(bytes), 4) = FilledWords(bytes)
         /\ Words(Len(bytes)) => FilledWords(bytes) = bytes /\ Rounded(Len(bytes)) = Len(bytes)
<1> DEFINE n == Len(bytes)
           size == Rounded(n)
           z == Zeroes(size - n)
<1>1. bytes \in OscData /\ n \in Nat /\ n <= 65532
  BY NoData DEF IsBlob
<1> HIDE DEF n
<1>2. size \in Nat /\ n <= size /\ size <= n + 3 /\ Words(size) /\ (Words(n) => size = n)
  BY <1>1, RoundedProperties
<1> HIDE DEF size
<1>3. size \in Sizes /\ size - n \in Nat
  <2>1. size \in Nat /\ size <= 65535 /\ size - n \in Nat
    BY <1>1, <1>2
  <2> QED
    BY <2>1 DEF Sizes
<1>4. z \in OscData /\ Len(z) = size - n
  BY <1>3, ZeroesProperties
<1> HIDE DEF z
<1>5. SizeData(size) \in OscData /\ Len(SizeData(size)) = 4
  BY <1>3, SizeIsData DEF SizeIs
<1>6. bytes \o z \in OscData /\ Len(bytes \o z) = size
  <2>0. bytes \in OscData /\ z \in OscData
    BY <1>1, <1>4
  <2>1. bytes \o z \in OscData /\ Len(bytes \o z) = Len(bytes) + Len(z)
    BY <2>0, DataJoined
  <2>2. Len(bytes) = n
    BY DEF n
  <2> QED
    BY <1>1, <1>2, <1>4, <2>1, <2>2
<1>7. FilledWords(bytes) = bytes \o z
  BY DEF FilledWords, z, size, n
<1>8. oscBlobData(bytes) = (SizeData(size) \o bytes) \o z
  BY DEF oscBlobData, SizeData, z, size, n
<1>9. oscBlobData(bytes) = SizeData(size) \o FilledWords(bytes)
  BY <1>1, <1>4, <1>5, <1>7, <1>8, DataRegroups
<1> DEFINE f == FilledWords(bytes)
           h == SizeData(size)
<1>10. f \in OscData /\ Len(f) = size /\ h \in OscData /\ Len(h) = 4 /\ oscBlobData(bytes) = h \o f
  BY <1>5, <1>6, <1>7, <1>9
<1> HIDE DEF f, h
<1>11. h \o f \in OscData /\ Len(h \o f) = Len(h) + Len(f) /\ From(h \o f, Len(h)) = f
  BY <1>10, DataJoined, DataApart
<1>12. oscBlobData(bytes) \in OscData /\ Len(oscBlobData(bytes)) = 4 + size /\ From(oscBlobData(bytes), 4) = f
  BY <1>10, <1>11
<1>13. Words(4 + size)
  <2>1. Words(4)
    <3>1. 4 = 4 * 1 /\ 1 \in Nat
      OBVIOUS
    <3> QED
      BY <3>1 DEF Words
  <2> QED
    BY <1>2, <2>1, WordsAdd
<1>14. Words(n) => f = bytes /\ size = n
  <2>1. ASSUME Words(n) PROVE f = bytes /\ size = n
    <3>1. size = n /\ Len(z) = 0
      BY <1>1, <1>2, <1>4, <2>1
    <3>2. z = <<>>
      BY <1>4, <3>1, NoData
    <3>3. f = bytes \o <<>>
      BY <1>7, <3>2 DEF f
    <3> QED
      BY <1>1, <3>1, <3>3, NoData
  <2> QED
    BY <2>1
<1> QED
  BY <1>3, <1>9, <1>10, <1>12, <1>13, <1>14 DEF f, h, size, n

\* What is in front: a blob, with its size.
BlobThen(data, bytes, rest) ==
  LET size == Rounded(Len(bytes))
  IN  /\ data \in OscData /\ Len(data) = 4 + size + Len(rest) /\ Len(rest) \in Nat
      /\ data[1] = 0 /\ 256 * data[3] + data[4] = size
      /\ size \in Nat
      /\ SubSeq(data, 5, 4 + size) = FilledWords(bytes)
      /\ From(data, 4 + size) = rest
      /\ size # 0 => data[5] = FilledWords(bytes)[1]

LEMMA BlobInFront ==
  ASSUME NEW bytes, IsBlob(bytes), NEW rest \in OscData
  PROVE  BlobThen(oscBlobData(bytes) \o rest, bytes, rest)
<1> DEFINE size == Rounded(Len(bytes))
           h == SizeData(size)
           f == FilledWords(bytes)
           b == oscBlobData(bytes)
           data == b \o rest
<1>1. b = h \o f /\ f \in OscData /\ Len(f) = size
  BY BlobData
<1>2. b \in OscData /\ Len(b) = 4 + size /\ size \in Sizes
  BY BlobData
<1>3. /\ h \in OscData /\ Len(h) = 4 /\ h[1] = 0 /\ 256 * h[3] + h[4] = size
  BY <1>2, SizeIsData DEF SizeIs
<1>4. size \in Nat
  <2> HIDE DEF size
  <2> QED
    BY <1>2 DEF Sizes
<1> HIDE DEF size, h, f, b
<1>5. f \o rest \in OscData /\ Len(rest) \in Nat /\ Len(f \o rest) = Len(f) + Len(rest)
  BY <1>1, DataJoined
<1>6. data = h \o (f \o rest)
  BY <1>1, <1>3, DataRegroups
<1>7. data \in OscData /\ Len(data) = 4 + size + Len(rest)
  <2>1. data \in OscData /\ Len(data) = Len(b) + Len(rest)
    BY <1>2, DataJoined
  <2> QED
    BY <1>2, <1>4, <1>5, <2>1
<1>8. data[1] = h[1] /\ data[3] = h[3] /\ data[4] = h[4]
  <2>1. 1 \in 1..Len(h) /\ 3 \in 1..Len(h) /\ 4 \in 1..Len(h)
    BY <1>3
  <2>2. \A i \in 1..Len(h) : (h \o (f \o rest))[i] = h[i]
    BY <1>3, <1>5, DataJoined
  <2> QED
    BY <1>6, <2>1, <2>2
<1>9. SubSeq(data, 5, 4 + size) = f
  <2>1. SubSeq(h \o (f \o rest), Len(h) + 1, Len(h) + Len(f)) = f
    BY <1>1, <1>3, DataBetween
  <2>2. Len(h) + 1 = 5 /\ Len(h) + Len(f) = 4 + size
    BY <1>1, <1>3, <1>4
  <2> QED
    BY <1>6, <2>1, <2>2
<1>10. From(data, 4 + size) = rest
  <2>1. From(b \o rest, Len(b)) = rest
    BY <1>2, DataApart
  <2> QED
    BY <1>2, <2>1
<1> HIDE DEF data
<1>11. ASSUME size # 0 PROVE data[5] = f[1]
  <2>1. SubSeq(data, 5, 4 + size)[1] = data[5]
    <3>1. \A i \in 5..(4 + size) : data[i] \in {data[j] : j \in 5..(4 + size)}
      OBVIOUS
    <3>2. \A i \in 1..((4 + size) - 5 + 1) : SubSeq(data, 5, 4 + size)[i] = data[5 + i - 1]
      BY <1>4, <3>1, SubSeqProperties
    <3>3. 1 \in 1..((4 + size) - 5 + 1) /\ 5 + 1 - 1 = 5
      BY <1>4, <1>11
    <3> QED
      BY <3>2, <3>3
  <2> QED
    BY <1>9, <2>1
<1> QED
  BY <1>3, <1>4, <1>5, <1>7, <1>8, <1>9, <1>10, <1>11 DEF BlobThen, size, f, b, data

LEMMA BlobIsRead ==
  ASSUME NEW bytes, IsBlob(bytes), NEW rest \in OscData
  PROVE  ReadBlob(oscBlobData(bytes) \o rest) =
           [valid |-> TRUE, value |-> FilledWords(bytes), length |-> Len(oscBlobData(bytes))]
<1> DEFINE data == oscBlobData(bytes) \o rest
           size == Rounded(Len(bytes))
<1>1. BlobThen(data, bytes, rest)
  BY BlobInFront
<1>2. Len(oscBlobData(bytes)) = 4 + size
  BY BlobData
<1> HIDE DEF data
<1>3. /\ Len(data) = 4 + size + Len(rest) /\ Len(rest) \in Nat /\ size \in Nat
      /\ data[1] = 0 /\ 256 * data[3] + data[4] = size
      /\ SubSeq(data, 5, 4 + size) = FilledWords(bytes)
  BY <1>1 DEF BlobThen
<1> HIDE DEF size
<1>4. Contains(data, 0)
  <2>1. 1 \in 1..Len(data)
    BY <1>3
  <2> QED
    BY <1>3, <2>1, Zenon DEF Contains
<1>5. ReadBlob(data) = [valid |-> Contains(data, 0), value |-> SubSeq(data, 5, 4 + size), length |-> 4 + size]
  BY <1>3, Zenon DEF ReadBlob
<1>6. Contains(data, 0) = TRUE
  BY <1>4 DEF Contains
<1> QED
  BY <1>2, <1>3, <1>5, <1>6, Zenon DEF data

\* A number is read as it was written.
LEMMA NumberIsRead ==
  ASSUME NEW value \in OscData, Len(value) = 4, NEW rest \in OscData
  PROVE  ReadNumber(value \o rest) = [valid |-> TRUE, value |-> value, length |-> 4]
<1> DEFINE data == value \o rest
<1>1. Len(data) = 4 + Len(rest) /\ Len(rest) \in Nat /\ SubSeq(data, 1, 4) = value
  <2>1. Len(data) = Len(value) + Len(rest) /\ Len(rest) \in Nat
    BY DataJoined
  <2>2. SubSeq(data, 1, Len(value)) = value
    BY DataApart
  <2> QED
    BY <2>1, <2>2
<1> HIDE DEF data
<1>2. Len(data) >= 4
  BY <1>1
<1> QED
  BY <1>1, <1>2 DEF ReadNumber, data

-----------------------------------------------------------------------------
(* OSC: arguments.                                                         *)

\* What the first n codes give, by the equation that defines it.
ReadCodesBy(state, start, u) ==
  /\ ReadCodes(u, start) = state[Len(u)]
  /\ state[0] = start
  /\ \A n \in 1..Len(u) : state[n] = ReadArgument(state[n - 1], u[n])

LEMMA ReadCodesIsDefined ==
  ASSUME NEW start, NEW u, Len(u) \in Nat
  PROVE  \E state : ReadCodesBy(state, start, u)
<1> DEFINE Step(f, n) == IF n = 0 THEN start ELSE ReadArgument(f[n - 1], u[n])
           Solves(f, m) == f = [n \in 0..m |-> Step(f, n)]
           Bad == {m \in 0..Len(u) : ~ \E f : Solves(f, m)}
<1>1. Bad = {}
  <2>1. SUFFICES ASSUME Bad # {} PROVE FALSE
    OBVIOUS
  <2>2. PICK m \in Bad : \A k \in Bad : m <= k
    <3> HIDE DEF Solves
    <3>1. Bad \subseteq Nat
      OBVIOUS
    <3> HIDE DEF Bad
    <3> QED
      BY <2>1, <3>1, LeastNatural
  <2>3. m # 0
    <3>1. Solves([n \in 0..0 |-> start], 0)
      OBVIOUS
    <3> HIDE DEF Solves
    <3> QED
      BY <3>1
  <2>4. PICK f : Solves(f, m - 1)
    <3> HIDE DEF Solves
    <3>1. m - 1 \in 0..Len(u) /\ m - 1 \notin Bad
      BY <2>2, <2>3
    <3> QED
      BY <3>1
  <2> DEFINE g == [n \in 0..m |-> IF n = m THEN Step(f, m) ELSE f[n]]
  <2>5. Solves(g, m)
    <3>1. \A n \in 0..(m - 1) : f[n] = Step(f, n)
      BY <2>4
    <3>2. \A n \in 0..m : g[n] = Step(g, n)
      <4>1. ASSUME NEW n \in 0..m, n = m PROVE g[n] = Step(g, n)
        <5>1. g[m] = Step(f, m)
          OBVIOUS
        <5>2. m - 1 \in 0..m /\ m - 1 # m /\ g[m - 1] = f[m - 1]
          BY <2>3
        <5> HIDE DEF g
        <5> QED
          BY <4>1, <5>1, <5>2, <2>3
      <4>2. ASSUME NEW n \in 0..m, n # m PROVE g[n] = Step(g, n)
        <5>1. g[n] = f[n] /\ f[n] = Step(f, n)
          BY <3>1, <4>2
        <5>2. n # 0 => g[n - 1] = f[n - 1]
          BY <4>2
        <5> HIDE DEF g
        <5> QED
          BY <5>1, <5>2
      <4> QED
        BY <4>1, <4>2
    <3>3. g = [n \in 0..m |-> g[n]]
      OBVIOUS
    <3> HIDE DEF g
    <3>4. [n \in 0..m |-> g[n]] = [n \in 0..m |-> Step(g, n)]
      BY <3>2
    <3> QED
      BY <3>3, <3>4
  <2> HIDE DEF Solves
  <2> QED
    BY <2>2, <2>5
<1> DEFINE state == CHOOSE f : Solves(f, Len(u))
<1>2. Solves(state, Len(u))
  <2> HIDE DEF Solves
  <2>1. \E f : Solves(f, Len(u))
    BY <1>1
  <2> QED
    BY <2>1
<1>3. ReadCodes(u, start) = state[Len(u)]
  BY DEF ReadCodes
<1> HIDE DEF state
<1>4. \A n \in 0..Len(u) : state[n] = Step(state, n)
  BY <1>2
<1> QED
  BY <1>3, <1>4 DEF ReadCodesBy

\* Arguments are read one at a time.
LEMMA ReadCodesMore ==
  ASSUME NEW start, NEW S, NEW u \in Seq(S)
  PROVE  /\ u = <<>> => ReadCodes(u, start) = start
         /\ \A b \in S : ReadCodes(Append(u, b), start) = ReadArgument(ReadCodes(u, start), b)
<1> DEFINE m == Len(u)
<1>1. m \in Nat /\ (u = <<>> => m = 0)
  BY LenProperties, EmptySeq
<1>2. PICK state : ReadCodesBy(state, start, u)
  BY <1>1, ReadCodesIsDefined
<1>3. ASSUME NEW b \in S PROVE ReadCodes(Append(u, b), start) = ReadArgument(ReadCodes(u, start), b)
  <2> DEFINE v == Append(u, b)
  <2>1. Len(v) = m + 1 /\ (\A i \in 1..m : v[i] = u[i]) /\ v[m + 1] = b
    BY AppendProperties
  <2> HIDE DEF v, m
  <2>2. PICK next :
          /\ ReadCodes(v, start) = next[m + 1]
          /\ next[0] = start
          /\ \A n \in 1..(m + 1) : next[n] = ReadArgument(next[n - 1], v[n])
    <3>1. Len(v) \in Nat
      BY <1>1, <2>1
    <3>2. \E next : ReadCodesBy(next, start, v)
      BY <3>1, ReadCodesIsDefined
    <3> QED
      BY <2>1, <3>2 DEF ReadCodesBy
  <2>6. /\ ReadCodes(u, start) = state[m]
        /\ state[0] = start
        /\ \A n \in 1..m : state[n] = ReadArgument(state[n - 1], u[n])
    BY <1>2 DEF ReadCodesBy, m
  <2> DEFINE Bad == {n \in 0..m : next[n] # state[n]}
  <2>3. Bad = {}
    <3>1. SUFFICES ASSUME Bad # {} PROVE FALSE
      OBVIOUS
    <3>2. PICK n \in Bad : \A j \in Bad : n <= j
      <4>1. Bad \subseteq Nat
        BY <1>1
      <4> HIDE DEF Bad
      <4> QED
        BY <3>1, <4>1, LeastNatural
    <3>3. n \in 1..m /\ n \in 1..(m + 1) /\ n - 1 \in 0..m /\ ~(n <= n - 1)
      BY <1>1, <2>6, <2>2, <3>2
    <3>4. next[n - 1] = state[n - 1]
      BY <3>2, <3>3
    <3>5. next[n] = state[n]
      BY <2>6, <2>1, <2>2, <3>3, <3>4
    <3> QED
      BY <3>2, <3>5
  <2>4. m \in 0..m /\ m + 1 \in 1..(m + 1) /\ (m + 1) - 1 = m
    BY <1>1
  <2>5. next[m + 1] = ReadArgument(state[m], b)
    BY <2>1, <2>2, <2>3, <2>4
  <2> QED
    BY <2>2, <2>5, <2>6 DEF v
<1> QED
  BY <1>1, <1>2, <1>3 DEF ReadCodesBy

\* Data from pieces.
LEMMA FlatData ==
  ASSUME NEW seqs \in Seq(OscData)
  PROVE  /\ FlattenSeq(seqs) \in OscData
         /\ seqs = <<>> => FlattenSeq(seqs) = <<>>
         /\ \A t \in OscData : FlattenSeq(Append(seqs, t)) = FlattenSeq(seqs) \o t
<1>1. seqs \in Seq(Seq(0..255))
  BY DEF OscData
<1>2. /\ FlattenSeq(seqs) \in Seq(0..255)
      /\ seqs = <<>> => FlattenSeq(seqs) = <<>>
      /\ \A t \in Seq(0..255) : FlattenSeq(Append(seqs, t)) = FlattenSeq(seqs) \o t
  BY <1>1, FlattenProperties
<1> QED
  BY <1>2 DEF OscData

-----------------------------------------------------------------------------
\* What an argument is once it has been read, and whether what is behind it is then
\* looked for in the right place.
ArgumentRead(arg) ==
  IF arg.type = "b" THEN [type |-> "b", value |-> FilledWords(arg.value)] ELSE arg
ArgumentFits(arg) == arg.type = "s" => Fits(arg.value)
Scanned(args, rest) == [valid |-> TRUE, args |-> args, rest |-> rest]

LEMMA ArgumentKinds ==
  ASSUME NEW arg \in OscArguments
  PROVE  /\ \/ arg.type = "s" /\ arg.value \in Seq(Characters)
            \/ arg.type = "b" /\ IsBlob(arg.value)
            \/ arg.type \in {"i", "f"} /\ arg.value \in OscData /\ Len(arg.value) = 4
         /\ arg = [type |-> arg.type, value |-> arg.value]
<1>1. CASE arg \in [type : {"s"}, value : Seq(Characters)]
  BY <1>1
<1>2. CASE arg \in {x \in [type : {"b"}, value : OscData] : Len(x.value) <= 65532}
  BY <1>2 DEF IsBlob
<1>3. CASE arg \in {x \in [type : {"i", "f"}, value : OscData] : Len(x.value) = 4}
  BY <1>3
<1> QED
  BY <1>1, <1>2, <1>3 DEF OscArguments

LEMMA ArgumentIsData ==
  ASSUME NEW arg \in OscArguments
  PROVE  ArgumentData(arg) \in OscData /\ Words(Len(ArgumentData(arg)))
<1>1. CASE arg.type = "s" /\ arg.value \in Seq(Characters)
  <2>1. ArgumentData(arg) = oscStringData(arg.value)
    BY <1>1 DEF ArgumentData
  <2> QED
    BY <1>1, <2>1, StringData
<1>2. CASE arg.type = "b" /\ IsBlob(arg.value)
  <2>1. ArgumentData(arg) = oscBlobData(arg.value)
    BY <1>2 DEF ArgumentData
  <2> QED
    BY <1>2, <2>1, BlobData
<1>3. CASE arg.type \in {"i", "f"} /\ arg.value \in OscData /\ Len(arg.value) = 4
  <2>1. ArgumentData(arg) = arg.value
    BY <1>3 DEF ArgumentData
  <2>2. Words(4)
    <3>1. 4 = 4 * 1 /\ 1 \in Nat
      OBVIOUS
    <3> QED
      BY <3>1 DEF Words
  <2> QED
    BY <1>3, <2>1, <2>2
<1> QED
  BY <1>1, <1>2, <1>3, ArgumentKinds

LEMMA ArgumentIsRead ==
  ASSUME NEW arg \in OscArguments, ArgumentFits(arg), NEW rest \in OscData, NEW args
  PROVE  ReadArgument(Scanned(args, ArgumentData(arg) \o rest), TypeCode[arg.type]) =
           Scanned(Append(args, ArgumentRead(arg)), rest)
<1> DEFINE data == ArgumentData(arg) \o rest
           state == Scanned(args, data)
<1>1. From(data, Len(ArgumentData(arg))) = rest
  BY ArgumentIsData, DataApart
<1>2. state.valid /\ state.rest = data /\ state.args = args
  BY DEF Scanned
<1>3. ASSUME NEW type, NEW read,
             read = [valid |-> TRUE, value |-> ArgumentRead(arg).value, length |-> Len(ArgumentData(arg))],
             ArgumentRead(arg) = [type |-> type, value |-> ArgumentRead(arg).value]
      PROVE  WithArgument(state, type, read) = Scanned(Append(args, ArgumentRead(arg)), rest)
  <2> HIDE DEF state, data
  <2>1. read.valid = TRUE /\ read.value = ArgumentRead(arg).value /\ read.length = Len(ArgumentData(arg))
    BY <1>3
  <2>2. WithArgument(state, type, read) =
          [valid |-> TRUE, rest |-> rest, args |-> Append(args, ArgumentRead(arg))]
    BY <1>1, <1>2, <1>3, <2>1 DEF WithArgument
  <2> QED
    BY <2>2 DEF Scanned
<1> HIDE DEF state
<1>4. CASE arg.type = "s" /\ arg.value \in Seq(Characters)
  <2>1. ArgumentData(arg) = oscStringData(arg.value)
    BY <1>4 DEF ArgumentData
  <2>2. ReadString(data) = [valid |-> TRUE, value |-> arg.value, length |-> Rounded(Len(arg.value) + 1)]
    BY <1>4, <2>1, StringIsRead
  <2>3. Rounded(Len(arg.value) + 1) = Len(ArgumentData(arg))
    BY <1>4, <2>1 DEF ArgumentFits, Fits
  <2>4. ArgumentRead(arg) = arg /\ arg = [type |-> "s", value |-> arg.value]
    BY <1>4, ArgumentKinds DEF ArgumentRead
  <2>5. TypeCode[arg.type] = TypeCode["s"]
    BY <1>4
  <2>6. ReadArgument(state, TypeCode[arg.type]) = WithArgument(state, "s", ReadString(state.rest))
    BY <1>2, <2>5 DEF ReadArgument, TypeCode
  <2>7. WithArgument(state, "s", ReadString(data)) = Scanned(Append(args, ArgumentRead(arg)), rest)
    BY <1>3, <2>2, <2>3, <2>4
  <2> QED
    BY <1>2, <2>6, <2>7 DEF state
<1>5. CASE arg.type = "b" /\ IsBlob(arg.value)
  <2>1. ArgumentData(arg) = oscBlobData(arg.value)
    BY <1>5 DEF ArgumentData
  <2>2. ReadBlob(data) = [valid |-> TRUE, value |-> FilledWords(arg.value), length |-> Len(ArgumentData(arg))]
    BY <1>5, <2>1, BlobIsRead
  <2>3. ArgumentRead(arg) = [type |-> "b", value |-> FilledWords(arg.value)]
    BY <1>5 DEF ArgumentRead
  <2>4. ReadArgument(state, TypeCode[arg.type]) = WithArgument(state, "b", ReadBlob(state.rest))
    BY <1>2, <1>5 DEF ReadArgument, TypeCode
  <2>5. WithArgument(state, "b", ReadBlob(data)) = Scanned(Append(args, ArgumentRead(arg)), rest)
    BY <1>3, <2>2, <2>3
  <2> QED
    BY <1>2, <2>4, <2>5 DEF state
<1>6. CASE arg.type \in {"i", "f"} /\ arg.value \in OscData /\ Len(arg.value) = 4
  <2>1. ArgumentData(arg) = arg.value
    BY <1>6 DEF ArgumentData
  <2>2. ReadNumber(data) = [valid |-> TRUE, value |-> arg.value, length |-> Len(ArgumentData(arg))]
    BY <1>6, <2>1, NumberIsRead
  <2>3. ArgumentRead(arg) = arg /\ arg = [type |-> arg.type, value |-> arg.value]
    BY <1>6, ArgumentKinds DEF ArgumentRead
  <2>4. ReadArgument(state, TypeCode[arg.type]) = WithArgument(state, arg.type, ReadNumber(state.rest))
    <3>1. CASE arg.type = "i"
      BY <1>2, <3>1 DEF ReadArgument, TypeCode
    <3>2. CASE arg.type = "f"
      BY <1>2, <3>2 DEF ReadArgument, TypeCode
    <3> QED
      BY <1>6, <3>1, <3>2
  <2>5. WithArgument(state, arg.type, ReadNumber(data)) = Scanned(Append(args, ArgumentRead(arg)), rest)
    BY <1>3, <2>2, <2>3
  <2> QED
    BY <1>2, <2>4, <2>5 DEF state
<1> QED
  BY <1>4, <1>5, <1>6, ArgumentKinds

-----------------------------------------------------------------------------
(* OSC: SLIP.                                                              *)

\* What the first n bytes give, by the equation that defines it.
SlipBytesBy(state, start, u) ==
  /\ SlipBytes(start, u) = state[Len(u)]
  /\ state[0] = start
  /\ \A n \in 1..Len(u) : state[n] = SlipByte(state[n - 1], u[n])

LEMMA SlipBytesIsDefined ==
  ASSUME NEW start, NEW u, Len(u) \in Nat
  PROVE  \E state : SlipBytesBy(state, start, u)
<1> DEFINE Step(f, n) == IF n = 0 THEN start ELSE SlipByte(f[n - 1], u[n])
           Solves(f, m) == f = [n \in 0..m |-> Step(f, n)]
           Bad == {m \in 0..Len(u) : ~ \E f : Solves(f, m)}
<1>1. Bad = {}
  <2>1. SUFFICES ASSUME Bad # {} PROVE FALSE
    OBVIOUS
  <2>2. PICK m \in Bad : \A k \in Bad : m <= k
    <3> HIDE DEF Solves
    <3>1. Bad \subseteq Nat
      OBVIOUS
    <3> HIDE DEF Bad
    <3> QED
      BY <2>1, <3>1, LeastNatural
  <2>3. m # 0
    <3>1. Solves([n \in 0..0 |-> start], 0)
      OBVIOUS
    <3> HIDE DEF Solves
    <3> QED
      BY <3>1
  <2>4. PICK f : Solves(f, m - 1)
    <3> HIDE DEF Solves
    <3>1. m - 1 \in 0..Len(u) /\ m - 1 \notin Bad
      BY <2>2, <2>3
    <3> QED
      BY <3>1
  <2> DEFINE g == [n \in 0..m |-> IF n = m THEN Step(f, m) ELSE f[n]]
  <2>5. Solves(g, m)
    <3>1. \A n \in 0..(m - 1) : f[n] = Step(f, n)
      BY <2>4
    <3>2. \A n \in 0..m : g[n] = Step(g, n)
      <4>1. ASSUME NEW n \in 0..m, n = m PROVE g[n] = Step(g, n)
        <5>1. g[m] = Step(f, m)
          OBVIOUS
        <5>2. m - 1 \in 0..m /\ m - 1 # m /\ g[m - 1] = f[m - 1]
          BY <2>3
        <5> HIDE DEF g
        <5> QED
          BY <4>1, <5>1, <5>2, <2>3
      <4>2. ASSUME NEW n \in 0..m, n # m PROVE g[n] = Step(g, n)
        <5>1. g[n] = f[n] /\ f[n] = Step(f, n)
          BY <3>1, <4>2
        <5>2. n # 0 => g[n - 1] = f[n - 1]
          BY <4>2
        <5> HIDE DEF g
        <5> QED
          BY <5>1, <5>2
      <4> QED
        BY <4>1, <4>2
    <3>3. g = [n \in 0..m |-> g[n]]
      OBVIOUS
    <3> HIDE DEF g
    <3>4. [n \in 0..m |-> g[n]] = [n \in 0..m |-> Step(g, n)]
      BY <3>2
    <3> QED
      BY <3>3, <3>4
  <2> HIDE DEF Solves
  <2> QED
    BY <2>2, <2>5
<1> DEFINE state == CHOOSE f : Solves(f, Len(u))
<1>2. Solves(state, Len(u))
  <2> HIDE DEF Solves
  <2>1. \E f : Solves(f, Len(u))
    BY <1>1
  <2> QED
    BY <2>1
<1>3. SlipBytes(start, u) = state[Len(u)]
  BY DEF SlipBytes
<1> HIDE DEF state
<1>4. \A n \in 0..Len(u) : state[n] = Step(state, n)
  BY <1>2
<1> QED
  BY <1>3, <1>4 DEF SlipBytesBy

\* Bytes of SLIP data are read one at a time.
LEMMA SlipBytesMore ==
  ASSUME NEW start, NEW S, NEW u \in Seq(S)
  PROVE  /\ u = <<>> => SlipBytes(start, u) = start
         /\ \A b \in S : SlipBytes(start, Append(u, b)) = SlipByte(SlipBytes(start, u), b)
<1> DEFINE m == Len(u)
<1>1. m \in Nat /\ (u = <<>> => m = 0)
  BY LenProperties, EmptySeq
<1>2. PICK state : SlipBytesBy(state, start, u)
  BY <1>1, SlipBytesIsDefined
<1>3. ASSUME NEW b \in S PROVE SlipBytes(start, Append(u, b)) = SlipByte(SlipBytes(start, u), b)
  <2> DEFINE v == Append(u, b)
  <2>1. Len(v) = m + 1 /\ (\A i \in 1..m : v[i] = u[i]) /\ v[m + 1] = b
    BY AppendProperties
  <2> HIDE DEF v, m
  <2>2. PICK next :
          /\ SlipBytes(start, v) = next[m + 1]
          /\ next[0] = start
          /\ \A n \in 1..(m + 1) : next[n] = SlipByte(next[n - 1], v[n])
    <3>1. Len(v) \in Nat
      BY <1>1, <2>1
    <3>2. \E next : SlipBytesBy(next, start, v)
      BY <3>1, SlipBytesIsDefined
    <3> QED
      BY <2>1, <3>2 DEF SlipBytesBy
  <2>6. /\ SlipBytes(start, u) = state[m]
        /\ state[0] = start
        /\ \A n \in 1..m : state[n] = SlipByte(state[n - 1], u[n])
    BY <1>2 DEF SlipBytesBy, m
  <2> DEFINE Bad == {n \in 0..m : next[n] # state[n]}
  <2>3. Bad = {}
    <3>1. SUFFICES ASSUME Bad # {} PROVE FALSE
      OBVIOUS
    <3>2. PICK n \in Bad : \A j \in Bad : n <= j
      <4>1. Bad \subseteq Nat
        BY <1>1
      <4> HIDE DEF Bad
      <4> QED
        BY <3>1, <4>1, LeastNatural
    <3>3. n \in 1..m /\ n \in 1..(m + 1) /\ n - 1 \in 0..m /\ ~(n <= n - 1)
      BY <1>1, <2>6, <2>2, <3>2
    <3>4. next[n - 1] = state[n - 1]
      BY <3>2, <3>3
    <3>5. next[n] = state[n]
      BY <2>6, <2>1, <2>2, <3>3, <3>4
    <3> QED
      BY <3>2, <3>5
  <2>4. m \in 0..m /\ m + 1 \in 1..(m + 1) /\ (m + 1) - 1 = m
    BY <1>1
  <2>5. next[m + 1] = SlipByte(state[m], b)
    BY <2>1, <2>2, <2>3, <2>4
  <2> QED
    BY <2>2, <2>5, <2>6 DEF v
<1> QED
  BY <1>1, <1>2, <1>3 DEF SlipBytesBy

-----------------------------------------------------------------------------
(* OSC: messages.                                                          *)

TypeCodes == {115, 98, 105, 102}
CodesOf(t) == [i \in DOMAIN t |-> TypeCode[t[i].type]]
ArgumentsData(t) == FlattenSeq([i \in DOMAIN t |-> ArgumentData(t[i])])
ArgumentsRead(t) == [i \in DOMAIN t |-> ArgumentRead(t[i])]

LEMMA CodeLists ==
  ASSUME NEW t \in Seq(OscArguments)
  PROVE  /\ CodesOf(t) \in Seq(TypeCodes) /\ Len(CodesOf(t)) = Len(t)
         /\ t = <<>> => CodesOf(t) = <<>>
         /\ \A a \in OscArguments : CodesOf(Append(t, a)) = Append(CodesOf(t), TypeCode[a.type])
<1> DEFINE f == [x \in OscArguments |-> TypeCode[x.type]]
<1>1. f \in [OscArguments -> TypeCodes]
  <2>1. ASSUME NEW x \in OscArguments PROVE TypeCode[x.type] \in TypeCodes
    <3>1. x.type \in {"s", "b", "i", "f"}
      BY ArgumentKinds
    <3> QED
      BY <3>1 DEF TypeCode, TypeCodes
  <2> QED
    BY <2>1
<1>2. ASSUME NEW v \in Seq(OscArguments) PROVE CodesOf(v) = [i \in DOMAIN v |-> f[v[i]]]
  <2>1. DOMAIN v = 1..Len(v) /\ \A i \in 1..Len(v) : v[i] \in OscArguments
    BY LenProperties, ElementOfSeq
  <2> QED
    BY <2>1 DEF CodesOf
<1>3. ASSUME NEW a \in OscArguments
      PROVE  CodesOf(Append(t, a)) = Append(CodesOf(t), TypeCode[a.type])
  <2>1. Append(t, a) \in Seq(OscArguments)
    BY AppendProperties
  <2>2. f[a] = TypeCode[a.type]
    OBVIOUS
  <2> HIDE DEF f
  <2>3. [i \in DOMAIN Append(t, a) |-> f[Append(t, a)[i]]] = Append([i \in DOMAIN t |-> f[t[i]]], f[a])
    BY MapMore
  <2> QED
    BY <1>2, <2>1, <2>2, <2>3
<1> HIDE DEF f
<1>4. /\ [i \in DOMAIN t |-> f[t[i]]] \in Seq(TypeCodes)
      /\ Len([i \in DOMAIN t |-> f[t[i]]]) = Len(t)
      /\ t = <<>> => [i \in DOMAIN t |-> f[t[i]]] = <<>>
  BY <1>1, MapIsSeq
<1> QED
  BY <1>2, <1>3, <1>4

LEMMA DataLists ==
  ASSUME NEW t \in Seq(OscArguments)
  PROVE  /\ ArgumentsData(t) \in OscData
         /\ t = <<>> => ArgumentsData(t) = <<>>
         /\ \A a \in OscArguments :
              ArgumentsData(Append(t, a)) = ArgumentsData(t) \o ArgumentData(a)
<1> DEFINE f == [x \in OscArguments |-> ArgumentData(x)]
           D(v) == [i \in DOMAIN v |-> f[v[i]]]
<1>1. f \in [OscArguments -> OscData]
  BY ArgumentIsData
<1>2. ASSUME NEW v \in Seq(OscArguments) PROVE ArgumentsData(v) = FlattenSeq(D(v))
  <2>1. DOMAIN v = 1..Len(v) /\ \A i \in 1..Len(v) : v[i] \in OscArguments
    BY LenProperties, ElementOfSeq
  <2>2. [i \in DOMAIN v |-> ArgumentData(v[i])] = D(v)
    BY <2>1
  <2> QED
    BY <2>2 DEF ArgumentsData
<1>3. \A a \in OscArguments : f[a] = ArgumentData(a)
  OBVIOUS
<1> HIDE DEF f
<1>4. D(t) \in Seq(OscData) /\ (t = <<>> => D(t) = <<>>)
  BY <1>1, MapIsSeq
<1>5. ASSUME NEW a \in OscArguments
      PROVE  ArgumentsData(Append(t, a)) = ArgumentsData(t) \o ArgumentData(a)
  <2>1. Append(t, a) \in Seq(OscArguments)
    BY AppendProperties
  <2>2. D(Append(t, a)) = Append(D(t), f[a])
    BY MapMore
  <2> HIDE DEF D
  <2>3. f[a] \in OscData
    BY <1>3, ArgumentIsData
  <2>4. FlattenSeq(Append(D(t), f[a])) = FlattenSeq(D(t)) \o f[a]
    BY <1>4, <2>3, FlatData
  <2> QED
    BY <1>2, <1>3, <2>1, <2>2, <2>4
<1> HIDE DEF D
<1> QED
  BY <1>2, <1>4, <1>5, FlatData

LEMMA ReadLists ==
  ASSUME NEW t \in Seq(OscArguments)
  PROVE  /\ t = <<>> => ArgumentsRead(t) = <<>>
         /\ \A a \in OscArguments :
              ArgumentsRead(Append(t, a)) = Append(ArgumentsRead(t), ArgumentRead(a))
<1> DEFINE f == [x \in OscArguments |-> ArgumentRead(x)]
<1>1. ASSUME NEW v \in Seq(OscArguments) PROVE ArgumentsRead(v) = [i \in DOMAIN v |-> f[v[i]]]
  <2>1. DOMAIN v = 1..Len(v) /\ \A i \in 1..Len(v) : v[i] \in OscArguments
    BY LenProperties, ElementOfSeq
  <2> QED
    BY <2>1 DEF ArgumentsRead
<1>2. ASSUME NEW a \in OscArguments
      PROVE  ArgumentsRead(Append(t, a)) = Append(ArgumentsRead(t), ArgumentRead(a))
  <2>1. Append(t, a) \in Seq(OscArguments)
    BY AppendProperties
  <2>2. f[a] = ArgumentRead(a)
    OBVIOUS
  <2> HIDE DEF f
  <2>3. [i \in DOMAIN Append(t, a) |-> f[Append(t, a)[i]]] = Append([i \in DOMAIN t |-> f[t[i]]], f[a])
    BY MapMore
  <2> QED
    BY <1>1, <2>1, <2>2, <2>3
<1>3. t = <<>> => ArgumentsRead(t) = <<>>
  BY DEF ArgumentsRead
<1> QED
  BY <1>2, <1>3

\* Arguments are read one after the other, and leave what is behind them.
ListIsRead(t) ==
  /\ Words(Len(ArgumentsData(t)))
  /\ (\A i \in 1..Len(t) : ArgumentFits(t[i])) =>
       \A rest \in OscData :
         ReadCodes(CodesOf(t), Scanned(<<>>, ArgumentsData(t) \o rest)) = Scanned(ArgumentsRead(t), rest)

LEMMA ArgumentsAreRead ==
  ASSUME NEW t \in Seq(OscArguments)
  PROVE  ListIsRead(t)
<1> DEFINE Good == {v \in Seq(OscArguments) : ListIsRead(v)}
<1>1. <<>> \in Good
  <2> DEFINE e == <<>>
  <2>1. e \in Seq(OscArguments) /\ Len(e) = 0
    BY EmptySeq
  <2>2. e = <<>>
    OBVIOUS
  <2> HIDE DEF e
  <2>3. CodesOf(e) = <<>> /\ ArgumentsData(e) = <<>> /\ ArgumentsRead(e) = <<>>
    BY <2>1, <2>2, CodeLists, DataLists, ReadLists
  <2>4. Words(Len(ArgumentsData(e)))
    <3>1. Len(<<>>) = 4 * 0 /\ 0 \in Nat
      OBVIOUS
    <3> QED
      BY <2>3, <3>1 DEF Words
  <2>5. ASSUME NEW rest \in OscData
        PROVE  ReadCodes(CodesOf(e), Scanned(<<>>, ArgumentsData(e) \o rest)) = Scanned(ArgumentsRead(e), rest)
    <3>1. ArgumentsData(e) \o rest = rest
      BY <2>3, NoData
    <3>2. CodesOf(e) \in Seq(TypeCodes) /\ CodesOf(e) = <<>>
      BY <2>1, <2>3, CodeLists
    <3>3. ReadCodes(CodesOf(e), Scanned(<<>>, rest)) = Scanned(<<>>, rest)
      BY <3>2, ReadCodesMore
    <3> QED
      BY <2>3, <3>1, <3>3
  <2> QED
    BY <2>1, <2>2, <2>4, <2>5 DEF ListIsRead
<1>2. ASSUME NEW v \in Seq(OscArguments), NEW a \in OscArguments, v \in Good
      PROVE  Append(v, a) \in Good
  <2> DEFINE w == Append(v, a)
  <2>1. w \in Seq(OscArguments) /\ Len(w) = Len(v) + 1 /\ (\A i \in 1..Len(v) : w[i] = v[i]) /\ w[Len(v) + 1] = a
        /\ Len(v) \in Nat
    BY AppendProperties, LenProperties
  <2>2. ArgumentsData(w) = ArgumentsData(v) \o ArgumentData(a) /\ ArgumentsData(v) \in OscData
    BY DataLists
  <2>3. CodesOf(w) = Append(CodesOf(v), TypeCode[a.type]) /\ CodesOf(v) \in Seq(TypeCodes)
    BY CodeLists
  <2>4. ArgumentsRead(w) = Append(ArgumentsRead(v), ArgumentRead(a))
    BY ReadLists
  <2>5. ArgumentData(a) \in OscData /\ Words(Len(ArgumentData(a)))
    BY ArgumentIsData
  <2>6. ListIsRead(v)
    BY <1>2
  <2> HIDE DEF w
  <2>7. Words(Len(ArgumentsData(w)))
    <3>1. Len(ArgumentsData(w)) = Len(ArgumentsData(v)) + Len(ArgumentData(a))
      BY <2>2, <2>5, DataJoined
    <3>2. Words(Len(ArgumentsData(v)))
      BY <2>6 DEF ListIsRead
    <3> QED
      BY <2>5, <3>1, <3>2, WordsAdd
  <2>8. ASSUME \A i \in 1..Len(w) : ArgumentFits(w[i]), NEW rest \in OscData
        PROVE  ReadCodes(CodesOf(w), Scanned(<<>>, ArgumentsData(w) \o rest)) = Scanned(ArgumentsRead(w), rest)
    <3>1. ArgumentFits(a) /\ \A i \in 1..Len(v) : ArgumentFits(v[i])
      <4>1. Len(v) + 1 \in 1..Len(w) /\ \A i \in 1..Len(v) : i \in 1..Len(w)
        BY <2>1
      <4>2. ArgumentFits(w[Len(v) + 1]) /\ \A i \in 1..Len(v) : ArgumentFits(w[i])
        BY <2>8, <4>1
      <4> QED
        BY <2>1, <4>2
    <3> DEFINE more == ArgumentData(a) \o rest
               start == Scanned(<<>>, ArgumentsData(v) \o more)
    <3>2. more \in OscData
      BY <2>5, DataJoined
    <3>3. ArgumentsData(w) \o rest = ArgumentsData(v) \o more
      BY <2>2, <2>5, DataRegroups
    <3>4. ReadArgument(Scanned(ArgumentsRead(v), more), TypeCode[a.type]) =
            Scanned(Append(ArgumentsRead(v), ArgumentRead(a)), rest)
      BY <3>1, ArgumentIsRead
    <3> HIDE DEF more
    <3>5. ReadCodes(CodesOf(v), start) = Scanned(ArgumentsRead(v), more)
      BY <2>6, <3>1, <3>2 DEF ListIsRead
    <3> HIDE DEF start
    <3>6. TypeCode[a.type] \in TypeCodes
      <4>1. a.type \in {"s", "b", "i", "f"}
        BY ArgumentKinds
      <4> QED
        BY <4>1 DEF TypeCode, TypeCodes
    <3>7. ReadCodes(Append(CodesOf(v), TypeCode[a.type]), start) =
            ReadArgument(ReadCodes(CodesOf(v), start), TypeCode[a.type])
      BY <2>3, <3>6, ReadCodesMore
    <3>8. ReadCodes(CodesOf(w), start) = Scanned(ArgumentsRead(w), rest)
      BY <2>3, <2>4, <3>4, <3>5, <3>7
    <3> QED
      BY <3>3, <3>8 DEF start
  <2>9. ListIsRead(w)
    BY <2>7, <2>8 DEF ListIsRead
  <2> QED
    BY <2>1, <2>9 DEF w
<1> HIDE DEF Good
<1>3. t \in Good
  BY <1>1, <1>2, ByAppending
<1> QED
  BY <1>3 DEF Good

Types(m) == <<Comma>> \o CodesOf(m.args)
MessageRead(m) == [address |-> m.address, args |-> ArgumentsRead(m.args)]

LEMMA MessageTypes ==
  ASSUME NEW m \in OscMessages
  PROVE  /\ m.address \in Seq(Characters) /\ m.address # <<>> /\ m.address[1] = Slash
         /\ m.args \in Seq(OscArguments)
         /\ Len(messageData(m)) <= 65532
         /\ m = [address |-> m.address, args |-> m.args]
  BY DEF OscMessages

LEMMA TypesString ==
  ASSUME NEW m \in OscMessages
  PROVE  /\ Types(m) \in Seq(Characters) /\ Fits(Types(m)) /\ Utf8(Types(m)) = Types(m)
         /\ Types(m) # <<>> /\ Types(m)[1] = Comma
         /\ From(Types(m), 1) = CodesOf(m.args)
<1> DEFINE k == CodesOf(m.args)
           T == Types(m)
           low == {n \in Characters : n < 128}
<1>1. k \in Seq(TypeCodes)
  BY MessageTypes, CodeLists
<1>2. TypeCodes \subseteq low /\ Comma \in low /\ low \subseteq Characters
  BY DEF TypeCodes, Characters, Comma
<1> HIDE DEF k
<1>3. k \in Seq(low)
  <2> HIDE DEF low
  <2> QED
    BY <1>1, <1>2, SeqMonotonic
<1>4. <<Comma>> \in Seq(low) /\ Len(<<Comma>>) = 1 /\ <<Comma>>[1] = Comma
  <2> HIDE DEF low
  <2> QED
    BY <1>2
<1>5. \A n \in low : n < 128
  OBVIOUS
<1> HIDE DEF low
<1> DEFINE c == <<Comma>>
<1>6. c \in Seq(low) /\ Len(c) = 1 /\ c[1] = Comma
  BY <1>4
<1>7. T = c \o k
  BY DEF Types, k
<1> HIDE DEF c, T
<1>8. T \in Seq(low) /\ Len(T) = 1 + Len(k) /\ Len(k) \in Nat /\ T[1] = Comma
  <2>1. c \o k \in Seq(low) /\ Len(c \o k) = Len(c) + Len(k)
    BY <1>3, <1>6, ConcatProperties
  <2>2. Len(k) \in Nat
    BY <1>3, LenProperties
  <2>3. \A i \in 1..(Len(c) + Len(k)) : (c \o k)[i] = IF i <= Len(c) THEN c[i] ELSE k[i - Len(c)]
    BY <1>3, <1>6, ConcatProperties
  <2>4. (c \o k)[1] = c[1]
    BY <1>6, <2>2, <2>3
  <2> QED
    BY <1>6, <1>7, <2>1, <2>2, <2>4
<1>9. From(T, 1) = k
  <2>1. From(c \o k, Len(c)) = k
    BY <1>3, <1>6, TakenApart
  <2> QED
    BY <1>6, <1>7, <2>1
<1>10. T \in Seq(Characters)
  BY <1>2, <1>8, SeqMonotonic
<1>11. \A i \in 1..Len(T) : T[i] < 128
  <2>1. \A i \in 1..Len(T) : T[i] \in low
    BY <1>8, ElementOfSeq
  <2> QED
    BY <1>5, <2>1
<1>12. Fits(T) /\ Utf8(T) = T
  BY <1>10, <1>11, AsciiFits
<1>13. T # <<>>
  <2>1. Len(T) # 0
    BY <1>8
  <2> QED
    BY <2>1
<1> QED
  BY <1>8, <1>9, <1>10, <1>12, <1>13 DEF T, k

LEMMA MessageData ==
  ASSUME NEW m \in OscMessages
  PROVE  /\ messageData(m) = oscStringData(m.address) \o (oscStringData(Types(m)) \o ArgumentsData(m.args))
         /\ messageData(m) \in OscData /\ IsBlob(messageData(m))
         /\ Words(Len(messageData(m))) /\ Len(messageData(m)) \in Nat \ {0}
         /\ messageData(m)[1] = Slash
<1> DEFINE a == oscStringData(m.address)
           t == oscStringData(Types(m))
           d == ArgumentsData(m.args)
<1>1. /\ a \in OscData /\ Words(Len(a)) /\ Len(a) \in Nat \ {0}
      /\ Utf8(m.address) # <<>> => a[1] = Utf8(m.address)[1]
  BY MessageTypes, StringData
<1>2. t \in OscData /\ Words(Len(t))
  BY TypesString, StringData
<1>3. d \in OscData /\ Words(Len(d))
  BY MessageTypes, DataLists, ArgumentsAreRead DEF ListIsRead
<1>4. messageData(m) = (a \o t) \o d
  BY DEF messageData, Types, CodesOf, ArgumentsData
<1>5. a[1] = Slash
  <2>1. m.address # <<>> /\ m.address[1] < 128 /\ m.address[1] = Slash
    <3>1. Slash < 128
      BY DEF Slash
    <3> QED
      BY <3>1, MessageTypes
  <2>2. IsRead(m.address)
    BY MessageTypes, Utf8IsRead
  <2>3. Utf8(m.address) # <<>> /\ Utf8(m.address)[1] = m.address[1]
    BY <2>1, <2>2 DEF IsRead
  <2> QED
    BY <1>1, <2>1, <2>3
<1> HIDE DEF a, t, d
<1>6. messageData(m) = a \o (t \o d)
  BY <1>1, <1>2, <1>3, <1>4, DataRegroups
<1>7. t \o d \in OscData /\ Len(t \o d) = Len(t) + Len(d)
  BY <1>2, <1>3, DataJoined
<1>8. a \o (t \o d) \in OscData /\ Len(a \o (t \o d)) = Len(a) + Len(t \o d) /\ Len(t \o d) \in Nat
  BY <1>1, <1>7, DataJoined
<1>9. (a \o (t \o d))[1] = a[1]
  <2>1. 1 \in 1..Len(a)
    BY <1>1
  <2> QED
    BY <1>1, <1>7, <2>1, DataJoined
<1>10. Words(Len(a \o (t \o d)))
  <2>1. Words(Len(t \o d))
    BY <1>2, <1>3, <1>7, WordsAdd
  <2> QED
    BY <1>1, <1>8, <2>1, WordsAdd
<1>11. Len(a \o (t \o d)) \in Nat \ {0}
  BY <1>1, <1>8
<1>12. IsBlob(messageData(m))
  BY <1>6, <1>8, MessageTypes DEF IsBlob
<1> QED
  BY <1>5, <1>6, <1>8, <1>9, <1>10, <1>11, <1>12 DEF a, t, d

LEMMA WhatFits ==
  ASSUME NEW m \in OscMessages, IsAligned(m)
  PROVE  Fits(m.address) /\ \A i \in 1..Len(m.args) : ArgumentFits(m.args[i])
<1>1. m.args \in Seq(OscArguments) /\ DOMAIN m.args = 1..Len(m.args)
  BY MessageTypes, LenProperties
<1>2. Fits(m.address)
  BY DEF IsAligned, Fits
<1>3. ASSUME NEW i \in 1..Len(m.args), m.args[i].type = "s"
      PROVE  Fits(m.args[i].value)
  <2>1. i \in {j \in DOMAIN m.args : m.args[j].type = "s"}
    BY <1>1, <1>3
  <2>2. m.args[i].value \in {m.args[k].value : k \in {j \in DOMAIN m.args : m.args[j].type = "s"}}
    BY <2>1
  <2> QED
    BY <2>2, Zenon DEF IsAligned, Fits
<1> QED
  BY <1>2, <1>3 DEF ArgumentFits

\* This is what is to be read of a message.
LEMMA ReadAsWritten ==
  ASSUME NEW m \in OscMessages
  PROVE  AsRead(m) = MessageRead(m)
<1> DEFINE t == m.args
           back == [i \in DOMAIN t |->
                      IF t[i].type = "b" THEN [type |-> "b", value |-> From(oscBlobData(t[i].value), 4)]
                      ELSE t[i]]
<1>1. t \in Seq(OscArguments)
  BY MessageTypes
<1>2. DOMAIN t = 1..Len(t) /\ \A i \in 1..Len(t) : t[i] \in OscArguments
  BY <1>1, LenProperties, ElementOfSeq
<1>3. ASSUME NEW i \in DOMAIN t PROVE back[i] = ArgumentRead(t[i])
  <2>1. CASE t[i].type = "b"
    <3>1. IsBlob(t[i].value)
      BY <1>2, <1>3, <2>1, ArgumentKinds
    <3>2. From(oscBlobData(t[i].value), 4) = FilledWords(t[i].value)
      BY <3>1, BlobData
    <3> QED
      BY <2>1, <3>2 DEF ArgumentRead
  <2>2. CASE t[i].type # "b"
    BY <2>2 DEF ArgumentRead
  <2> QED
    BY <2>1, <2>2
<1>4. back = ArgumentsRead(t)
  <2>1. back = [i \in DOMAIN t |-> back[i]]
    OBVIOUS
  <2> HIDE DEF back
  <2>2. [i \in DOMAIN t |-> back[i]] = [i \in DOMAIN t |-> ArgumentRead(t[i])]
    BY <1>3
  <2> QED
    BY <2>1, <2>2 DEF ArgumentsRead
<1>5. AsRead(m) = [m EXCEPT !.args = back]
  BY DEF AsRead
<1> HIDE DEF back
<1>6. m = [address |-> m.address, args |-> m.args]
  BY MessageTypes
<1>7. [m EXCEPT !.args = back] = [address |-> m.address, args |-> back]
  BY <1>6
<1> QED
  BY <1>4, <1>5, <1>7 DEF MessageRead

\* A message is read as it was written, its blobs with their zeroes.
LEMMA MessageIsRead ==
  ASSUME NEW m \in OscMessages, IsAligned(m)
  PROVE  processMessageData(messageData(m)) = <<MessageRead(m)>>
<1> DEFINE a == oscStringData(m.address)
           t == oscStringData(Types(m))
           d == ArgumentsData(m.args)
           data == messageData(m)
           rest == t \o d
           address == ReadString(data)
           types == ReadString(rest)
<1>1. a \in OscData /\ Len(a) \in Nat \ {0} /\ m.address \in Seq(Characters)
  BY MessageTypes, StringData
<1>2. /\ t \in OscData /\ Len(t) \in Nat \ {0}
      /\ Utf8(Types(m)) # <<>> => t[1] = Utf8(Types(m))[1]
  BY TypesString, StringData
<1>3. d \in OscData
  BY MessageTypes, DataLists
<1>4. data = a \o rest
  BY MessageData
<1>5. Fits(m.address) /\ \A i \in 1..Len(m.args) : ArgumentFits(m.args[i])
  BY WhatFits
<1>6. types = [valid |-> TRUE, value |-> Types(m), length |-> Rounded(Len(Types(m)) + 1)]
  BY <1>3, TypesString, StringIsRead
<1>7. Rounded(Len(Types(m)) + 1) = Len(t)
  BY TypesString DEF Fits
<1>8. t[1] = Comma
  BY <1>2, TypesString
<1>9. rest \in OscData /\ Len(rest) = Len(t) + Len(d) /\ Len(d) \in Nat
  BY <1>2, <1>3, DataJoined
<1>10. rest[1] = Comma /\ rest # <<>>
  <2>1. 1 \in 1..Len(t) /\ Len(rest) # 0
    BY <1>2, <1>9
  <2>2. rest[1] = t[1]
    BY <1>2, <1>3, <2>1, DataJoined
  <2> QED
    BY <1>8, <1>9, <2>1, <2>2, NoData
<1>11. From(rest, Len(t)) = d
  BY <1>2, <1>3, DataApart
<1>12. address = [valid |-> TRUE, value |-> m.address, length |-> Len(a)]
  <2>1. ReadString(a \o rest) = [valid |-> TRUE, value |-> m.address, length |-> Rounded(Len(m.address) + 1)]
    BY <1>1, <1>9, StringIsRead
  <2>2. Rounded(Len(m.address) + 1) = Len(a)
    BY <1>5 DEF Fits
  <2> QED
    BY <1>4, <2>1, <2>2
<1>13. From(data, Len(a)) = rest
  <2> HIDE DEF rest, a
  <2> QED
    BY <1>1, <1>4, <1>9, DataApart
<1>14. ~(Len(a) > Len(data))
  <2> HIDE DEF rest, a
  <2>1. Len(a \o rest) = Len(a) + Len(rest) /\ Len(rest) \in Nat
    BY <1>1, <1>9, DataJoined
  <2> QED
    BY <1>1, <1>4, <2>1
<1>15. ReadCodes(CodesOf(m.args), Scanned(<<>>, d)) = Scanned(ArgumentsRead(m.args), <<>>)
  <2>1. ListIsRead(m.args)
    BY MessageTypes, ArgumentsAreRead
  <2>2. ReadCodes(CodesOf(m.args), Scanned(<<>>, d \o <<>>)) = Scanned(ArgumentsRead(m.args), <<>>)
    BY <1>5, <2>1, NoData DEF ListIsRead
  <2>3. d \o <<>> = d
    BY <1>3, NoData
  <2> QED
    BY <2>2, <2>3
<1> HIDE DEF a, t, d, data, rest, address, types
<1>16. ReadArguments(types, rest) = Scanned(ArgumentsRead(m.args), <<>>)
  <2>1. types.valid = TRUE /\ From(types.value, 1) = CodesOf(m.args) /\ From(rest, types.length) = d
    BY <1>6, <1>7, <1>11, TypesString
  <2>2. ReadArguments(types, rest) = ReadCodes(CodesOf(m.args), Scanned(<<>>, d))
    BY <2>1 DEF ReadArguments, Scanned
  <2> QED
    BY <1>15, <2>2
<1>17. BehindAddress(m.address, rest) = WithArguments(m.address, ReadArguments(types, rest))
  BY <1>10 DEF BehindAddress, types
<1>18. WithArguments(m.address, Scanned(ArgumentsRead(m.args), <<>>)) = <<MessageRead(m)>>
  BY DEF WithArguments, Scanned, MessageRead
<1>19. AtAddress(address, data) = BehindAddress(m.address, rest)
  <2>1. address.valid = TRUE /\ address.length = Len(a) /\ address.value = m.address
    BY <1>12
  <2> QED
    BY <1>13, <1>14, <2>1 DEF AtAddress
<1> QED
  BY <1>16, <1>17, <1>18, <1>19 DEF processMessageData, address, data

-----------------------------------------------------------------------------
(* OSC: bundles and packets.                                               *)

AlignedMessages == {m \in OscMessages : IsAligned(m)}
ReadMessages == {MessageRead(m) : m \in OscMessages}
ElementData(m) == oscBlobData(messageData(m))
BundleBody(ms) == FlattenSeq([i \in DOMAIN ms |-> ElementData(ms[i])])
MessagesRead(ms) == [i \in DOMAIN ms |-> MessageRead(ms[i])]

LEMMA ElementIsData ==
  ASSUME NEW m \in OscMessages
  PROVE  ElementData(m) \in OscData
  BY MessageData, BlobData DEF ElementData

LEMMA BodyLists ==
  ASSUME NEW ms \in Seq(OscMessages)
  PROVE  /\ BundleBody(ms) \in OscData
         /\ ms = <<>> => BundleBody(ms) = <<>>
         /\ \A m \in OscMessages : BundleBody(Append(ms, m)) = BundleBody(ms) \o ElementData(m)
<1> DEFINE f == [x \in OscMessages |-> ElementData(x)]
           D(v) == [i \in DOMAIN v |-> f[v[i]]]
<1>1. f \in [OscMessages -> OscData]
  BY ElementIsData
<1>2. ASSUME NEW v \in Seq(OscMessages) PROVE BundleBody(v) = FlattenSeq(D(v))
  <2>1. DOMAIN v = 1..Len(v) /\ \A i \in 1..Len(v) : v[i] \in OscMessages
    BY LenProperties, ElementOfSeq
  <2>2. [i \in DOMAIN v |-> ElementData(v[i])] = D(v)
    BY <2>1
  <2> QED
    BY <2>2 DEF BundleBody
<1>3. \A m \in OscMessages : f[m] = ElementData(m)
  OBVIOUS
<1> HIDE DEF f
<1>4. D(ms) \in Seq(OscData) /\ (ms = <<>> => D(ms) = <<>>)
  BY <1>1, MapIsSeq
<1>5. ASSUME NEW m \in OscMessages
      PROVE  BundleBody(Append(ms, m)) = BundleBody(ms) \o ElementData(m)
  <2>1. Append(ms, m) \in Seq(OscMessages)
    BY AppendProperties
  <2>2. D(Append(ms, m)) = Append(D(ms), f[m])
    BY MapMore
  <2> HIDE DEF D
  <2>3. f[m] \in OscData
    BY <1>3, ElementIsData
  <2>4. FlattenSeq(Append(D(ms), f[m])) = FlattenSeq(D(ms)) \o f[m]
    BY <1>4, <2>3, FlatData
  <2> QED
    BY <1>2, <1>3, <2>1, <2>2, <2>4
<1> HIDE DEF D
<1> QED
  BY <1>2, <1>4, <1>5, FlatData

LEMMA MessageLists ==
  ASSUME NEW ms \in Seq(OscMessages)
  PROVE  /\ MessagesRead(ms) \in Seq(ReadMessages) /\ Len(MessagesRead(ms)) = Len(ms)
         /\ ms = <<>> => MessagesRead(ms) = <<>>
         /\ \A m \in OscMessages : MessagesRead(Append(ms, m)) = Append(MessagesRead(ms), MessageRead(m))
<1> DEFINE f == [x \in OscMessages |-> MessageRead(x)]
<1>1. f \in [OscMessages -> ReadMessages]
  BY DEF ReadMessages
<1>2. ASSUME NEW v \in Seq(OscMessages) PROVE MessagesRead(v) = [i \in DOMAIN v |-> f[v[i]]]
  <2>1. DOMAIN v = 1..Len(v) /\ \A i \in 1..Len(v) : v[i] \in OscMessages
    BY LenProperties, ElementOfSeq
  <2> QED
    BY <2>1 DEF MessagesRead
<1>3. ASSUME NEW m \in OscMessages
      PROVE  MessagesRead(Append(ms, m)) = Append(MessagesRead(ms), MessageRead(m))
  <2>1. Append(ms, m) \in Seq(OscMessages)
    BY AppendProperties
  <2>2. f[m] = MessageRead(m)
    OBVIOUS
  <2> HIDE DEF f
  <2>3. [i \in DOMAIN Append(ms, m) |-> f[Append(ms, m)[i]]] = Append([i \in DOMAIN ms |-> f[ms[i]]], f[m])
    BY MapMore
  <2> QED
    BY <1>2, <2>1, <2>2, <2>3
<1> HIDE DEF f
<1>4. /\ [i \in DOMAIN ms |-> f[ms[i]]] \in Seq(ReadMessages)
      /\ Len([i \in DOMAIN ms |-> f[ms[i]]]) = Len(ms)
      /\ ms = <<>> => [i \in DOMAIN ms |-> f[ms[i]]] = <<>>
  BY <1>1, MapIsSeq
<1> QED
  BY <1>2, <1>3, <1>4

\* A message by itself is a packet.
LEMMA MessageAsPacket ==
  ASSUME NEW m \in AlignedMessages
  PROVE  processOscData(messageData(m)) = <<MessageRead(m)>>
<1> DEFINE data == messageData(m)
<1>1. m \in OscMessages /\ IsAligned(m)
  BY DEF AlignedMessages
<1>2. data \in OscData /\ Len(data) \in Nat \ {0} /\ data[1] = Slash
  BY <1>1, MessageData
<1>3. processMessageData(data) = <<MessageRead(m)>>
  BY <1>1, MessageIsRead
<1> HIDE DEF data
<1>4. data # <<>>
  BY <1>2, NoData
<1>5. processOscData(data) = processMessageData(data)
  BY <1>2, <1>4, GivenAs
<1> QED
  BY <1>3, <1>5 DEF data

\* An element of a bundle is read, and then those behind it.
LEMMA ElementInFront ==
  ASSUME NEW m \in AlignedMessages, NEW rest \in OscData
  PROVE  GivenElements(ElementData(m) \o rest) = <<MessageRead(m)>> \o GivenElements(rest)
<1> DEFINE D == messageData(m)
           data == ElementData(m) \o rest
           size == Len(D)
<1>1. m \in OscMessages
  BY DEF AlignedMessages
<1>2. IsBlob(D) /\ Words(Len(D)) /\ D \in OscData /\ size \in Nat \ {0} /\ D[1] = Slash
  BY <1>1, MessageData
<1>3. processOscData(D) = <<MessageRead(m)>>
  BY MessageAsPacket
<1>4. FilledWords(D) = D /\ Rounded(Len(D)) = size
  BY <1>2, BlobData
<1>5. BlobThen(data, D, rest)
  BY <1>2, BlobInFront DEF ElementData
<1> HIDE DEF D, data
<1>6. /\ data \in OscData /\ Len(data) = 4 + size + Len(rest) /\ Len(rest) \in Nat
      /\ 256 * data[3] + data[4] = size
      /\ SubSeq(data, 5, 4 + size) = D
      /\ From(data, 4 + size) = rest
      /\ data[5] = Slash
  BY <1>2, <1>4, <1>5 DEF BlobThen
<1> HIDE DEF size
<1>7. data # <<>> /\ ~(Len(data) <= 4) /\ ~(size > Len(data) - 4)
  <2>1. Len(data) # 0 /\ ~(Len(data) <= 4) /\ ~(size > Len(data) - 4)
    BY <1>2, <1>6
  <2> QED
    BY <1>6, <2>1, NoData
<1>8. GivenElements(data) =
        LET n == 256 * data[3] + data[4] IN
        IF data = <<>> \/ Len(data) <= 4 \/ n > Len(data) - 4 \/ data[5] \notin {Slash, Hash}
        THEN <<>>
        ELSE processOscData(SubSeq(data, 5, 4 + n)) \o GivenElements(From(data, 4 + n))
  BY <1>6, GivenAs, Zenon
<1>9. GivenElements(data) = processOscData(SubSeq(data, 5, 4 + size)) \o GivenElements(From(data, 4 + size))
  BY <1>6, <1>7, <1>8
<1> QED
  BY <1>3, <1>6, <1>9 DEF data

BodyIsRead(ms) ==
  \A rest \in OscData : GivenElements(rest) \in Seq(ReadMessages) =>
    GivenElements(BundleBody(ms) \o rest) = MessagesRead(ms) \o GivenElements(rest)

LEMMA ElementsAreRead ==
  ASSUME NEW ms \in Seq(AlignedMessages)
  PROVE  BodyIsRead(ms)
<1> DEFINE Good == {v \in Seq(AlignedMessages) : BodyIsRead(v)}
<1>0. \A v \in Seq(AlignedMessages) : v \in Seq(OscMessages)
  <2>1. AlignedMessages \subseteq OscMessages
    BY DEF AlignedMessages
  <2> QED
    BY <2>1, SeqMonotonic
<1>1. <<>> \in Good
  <2> DEFINE e == <<>>
  <2>1. e \in Seq(AlignedMessages)
    BY EmptySeq
  <2>2. e = <<>>
    OBVIOUS
  <2> HIDE DEF e
  <2>3. BundleBody(e) = <<>> /\ MessagesRead(e) = <<>>
    BY <1>0, <2>1, <2>2, BodyLists, MessageLists
  <2>4. ASSUME NEW rest \in OscData, GivenElements(rest) \in Seq(ReadMessages)
        PROVE  GivenElements(BundleBody(e) \o rest) = MessagesRead(e) \o GivenElements(rest)
    <3>1. BundleBody(e) \o rest = rest
      BY <2>3, NoData
    <3>2. <<>> \o GivenElements(rest) = GivenElements(rest)
      BY <2>4, ConcatEmptySeq
    <3> QED
      BY <2>3, <3>1, <3>2
  <2> QED
    BY <2>1, <2>2, <2>4 DEF BodyIsRead
<1>2. ASSUME NEW v \in Seq(AlignedMessages), NEW m \in AlignedMessages, v \in Good
      PROVE  Append(v, m) \in Good
  <2> DEFINE w == Append(v, m)
  <2>1. w \in Seq(AlignedMessages)
    BY AppendProperties
  <2>2. m \in OscMessages /\ v \in Seq(OscMessages)
    BY <1>0 DEF AlignedMessages
  <2>3. BundleBody(w) = BundleBody(v) \o ElementData(m) /\ BundleBody(v) \in OscData
    BY <2>2, BodyLists
  <2>4. MessagesRead(w) = Append(MessagesRead(v), MessageRead(m)) /\ MessagesRead(v) \in Seq(ReadMessages)
    BY <2>2, MessageLists
  <2>5. ElementData(m) \in OscData
    BY <2>2, ElementIsData
  <2>6. BodyIsRead(v)
    BY <1>2
  <2>7. MessageRead(m) \in ReadMessages
    BY <2>2 DEF ReadMessages
  <2> HIDE DEF w
  <2>8. ASSUME NEW rest \in OscData, GivenElements(rest) \in Seq(ReadMessages)
        PROVE  GivenElements(BundleBody(w) \o rest) = MessagesRead(w) \o GivenElements(rest)
    <3> DEFINE more == ElementData(m) \o rest
               r == MessagesRead(v)
               x == <<MessageRead(m)>>
               E == GivenElements(rest)
    <3>1. more \in OscData
      BY <2>5, DataJoined
    <3>2. BundleBody(w) \o rest = BundleBody(v) \o more
      BY <2>3, <2>5, DataRegroups
    <3>3. GivenElements(more) = x \o E
      BY ElementInFront
    <3>4. x \in Seq(ReadMessages)
      BY <2>7
    <3> HIDE DEF more
    <3>5. x \o E \in Seq(ReadMessages)
      <4> HIDE DEF x, E
      <4>1. E \in Seq(ReadMessages)
        BY <2>8 DEF E
      <4> QED
        BY <3>4, <4>1, ConcatProperties
    <3>6. GivenElements(BundleBody(v) \o more) = r \o (x \o E)
      BY <2>6, <3>1, <3>3, <3>5 DEF BodyIsRead
    <3>7. MessagesRead(w) = r \o x
      BY <2>4, <2>7, AppendIsConcat
    <3>8. (r \o x) \o E = r \o (x \o E)
      <4>1. r \in Seq(ReadMessages) /\ E \in Seq(ReadMessages)
        BY <2>4, <2>8
      <4> HIDE DEF r, x, E
      <4> QED
        BY <3>4, <4>1, ConcatAssociative
    <3> QED
      BY <3>2, <3>6, <3>7, <3>8
  <2>9. BodyIsRead(w)
    BY <2>8 DEF BodyIsRead
  <2> QED
    BY <2>1, <2>9 DEF w
<1> HIDE DEF Good
<1>3. ms \in Good
  BY <1>1, <1>2, ByAppending
<1> QED
  BY <1>3 DEF Good

LEMMA PrefixString ==
  /\ oscStringData(BundlePrefix) \in OscData /\ Len(oscStringData(BundlePrefix)) = 8
  /\ oscStringData(BundlePrefix)[1] = Hash
  /\ BundlePrefix \in Seq(Characters)
<1>1. BundlePrefix = <<35, 98, 117, 110, 100, 108, 101>>
  BY DEF BundlePrefix, Hash
<1>2. BundlePrefix \in Seq(Characters)
  BY <1>1 DEF Characters
<1>3. Len(BundlePrefix) = 7 /\ BundlePrefix[1] = Hash
  BY <1>1 DEF Hash
<1>4. \A i \in 1..Len(BundlePrefix) : BundlePrefix[i] < 128
  BY <1>1, <1>3
<1>5. Fits(BundlePrefix) /\ Utf8(BundlePrefix) = BundlePrefix
  BY <1>2, <1>4, AsciiFits
<1>6. Rounded(Len(BundlePrefix) + 1) = 8
  BY <1>3 DEF Rounded
<1>7. BundlePrefix # <<>>
  BY <1>1
<1>8. Len(oscStringData(BundlePrefix)) = 8
  BY <1>5, <1>6 DEF Fits
<1>9. /\ oscStringData(BundlePrefix) \in OscData
      /\ Utf8(BundlePrefix) # <<>> => oscStringData(BundlePrefix)[1] = Utf8(BundlePrefix)[1]
  BY <1>2, StringData
<1> QED
  BY <1>2, <1>3, <1>5, <1>7, <1>8, <1>9

BundleOf(ms) == bundleData([i \in DOMAIN ms |-> messageData(ms[i])])

\* A bundle gives its messages.
LEMMA BundleIsRead ==
  ASSUME NEW ms \in Seq(OscMessages)
  PROVE  /\ BundleOf(ms) \in OscData
         /\ ms \in Seq(AlignedMessages) => processOscData(BundleOf(ms)) = MessagesRead(ms)
<1> DEFINE p == oscStringData(BundlePrefix)
           z == Zeroes(8)
           b == BundleBody(ms)
           data == BundleOf(ms)
<1>1. p \in OscData /\ Len(p) = 8 /\ p[1] = Hash /\ BundlePrefix \in Seq(Characters)
  BY PrefixString
<1>2. z \in OscData /\ Len(z) = 8
  BY ZeroesProperties
<1>3. b \in OscData
  BY BodyLists
<1>4. data = (p \o z) \o b
  <2> DEFINE es == [i \in DOMAIN ms |-> messageData(ms[i])]
  <2>1. [i \in DOMAIN es |-> oscBlobData(es[i])] = [i \in DOMAIN ms |-> ElementData(ms[i])]
    BY DEF ElementData
  <2> HIDE DEF es
  <2>2. bundleData(es) = (p \o z) \o FlattenSeq([i \in DOMAIN es |-> oscBlobData(es[i])])
    BY DEF bundleData
  <2> QED
    BY <2>1, <2>2 DEF BundleOf, BundleBody, es
<1>5. GivenElements(<<>>) = <<>>
  <2> DEFINE e == <<>>
  <2>1. e \in OscData /\ e = <<>>
    BY NoData
  <2> HIDE DEF e
  <2>2. GivenElements(e) = <<>>
    BY <2>1, GivenAs
  <2> QED
    BY <2>1, <2>2
<1>6. ASSUME ms \in Seq(AlignedMessages) PROVE GivenElements(b) = MessagesRead(ms)
  <2>1. BodyIsRead(ms)
    BY <1>6, ElementsAreRead
  <2>2. <<>> \in Seq(ReadMessages)
    BY EmptySeq
  <2>3. GivenElements(b \o <<>>) = MessagesRead(ms) \o <<>>
    BY <1>5, <2>1, <2>2, NoData DEF BodyIsRead
  <2>4. b \o <<>> = b
    BY <1>3, NoData
  <2>5. MessagesRead(ms) \o <<>> = MessagesRead(ms)
    BY MessageLists, ConcatEmptySeq
  <2> QED
    BY <2>3, <2>4, <2>5
<1> HIDE DEF p, z, b, data
<1>7. p \o z \in OscData /\ Len(p \o z) = 16
  <2>1. p \o z \in OscData /\ Len(p \o z) = Len(p) + Len(z)
    BY <1>1, <1>2, DataJoined
  <2> QED
    BY <1>1, <1>2, <2>1
<1>8. data \in OscData /\ From(data, 16) = b /\ Len(data) = 16 + Len(b) /\ Len(b) \in Nat
  <2>1. (p \o z) \o b \in OscData /\ From((p \o z) \o b, Len(p \o z)) = b
    BY <1>3, <1>7, DataJoined, DataApart
  <2>2. Len((p \o z) \o b) = Len(p \o z) + Len(b) /\ Len(b) \in Nat
    BY <1>3, <1>7, DataJoined
  <2> QED
    BY <1>4, <1>7, <2>1, <2>2
<1>9. data = p \o (z \o b) /\ z \o b \in OscData
  BY <1>1, <1>2, <1>3, <1>4, DataRegroups, DataJoined
<1>10. data[1] = Hash
  <2>1. 1 \in 1..Len(p)
    BY <1>1
  <2> QED
    BY <1>1, <1>9, <2>1, DataJoined
<1>11. ReadString(data).value = BundlePrefix
  <2>1. ReadString(p \o (z \o b)) =
          [valid |-> TRUE, value |-> BundlePrefix, length |-> Rounded(Len(BundlePrefix) + 1)]
    BY <1>1, <1>9, StringIsRead DEF p
  <2> QED
    BY <1>9, <2>1
<1>12. data # <<>>
  <2>1. Len(data) # 0
    BY <1>8
  <2> QED
    BY <1>8, <2>1, NoData
<1>13. Hash # Slash
  BY DEF Hash, Slash
<1>14. processOscData(data) = GivenElements(From(data, 16))
  <2>1. processOscData(data) =
          IF data = <<>> THEN <<>>
          ELSE IF data[1] = Slash THEN processMessageData(data)
          ELSE IF data[1] = Hash /\ ReadString(data).value = BundlePrefix
               THEN GivenElements(From(data, 16))
          ELSE <<>>
    BY <1>8, GivenAs, Zenon
  <2> QED
    BY <1>10, <1>11, <1>12, <1>13, <2>1
<1> QED
  BY <1>6, <1>8, <1>14 DEF data

\* A packet gives its messages.
LEMMA PacketIsRead ==
  ASSUME NEW p \in Packets
  PROVE  /\ packetData(p) \in OscData
         /\ packetAsRead[p] # <<>>
         /\ p \in AlignedPackets => processOscData(packetData(p)) = packetAsRead[p]
<1> DEFINE ms == p.messages
<1>1. ms \in Seq(OscMessages) /\ ms # <<>> /\ p.bundle \in BOOLEAN /\ (~p.bundle => Len(ms) = 1)
  BY OscAssumption
<1>2. Len(ms) \in Nat \ {0} /\ DOMAIN ms = 1..Len(ms) /\ \A i \in 1..Len(ms) : ms[i] \in OscMessages
  BY <1>1, EmptySeq, LenProperties, ElementOfSeq
<1>3. packetAsRead[p] = MessagesRead(ms)
  <2>1. \A i \in DOMAIN ms : AsRead(ms[i]) = MessageRead(ms[i])
    BY <1>2, ReadAsWritten
  <2>2. [i \in DOMAIN ms |-> AsRead(ms[i])] = [i \in DOMAIN ms |-> MessageRead(ms[i])]
    BY <2>1
  <2> QED
    BY <2>2 DEF packetAsRead, MessagesRead
<1>4. packetAsRead[p] # <<>>
  <2>1. Len(MessagesRead(ms)) # 0
    BY <1>1, <1>2, MessageLists
  <2> QED
    BY <1>3, <2>1
<1>5. p \in AlignedPackets => ms \in Seq(AlignedMessages) /\ \A i \in 1..Len(ms) : ms[i] \in AlignedMessages
  <2>1. ASSUME p \in AlignedPackets
        PROVE  \A i \in 1..Len(ms) : ms[i] \in AlignedMessages
    BY <1>2, <2>1 DEF AlignedPackets, AlignedMessages
  <2>2. ASSUME \A i \in 1..Len(ms) : ms[i] \in AlignedMessages
        PROVE  ms \in Seq(AlignedMessages)
    <3>1. ms = [i \in 1..Len(ms) |-> ms[i]]
      BY <1>1, <1>2, LenProperties
    <3>2. [i \in 1..Len(ms) |-> ms[i]] \in Seq(AlignedMessages)
      BY <1>2, <2>2
    <3> QED
      BY <3>1, <3>2, Zenon
  <2> QED
    BY <2>1, <2>2
<1>6. CASE p.bundle
  <2>1. packetData(p) = BundleOf(ms)
    BY <1>6 DEF packetData, BundleOf
  <2> QED
    BY <1>1, <1>3, <1>4, <1>5, <2>1, BundleIsRead
<1>7. CASE ~p.bundle
  <2>1. packetData(p) = messageData(ms[1])
    BY <1>7 DEF packetData
  <2>2. ms[1] \in OscMessages /\ 1 \in 1..Len(ms) /\ Len(ms) = 1
    BY <1>1, <1>2, <1>7
  <2>3. packetData(p) \in OscData
    BY <2>1, <2>2, MessageData
  <2>4. p \in AlignedPackets => processOscData(packetData(p)) = <<MessageRead(ms[1])>>
    BY <1>5, <2>1, <2>2, MessageAsPacket
  <2>5. MessagesRead(ms) = <<MessageRead(ms[1])>>
    <3>1. DOMAIN ms = 1..1
      BY <1>2, <2>2
    <3>2. [i \in 1..1 |-> MessageRead(ms[i])] = <<MessageRead(ms[1])>>
      OBVIOUS
    <3> QED
      BY <3>1, <3>2 DEF MessagesRead
  <2> QED
    BY <1>3, <1>4, <2>3, <2>4, <2>5
<1> QED
  BY <1>1, <1>6, <1>7

-----------------------------------------------------------------------------
(* OSC: packets from SLIP data.                                            *)

Octet == 0..255
GivenPackets == {processOscData(data) : data \in OscData}
Slip(data, dangling, packets) == [data |-> data, dangling_ESC |-> dangling, packets |-> packets]
SlipStates == [data : OscData, dangling_ESC : BOOLEAN, packets : Seq(GivenPackets)]

LEMMA Octets4 ==
  /\ END \in Octet /\ ESC \in Octet /\ ESC_END \in Octet /\ ESC_ESC \in Octet
  /\ END # ESC /\ ESC_END # ESC_ESC
  /\ \A x \in Octet : <<x>> \in OscData
  BY DEF END, ESC, ESC_END, ESC_ESC, Octet, OscData

\* Packets only come to those there are.
Comes(old, new) ==
  new \in SlipStates /\ \E more \in Seq(GivenPackets) : new.packets = old.packets \o more

\* At most one packet comes at a time.
LEMMA GiveGrows ==
  ASSUME NEW P \in Seq(GivenPackets), NEW data \in OscData
  PROVE  \E more \in Seq(GivenPackets) :
           Give(P, processOscData(data)) \in Seq(GivenPackets) /\ Give(P, processOscData(data)) = P \o more
<1> DEFINE x == processOscData(data)
<1>1. x \in GivenPackets
  BY DEF GivenPackets
<1> HIDE DEF x
<1>2. CASE x = <<>>
  <2>1. Give(P, x) = P
    BY <1>2 DEF Give
  <2>2. <<>> \in Seq(GivenPackets) /\ P \o <<>> = P
    BY EmptySeq, ConcatEmptySeq
  <2> QED
    BY <2>1, <2>2 DEF x
<1>3. CASE x # <<>>
  <2>1. Give(P, x) = Append(P, x)
    BY <1>3 DEF Give
  <2>2. Append(P, x) = P \o <<x>> /\ Append(P, x) \in Seq(GivenPackets) /\ <<x>> \in Seq(GivenPackets)
    BY <1>1, AppendIsConcat, AppendProperties
  <2> QED
    BY <2>1, <2>2, Zenon DEF x
<1> QED
  BY <1>2, <1>3

\* Whatever byte is read, the packets there were stay in front.
LEMMA ByteComes ==
  ASSUME NEW st \in SlipStates, NEW byte \in Octet
  PROVE  Comes(st, SlipByte(st, byte))
<1>1. /\ st.data \in OscData /\ st.dangling_ESC \in BOOLEAN /\ st.packets \in Seq(GivenPackets)
      /\ st = Slip(st.data, st.dangling_ESC, st.packets)
  BY DEF SlipStates, Slip
<1>2. \A d \in OscData, e \in BOOLEAN, p \in Seq(GivenPackets) : Slip(d, e, p) \in SlipStates
  BY DEF SlipStates, Slip
<1>3. \A d \in OscData, x \in Octet : Append(d, x) \in OscData
  <2>1. ASSUME NEW d \in OscData, NEW x \in Octet PROVE Append(d, x) \in OscData
    <3>1. d \in Seq(Octet)
      BY DEF OscData, Octet
    <3>2. Append(d, x) \in Seq(Octet)
      BY <3>1, AppendProperties
    <3> QED
      BY <3>2 DEF OscData, Octet
  <2> QED
    BY <2>1
<1>4. <<>> \in OscData /\ <<>> \in Seq(GivenPackets) /\ st.packets \o <<>> = st.packets
  BY <1>1, NoData, EmptySeq, ConcatEmptySeq
<1>5. ASSUME NEW d \in OscData, NEW e \in BOOLEAN, SlipByte(st, byte) = Slip(d, e, st.packets)
      PROVE  Comes(st, SlipByte(st, byte))
  <2>1. Slip(d, e, st.packets) \in SlipStates
    BY <1>1, <1>2
  <2>2. Slip(d, e, st.packets).packets = st.packets \o <<>>
    BY <1>4 DEF Slip
  <2> QED
    BY <1>4, <1>5, <2>1, <2>2 DEF Comes
<1>6. CASE st.dangling_ESC
  <2> DEFINE x == CASE byte = ESC_END -> END
                    [] byte = ESC_ESC -> ESC
                    [] OTHER          -> byte
  <2>1. x \in Octet
    BY DEF END, ESC, ESC_END, ESC_ESC, Octet
  <2>2. SlipByte(st, byte) = [st EXCEPT !.dangling_ESC = FALSE, !.data = Append(@, x)]
    BY <1>6 DEF SlipByte
  <2> HIDE DEF x
  <2>3. SlipByte(st, byte) = Slip(Append(st.data, x), FALSE, st.packets)
    BY <1>1, <2>2 DEF Slip
  <2>4. Append(st.data, x) \in OscData
    BY <1>1, <1>3, <2>1
  <2> QED
    BY <1>5, <2>3, <2>4
<1>7. CASE ~st.dangling_ESC /\ byte = END
  <2> DEFINE P == Give(st.packets, processOscData(st.data))
  <2>1. SlipByte(st, byte) = [st EXCEPT !.packets = Give(@, processOscData(st.data)), !.data = <<>>]
    BY <1>7, Octets4 DEF SlipByte
  <2>2. SlipByte(st, byte) = Slip(<<>>, st.dangling_ESC, P)
    BY <1>1, <2>1 DEF Slip
  <2>3. \E more \in Seq(GivenPackets) : P \in Seq(GivenPackets) /\ P = st.packets \o more
    BY <1>1, GiveGrows
  <2> HIDE DEF P
  <2>4. Slip(<<>>, st.dangling_ESC, P) \in SlipStates
    BY <1>1, <1>2, <1>4, <2>3
  <2>5. Slip(<<>>, st.dangling_ESC, P).packets = P
    BY DEF Slip
  <2> QED
    BY <2>2, <2>3, <2>4, <2>5 DEF Comes
<1>8. CASE ~st.dangling_ESC /\ byte # END /\ byte = ESC
  <2>1. SlipByte(st, byte) = [st EXCEPT !.dangling_ESC = TRUE]
    BY <1>8 DEF SlipByte
  <2>2. SlipByte(st, byte) = Slip(st.data, TRUE, st.packets)
    BY <1>1, <2>1 DEF Slip
  <2> QED
    BY <1>1, <1>5, <2>2
<1>9. CASE ~st.dangling_ESC /\ byte # END /\ byte # ESC
  <2>1. SlipByte(st, byte) = [st EXCEPT !.data = Append(@, byte)]
    BY <1>9 DEF SlipByte
  <2>2. SlipByte(st, byte) = Slip(Append(st.data, byte), st.dangling_ESC, st.packets)
    BY <1>1, <2>1 DEF Slip
  <2>3. Append(st.data, byte) \in OscData
    BY <1>1, <1>3
  <2> QED
    BY <1>1, <1>5, <2>2, <2>3
<1> QED
  BY <1>6, <1>7, <1>8, <1>9

\* And so they do whatever bytes are read.
LEMMA BytesCome ==
  ASSUME NEW st \in SlipStates, NEW bytes \in OscData
  PROVE  Comes(st, SlipBytes(st, bytes))
<1> DEFINE Good == {u \in Seq(Octet) : Comes(st, SlipBytes(st, u))}
<1>1. <<>> \in Good
  <2> DEFINE e == <<>>
  <2>1. e \in Seq(Octet) /\ e = <<>>
    BY EmptySeq
  <2> HIDE DEF e
  <2>2. SlipBytes(st, e) = st
    BY <2>1, SlipBytesMore
  <2>3. st.packets \in Seq(GivenPackets)
    BY DEF SlipStates
  <2>4. <<>> \in Seq(GivenPackets) /\ st.packets \o <<>> = st.packets
    BY <2>3, EmptySeq, ConcatEmptySeq
  <2>5. Comes(st, SlipBytes(st, e))
    BY <2>2, <2>4 DEF Comes
  <2> QED
    BY <2>1, <2>5
<1>2. ASSUME NEW u \in Seq(Octet), NEW byte \in Octet, u \in Good PROVE Append(u, byte) \in Good
  <2> DEFINE mid == SlipBytes(st, u)
             new == SlipByte(mid, byte)
  <2>1. SlipBytes(st, Append(u, byte)) = new /\ Append(u, byte) \in Seq(Octet)
    BY SlipBytesMore, AppendProperties
  <2>2. Comes(st, mid)
    BY <1>2
  <2> HIDE DEF mid
  <2>3. Comes(mid, new)
    BY <2>2, ByteComes DEF Comes
  <2> HIDE DEF new
  <2>4. PICK a \in Seq(GivenPackets) : mid.packets = st.packets \o a
    BY <2>2 DEF Comes
  <2>5. PICK b \in Seq(GivenPackets) : new.packets = mid.packets \o b
    BY <2>3 DEF Comes
  <2>6. st.packets \in Seq(GivenPackets)
    BY DEF SlipStates
  <2>7. a \o b \in Seq(GivenPackets)
    BY ConcatProperties
  <2> DEFINE p == st.packets
  <2>8. (p \o a) \o b = p \o (a \o b)
    <3>1. p \in Seq(GivenPackets)
      BY <2>6
    <3> HIDE DEF p
    <3> QED
      BY <3>1, ConcatAssociative
  <2>9. new.packets = st.packets \o (a \o b)
    BY <2>4, <2>5, <2>8
  <2>10. Comes(st, new)
    BY <2>3, <2>7, <2>9, Zenon DEF Comes
  <2> QED
    BY <2>1, <2>10
<1> HIDE DEF Good
<1>3. bytes \in Seq(Octet)
  BY DEF OscData, Octet
<1>4. bytes \in Good
  BY <1>1, <1>2, <1>3, ByAppending
<1> QED
  BY <1>4 DEF Good

\* It does not matter where the bytes are cut.
LEMMA SlipJoined ==
  ASSUME NEW st, NEW a \in OscData, NEW b \in OscData
  PROVE  SlipBytes(st, a \o b) = SlipBytes(SlipBytes(st, a), b)
<1> DEFINE mid == SlipBytes(st, a)
           Good == {u \in Seq(Octet) : SlipBytes(st, a \o u) = SlipBytes(mid, u)}
<1>0. a \in Seq(Octet) /\ b \in Seq(Octet)
  BY DEF OscData, Octet
<1>1. <<>> \in Good
  <2> DEFINE e == <<>>
  <2>1. e \in Seq(Octet) /\ e = <<>>
    BY EmptySeq
  <2>2. a \o e = a
    BY <1>0, ConcatEmptySeq
  <2> HIDE DEF e, mid
  <2>3. SlipBytes(mid, e) = mid
    BY <2>1, SlipBytesMore
  <2>4. SlipBytes(st, a \o e) = SlipBytes(mid, e)
    BY <2>2, <2>3 DEF mid
  <2> QED
    BY <2>1, <2>4
<1>2. ASSUME NEW u \in Seq(Octet), NEW x \in Octet, u \in Good PROVE Append(u, x) \in Good
  <2> DEFINE w == a \o u
  <2>1. w \in Seq(Octet)
    BY <1>0, ConcatProperties
  <2>2. SlipBytes(st, w) = SlipBytes(mid, u)
    BY <1>2
  <2>3. a \o Append(u, x) = Append(w, x)
    <3> DEFINE y == <<x>>
    <3>1. Append(u, x) = u \o y /\ Append(w, x) = w \o y /\ y \in Seq(Octet)
      <4> HIDE DEF w
      <4> QED
        BY <2>1, AppendIsConcat
    <3> HIDE DEF y
    <3>2. (a \o u) \o y = a \o (u \o y)
      BY <1>0, <3>1, ConcatAssociative
    <3> QED
      BY <3>1, <3>2
  <2> HIDE DEF w, mid
  <2>4. SlipBytes(st, Append(w, x)) = SlipByte(SlipBytes(st, w), x)
    BY <2>1, SlipBytesMore
  <2>5. SlipBytes(mid, Append(u, x)) = SlipByte(SlipBytes(mid, u), x) /\ Append(u, x) \in Seq(Octet)
    BY SlipBytesMore, AppendProperties
  <2>6. SlipBytes(st, a \o Append(u, x)) = SlipBytes(mid, Append(u, x))
    BY <2>2, <2>3, <2>4, <2>5
  <2> QED
    BY <2>5, <2>6
<1> HIDE DEF Good
<1>3. b \in Good
  BY <1>0, <1>1, <1>2, ByAppending
<1> QED
  BY <1>3 DEF Good, mid

-----------------------------------------------------------------------------
Escaped(x) ==
  CASE x = END -> <<ESC, ESC_END>>
    [] x = ESC -> <<ESC, ESC_ESC>>
    [] OTHER   -> <<x>>
Escape(bytes) == FlattenSeq([i \in DOMAIN bytes |-> Escaped(bytes[i])])

LEMMA OneByte ==
  ASSUME NEW st, NEW x \in Octet
  PROVE  SlipBytes(st, <<x>>) = SlipByte(st, x)
<1> DEFINE e == <<>>
<1>1. e \in Seq(Octet) /\ e = <<>>
  BY EmptySeq
<1>2. Append(e, x) = <<x>>
  OBVIOUS
<1> HIDE DEF e
<1>3. SlipBytes(st, e) = st
  BY <1>1, SlipBytesMore
<1>5. e \in Seq(Octet)
  BY <1>1
<1>4. SlipBytes(st, Append(e, x)) = SlipByte(SlipBytes(st, e), x)
  BY <1>5, SlipBytesMore
<1> QED
  BY <1>2, <1>3, <1>4

LEMMA AppendSecond ==
  ASSUME NEW x, NEW y
  PROVE  Append(<<x>>, y) = <<x, y>>
<1> DEFINE S == {x, y}
           v == <<x>>
           w == <<x, y>>
<1>1. v \in Seq(S) /\ Len(v) = 1 /\ v[1] = x /\ y \in S
  OBVIOUS
<1>2. w \in Seq(S) /\ Len(w) = 2 /\ w[1] = x /\ w[2] = y
  OBVIOUS
<1> HIDE DEF S, v, w
<1>3. /\ Append(v, y) \in Seq(S) /\ Len(Append(v, y)) = Len(v) + 1
      /\ \A i \in 1..Len(v) : Append(v, y)[i] = v[i]
      /\ Append(v, y)[Len(v) + 1] = y
  BY <1>1, AppendProperties
<1>4. Len(Append(v, y)) = 2 /\ Append(v, y)[1] = x /\ Append(v, y)[2] = y
  BY <1>1, <1>3
<1>5. \A i \in 1..2 : Append(v, y)[i] = w[i]
  BY <1>2, <1>4
<1>6. Append(v, y) = w
  BY <1>2, <1>3, <1>4, <1>5, SeqEqual
<1> QED
  BY <1>6 DEF v, w

LEMMA TwoBytes ==
  ASSUME NEW st, NEW x \in Octet, NEW y \in Octet
  PROVE  SlipBytes(st, <<x, y>>) = SlipByte(SlipByte(st, x), y)
<1> DEFINE v == <<x>>
<1>1. v \in Seq(Octet)
  OBVIOUS
<1>2. Append(v, y) = <<x, y>>
  BY AppendSecond
<1>3. SlipBytes(st, v) = SlipByte(st, x)
  BY OneByte
<1> HIDE DEF v
<1>4. SlipBytes(st, Append(v, y)) = SlipByte(SlipBytes(st, v), y)
  BY <1>1, SlipBytesMore
<1> QED
  BY <1>2, <1>3, <1>4

\* A byte, escaped if it has to be, is read as what it is.
LEMMA EscapedByte ==
  ASSUME NEW x \in Octet, NEW d, NEW P
  PROVE  /\ Escaped(x) \in OscData
         /\ SlipBytes(Slip(d, FALSE, P), Escaped(x)) = Slip(Append(d, x), FALSE, P)
<1>1. \A y \in Octet : SlipByte(Slip(d, TRUE, P), y) =
        Slip(Append(d, CASE y = ESC_END -> END [] y = ESC_ESC -> ESC [] OTHER -> y), FALSE, P)
  BY Octets4 DEF SlipByte, Slip
<1>2. SlipByte(Slip(d, FALSE, P), ESC) = Slip(d, TRUE, P)
  BY Octets4 DEF SlipByte, Slip
<1>3. CASE x = END
  <2>1. Escaped(x) = <<ESC, ESC_END>>
    BY <1>3, Octets4 DEF Escaped
  <2>2. SlipBytes(Slip(d, FALSE, P), <<ESC, ESC_END>>) = SlipByte(SlipByte(Slip(d, FALSE, P), ESC), ESC_END)
    BY Octets4, TwoBytes
  <2>3. SlipByte(Slip(d, TRUE, P), ESC_END) = Slip(Append(d, END), FALSE, P)
    BY <1>1, Octets4
  <2>4. <<ESC, ESC_END>> \in OscData
    <3>1. <<ESC, ESC_END>> \in Seq(Octet)
      BY Octets4
    <3> QED
      BY <3>1 DEF Octet, OscData
  <2> QED
    BY <1>2, <1>3, <2>1, <2>2, <2>3, <2>4
<1>4. CASE x = ESC
  <2>1. Escaped(x) = <<ESC, ESC_ESC>>
    BY <1>4, Octets4 DEF Escaped
  <2>2. SlipBytes(Slip(d, FALSE, P), <<ESC, ESC_ESC>>) = SlipByte(SlipByte(Slip(d, FALSE, P), ESC), ESC_ESC)
    BY Octets4, TwoBytes
  <2>3. SlipByte(Slip(d, TRUE, P), ESC_ESC) = Slip(Append(d, ESC), FALSE, P)
    BY <1>1, Octets4
  <2>4. <<ESC, ESC_ESC>> \in OscData
    <3>1. <<ESC, ESC_ESC>> \in Seq(Octet)
      BY Octets4
    <3> QED
      BY <3>1 DEF Octet, OscData
  <2> QED
    BY <1>2, <1>4, <2>1, <2>2, <2>3, <2>4
<1>5. CASE x # END /\ x # ESC
  <2>1. Escaped(x) = <<x>>
    BY <1>5 DEF Escaped
  <2>2. SlipBytes(Slip(d, FALSE, P), <<x>>) = SlipByte(Slip(d, FALSE, P), x)
    BY OneByte
  <2>3. SlipByte(Slip(d, FALSE, P), x) = Slip(Append(d, x), FALSE, P)
    BY <1>5 DEF SlipByte, Slip
  <2>4. <<x>> \in OscData
    BY Octets4
  <2> QED
    BY <2>1, <2>2, <2>3, <2>4
<1> QED
  BY <1>3, <1>4, <1>5

LEMMA EscapeLists ==
  ASSUME NEW bytes \in Seq(Octet)
  PROVE  /\ Escape(bytes) \in OscData
         /\ bytes = <<>> => Escape(bytes) = <<>>
         /\ \A x \in Octet : Escape(Append(bytes, x)) = Escape(bytes) \o Escaped(x)
<1> DEFINE f == [x \in Octet |-> Escaped(x)]
           D(v) == [i \in DOMAIN v |-> f[v[i]]]
<1>1. f \in [Octet -> OscData]
  BY EscapedByte
<1>2. ASSUME NEW v \in Seq(Octet) PROVE Escape(v) = FlattenSeq(D(v))
  <2>1. DOMAIN v = 1..Len(v) /\ \A i \in 1..Len(v) : v[i] \in Octet
    BY LenProperties, ElementOfSeq
  <2>2. [i \in DOMAIN v |-> Escaped(v[i])] = D(v)
    BY <2>1
  <2> QED
    BY <2>2 DEF Escape
<1>3. \A x \in Octet : f[x] = Escaped(x)
  OBVIOUS
<1> HIDE DEF f
<1>4. D(bytes) \in Seq(OscData) /\ (bytes = <<>> => D(bytes) = <<>>)
  BY <1>1, MapIsSeq
<1>5. ASSUME NEW x \in Octet
      PROVE  Escape(Append(bytes, x)) = Escape(bytes) \o Escaped(x)
  <2>1. Append(bytes, x) \in Seq(Octet)
    BY AppendProperties
  <2>2. D(Append(bytes, x)) = Append(D(bytes), f[x])
    BY MapMore
  <2> HIDE DEF D
  <2>3. f[x] \in OscData
    BY <1>1
  <2>4. FlattenSeq(Append(D(bytes), f[x])) = FlattenSeq(D(bytes)) \o f[x]
    BY <1>4, <2>3, FlatData
  <2> QED
    BY <1>2, <1>3, <2>1, <2>2, <2>4
<1> HIDE DEF D
<1> QED
  BY <1>2, <1>4, <1>5, FlatData

\* Escaped, bytes are put together as they were.
LEMMA EscapeIsUndone ==
  ASSUME NEW bytes \in OscData, NEW P
  PROVE  SlipBytes(Slip(<<>>, FALSE, P), Escape(bytes)) = Slip(bytes, FALSE, P)
<1> DEFINE st == Slip(<<>>, FALSE, P)
           Good == {u \in Seq(Octet) : SlipBytes(st, Escape(u)) = Slip(u, FALSE, P)}
<1>1. <<>> \in Good
  <2> DEFINE e == <<>>
  <2>1. e \in Seq(Octet) /\ e = <<>>
    BY EmptySeq
  <2> HIDE DEF e, st
  <2>2. Escape(e) = e
    BY <2>1, EscapeLists
  <2>3. SlipBytes(st, e) = st
    BY <2>1, SlipBytesMore
  <2> QED
    BY <2>1, <2>2, <2>3 DEF st
<1>2. ASSUME NEW u \in Seq(Octet), NEW x \in Octet, u \in Good PROVE Append(u, x) \in Good
  <2>1. SlipBytes(st, Escape(u)) = Slip(u, FALSE, P)
    BY <1>2
  <2>2. Escape(Append(u, x)) = Escape(u) \o Escaped(x) /\ Escape(u) \in OscData
    BY EscapeLists
  <2>3. Escaped(x) \in OscData
    BY EscapedByte
  <2>4. SlipBytes(Slip(u, FALSE, P), Escaped(x)) = Slip(Append(u, x), FALSE, P)
    BY EscapedByte
  <2>5. Append(u, x) \in Seq(Octet)
    BY AppendProperties
  <2> HIDE DEF st
  <2>6. SlipBytes(st, Escape(u) \o Escaped(x)) = SlipBytes(SlipBytes(st, Escape(u)), Escaped(x))
    BY <2>2, <2>3, SlipJoined
  <2>7. SlipBytes(st, Escape(Append(u, x))) = Slip(Append(u, x), FALSE, P)
    BY <2>1, <2>2, <2>4, <2>6
  <2> QED
    BY <2>5, <2>7
<1>3. bytes \in Seq(Octet)
  BY DEF OscData, Octet
<1> HIDE DEF Good
<1>4. bytes \in Good
  BY <1>1, <1>2, <1>3, ByAppending
<1> QED
  BY <1>4 DEF Good

\* A frame gives its packet, and leaves nothing behind.
LEMMA FrameIsRead ==
  ASSUME NEW bytes \in OscData, NEW P
  PROVE  /\ slipData(bytes) \in OscData
         /\ SlipBytes(Slip(<<>>, FALSE, P), slipData(bytes)) =
              Slip(<<>>, FALSE, Give(P, processOscData(bytes)))
<1> DEFINE end == <<END>>
           b == Escape(bytes)
           st == Slip(<<>>, FALSE, P)
<1>1. bytes \in Seq(Octet)
  BY DEF OscData, Octet
<1>2. b \in OscData /\ end \in OscData
  BY <1>1, EscapeLists, Octets4
<1>3. slipData(bytes) = (end \o b) \o end
  BY DEF slipData, Escape, Escaped
<1>4. \A d : SlipByte(Slip(d, FALSE, P), END) = Slip(<<>>, FALSE, Give(P, processOscData(d)))
  BY Octets4 DEF SlipByte, Slip
<1>5. \A d : SlipBytes(Slip(d, FALSE, P), end) = Slip(<<>>, FALSE, Give(P, processOscData(d)))
  BY <1>4, Octets4, OneByte
<1>6. processOscData(<<>>) = <<>> /\ Give(P, <<>>) = P
  <2> DEFINE e == <<>>
  <2>1. e \in OscData /\ e = <<>>
    BY NoData
  <2> HIDE DEF e
  <2>2. processOscData(e) = <<>>
    BY <2>1, GivenAs
  <2> QED
    BY <2>1, <2>2 DEF Give
<1>7. SlipBytes(st, end) = st
  BY <1>5, <1>6
<1>8. SlipBytes(st, b) = Slip(bytes, FALSE, P)
  BY EscapeIsUndone
<1> HIDE DEF end, b, st
<1>9. end \o b \in OscData /\ (end \o b) \o end \in OscData
  BY <1>2, DataJoined
<1>10. SlipBytes(st, end \o b) = SlipBytes(SlipBytes(st, end), b)
  BY <1>2, SlipJoined
<1>11. SlipBytes(st, (end \o b) \o end) = SlipBytes(SlipBytes(st, end \o b), end)
  BY <1>2, <1>9, SlipJoined
<1>12. SlipBytes(st, (end \o b) \o end) = SlipBytes(Slip(bytes, FALSE, P), end)
  BY <1>7, <1>8, <1>10, <1>11
<1> QED
  BY <1>3, <1>5, <1>9, <1>12 DEF st

-----------------------------------------------------------------------------
(* OSC: what the delegate takes is what was sent.                          *)

PacketsRead(packets) == [i \in DOMAIN packets |-> packetAsRead[packets[i]]]

\* What packets are read as, packet by packet.
LEMMA PacketLists ==
  ASSUME NEW packets \in Seq(AlignedPackets)
  PROVE  /\ PacketsRead(packets) \in Seq(GivenPackets)
         /\ packets = <<>> => PacketsRead(packets) = <<>>
         /\ \A p \in AlignedPackets :
              PacketsRead(Append(packets, p)) = Append(PacketsRead(packets), packetAsRead[p])
<1> DEFINE f == [p \in AlignedPackets |-> packetAsRead[p]]
<1>1. f \in [AlignedPackets -> GivenPackets]
  <2>1. ASSUME NEW p \in AlignedPackets PROVE packetAsRead[p] \in GivenPackets
    <3>1. p \in Packets
      BY DEF AlignedPackets
    <3>2. packetData(p) \in OscData /\ packetAsRead[p] = processOscData(packetData(p))
      BY <3>1, PacketIsRead
    <3> QED
      BY <3>2 DEF GivenPackets
  <2> QED
    BY <2>1
<1>2. ASSUME NEW v \in Seq(AlignedPackets) PROVE PacketsRead(v) = [i \in DOMAIN v |-> f[v[i]]]
  <2>1. DOMAIN v = 1..Len(v) /\ \A i \in 1..Len(v) : v[i] \in AlignedPackets
    BY LenProperties, ElementOfSeq
  <2> QED
    BY <2>1 DEF PacketsRead
<1>3. ASSUME NEW p \in AlignedPackets
      PROVE  PacketsRead(Append(packets, p)) = Append(PacketsRead(packets), packetAsRead[p])
  <2>1. Append(packets, p) \in Seq(AlignedPackets)
    BY AppendProperties
  <2>2. f[p] = packetAsRead[p]
    OBVIOUS
  <2> HIDE DEF f
  <2>3. [i \in DOMAIN Append(packets, p) |-> f[Append(packets, p)[i]]]
          = Append([i \in DOMAIN packets |-> f[packets[i]]], f[p])
    BY MapMore
  <2> QED
    BY <1>2, <2>1, <2>2, <2>3
<1> HIDE DEF f
<1>4. /\ [i \in DOMAIN packets |-> f[packets[i]]] \in Seq(GivenPackets)
      /\ packets = <<>> => [i \in DOMAIN packets |-> f[packets[i]]] = <<>>
  BY <1>1, MapIsSeq
<1> QED
  BY <1>2, <1>3, <1>4

\* A longer list has its elements in a set only if the list had.
LEMMA AppendedAligned ==
  ASSUME NEW S, NEW A \in SUBSET S, NEW packets \in Seq(S), NEW p \in S, Append(packets, p) \in Seq(A)
  PROVE  packets \in Seq(A) /\ p \in A
<1> DEFINE w == Append(packets, p)
           n == Len(packets)
<1>1. /\ Len(w) = n + 1 /\ n \in Nat /\ w[n + 1] = p
      /\ \A i \in 1..n : w[i] = packets[i]
      /\ packets = [i \in 1..n |-> packets[i]]
  BY AppendProperties, LenProperties
<1>2. w \in Seq(A)
  OBVIOUS
<1>3. \A i \in 1..(n + 1) : w[i] \in A
  BY <1>1, <1>2, ElementOfSeq
<1> HIDE DEF w, n
<1>4. p \in A /\ \A i \in 1..n : packets[i] \in A
  BY <1>1, <1>3
<1>5. [i \in 1..n |-> packets[i]] \in Seq(A)
  BY <1>1, <1>4
<1> QED
  BY <1>1, <1>4, <1>5, Zenon

\* If reading bytes makes the packets complete, then those there are are the first.
LEMMA ComesInFront ==
  ASSUME NEW st \in SlipStates, NEW bytes \in OscData, NEW packets,
         SlipBytes(st, bytes) = Slip(<<>>, FALSE, packets)
  PROVE  IsPrefix(st.packets, packets) /\ (bytes = <<>> => st.packets = packets)
<1>1. Comes(st, Slip(<<>>, FALSE, packets))
  BY BytesCome
<1>2. Slip(<<>>, FALSE, packets).packets = packets /\ st.packets \in Seq(GivenPackets)
  BY DEF Slip, SlipStates
<1>3. PICK more \in Seq(GivenPackets) : packets = st.packets \o more
  BY <1>1, <1>2 DEF Comes
<1>4. IsPrefix(st.packets, packets)
  BY <1>2, <1>3, PrefixOfConcat
<1>5. ASSUME bytes = <<>> PROVE st.packets = packets
  <2>1. bytes \in Seq(Octet)
    BY DEF OscData, Octet
  <2>2. SlipBytes(st, bytes) = st
    BY <1>5, <2>1, SlipBytesMore
  <2> QED
    BY <1>2, <2>2
<1> QED
  BY <1>4, <1>5

\* What is read, and what is left for the next read.
LEMMA ReadInTwo ==
  ASSUME NEW bytes \in OscData, NEW n \in 1..Len(bytes)
  PROVE  /\ SubSeq(bytes, 1, n) \in OscData /\ From(bytes, n) \in OscData
         /\ SubSeq(bytes, 1, n) \o From(bytes, n) = bytes
<1>1. Len(bytes) \in Nat /\ bytes \in Seq(0..255) /\ n \in Nat
  BY LenProperties DEF OscData
<1>2. From(bytes, n) \in OscData
  BY <1>1, PartsOfData
<1>3. \A m \in Nat : m + n <= Len(bytes) => SubSeq(bytes, m + 1, m + n) \in OscData
  BY <1>1, PartsOfData
<1>4. SubSeq(bytes, 1, n) \in OscData
  <2>1. 0 \in Nat /\ 0 + n <= Len(bytes) /\ 0 + 1 = 1 /\ 0 + n = n
    BY <1>1
  <2> QED
    BY <1>3, <2>1
<1>5. SubSeq(bytes, 1, n) \o SubSeq(bytes, n + 1, Len(bytes)) = SubSeq(bytes, 1, Len(bytes))
  BY <1>1, ConcatAdjacentSubSeq
<1>6. SubSeq(bytes, 1, Len(bytes)) = bytes
  BY <1>1, SubSeqFull
<1> QED
  BY <1>2, <1>4, <1>5, <1>6 DEF From

-----------------------------------------------------------------------------
(* OSC: the connections of the server.                                     *)

Receivers == Peers \cup {Udp}
Tags == {tagOf[c] : c \in active}
ActiveStates == [socket : Peers, dangling_ESC : BOOLEAN]

OscTypeOK ==
  /\ wire \in [Peers -> OscData]
  /\ sent \in [Receivers -> Seq(Packets)] /\ taken \in [Receivers -> Seq(GivenPackets)]
  /\ active \subseteq DOMAIN tagOf /\ DOMAIN tagOf \subseteq Peers
  /\ tagOf \in [DOMAIN tagOf -> Nat] /\ _activeIndex \in Nat
  /\ _activeTcpSockets \in [Tags -> Peers]
  /\ _activeData \in [Tags -> OscData]
  /\ _activeState \in [Tags -> ActiveStates]

\* Each connection that is up has the tables to itself.
OscTagsInv ==
  /\ \A c \in DOMAIN tagOf : tagOf[c] < _activeIndex
  /\ \A c, d \in active : tagOf[c] = tagOf[d] => c = d
  /\ \A c \in active : _activeTcpSockets[tagOf[c]] = c /\ _activeState[tagOf[c]].socket = c
  /\ \A c \in Peers \ active : wire[c] = <<>>
  /\ \A c \in Peers \ DOMAIN tagOf : sent[c] = <<>> /\ taken[c] = <<>>

Read(c) == Slip(_activeData[tagOf[c]], _activeState[tagOf[c]].dangling_ESC, taken[c])

\* If a connection is up, reading what is under way completes what was sent.
OscReadInv ==
  \A c \in Peers : sent[c] \in Seq(AlignedPackets) =>
    /\ IsPrefix(taken[c], PacketsRead(sent[c]))
    /\ c \in active => SlipBytes(Read(c), wire[c]) = Slip(<<>>, FALSE, PacketsRead(sent[c]))

OscDatagramInv ==
  sent[Udp] \in Seq(AlignedPackets) =>
    \A i \in DOMAIN taken[Udp] : \E p \in Range(sent[Udp]) : taken[Udp][i] = packetAsRead[p]

OscInv == OscTypeOK /\ OscTagsInv /\ OscReadInv /\ OscDatagramInv

\* What is read into has its type.
LEMMA ReadIsState ==
  ASSUME OscTypeOK, NEW c \in active
  PROVE  Read(c) \in SlipStates /\ tagOf[c] \in Tags /\ c \in Peers
<1>1. tagOf[c] \in Tags /\ c \in Peers /\ c \in Receivers
  BY DEF Tags, OscTypeOK, Receivers
<1>2. _activeData[tagOf[c]] \in OscData /\ _activeState[tagOf[c]] \in ActiveStates
  BY <1>1 DEF OscTypeOK
<1>3. taken[c] \in Seq(GivenPackets)
  BY <1>1 DEF OscTypeOK
<1> QED
  BY <1>1, <1>2, <1>3 DEF Read, Slip, SlipStates, ActiveStates

LEMMA OscStarts ==
  ASSUME OInit
  PROVE  OscInv
<1>1. <<>> \in OscData /\ <<>> \in Seq(Packets) /\ <<>> \in Seq(GivenPackets)
  BY NoData, EmptySeq
<1>2. active = {} /\ DOMAIN tagOf = {} /\ Tags = {}
  BY DEF OInit, Empty, Tags
<1>3. /\ DOMAIN _activeTcpSockets = {} /\ DOMAIN _activeData = {} /\ DOMAIN _activeState = {}
      /\ _activeTcpSockets \in [{} -> Peers] /\ _activeData \in [{} -> OscData]
      /\ _activeState \in [{} -> ActiveStates] /\ tagOf \in [{} -> Nat]
  BY DEF OInit, Empty
<1>4. OscTypeOK
  BY <1>1, <1>2, <1>3 DEF OInit, OscTypeOK, Receivers
<1>5. OscTagsInv
  BY <1>2 DEF OInit, OscTagsInv
<1>6. OscReadInv
  <2> DEFINE e == <<>>
  <2>1. e \in Seq(AlignedPackets) /\ e \in Seq(GivenPackets) /\ e = <<>>
    BY EmptySeq
  <2>2. \A c \in Peers : sent[c] = e /\ taken[c] = e
    BY DEF OInit
  <2> HIDE DEF e
  <2>3. PacketsRead(e) = e
    BY <2>1, PacketLists
  <2>4. IsPrefix(e, e)
    BY <2>1, PrefixOfConcat
  <2> QED
    BY <1>2, <2>2, <2>3, <2>4 DEF OscReadInv
<1>7. OscDatagramInv
  BY DEF OInit, OscDatagramInv
<1> QED
  BY <1>4, <1>5, <1>6, <1>7 DEF OscInv

LEMMA OscSentOverTcp ==
  ASSUME OscInv, NEW c \in Peers, NEW p \in Packets, SendOverTcp(c, p)
  PROVE  OscInv'
<1> DEFINE frame == slipData(packetData(p))
<1>1. OscTypeOK /\ OscTagsInv /\ OscReadInv /\ OscDatagramInv
  BY DEF OscInv
<1>2. packetData(p) \in OscData
  BY PacketIsRead
<1>3. frame \in OscData
  BY <1>2, FrameIsRead
<1>4. /\ c \in active
      /\ wire' = [wire EXCEPT ![c] = wire[c] \o frame]
      /\ sent' = [sent EXCEPT ![c] = Append(sent[c], p)]
      /\ UNCHANGED <<active, tagOf, _activeIndex, _activeTcpSockets, _activeData, _activeState, taken>>
  BY DEF SendOverTcp
<1> HIDE DEF frame
<1>5. c \in Receivers /\ c # Udp /\ wire[c] \in OscData /\ sent[c] \in Seq(Packets)
  BY <1>1, OscAssumption DEF OscTypeOK, Receivers
<1>6. wire[c] \o frame \in OscData /\ Append(sent[c], p) \in Seq(Packets)
  BY <1>3, <1>5, DataJoined, AppendProperties
<1>7. OscTypeOK'
  BY <1>1, <1>4, <1>5, <1>6 DEF OscTypeOK, Tags
<1>8. \A d \in Receivers : d # c => sent'[d] = sent[d] /\ (d \in Peers => wire'[d] = wire[d])
  BY <1>1, <1>4 DEF OscTypeOK
<1>9. wire'[c] = wire[c] \o frame /\ sent'[c] = Append(sent[c], p)
  BY <1>1, <1>4, <1>5 DEF OscTypeOK
<1>10. OscTagsInv'
  <2>1. \A d \in Peers \ active : wire'[d] = <<>>
    BY <1>1, <1>4, <1>8 DEF OscTagsInv, Receivers
  <2>2. \A d \in Peers \ DOMAIN tagOf : sent'[d] = <<>> /\ taken[d] = <<>>
    BY <1>1, <1>4, <1>8 DEF OscTagsInv, OscTypeOK, Receivers
  <2> QED
    BY <1>1, <1>4, <2>1, <2>2 DEF OscTagsInv
<1>11. OscReadInv'
  <2>1. ASSUME NEW d \in Peers, d # c, sent'[d] \in Seq(AlignedPackets)
        PROVE  /\ IsPrefix(taken'[d], PacketsRead(sent'[d]))
               /\ d \in active' => SlipBytes(Read(d)', wire'[d]) = Slip(<<>>, FALSE, PacketsRead(sent'[d]))
    BY <1>1, <1>4, <1>8, <2>1 DEF OscReadInv, Read, Receivers
  <2>2. ASSUME sent'[c] \in Seq(AlignedPackets)
        PROVE  /\ IsPrefix(taken'[c], PacketsRead(sent'[c]))
               /\ SlipBytes(Read(c)', wire'[c]) = Slip(<<>>, FALSE, PacketsRead(sent'[c]))
    <3> DEFINE R == PacketsRead(sent[c])
    <3>1. sent[c] \in Seq(AlignedPackets) /\ p \in AlignedPackets
      <4>1. AlignedPackets \in SUBSET Packets /\ Append(sent[c], p) \in Seq(AlignedPackets)
        BY <1>9, <2>2 DEF AlignedPackets
      <4> QED
        BY <1>5, <4>1, AppendedAligned
    <3>2. PacketsRead(sent'[c]) = Append(R, packetAsRead[p])
      BY <1>9, <3>1, PacketLists
    <3>3. packetAsRead[p] # <<>> /\ processOscData(packetData(p)) = packetAsRead[p]
      BY <3>1, PacketIsRead
    <3>4. SlipBytes(Read(c), wire[c]) = Slip(<<>>, FALSE, R)
      BY <1>1, <1>4, <3>1 DEF OscReadInv
    <3>5. Read(c)' = Read(c)
      BY <1>4 DEF Read
    <3>6. SlipBytes(Read(c), wire'[c]) = SlipBytes(SlipBytes(Read(c), wire[c]), frame)
      BY <1>3, <1>5, <1>9, SlipJoined
    <3>7. SlipBytes(Slip(<<>>, FALSE, R), frame) = Slip(<<>>, FALSE, Give(R, processOscData(packetData(p))))
      BY <1>2, FrameIsRead DEF frame
    <3>8. Give(R, processOscData(packetData(p))) = Append(R, packetAsRead[p])
      BY <3>3 DEF Give
    <3>9. SlipBytes(Read(c), wire'[c]) = Slip(<<>>, FALSE, PacketsRead(sent'[c]))
      BY <3>2, <3>4, <3>6, <3>7, <3>8
    <3>10. Read(c) \in SlipStates /\ wire'[c] \in OscData /\ Read(c).packets = taken[c]
      BY <1>1, <1>4, <1>6, <1>9, ReadIsState DEF Read, Slip
    <3>11. IsPrefix(taken[c], PacketsRead(sent'[c]))
      BY <3>9, <3>10, ComesInFront
    <3> QED
      BY <1>4, <3>5, <3>9, <3>11
  <2> QED
    BY <2>1, <2>2 DEF OscReadInv
<1>12. OscDatagramInv'
  BY <1>1, <1>4, <1>5, <1>8 DEF OscDatagramInv, Receivers
<1> QED
  BY <1>7, <1>10, <1>11, <1>12 DEF OscInv

\* The elements of a list with one more.
LEMMA AppendedRange ==
  ASSUME NEW S, NEW s \in Seq(S), NEW x \in S
  PROVE  /\ \A y \in Range(s) : y \in Range(Append(s, x))
         /\ \A i \in DOMAIN Append(s, x) :
              (i \in DOMAIN s /\ Append(s, x)[i] = s[i]) \/ Append(s, x)[i] = x
<1> DEFINE t == Append(s, x)
           n == Len(s)
<1>1. n \in Nat /\ DOMAIN s = 1..n /\ t \in Seq(S) /\ Len(t) = n + 1
  BY AppendProperties, LenProperties
<1>2. (\A i \in 1..n : t[i] = s[i]) /\ t[n + 1] = x
  BY AppendProperties
<1>3. DOMAIN t = 1..(n + 1)
  BY <1>1, LenProperties
<1> HIDE DEF t, n
<1>4. ASSUME NEW i \in DOMAIN s PROVE s[i] \in Range(t)
  <2>1. i \in DOMAIN t /\ t[i] = s[i]
    BY <1>1, <1>2, <1>3
  <2> QED
    BY <2>1 DEF Range
<1>5. \A y \in Range(s) : y \in Range(t)
  BY <1>4 DEF Range
<1>6. \A i \in DOMAIN t : (i \in DOMAIN s /\ t[i] = s[i]) \/ t[i] = x
  BY <1>1, <1>2, <1>3
<1> QED
  BY <1>5, <1>6 DEF t

LEMMA OscSentAsDatagram ==
  ASSUME OscInv, NEW p \in Packets, SendDatagram(p)
  PROVE  OscInv'
<1>1. OscTypeOK /\ OscTagsInv /\ OscReadInv /\ OscDatagramInv
  BY DEF OscInv
<1>2. /\ sent' = [sent EXCEPT ![Udp] = Append(sent[Udp], p)]
      /\ UNCHANGED <<wire, active, tagOf, _activeIndex, _activeTcpSockets, _activeData, _activeState,
                     taken>>
  BY DEF SendDatagram
<1>3. Udp \in Receivers /\ sent[Udp] \in Seq(Packets) /\ Append(sent[Udp], p) \in Seq(Packets)
  BY <1>1, AppendProperties DEF OscTypeOK, Receivers
<1>4. OscTypeOK'
  BY <1>1, <1>2, <1>3 DEF OscTypeOK, Tags
<1>5. (\A c \in Peers : sent'[c] = sent[c]) /\ sent'[Udp] = Append(sent[Udp], p)
  BY <1>1, <1>2, <1>3, OscAssumption DEF OscTypeOK, Receivers
<1>6. OscTagsInv'
  BY <1>1, <1>2, <1>5 DEF OscTagsInv
<1>7. OscReadInv'
  BY <1>1, <1>2, <1>5 DEF OscReadInv, Read
<1>8. OscDatagramInv'
  <2>1. ASSUME sent'[Udp] \in Seq(AlignedPackets), NEW i \in DOMAIN taken[Udp]
        PROVE  \E q \in Range(sent'[Udp]) : taken[Udp][i] = packetAsRead[q]
    <3>1. AlignedPackets \in SUBSET Packets /\ Append(sent[Udp], p) \in Seq(AlignedPackets)
      BY <1>5, <2>1 DEF AlignedPackets
    <3>2. sent[Udp] \in Seq(AlignedPackets)
      BY <1>3, <3>1, AppendedAligned
    <3>3. PICK q \in Range(sent[Udp]) : taken[Udp][i] = packetAsRead[q]
      BY <1>1, <2>1, <3>2 DEF OscDatagramInv
    <3>4. q \in Range(sent'[Udp])
      BY <1>3, <1>5, <3>3, AppendedRange
    <3> QED
      BY <3>3, <3>4
  <2> QED
    BY <1>2, <2>1 DEF OscDatagramInv
<1> QED
  BY <1>4, <1>6, <1>7, <1>8 DEF OscInv

LEMMA OscDatagramReceived ==
  ASSUME OscInv, NEW p \in Packets, didReceiveDatagram(p)
  PROVE  OscInv'
<1> DEFINE given == processOscData(packetData(p))
           P == Give(taken[Udp], given)
<1>1. OscTypeOK /\ OscTagsInv /\ OscReadInv /\ OscDatagramInv
  BY DEF OscInv
<1>2. /\ taken' = [taken EXCEPT ![Udp] = P]
      /\ Contains(sent[Udp], p)
      /\ UNCHANGED <<wire, active, tagOf, _activeIndex, _activeTcpSockets, _activeData, _activeState,
                     sent>>
  BY DEF didReceiveDatagram
<1>3. Udp \in Receivers /\ taken[Udp] \in Seq(GivenPackets) /\ sent[Udp] \in Seq(Packets)
  BY <1>1 DEF OscTypeOK, Receivers
<1>4. packetData(p) \in OscData
  BY PacketIsRead
<1>5. P \in Seq(GivenPackets) /\ given \in GivenPackets
  BY <1>3, <1>4, GiveGrows DEF GivenPackets
<1>6. P = taken[Udp] \/ P = Append(taken[Udp], given)
  BY DEF Give
<1> HIDE DEF P
<1>7. OscTypeOK'
  BY <1>1, <1>2, <1>3, <1>5 DEF OscTypeOK, Tags
<1>8. (\A c \in Peers : taken'[c] = taken[c]) /\ taken'[Udp] = P
  BY <1>1, <1>2, <1>3, OscAssumption DEF OscTypeOK, Receivers
<1>9. OscTagsInv'
  BY <1>1, <1>2, <1>8 DEF OscTagsInv
<1>10. OscReadInv'
  BY <1>1, <1>2, <1>8 DEF OscReadInv, Read
<1>11. OscDatagramInv'
  <2>1. ASSUME sent[Udp] \in Seq(AlignedPackets), NEW i \in DOMAIN P
        PROVE  \E q \in Range(sent[Udp]) : P[i] = packetAsRead[q]
    <3>1. p \in Range(sent[Udp]) /\ p \in AlignedPackets
      <4>1. PICK k \in DOMAIN sent[Udp] : sent[Udp][k] = p
        <5>1. DOMAIN sent[Udp] = 1..Len(sent[Udp])
          BY <1>3, LenProperties
        <5> QED
          BY <1>2, <5>1 DEF Contains
      <4>2. k \in 1..Len(sent[Udp])
        BY <1>3, LenProperties
      <4>3. p \in AlignedPackets
        BY <2>1, <4>1, <4>2, ElementOfSeq
      <4> QED
        BY <4>1, <4>3 DEF Range
    <3>2. given = packetAsRead[p]
      BY <3>1, PacketIsRead
    <3> HIDE DEF given
    <3>3. \A k \in DOMAIN taken[Udp] : \E q \in Range(sent[Udp]) : taken[Udp][k] = packetAsRead[q]
      BY <1>1, <2>1 DEF OscDatagramInv
    <3>4. (i \in DOMAIN taken[Udp] /\ P[i] = taken[Udp][i]) \/ P[i] = given
      BY <1>3, <1>5, <1>6, AppendedRange
    <3> QED
      BY <3>1, <3>2, <3>3, <3>4
  <2> QED
    BY <1>2, <1>8, <2>1 DEF OscDatagramInv
<1> QED
  BY <1>7, <1>9, <1>10, <1>11 DEF OscInv

LEMMA OscAccepted ==
  ASSUME OscInv, NEW c \in Peers, didAcceptNewSocket(c)
  PROVE  OscInv'
<1> DEFINE tag == _activeIndex
           new == [socket |-> c, dangling_ESC |-> FALSE]
<1>1. OscTypeOK /\ OscTagsInv /\ OscReadInv /\ OscDatagramInv
  BY DEF OscInv
<1>2. /\ c \notin active /\ c \notin DOMAIN tagOf
      /\ active' = active \cup {c}
      /\ tagOf' = [d \in DOMAIN tagOf \cup {c} |-> IF d = c THEN tag ELSE tagOf[d]]
      /\ _activeTcpSockets' =
           [t \in DOMAIN _activeTcpSockets \cup {tag} |-> IF t = tag THEN c ELSE _activeTcpSockets[t]]
      /\ _activeData' = [t \in DOMAIN _activeData \cup {tag} |-> IF t = tag THEN <<>> ELSE _activeData[t]]
      /\ _activeState' = [t \in DOMAIN _activeState \cup {tag} |-> IF t = tag THEN new ELSE _activeState[t]]
      /\ _activeIndex' = _activeIndex + 1
      /\ UNCHANGED <<wire, sent, taken>>
  BY DEF didAcceptNewSocket, NewTag, With
<1>3. /\ tag \in Nat /\ (\A d \in DOMAIN tagOf : tagOf[d] \in Nat /\ tagOf[d] < tag)
      /\ active \subseteq DOMAIN tagOf /\ DOMAIN tagOf \subseteq Peers
  BY <1>1 DEF OscTypeOK, OscTagsInv
<1>4. \A d \in active : d # c /\ tagOf[d] # tag
  BY <1>2, <1>3
<1>5. tagOf'[c] = tag /\ (\A d \in DOMAIN tagOf : tagOf'[d] = tagOf[d]) /\ DOMAIN tagOf' = DOMAIN tagOf \cup {c}
  BY <1>2
<1>6. Tags' = Tags \cup {tag} /\ tag \notin Tags
  <2>1. Tags' = {tagOf'[d] : d \in active \cup {c}}
    BY <1>2 DEF Tags
  <2> QED
    BY <1>3, <1>4, <1>5, <2>1 DEF Tags
<1>7. new \in ActiveStates /\ <<>> \in OscData
  BY NoData DEF ActiveStates
<1>8. DOMAIN _activeTcpSockets = Tags /\ DOMAIN _activeData = Tags /\ DOMAIN _activeState = Tags
  BY <1>1 DEF OscTypeOK
<1>9. /\ _activeTcpSockets' \in [Tags' -> Peers] /\ _activeData' \in [Tags' -> OscData]
      /\ _activeState' \in [Tags' -> ActiveStates]
  <2> HIDE DEF new, tag
  <2> QED
    BY <1>1, <1>2, <1>6, <1>7, <1>8 DEF OscTypeOK
<1>10. tagOf' \in [DOMAIN tagOf' -> Nat] /\ _activeIndex' \in Nat /\ active' \subseteq DOMAIN tagOf'
       /\ DOMAIN tagOf' \subseteq Peers
  BY <1>2, <1>3, <1>5
<1>11. OscTypeOK'
  BY <1>1, <1>2, <1>9, <1>10 DEF OscTypeOK
<1>12. /\ _activeTcpSockets'[tag] = c /\ _activeData'[tag] = <<>> /\ _activeState'[tag] = new
       /\ \A d \in active : LET t == tagOf[d] IN
            /\ _activeTcpSockets'[t] = _activeTcpSockets[t] /\ _activeData'[t] = _activeData[t]
            /\ _activeState'[t] = _activeState[t]
  <2> HIDE DEF new, tag
  <2>1. \A d \in active : tagOf[d] \in Tags /\ tagOf[d] # tag
    BY <1>4 DEF Tags
  <2> QED
    BY <1>2, <1>8, <2>1
<1>13. OscTagsInv'
  <2>1. \A d \in DOMAIN tagOf' : tagOf'[d] < _activeIndex'
    BY <1>2, <1>3, <1>5
  <2>2. \A d, e \in active' : tagOf'[d] = tagOf'[e] => d = e
    BY <1>1, <1>2, <1>3, <1>4, <1>5 DEF OscTagsInv
  <2>3. \A d \in active' : _activeTcpSockets'[tagOf'[d]] = d /\ _activeState'[tagOf'[d]].socket = d
    <3>1. _activeTcpSockets'[tagOf'[c]] = c /\ _activeState'[tagOf'[c]].socket = c
      BY <1>5, <1>12
    <3>2. ASSUME NEW d \in active
          PROVE  _activeTcpSockets'[tagOf'[d]] = d /\ _activeState'[tagOf'[d]].socket = d
      <4>1. _activeTcpSockets[tagOf[d]] = d /\ _activeState[tagOf[d]].socket = d
        BY <1>1 DEF OscTagsInv
      <4>2. tagOf'[d] = tagOf[d]
        BY <1>3, <1>5
      <4> QED
        BY <1>12, <4>1, <4>2
    <3> QED
      BY <1>2, <3>1, <3>2
  <2>4. \A d \in Peers \ active' : wire'[d] = <<>>
    BY <1>1, <1>2 DEF OscTagsInv
  <2>5. \A d \in Peers \ DOMAIN tagOf' : sent'[d] = <<>> /\ taken'[d] = <<>>
    BY <1>1, <1>2, <1>5 DEF OscTagsInv
  <2> QED
    BY <2>1, <2>2, <2>3, <2>4, <2>5 DEF OscTagsInv
<1>14. OscReadInv'
  <2>1. ASSUME NEW d \in Peers, sent[d] \in Seq(AlignedPackets)
        PROVE  IsPrefix(taken[d], PacketsRead(sent[d]))
    BY <1>1, <2>1 DEF OscReadInv
  <2>2. ASSUME NEW d \in active, sent[d] \in Seq(AlignedPackets)
        PROVE  SlipBytes(Read(d)', wire[d]) = Slip(<<>>, FALSE, PacketsRead(sent[d]))
    <3>1. Read(d)' = Read(d) /\ d \in Peers
      BY <1>2, <1>3, <1>5, <1>12 DEF Read
    <3> QED
      BY <1>1, <2>2, <3>1 DEF OscReadInv
  <2>3. SlipBytes(Read(c)', wire[c]) = Slip(<<>>, FALSE, PacketsRead(sent[c]))
    <3> DEFINE e == <<>>
    <3>1. e \in Seq(AlignedPackets) /\ e \in Seq(Octet) /\ e = <<>>
      BY EmptySeq
    <3>2. wire[c] = e /\ sent[c] = e /\ taken[c] = e
      BY <1>1, <1>2 DEF OscTagsInv
    <3>3. Read(c)' = Slip(e, FALSE, e)
      BY <1>2, <1>5, <1>12, <3>2 DEF Read
    <3> HIDE DEF e
    <3>4. PacketsRead(e) = e
      BY <3>1, PacketLists
    <3>5. SlipBytes(Slip(e, FALSE, e), e) = Slip(e, FALSE, e)
      BY <3>1, SlipBytesMore
    <3> QED
      BY <3>1, <3>2, <3>3, <3>4, <3>5
  <2> QED
    BY <1>2, <2>1, <2>2, <2>3 DEF OscReadInv
<1>15. OscDatagramInv'
  BY <1>1, <1>2 DEF OscDatagramInv
<1> QED
  BY <1>11, <1>13, <1>14, <1>15 DEF OscInv

LEMMA OscDisconnected ==
  ASSUME OscInv, NEW c \in Peers, socketDidDisconnect(c)
  PROVE  OscInv'
<1> DEFINE tag == tagOf[c]
<1>1. OscTypeOK /\ OscTagsInv /\ OscReadInv /\ OscDatagramInv
  BY DEF OscInv
<1>2. c \in active
  BY DEF socketDidDisconnect
<1>3. DOMAIN _activeTcpSockets = Tags /\ DOMAIN _activeData = Tags /\ DOMAIN _activeState = Tags
  BY <1>1 DEF OscTypeOK
<1>4. {t \in DOMAIN _activeTcpSockets : _activeTcpSockets[t] = c} = {tag}
  <2>1. tag \in Tags /\ _activeTcpSockets[tag] = c
    BY <1>1, <1>2 DEF Tags, OscTagsInv
  <2>2. ASSUME NEW t \in Tags, _activeTcpSockets[t] = c PROVE t = tag
    <3>1. PICK d \in active : t = tagOf[d]
      BY DEF Tags
    <3> QED
      BY <1>1, <2>2, <3>1 DEF OscTagsInv
  <2> QED
    BY <1>3, <2>1, <2>2
<1>5. (CHOOSE t \in {tag} : TRUE) = tag
  OBVIOUS
<1> HIDE DEF tag
<1>6. /\ active' = active \ {c} /\ wire' = [wire EXCEPT ![c] = <<>>]
      /\ _activeTcpSockets' = [t \in DOMAIN _activeTcpSockets \ {tag} |-> _activeTcpSockets[t]]
      /\ _activeData' = [t \in DOMAIN _activeData \ {tag} |-> _activeData[t]]
      /\ _activeState' = [t \in DOMAIN _activeState \ {tag} |-> _activeState[t]]
      /\ UNCHANGED <<tagOf, _activeIndex, sent, taken>>
  BY <1>4, <1>5 DEF socketDidDisconnect, Without
<1>7. Tags' = Tags \ {tag}
  <2>1. Tags' = {tagOf[d] : d \in active \ {c}}
    BY <1>6 DEF Tags
  <2>2. \A d \in active : tagOf[d] = tag => d = c
    BY <1>1, <1>2 DEF OscTagsInv, tag
  <2> QED
    BY <2>1, <2>2 DEF Tags, tag
<1>8. /\ _activeTcpSockets' \in [Tags' -> Peers] /\ _activeData' \in [Tags' -> OscData]
      /\ _activeState' \in [Tags' -> ActiveStates]
  BY <1>1, <1>3, <1>6, <1>7 DEF OscTypeOK
<1>9. wire' \in [Peers -> OscData] /\ wire'[c] = <<>> /\ \A d \in Peers : d # c => wire'[d] = wire[d]
  BY <1>1, <1>6, NoData DEF OscTypeOK
<1>10. OscTypeOK'
  BY <1>1, <1>6, <1>8, <1>9 DEF OscTypeOK
<1>11. ASSUME NEW d \in active'
       PROVE  LET t == tagOf[d] IN
              /\ d \in active /\ d # c /\ d \in Peers /\ t \in Tags
              /\ _activeTcpSockets'[t] = _activeTcpSockets[t] /\ _activeData'[t] = _activeData[t]
              /\ _activeState'[t] = _activeState[t]
  <2>1. d \in active /\ d # c /\ d \in Peers
    BY <1>1, <1>6 DEF OscTypeOK
  <2>2. tagOf[d] \in Tags /\ tagOf[d] # tag
    BY <1>1, <1>2, <2>1 DEF Tags, OscTagsInv, tag
  <2> QED
    BY <1>3, <1>6, <2>1, <2>2
<1>12. OscTagsInv'
  <2>1. \A d \in DOMAIN tagOf' : tagOf'[d] < _activeIndex'
    BY <1>1, <1>6 DEF OscTagsInv
  <2>2. \A d, e \in active' : tagOf'[d] = tagOf'[e] => d = e
    BY <1>1, <1>6, <1>11 DEF OscTagsInv
  <2>3. \A d \in active' : _activeTcpSockets'[tagOf'[d]] = d /\ _activeState'[tagOf'[d]].socket = d
    <3>1. ASSUME NEW d \in active'
          PROVE  _activeTcpSockets'[tagOf[d]] = d /\ _activeState'[tagOf[d]].socket = d
      <4>1. _activeTcpSockets[tagOf[d]] = d /\ _activeState[tagOf[d]].socket = d
        BY <1>1, <1>11 DEF OscTagsInv
      <4> QED
        BY <1>11, <4>1
    <3> QED
      BY <1>6, <3>1
  <2>4. \A d \in Peers \ active' : wire'[d] = <<>>
    BY <1>1, <1>6, <1>9 DEF OscTagsInv
  <2>5. \A d \in Peers \ DOMAIN tagOf' : sent'[d] = <<>> /\ taken'[d] = <<>>
    BY <1>1, <1>6 DEF OscTagsInv
  <2> QED
    BY <2>1, <2>2, <2>3, <2>4, <2>5 DEF OscTagsInv
<1>13. OscReadInv'
  <2>1. ASSUME NEW d \in Peers, sent[d] \in Seq(AlignedPackets)
        PROVE  IsPrefix(taken[d], PacketsRead(sent[d]))
    BY <1>1, <2>1 DEF OscReadInv
  <2>2. ASSUME NEW d \in active', sent[d] \in Seq(AlignedPackets)
        PROVE  SlipBytes(Read(d)', wire'[d]) = Slip(<<>>, FALSE, PacketsRead(sent[d]))
    <3>1. Read(d)' = Read(d) /\ d \in Peers /\ d \in active /\ wire'[d] = wire[d]
      BY <1>6, <1>9, <1>11 DEF Read
    <3> QED
      BY <1>1, <2>2, <3>1 DEF OscReadInv
  <2> QED
    BY <1>6, <2>1, <2>2 DEF OscReadInv
<1>14. OscDatagramInv'
  BY <1>1, <1>6 DEF OscDatagramInv
<1> QED
  BY <1>10, <1>12, <1>13, <1>14 DEF OscInv

LEMMA OscDataRead ==
  ASSUME OscInv, NEW c \in Peers, NEW n \in ReadSizes, didReadData(c, n)
  PROVE  OscInv'
<1> DEFINE tag == tagOf[c]
           m == Min({n, Len(wire[c])})
           part == SubSeq(wire[c], 1, m)
           rest == From(wire[c], m)
           read == SlipBytes(Read(c), part)
<1>1. OscTypeOK /\ OscTagsInv /\ OscReadInv /\ OscDatagramInv
  BY DEF OscInv
<1>2. c \in active /\ wire[c] # <<>> /\ wire[c] \in OscData
  BY <1>1 DEF didReadData, OscTypeOK
<1>3. Read(c) \in SlipStates /\ tag \in Tags /\ c \in Receivers /\ c # Udp
  BY <1>1, <1>2, ReadIsState, OscAssumption DEF Receivers
<1>4. m \in 1..Len(wire[c])
  <2>1. Len(wire[c]) \in Nat /\ Len(wire[c]) # 0
    BY <1>2, NoData, LenProperties DEF OscData
  <2>2. n \in Nat \ {0}
    BY OscAssumption
  <2> DEFINE T == {n, Len(wire[c])}
  <2>3. T \subseteq Nat /\ T # {}
    BY <2>1, <2>2
  <2>4. Min(T) \in T /\ \A y \in T : Min(T) <= y
    <3> HIDE DEF T
    <3> QED
      BY <2>3, LeastElement
  <2> QED
    BY <2>1, <2>2, <2>4
<1>5. part \in OscData /\ rest \in OscData /\ part \o rest = wire[c]
  <2> HIDE DEF m
  <2> QED
    BY <1>2, <1>4, ReadInTwo
<1>6. _activeState[tag].socket = c /\ _activeTcpSockets[tag] = c
  BY <1>1, <1>2 DEF OscTagsInv
<1>7. translateSlipData(tag, part) = read
  BY <1>6 DEF translateSlipData, Read, Slip
<1>8. /\ wire' = [wire EXCEPT ![c] = rest]
      /\ _activeData' = [_activeData EXCEPT ![tag] = read.data]
      /\ _activeState' = [_activeState EXCEPT ![tag].dangling_ESC = read.dangling_ESC]
      /\ taken' = [taken EXCEPT ![c] = read.packets]
      /\ UNCHANGED <<active, tagOf, _activeIndex, _activeTcpSockets, sent>>
  BY <1>6, <1>7 DEF didReadData, TakeRead
<1>9. read \in SlipStates
  <2> HIDE DEF part
  <2> QED
    BY <1>3, <1>5, BytesCome DEF Comes
<1> HIDE DEF read, part, rest, m
<1>10. /\ read.data \in OscData /\ read.dangling_ESC \in BOOLEAN /\ read.packets \in Seq(GivenPackets)
       /\ read = Slip(read.data, read.dangling_ESC, read.packets)
  BY <1>9 DEF SlipStates, Slip
<1> HIDE DEF tag
<1>11. /\ wire' \in [Peers -> OscData] /\ wire'[c] = rest
       /\ \A d \in Peers : d # c => wire'[d] = wire[d]
  BY <1>1, <1>5, <1>8 DEF OscTypeOK
<1>12. /\ taken' \in [Receivers -> Seq(GivenPackets)] /\ taken'[c] = read.packets
       /\ \A d \in Receivers : d # c => taken'[d] = taken[d]
  BY <1>1, <1>3, <1>8, <1>10 DEF OscTypeOK
<1>13. /\ _activeData' \in [Tags -> OscData] /\ _activeData'[tag] = read.data
       /\ \A t \in Tags : t # tag => _activeData'[t] = _activeData[t]
  BY <1>1, <1>3, <1>8, <1>10 DEF OscTypeOK
<1>14. /\ _activeState' \in [Tags -> ActiveStates] /\ _activeState'[tag].dangling_ESC = read.dangling_ESC
       /\ \A t \in Tags : _activeState'[t].socket = _activeState[t].socket
       /\ \A t \in Tags : t # tag => _activeState'[t] = _activeState[t]
  BY <1>1, <1>3, <1>8, <1>10 DEF OscTypeOK, ActiveStates
<1>15. Tags' = Tags
  BY <1>8 DEF Tags
<1>16. OscTypeOK'
  BY <1>1, <1>8, <1>11, <1>12, <1>13, <1>14, <1>15 DEF OscTypeOK
<1>17. OscTagsInv'
  <2>1. \A d \in active : tagOf[d] \in Tags
    BY DEF Tags
  <2>2. \A d \in active' : _activeTcpSockets'[tagOf'[d]] = d /\ _activeState'[tagOf'[d]].socket = d
    BY <1>1, <1>8, <1>14, <2>1 DEF OscTagsInv
  <2>3. \A d \in Peers \ active' : wire'[d] = <<>>
    BY <1>1, <1>2, <1>8, <1>11 DEF OscTagsInv
  <2>4. \A d \in Peers \ DOMAIN tagOf' : sent'[d] = <<>> /\ taken'[d] = <<>>
    BY <1>1, <1>2, <1>8, <1>12 DEF OscTagsInv, OscTypeOK, Receivers
  <2> QED
    BY <1>1, <1>8, <2>2, <2>3, <2>4 DEF OscTagsInv
<1>18. Read(c)' = read
  BY <1>8, <1>10, <1>12, <1>13, <1>14 DEF Read, tag
<1>19. OscReadInv'
  <2>1. ASSUME sent[c] \in Seq(AlignedPackets)
        PROVE  /\ IsPrefix(taken'[c], PacketsRead(sent[c]))
               /\ SlipBytes(Read(c)', wire'[c]) = Slip(<<>>, FALSE, PacketsRead(sent[c]))
    <3>1. SlipBytes(Read(c), wire[c]) = Slip(<<>>, FALSE, PacketsRead(sent[c]))
      BY <1>1, <1>2, <2>1 DEF OscReadInv
    <3>2. SlipBytes(Read(c), part \o rest) = SlipBytes(read, rest)
      BY <1>5, SlipJoined DEF read
    <3>3. SlipBytes(read, rest) = Slip(<<>>, FALSE, PacketsRead(sent[c]))
      BY <1>5, <3>1, <3>2
    <3>4. IsPrefix(read.packets, PacketsRead(sent[c]))
      BY <1>5, <1>9, <3>3, ComesInFront
    <3> QED
      BY <1>11, <1>12, <1>18, <3>3, <3>4
  <2>2. ASSUME NEW d \in Peers, d # c, sent[d] \in Seq(AlignedPackets)
        PROVE  /\ IsPrefix(taken'[d], PacketsRead(sent[d]))
               /\ d \in active => SlipBytes(Read(d)', wire'[d]) = Slip(<<>>, FALSE, PacketsRead(sent[d]))
    <3>1. taken'[d] = taken[d] /\ wire'[d] = wire[d]
      BY <1>11, <1>12, <2>2 DEF Receivers
    <3>2. ASSUME d \in active PROVE Read(d)' = Read(d)
      <4>1. tagOf[d] \in Tags /\ tagOf[d] # tag
        BY <1>1, <1>2, <2>2, <3>2 DEF Tags, OscTagsInv, tag
      <4> QED
        BY <1>8, <1>13, <1>14, <3>1, <4>1 DEF Read
    <3> QED
      BY <1>1, <2>2, <3>1, <3>2 DEF OscReadInv
  <2> QED
    BY <1>8, <2>1, <2>2 DEF OscReadInv
<1>20. OscDatagramInv'
  BY <1>1, <1>3, <1>8, <1>12 DEF OscDatagramInv, Receivers
<1> QED
  BY <1>16, <1>17, <1>19, <1>20 DEF OscInv

LEMMA OscSteps ==
  ASSUME OscInv, [ONext]_oscvars
  PROVE  OscInv'
<1>1. ASSUME NEW p \in Packets, SendDatagram(p) PROVE OscInv'
  BY <1>1, OscSentAsDatagram
<1>2. ASSUME NEW p \in Packets, didReceiveDatagram(p) PROVE OscInv'
  BY <1>2, OscDatagramReceived
<1>3. ASSUME NEW c \in Peers, NEW p \in Packets, SendOverTcp(c, p) PROVE OscInv'
  BY <1>3, OscSentOverTcp
<1>4. ASSUME NEW c \in Peers, didAcceptNewSocket(c) PROVE OscInv'
  BY <1>4, OscAccepted
<1>5. ASSUME NEW c \in Peers, socketDidDisconnect(c) PROVE OscInv'
  BY <1>5, OscDisconnected
<1>6. ASSUME NEW c \in Peers, NEW n \in ReadSizes, didReadData(c, n) PROVE OscInv'
  BY <1>6, OscDataRead
<1>7. CASE UNCHANGED oscvars
  <2>1. UNCHANGED <<wire, active, tagOf, _activeIndex, _activeTcpSockets, _activeData, _activeState,
                    sent, taken>>
    BY <1>7 DEF oscvars
  <2>2. OscTypeOK' /\ OscTagsInv'
    BY <2>1 DEF OscInv, OscTypeOK, OscTagsInv, Tags
  <2>3. OscReadInv' /\ OscDatagramInv'
    BY <2>1 DEF OscInv, OscReadInv, OscDatagramInv, Read
  <2> QED
    BY <2>2, <2>3 DEF OscInv
<1> QED
  BY <1>1, <1>2, <1>3, <1>4, <1>5, <1>6, <1>7 DEF ONext

LEMMA OscImplies ==
  ASSUME OscInv
  PROVE  TakesWhatWasSent
<1>1. OscTypeOK /\ OscReadInv /\ OscDatagramInv
  BY DEF OscInv
<1>2. ASSUME NEW c \in Peers, sent[c] \in Seq(AlignedPackets)
      PROVE  /\ IsPrefix(taken[c], PacketsRead(sent[c]))
             /\ c \in active /\ wire[c] = <<>> => taken[c] = PacketsRead(sent[c])
  <2>1. IsPrefix(taken[c], PacketsRead(sent[c]))
    BY <1>1, <1>2 DEF OscReadInv
  <2>2. ASSUME c \in active, wire[c] = <<>> PROVE taken[c] = PacketsRead(sent[c])
    <3>1. SlipBytes(Read(c), wire[c]) = Slip(<<>>, FALSE, PacketsRead(sent[c]))
      BY <1>1, <1>2, <2>2 DEF OscReadInv
    <3>2. Read(c) \in SlipStates /\ wire[c] \in OscData /\ Read(c).packets = taken[c]
      BY <1>1, <2>2, ReadIsState DEF OscTypeOK, Read, Slip
    <3> QED
      BY <2>2, <3>1, <3>2, ComesInFront
  <2> QED
    BY <2>1, <2>2
<1> QED
  BY <1>1, <1>2 DEF TakesWhatWasSent, PacketsRead, OscDatagramInv

\* Whatever packets are sent over whatever connections, and however many of them there
\* are: the delegate of F53OSCServer takes over each connection what was sent over it.
THEOREM OscServerTakesWhatWasSent == OSpec => []TakesWhatWasSent
<1>1. OInit => OscInv
  BY OscStarts
<1>2. OscInv /\ [ONext]_oscvars => OscInv'
  BY OscSteps
<1>3. OscInv => TakesWhatWasSent
  BY OscImplies
<1> QED
  BY <1>1, <1>2, <1>3, PTL DEF OSpec
=============================================================================
