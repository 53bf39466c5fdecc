---------------------------- MODULE OscStream ----------------------------
(***************************************************************************)
(* OSC over the network with F53OSC: F53OSCSocket sends packets, in SLIP   *)
(* frames over TCP, F53OSCServer puts together what TCP has cut, for each  *)
(* of its connections by the tag of the read, and gives the messages to    *)
(* its delegate together with the socket to reply to.                      *)
(*                                                                         *)
(* All delegate methods run on the main queue, one at a time, and the next *)
(* read of a connection is asked for by the one before.                    *)
(***************************************************************************)
EXTENDS OscMessage

CONSTANTS
  Udp,       \* stands for the socket that receives datagrams
  Peers,     \* TCP connections that may be made
  Packets,   \* packets that are sent: [bundle, messages]
  ReadSizes, \* bound: how many bytes a read takes, if there are as many
  MaxSent    \* bound: packets sent

ASSUME OscAssumption ==
  /\ ReadSizes \subseteq Nat \ {0} /\ MaxSent \in Nat /\ Udp \notin Peers
  /\ \A p \in Packets : /\ p.bundle \in BOOLEAN
                        /\ p.messages \in Seq(OscMessages) \ {<<>>}
                        /\ ~p.bundle => Len(p.messages) = 1

VARIABLES
  wire,      \* bytes sent over a connection and not received
  active,    \* connections that are up
  tagOf,     \* the tag of the reads of a connection
  _activeIndex,
  _activeTcpSockets, _activeData, _activeState, \* by tag
  \* history
  sent,      \* packets sent over each connection, and as datagrams
  taken      \* what the delegate was given with each reply socket, packet by packet

oscvars == <<wire, active, tagOf, _activeIndex, _activeTcpSockets, _activeData, _activeState,
             sent, taken>>

END == 192
ESC == 219
ESC_END == 220
ESC_ESC == 221

Empty == [tag \in {} |-> 0]

OInit ==
  /\ wire = [c \in Peers |-> <<>>]
  /\ active = {}
  /\ tagOf = Empty
  /\ _activeIndex = 0
  /\ _activeTcpSockets = Empty /\ _activeData = Empty /\ _activeState = Empty
  /\ sent = [c \in Peers \cup {Udp} |-> <<>>]
  /\ taken = [c \in Peers \cup {Udp} |-> <<>>]

-----------------------------------------------------------------------------
(* F53OSCSocket sends.                                                     *)

packetData(p) ==
  IF p.bundle THEN bundleData([i \in DOMAIN p.messages |-> messageData(p.messages[i])])
  ELSE messageData(p.messages[1])

slipData(bytes) ==
  <<END>> \o FlattenSeq([i \in DOMAIN bytes |->
               CASE bytes[i] = END -> <<ESC, ESC_END>>
                 [] bytes[i] = ESC -> <<ESC, ESC_ESC>>
                 [] OTHER          -> <<bytes[i]>>]) \o <<END>>

CountSent == FoldFunction(LAMBDA packets, n : n + Len(packets), 0, sent)

SendOverTcp(c, p) ==
  /\ CountSent < MaxSent
  /\ c \in active
  /\ wire' = [wire EXCEPT ![c] = @ \o slipData(packetData(p))]
  /\ sent' = [sent EXCEPT ![c] = Append(@, p)]
  /\ UNCHANGED <<active, tagOf, _activeIndex, _activeTcpSockets, _activeData, _activeState, taken>>

SendDatagram(p) ==
  /\ CountSent < MaxSent
  /\ sent' = [sent EXCEPT ![Udp] = Append(@, p)]
  /\ UNCHANGED <<wire, active, tagOf, _activeIndex, _activeTcpSockets, _activeData, _activeState,
                 taken>>

-----------------------------------------------------------------------------
(* F53OSCServer.                                                           *)

With(table, tag, entry) == [t \in DOMAIN table \cup {tag} |-> IF t = tag THEN entry ELSE table[t]]
Without(table, tag) == [t \in DOMAIN table \ {tag} |-> table[t]]

\* Mutant: the tag of a connection that is up is used again.
AcceptOnFreeTag(c) == Cardinality(active)

NewTag(c) == _activeIndex

didAcceptNewSocket(c) ==
  LET tag == NewTag(c) IN
  /\ c \notin active /\ c \notin DOMAIN tagOf
  /\ active' = active \cup {c}
  /\ tagOf' = With(tagOf, c, tag)
  /\ _activeTcpSockets' = With(_activeTcpSockets, tag, c)
  /\ _activeData' = With(_activeData, tag, <<>>)
  /\ _activeState' = With(_activeState, tag, [socket |-> c, dangling_ESC |-> FALSE])
  /\ _activeIndex' = _activeIndex + 1
  /\ UNCHANGED <<wire, sent, taken>>

\* What comes of a packet: nothing of an empty one, as between the two ENDs of frames.
Give(packets, messages) == IF messages = <<>> THEN packets ELSE Append(packets, messages)

\* A byte of SLIP data.  An ESC at the end of what was read is remembered with the
\* connection, one in the middle is resolved on the spot: the same.
SlipByte(state, byte) ==
  CASE state.dangling_ESC ->
         [state EXCEPT !.dangling_ESC = FALSE,
            !.data = Append(@, CASE byte = ESC_END -> END
                                 [] byte = ESC_ESC -> ESC
                                 [] OTHER          -> byte)]
    [] ~state.dangling_ESC /\ byte = END ->
         [state EXCEPT !.packets = Give(@, processOscData(state.data)), !.data = <<>>]
    [] ~state.dangling_ESC /\ byte = ESC -> [state EXCEPT !.dangling_ESC = TRUE]
    [] OTHER -> [state EXCEPT !.data = Append(@, byte)]

SlipBytes(start, bytes) ==
  LET state[n \in 0..Len(bytes)] ==
        IF n = 0 THEN start ELSE SlipByte(state[n - 1], bytes[n])
  IN  state[Len(bytes)]

translateSlipData(tag, bytes) ==
  SlipBytes([data |-> _activeData[tag], dangling_ESC |-> _activeState[tag].dangling_ESC,
             packets |-> taken[_activeState[tag].socket]], bytes)

TakeRead(tag, read) ==
  /\ _activeData' = [_activeData EXCEPT ![tag] = read.data]
  /\ _activeState' = [_activeState EXCEPT ![tag].dangling_ESC = read.dangling_ESC]
  /\ taken' = [taken EXCEPT ![_activeState[tag].socket] = read.packets]

\* Reads of a tag that has gone are ignored, and not followed by another.
didReadData(c, n) ==
  LET length == Min({n, Len(wire[c])}) IN
  /\ c \in active /\ wire[c] # <<>> /\ tagOf[c] \in DOMAIN _activeData
  /\ wire' = [wire EXCEPT ![c] = From(@, length)]
  /\ TakeRead(tagOf[c], translateSlipData(tagOf[c], SubSeq(wire[c], 1, length)))
  /\ UNCHANGED <<active, tagOf, _activeIndex, _activeTcpSockets, sent>>

\* The connection ends, at whichever end and with whatever was under way.  Its tag is
\* looked for by its socket.
socketDidDisconnect(c) ==
  LET tags == {t \in DOMAIN _activeTcpSockets : _activeTcpSockets[t] = c}
      tag == CHOOSE t \in tags : TRUE
  IN  /\ c \in active /\ tags # {}
      /\ active' = active \ {c}
      /\ wire' = [wire EXCEPT ![c] = <<>>]
      /\ _activeTcpSockets' = Without(_activeTcpSockets, tag)
      /\ _activeData' = Without(_activeData, tag)
      /\ _activeState' = Without(_activeState, tag)
      /\ UNCHANGED <<tagOf, _activeIndex, sent, taken>>

\* A datagram is a packet.  The network may lose, repeat and reorder datagrams.
didReceiveDatagram(p) ==
  /\ Contains(sent[Udp], p)
  /\ Len(taken[Udp]) < MaxSent
  /\ taken' = [taken EXCEPT ![Udp] = Give(@, processOscData(packetData(p)))]
  /\ UNCHANGED <<wire, active, tagOf, _activeIndex, _activeTcpSockets, _activeData, _activeState,
                 sent>>

-----------------------------------------------------------------------------
ONext ==
  \/ \E p \in Packets : SendDatagram(p) \/ didReceiveDatagram(p)
  \/ \E c \in Peers, p \in Packets : SendOverTcp(c, p)
  \/ \E c \in Peers : didAcceptNewSocket(c) \/ socketDidDisconnect(c)
  \/ \E c \in Peers : \E n \in ReadSizes : didReadData(c, n)

OSpec == OInit /\ [][ONext]_oscvars

-----------------------------------------------------------------------------
(* Property.                                                               *)

packetAsRead == [p \in Packets |-> [i \in DOMAIN p.messages |-> AsRead(p.messages[i])]]
AlignedPackets == {p \in Packets : \A i \in DOMAIN p.messages : IsAligned(p.messages[i])}

\* However TCP cuts the frames, between the two bytes of an escape too, and however the
\* reads of several connections alternate with each other and with connections that
\* come and go: what the delegate takes with the reply socket of a connection is what
\* was sent over that connection, packet by packet, whole and in order, and all of it
\* once everything is received.  A datagram gives what was sent.  This is so for
\* packets whose strings take as many words as they have characters for.
TakesWhatWasSent ==
  /\ \A c \in Peers : sent[c] \in Seq(AlignedPackets) =>
       LET packets == [i \in DOMAIN sent[c] |-> packetAsRead[sent[c][i]]]
       IN  /\ IsPrefix(taken[c], packets)
           /\ c \in active /\ wire[c] = <<>> => taken[c] = packets
  /\ sent[Udp] \in Seq(AlignedPackets) =>
       \A i \in DOMAIN taken[Udp] : \E p \in Range(sent[Udp]) : taken[Udp][i] = packetAsRead[p]
=============================================================================
