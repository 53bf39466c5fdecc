--------------------------- MODULE MCReassembly ---------------------------
(***************************************************************************)
(* The receivers that put together again what the network has cut, each by *)
(* itself: a behaviour is one of udpreceive~, of an OSC server, of         *)
(* httpreceive, or of the input of a tcpserver client.                     *)
(***************************************************************************)
EXTENDS MCUdpReceiveTilde, OscStream, HttpReceive, TcpServerInput

CONSTANTS c1, c2, c3

VARIABLE receiver

-----------------------------------------------------------------------------
(* OSC: numbers with the bytes that SLIP escapes, an address that fills    *)
(* its word, a string with a wide character, a bundle, and a string that   *)
(* takes more words than it has characters for.                            *)

Text(word) == [type |-> "s", value |-> word]
Blob(bytes) == [type |-> "b", value |-> bytes]
Integer(bytes) == [type |-> "i", value |-> bytes]
Float(bytes) == [type |-> "f", value |-> bytes]
To(address, args) == [address |-> address, args |-> args]
Alone(m) == [bundle |-> FALSE, messages |-> <<m>>]

MCPackets ==
  {Alone(To(<<47, 97>>, <<Integer(<<0, 0, 219, 192>>), Text(<<120, 233>>)>>)),
   Alone(To(<<47, 97>>, <<Text(<<233, 1729, 120>>), Integer(<<0, 0, 0, 1>>)>>)),
   [bundle |-> TRUE,
    messages |-> <<To(<<47, 98, 99, 100>>, <<>>),
                   To(<<47, 97>>, <<Blob(<<1>>), Float(<<192, 0, 220, 0>>)>>)>>]}

PeersAreAlike == Permutations(Peers)

-----------------------------------------------------------------------------
(* HTTP: with and without a message, a message that is announced by no     *)
(* field or in lower case, an answer to a HEAD request, one that is not    *)
(* HTTP, one without fields, one whose header x_status_buf cannot hold,    *)
(* and one of which a field does not fit into buf.                         *)

Length(n) == [name |-> "Content-Length", value |-> n, length |-> 1]
LowerCase(n) == [name |-> "content-length", value |-> n, length |-> 1]
Other == [name |-> "other", value |-> 0, length |-> 1]
TooLong == [name |-> "other", value |-> 0, length |-> 2]
Response(code, fields, n) ==
  [code |-> code, reason |-> 1, fields |-> fields, message |-> n]

MCResponses ==
  {Response(200, <<Other, Length(2)>>, 2), Response(304, <<Other>>, 0),
   Response(200, <<LowerCase(1)>>, 1), Response(200, <<Length(1)>>, 0),
   Response(0, <<Length(1)>>, 1), Response(200, <<>>, 0),
   Response(200, <<Other, Other, Length(1)>>, 1), Response(200, <<TooLong, Length(1)>>, 1)}

-----------------------------------------------------------------------------
Init ==
  /\ receiver \in {"udpreceive~", "OSC", "httpreceive", "tcpserver"}
  /\ RInit /\ OInit /\ HInit /\ IInit

Next ==
  /\ \/ receiver = "udpreceive~" /\ RNext /\ UNCHANGED <<oscvars, hvars, invars>>
     \/ receiver = "OSC" /\ ONext /\ UNCHANGED <<rvars, hvars, invars>>
     \/ receiver = "httpreceive" /\ HNext /\ UNCHANGED <<rvars, oscvars, invars>>
     \/ receiver = "tcpserver" /\ INext /\ UNCHANGED <<rvars, oscvars, hvars>>
  /\ UNCHANGED receiver

Spec == Init /\ [][Next]_<<receiver, rvars, oscvars, hvars, invars>>
=============================================================================
