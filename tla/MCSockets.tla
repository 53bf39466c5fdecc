----------------------------- MODULE MCSockets -----------------------------
(***************************************************************************)
(* Sockets for TLC: a behaviour is one of the UDP socket that the app sends*)
(* OSC through, with its queue and the lookups, or of the tcpreceives of a *)
(* patch, with the poll loop and their peers.                              *)
(***************************************************************************)
EXTENDS GCDAsyncUdpSocket, TcpReceive

VARIABLE used

\* What does not run is as it is in one of its initial states.
SocketsInit ==
  /\ used \in {"UDP socket", "tcpreceive"}
  /\ UInit /\ Init

SocketsNext ==
  /\ \/ used = "UDP socket" /\ UNext /\ UNCHANGED vars
     \/ used = "tcpreceive" /\ Next /\ UNCHANGED gvars
  /\ UNCHANGED used

\* Only what runs has to go on.
SocketsSpec ==
  /\ SocketsInit /\ [][SocketsNext]_<<used, gvars, vars>>
  /\ UFairness
  /\ WF_vars(used = "tcpreceive" /\ Round)
=============================================================================
