-------------------------- MODULE ConnectorObject --------------------------
(***************************************************************************)
(* What a udpsend~ object promises to the patch it stands in, seen from    *)
(* its messages only: the abstract specification of UdpSendConnector, and  *)
(* the form in which the patch of module Session contains it.              *)
(*                                                                         *)
(* "connect" is taken by an object at rest without a connection and        *)
(* ignored by any other; "disconnect" ends a connection and is ignored     *)
(* while there is none, also while one is being made.  An attempt ends in  *)
(* a connection to the host it was made for or in none.  A connection is   *)
(* reported some time after it exists, and until then the object is busy   *)
(* even when the connection has been closed again.                         *)
(***************************************************************************)
CONSTANTS Hosts, NoHost

ASSUME ConnectorObjectAssumption == NoHost \notin Hosts

Objects == [phase : {"rest", "trying", "due"},
            to    : Hosts \cup {NoHost},    \* whom it is connected to
            asked : Hosts \cup {NoHost}]    \* whom it is trying to connect to

AtRest == [phase |-> "rest", to |-> NoHost, asked |-> NoHost]

Connected(h, phase) == [phase |-> phase, to |-> h, asked |-> NoHost]

Accepts(o) == o.phase = "rest" /\ o.to = NoHost

TakeConnect(o, h) ==
  IF Accepts(o) THEN [phase |-> "trying", to |-> NoHost, asked |-> h] ELSE o

TakeDisconnect(o) == [o EXCEPT !.to = NoHost]

\* What the object may do by itself.
Progress(o) ==
  CASE o.phase = "trying" -> {Connected(o.asked, "due"), AtRest}
    [] o.phase = "due"    -> {Connected(o.to, "rest")}
    [] o.phase = "rest"   -> {}

\* Every step, deletion included.
Steps(o) ==
  {TakeConnect(o, h) : h \in Hosts} \cup {TakeDisconnect(o), AtRest} \cup Progress(o)
=============================================================================
