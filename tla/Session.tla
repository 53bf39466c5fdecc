------------------------------ MODULE Session ------------------------------
(***************************************************************************)
(* How audio is routed to the devices: the app on each device              *)
(* (BRViewController, BRBonjourOSCClient), Bonjour, the server script      *)
(* (server.py or bonjourBrowseOSC.py) and the patch multistream.pd with    *)
(* one udpsend~ for each channel.                                          *)
(*                                                                         *)
(* The script learns of services from Bonjour, resolves them one after the *)
(* other and tells the patch on its own host, in order and without loss.   *)
(* OSC messages between the script or the patch and the devices are UDP:   *)
(* `air' is the set of those under way, which may arrive late, in any      *)
(* order or, when they are never put there, not at all.                    *)
(*                                                                         *)
(* All code of an app runs on its main queue; a handler is one action      *)
(* here.  The script asks for the address of a service and waits, and then *)
(* tells the patch: two actions.  A device has one address for as long as  *)
(* the system runs.  Left out is what is only shown to the user; of the    *)
(* messages /connect and /disconnect to the devices, which are only shown, *)
(* what is left is that sending one may raise an exception.  A message to  *)
(* the patch, on the script's own host, is taken never to.                 *)
(***************************************************************************)
EXTENDS Integers, Sequences, FiniteSets, ConnectorObject

CONSTANTS
  Channels,   \* numbers of the channels, 1..6 in the patch
  Majors,     \* major numbers of beacons; the minor is a channel
  Scripts,    \* which of the two scripts the server may run
  MaxMoves,   \* bound: what users, devices and beacons do
  MaxAir      \* bound: messages under way at once, others are lost

Devices == Hosts
NoDevice == NoHost

ASSUME SessionAssumption ==
  /\ 1 \in Channels /\ Channels \subseteq Nat \ {0}
  /\ Majors \subseteq Nat
  /\ Scripts \subseteq {"server.py", "bonjourBrowseOSC.py"}

\* Service names: "streamingChannel_1" is [ch |-> 1, copy |-> 1].  Bonjour
\* renames a second service of that name to "streamingChannel_1 (2)".
Names == [ch : Channels, copy : 1..Cardinality(Devices)]
NoName == [ch |-> 0, copy |-> 0]
NoQuery == [name |-> NoName, address |-> NoDevice]
NoBeacon == [major |-> 0, minor |-> 0]
ServiceOf(c) == [ch |-> c, copy |-> 1]

VARIABLES
  \* the app of each device
  client,         \* does _bonjourOSCClient exist
  stringChannel,  \* _stringChannel, the channel shown to the user
  channelNumber,  \* that of the client
  chosenBeacon,   \* the beacon chosen last
  serverIP,       \* has the client been told the server's address
  \* Bonjour
  publishing,     \* the channel a device is about to publish, or 0
  published,      \* the name it has, or NoName
  events,         \* what the script's browser has yet to hear
  \* the script
  script, alive,
  query,          \* the service resolved, and the address found for it
  current,        \* bonjourBrowseOSC.py: the one BonjourClient object
  entries,        \* how often it is in resolvedClients
  \* messages
  patchIn, air,
  \* the patch
  stream,         \* the udpsend~ of each channel
  portno,         \* x_portno of each: the port at the host it is for
  \* history
  told,           \* the device each channel was told to serve by the script
  missed,         \* names whose last announcement was not resolved
  crossed,        \* channels with a message taken by a busy udpsend~, or a
                  \* connection that failed
  asked,          \* <<channel, device>>: shown to the user as being asked for
  moves

appvars == <<client, stringChannel, channelNumber, chosenBeacon, serverIP>>
bonjourvars == <<publishing, published, events>>
scriptvars == <<script, alive, query, current, entries, told, missed>>
patchvars == <<stream, portno, crossed>>
vars == <<appvars, bonjourvars, scriptvars, patchIn, air, patchvars, asked, moves>>

Init ==
  /\ client = [d \in Devices |-> FALSE]
  /\ stringChannel = [d \in Devices |-> 1]
  /\ channelNumber = [d \in Devices |-> 0]
  /\ chosenBeacon = [d \in Devices |-> NoBeacon]
  /\ serverIP = [d \in Devices |-> FALSE]
  /\ publishing = [d \in Devices |-> 0]
  /\ published = [d \in Devices |-> NoName]
  /\ events = <<>>
  /\ script \in Scripts
  /\ alive = TRUE
  /\ query = NoQuery
  /\ current = [name |-> NoName, hostIP |-> NoDevice]
  /\ entries = 0
  /\ patchIn = <<>>
  /\ air = {}
  /\ stream = [c \in Channels |-> AtRest]
  /\ portno = [c \in Channels |-> 0]
  /\ told = [c \in Channels |-> NoDevice]
  /\ missed = {}
  /\ crossed = {}
  /\ asked = {}
  /\ moves = 0

-----------------------------------------------------------------------------
(* Messages.  To the patch: connect the channel of a name to a device, or  *)
(* disconnect it (to = NoDevice).  To a device: the server's address.      *)

ToPatch(n, d) == [kind |-> "stream", name |-> n, to |-> d]
ServerIP(d) == [kind |-> "serverIP", name |-> NoName, to |-> d]

\* Any of the messages ms are lost, the others are under way.
Send(ms) ==
  \E kept \in SUBSET ms :
    /\ Cardinality(air \cup kept) <= MaxAir
    /\ air' = air \cup kept

-----------------------------------------------------------------------------
(* The app.                                                                *)

\* A message of the client to the patch: the client's host is "n/a" until
\* the server has told its address, and a message to it goes nowhere.
ClientSends(d, ms) == Send(IF client[d] /\ serverIP[d] THEN ms ELSE {})

Move == moves < MaxMoves /\ moves' = moves + 1

\* A message to nil, before there is a client, does nothing.
SetChannel(d, c) ==
  channelNumber' = IF client[d] THEN [channelNumber EXCEPT ![d] = c] ELSE channelNumber

ChannelButton(d, c) ==
  /\ Move
  /\ c # stringChannel[d]
  /\ stringChannel' = [stringChannel EXCEPT ![d] = c]
  /\ SetChannel(d, c)
  /\ UNCHANGED <<client, chosenBeacon, serverIP, bonjourvars, scriptvars,
                 patchIn, air, patchvars, asked>>

\* The service of d ends; the browser will hear of it.
Unpublish(d) ==
  /\ published' = [published EXCEPT ![d] = NoName]
  /\ events' = IF published[d] = NoName THEN events
               ELSE Append(events, [add |-> FALSE, name |-> published[d]])

\* The old service is stopped; publishing goes on unless there is no socket.
AdvertiseButton(d) ==
  /\ Move
  /\ Unpublish(d)
  /\ \E c \in {stringChannel[d], 0} : publishing' = [publishing EXCEPT ![d] = c]
  /\ client' = [client EXCEPT ![d] = TRUE]
  /\ channelNumber' =
       IF client[d] THEN channelNumber
       ELSE [channelNumber EXCEPT ![d] = stringChannel[d]]
  /\ asked' = asked \cup {<<stringChannel[d], d>>}
  /\ UNCHANGED <<stringChannel, chosenBeacon, serverIP, scriptvars, patchIn,
                 air, patchvars>>

ConnectButton(d) ==
  /\ Move
  /\ ClientSends(d, {ToPatch(ServiceOf(channelNumber[d]), d)})
  /\ asked' = asked \cup {<<stringChannel[d], d>>}
  /\ UNCHANGED <<appvars, bonjourvars, scriptvars, patchIn, patchvars>>

DisconnectButton(d) ==
  /\ Move
  /\ ClientSends(d, {ToPatch(ServiceOf(channelNumber[d]), NoDevice)})
  /\ UNCHANGED <<appvars, bonjourvars, scriptvars, patchIn, patchvars, asked>>

\* Mutant: connect is sent before the channel is set.
SwitchEarly(d, c) ==
  /\ ClientSends(d, {ToPatch(ServiceOf(channelNumber[d]), NoDevice),
                     ToPatch(ServiceOf(channelNumber[d]), d)})
  /\ SetChannel(d, c)

Switch(d, c) ==
  /\ ClientSends(d, {ToPatch(ServiceOf(channelNumber[d]), NoDevice),
                     ToPatch(ServiceOf(c), d)})
  /\ SetChannel(d, c)

\* The first beacon in immediate proximity that is not the chosen one has
\* number b; if its channel is not the client's already, it is switched to.
RangeBeacons(d, b) ==
  /\ Move
  /\ b # chosenBeacon[d]
  /\ b.minor # channelNumber[d]
  /\ Switch(d, b.minor)
  /\ chosenBeacon' = [chosenBeacon EXCEPT ![d] = b]
  /\ stringChannel' = [stringChannel EXCEPT ![d] = b.minor]
  /\ asked' = asked \cup {<<b.minor, d>>}
  /\ UNCHANGED <<client, serverIP, bonjourvars, scriptvars, patchIn, patchvars>>

TakeMessage(d) ==
  /\ ServerIP(d) \in air
  /\ air' = air \ {ServerIP(d)}
  /\ serverIP' = IF client[d] THEN [serverIP EXCEPT ![d] = TRUE] ELSE serverIP
  /\ UNCHANGED <<client, stringChannel, channelNumber, chosenBeacon,
                 bonjourvars, scriptvars, patchIn, patchvars, asked, moves>>

\* The app ends, or the device is out of reach and its app is started anew.
Leave(d) ==
  /\ Move
  /\ client[d]
  /\ Unpublish(d)
  /\ publishing' = [publishing EXCEPT ![d] = 0]
  /\ client' = [client EXCEPT ![d] = FALSE]
  /\ stringChannel' = [stringChannel EXCEPT ![d] = 1]
  /\ channelNumber' = [channelNumber EXCEPT ![d] = 0]
  /\ chosenBeacon' = [chosenBeacon EXCEPT ![d] = NoBeacon]
  /\ serverIP' = [serverIP EXCEPT ![d] = FALSE]
  /\ UNCHANGED <<scriptvars, patchIn, air, patchvars, asked>>

-----------------------------------------------------------------------------
(* Bonjour.                                                                *)

Owner(n) == IF \E d \in Devices : published[d] = n
            THEN CHOOSE d \in Devices : published[d] = n
            ELSE NoDevice

\* The service gets the first free copy of its name.
Publish(d) ==
  /\ publishing[d] # 0
  /\ \E n \in Names :
       /\ n.ch = publishing[d]
       /\ Owner(n) = NoDevice
       /\ \A m \in Names : m.ch = n.ch /\ m.copy < n.copy => Owner(m) # NoDevice
       /\ published' = [published EXCEPT ![d] = n]
       /\ events' = Append(events, [add |-> TRUE, name |-> n])
  /\ publishing' = [publishing EXCEPT ![d] = 0]
  /\ UNCHANGED <<appvars, scriptvars, patchIn, air, patchvars, asked, moves>>

DidNotPublish(d) ==
  /\ publishing[d] # 0
  /\ publishing' = [publishing EXCEPT ![d] = 0]
  /\ UNCHANGED <<appvars, published, events, scriptvars, patchIn, air,
                 patchvars, asked, moves>>

-----------------------------------------------------------------------------
(* The scripts.  A message to the patch has the address "/stream" followed *)
(* by all of the name after "streamingChannel_".                           *)

\* The message is sent a number of times.
\* Mutant: a channel that serves a device is not told of another.
TellFreeChannel(n, d, times) ==
  /\ patchIn' = patchIn \o [i \in 1..times |-> ToPatch(n, d)]
  /\ told' = IF times > 0 /\ n = ServiceOf(n.ch) /\ NoDevice \in {d, told[n.ch]}
             THEN [told EXCEPT ![n.ch] = d] ELSE told

TellPatch(n, d, times) ==
  /\ patchIn' = patchIn \o [i \in 1..times |-> ToPatch(n, d)]
  /\ told' = IF times > 0 /\ n = ServiceOf(n.ch) THEN [told EXCEPT ![n.ch] = d] ELSE told

\* The browser's next event is handled.
NextEvent(add) ==
  /\ alive /\ query = NoQuery
  /\ events # <<>>
  /\ Head(events).add = add
  /\ events' = Tail(events)
  /\ UNCHANGED <<appvars, publishing, published, script, patchvars, asked, moves>>

\* A service was added.  It is asked for its address, which it may give, or
\* not any more, or too late.
\*   server.py: getServiceInfo returns None, and the browser's thread ends
\* with an exception.
\*   bonjourBrowseOSC.py: the query of the service times out, or that of its
\* address, when the object has the new name already.
Resolve ==
  LET n == Head(events).name
  IN  /\ NextEvent(TRUE)
      /\ \/ /\ Owner(n) # NoDevice
            /\ query' = [name |-> n, address |-> Owner(n)]
            /\ UNCHANGED <<alive, current, missed>>
         \/ /\ missed' = missed \cup {n}
            /\ alive' = (script # "server.py")
            /\ current' \in IF script = "server.py" THEN {current}
                            ELSE {current, [current EXCEPT !.name = n]}
            /\ UNCHANGED query
      /\ UNCHANGED <<entries, told, patchIn, air>>

Resolved ==
  /\ query # NoQuery
  /\ query' = NoQuery
  /\ UNCHANGED <<appvars, bonjourvars, script, patchvars, asked, moves>>

\* server.py.  After the patch the device is told, and a socket error there
\* ends the browser's thread.
DeviceTold == alive' \in {TRUE, FALSE}

AddService ==
  /\ script = "server.py"
  /\ Resolved
  /\ missed' = missed \ {query.name}
  /\ TellPatch(query.name, query.address, 1)
  /\ DeviceTold
  /\ UNCHANGED <<current, entries, air>>

\* Mutant: only the device is told that it is gone.
RemoveServiceQuietly ==
  /\ script = "server.py"
  /\ NextEvent(FALSE)
  /\ DeviceTold
  /\ UNCHANGED <<query, missed, current, entries, air, patchIn, told>>

RemoveService ==
  /\ script = "server.py"
  /\ NextEvent(FALSE)
  /\ TellPatch(Head(events).name, NoDevice, 1)
  /\ DeviceTold
  /\ UNCHANGED <<query, missed, current, entries, air>>

\* bonjourBrowseOSC.py has one BonjourClient object, and resolvedClients
\* holds it as many times as services were resolved.  An exception in a
\* callback is ignored: when the address cannot be sent to the device, the
\* patch is not told, and the query times out; when the device cannot be told
\* that it is connected, nothing is left to do but that.
\* Mutant: the patch is told before the object is up to date.
BrowseAddedEarly ==
  /\ script = "bonjourBrowseOSC.py"
  /\ Resolved
  /\ current' = [name |-> query.name, hostIP |-> query.address]
  /\ missed' = missed \ {query.name}
  /\ Send({ServerIP(current'.hostIP)})
  /\ entries' = entries + 1
  /\ IF current.name = NoName THEN UNCHANGED <<patchIn, told>>
     ELSE TellPatch(current.name, current.hostIP, 1)
  /\ UNCHANGED alive

BrowseAdded ==
  /\ script = "bonjourBrowseOSC.py"
  /\ Resolved
  /\ current' = [name |-> query.name, hostIP |-> query.address]
  /\ \/ /\ Send({ServerIP(current'.hostIP)})
        /\ entries' = entries + 1
        /\ TellPatch(current'.name, current'.hostIP, 1)
        /\ missed' = missed \ {query.name}
     \/ /\ missed' = missed \cup {query.name}
        /\ UNCHANGED <<air, entries, patchIn, told>>
  /\ UNCHANGED alive

\* The loop removes entries from the list it walks, and meets every second.
Met == (entries + 1) \div 2

\* A name with a space reads otherwise when it is resolved.  When the device
\* of the m-th entry cannot be told, the loop ends with this entry not removed.
BrowseRemoved ==
  LET n == Head(events).name
  IN  /\ script = "bonjourBrowseOSC.py"
      /\ NextEvent(FALSE)
      /\ IF current.name = n /\ n.copy = 1
         THEN \/ TellPatch(n, NoDevice, Met) /\ entries' = entries - Met
              \/ \E m \in 1..Met : TellPatch(n, NoDevice, m) /\ entries' = entries - (m - 1)
         ELSE UNCHANGED <<patchIn, told, entries>>
      /\ UNCHANGED <<alive, query, missed, current, air>>

-----------------------------------------------------------------------------
(* The patch: routeOSC gives a message to its channel's udpsend~, if there *)
(* is a channel of that name.                                              *)

Busy(o) == o.phase # "rest"

DEFAULT_PORT == 8000         \* udpsend~'s, for a connect with no port
OSC_UDPRECEIVE_PORT == 1349  \* where the patch of an app listens

\* The port in a connect message is a text for the app and bonjourBrowseOSC.py,
\* and for server.py an integer.
PortInMessages == IF script = "server.py" THEN "integer" ELSE "text"

\* createMessage unpacks three symbols, and makes a number of the second: an
\* integer is no symbol and is dropped, and udpsend~ is told no port.
CreateMessage(port) == IF port = "text" THEN OSC_UDPRECEIVE_PORT ELSE DEFAULT_PORT

Take(m, port) ==
  LET c == m.name.ch
  IN  IF m.name = ServiceOf(c)
      THEN /\ stream' = [stream EXCEPT ![c] =
                           IF m.to = NoDevice THEN TakeDisconnect(@) ELSE TakeConnect(@, m.to)]
           /\ portno' = IF m.to # NoDevice /\ Accepts(stream[c])
                        THEN [portno EXCEPT ![c] = CreateMessage(port)] ELSE portno
           /\ crossed' = IF Busy(stream[c]) THEN crossed \cup {c} ELSE crossed
      ELSE UNCHANGED patchvars

PatchFromScript ==
  /\ patchIn # <<>>
  /\ patchIn' = Tail(patchIn)
  /\ Take(Head(patchIn), PortInMessages)
  /\ UNCHANGED <<appvars, bonjourvars, scriptvars, air, asked, moves>>

PatchFromDevice(m) ==
  /\ m.kind = "stream"
  /\ air' = air \ {m}
  /\ Take(m, "text")
  /\ UNCHANGED <<appvars, bonjourvars, scriptvars, patchIn, asked, moves>>

Connector(c) ==
  /\ \E o \in Progress(stream[c]) :
       /\ stream' = [stream EXCEPT ![c] = o]
       /\ crossed' = IF stream[c].phase = "trying" /\ o = AtRest
                     THEN crossed \cup {c} ELSE crossed
  /\ UNCHANGED <<portno, appvars, bonjourvars, scriptvars, patchIn, air, asked, moves>>

-----------------------------------------------------------------------------
User(d) ==
  \/ \E c \in Channels : ChannelButton(d, c)
  \/ \E b \in [major : Majors, minor : Channels] : RangeBeacons(d, b)
  \/ AdvertiseButton(d) \/ ConnectButton(d) \/ DisconnectButton(d) \/ Leave(d)

Bonjour(d) == Publish(d) \/ DidNotPublish(d)

Script == Resolve \/ AddService \/ RemoveService \/ BrowseAdded \/ BrowseRemoved

Next ==
  \/ \E d \in Devices : User(d) \/ Bonjour(d) \/ TakeMessage(d)
  \/ Script
  \/ PatchFromScript
  \/ \E m \in air : PatchFromDevice(m)
  \/ \E c \in Channels : Connector(c)

Spec == Init /\ [][Next]_vars

\* The script goes on with what its browser has heard: both wait with a limit.
FairSpec == Spec /\ WF_vars(Script)

-----------------------------------------------------------------------------
(* Properties.                                                             *)

\* Every variable has its type.
TypeOK ==
  /\ client \in [Devices -> BOOLEAN]
  /\ stringChannel \in [Devices -> Channels]
  /\ channelNumber \in [Devices -> Channels \cup {0}]
  /\ chosenBeacon \in [Devices -> [major : Majors, minor : Channels] \cup {NoBeacon}]
  /\ serverIP \in [Devices -> BOOLEAN]
  /\ publishing \in [Devices -> Channels \cup {0}]
  /\ published \in [Devices -> Names \cup {NoName}]
  /\ events \in Seq([add : BOOLEAN, name : Names])
  /\ query \in [name : Names, address : Devices] \cup {NoQuery}
  /\ current \in [name : Names \cup {NoName}, hostIP : Devices \cup {NoDevice}]
  /\ entries \in Nat
  /\ patchIn \in Seq([kind : {"stream"}, name : Names, to : Devices \cup {NoDevice}])
  /\ stream \in [Channels -> Objects]
  /\ portno \in [Channels -> {0, OSC_UDPRECEIVE_PORT, DEFAULT_PORT}]
  /\ told \in [Channels -> Devices \cup {NoDevice}]

Settled == events = <<>> /\ query = NoQuery

\* When the script has heard all news, each channel is one it has told the
\* patch to serve to the device that publishes it, if it could resolve its
\* name: whatever devices shared, took over or gave back the name.
TellsWhoIsThere ==
  Settled => \A c \in Channels :
    LET d == Owner(ServiceOf(c))
    IN  d # NoDevice /\ ServiceOf(c) \notin missed => told[c] = d

\* With server.py, a channel streams to the device that publishes it and to
\* no one else, as soon as all is said; unless a message has met a udpsend~
\* that was still connecting or reporting, or a connection has failed.  It
\* streams to udpsend~'s own port there, and not to that of the app's patch,
\* which the script has sent in vain: nobody hears it.
StreamsToOwner ==
  script = "server.py" /\ Settled /\ patchIn = <<>> =>
    \A c \in Channels :
      ~Busy(stream[c]) /\ c \notin crossed /\ ServiceOf(c) \notin missed =>
        /\ stream[c].to = Owner(ServiceOf(c))
        /\ stream[c].to # NoDevice => portno[c] = DEFAULT_PORT

\* No device gets a channel that its user, looking at the app, has not asked
\* for, by publishing it, by the button or by going to its beacon; and with
\* bonjourBrowseOSC.py, where apps and script both tell the patch, what it gets
\* is sent to the port its patch listens on.
StreamsToWhoAsked ==
  \A c \in Channels :
    stream[c].to # NoDevice =>
      /\ <<c, stream[c].to>> \in asked
      /\ script = "bonjourBrowseOSC.py" => portno[c] = OSC_UDPRECEIVE_PORT

\* Whoever publishes a channel is told to the patch, or leaves, or cannot be
\* resolved, or the script has died of someone who could not be resolved or
\* told.  A service that bonjourBrowseOSC.py cannot send its address to counts
\* as one that was not resolved.
PublishedIsTold ==
  \A c \in Channels : \A d \in Devices :
    (published[d] = ServiceOf(c)) ~>
      (published[d] # ServiceOf(c) \/ told[c] = d \/ ServiceOf(c) \in missed \/ ~alive)
=============================================================================
