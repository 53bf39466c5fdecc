# Specifications of NetsendPD

NetsendPD streams audio between phones and computers: an iOS app hosts Pure Data
(libpd), patches in it use networking externals, and a Python script tells every
participant where to send its audio. This directory holds TLA+ specifications of
the externals, which carry the program's own concurrent and failure-prone logic, of
the OSC library of the app, and of the parts of Pure Data, libpd and CocoaAsyncSocket
that these rest on; the TLC configurations that check them, and proofs of the main
theorems.

1. Inventory - 2. How the specifications are built - 3. The modules - 4. The runs -
5. What is proved - 6. Where code and comments differ - 7. What is not modelled -
8. Plan

## 1. Inventory

| Part | Source | State | Operations | What is hard |
|---|---|---|---|---|
| udpsend~ | `src/udpsend~.c` | socket, connection state, child thread result, frame in assembly (`x_cbuf`, `x_tag`), block counters | messages connect, disconnect, float, format, channels; dsp, perform; child thread; clock callback; new, free | a detached thread shares the object with the Pd thread; early returns; parameter and vector-size changes in mid-frame; a send that fails in mid-frame |
| udpreceive~ | `src/udpreceive~.c` | ring of 16 frames, bytes missing of the current one, counters, block being played | datapoll, perform, dsp, reset/buffer; new, free | lost, duplicated, reordered datagrams; a full and an empty ring; resets in mid-frame |
| tcpclient | `src/tcpclient.c` | socket, connection state, 32 sender-thread slots | connect, disconnect, send, poll, child threads, free | connector threads that race with each other and with disconnect; slots reused round robin; spinning |
| tcpserver | `src/tcpserver.c` | array of up to 32 clients, listening socket, one receiver per client | accept, client data and disconnect, send, broadcast, detached sender threads | compaction of the array, stale entries, a static buffer shared with threads |
| tcpreceive | `src/tcpreceive.c` | table of connections, listening socket | accept, read, close, free | a full table; count against table; descriptors reused within a poll round |
| tcpsend, udpsend | `src/tcpsend.c`, `src/udpsend.c` | one socket | connect, disconnect, send | partial sends, descriptors given out again |
| udpreceive | `src/udpreceive.c` | one socket, polled | read, change of port | a socket that cannot be replaced, or fails, and the number kept of it |
| httpreceive, httpreq | `src/httpreceive.c`, `src/httpreq.c` | header buffer, bytes of the message still to come | take a list of bytes; format one request | responses cut anywhere, several in one list, without a length |
| OSC library | `src/MetatoneOSC` | bytes received of each connection | SLIP framing, message and bundle codec, sending | split and merged stream data, escapes at a cut, lengths of strings and blobs |
| UDP socket of the app | `src/Pods/CocoaAsyncSocket/GCD/GCDAsyncUdpSocket.m` | queue of packets, current send, flags, timer | send, close after sending, lookups, timeouts | one serial queue, lookups that answer later, a close asked for after each message |
| queue of messages | `src/Pods/libpd`: `z_queued.c`, `ringbuffer.c`, `PdBase.m` | ring buffer, two indices | hooks write, a timer reads | writer and reader without a lock, a full ring |
| DSP graph | `src/Pods/libpd/pure-data/src/d_ugen.c`, `g_io.c`, `g_canvas.c`, `m_obj.c` | signals and their reference counts, the chain | connect, sort, switch, tick | buffers used again and borrowed by subpatches; loops; switched subpatches |
| clocks, delay, metro, line, pipe, qlist | `m_sched.c`, `x_time.c`, `x_text.c` of the same directory | list of clocks, per object what it is at | set, unset, tick; the objects' messages | the patch answers an output with messages to the object that is putting it out |
| readsf~, writesf~ | `d_soundfile.c` of the same directory | fifo, request, state, mutex and two conditions | open, start, stop, perform, child thread, free | requests that arrive while the child is in a system call, errors of the file |
| session protocol | `src/Pd patch and scripts` (`server.py`, `bonjourBrowseOSC.py`, `multistream.pd`), `src/NetsendPD/BR*.m` | services published, clients resolved, one udpsend~ per channel, channel and beacon of each app | publish, resolve, route, connect and disconnect by button or beacon | devices that share a channel or come and go; stale answers; messages lost, late, or ignored by a busy udpsend~ |
| user interface | `src/NetsendPD` view controllers | widgets | - | no protocol state |
| third party | the rest of `src/Pods`, DropboxSDK | - | - | not the project's code |

How they interact. An app publishes a Bonjour service named after a channel; the script
on the server resolves it and tells the patch there, by OSC, to connect the udpsend~ of
that channel to it; an app that has been told the server's address can do the same. The
apps' patches receive with udpreceive~. Audio travels from one udpsend~ to one udpreceive~ as datagrams. Within
one Pd instance all message handlers, poll callbacks, clock callbacks and DSP
`perform` routines run on one thread ("Pd's thread" below) in an order chosen by Pd's
scheduler; only threads the externals start themselves run concurrently with it. What
an object puts out reaches the patch as a nested call, within which the patch may send
anything to any object, the sender included. Pd prints, and sends to the app, through a
ring buffer that the app's main thread empties; the app's own messages to the server
leave as OSC through a UDP socket with a queue of its own.

What makes each part correct:

- udpsend~ connection: at most one connector; no descriptor lost or closed twice; the
  reported state is the real one; connect is not refused for ever.
- udpsend~ audio: a frame is complete, in one layout and inside its buffer, and its
  datagrams add up to what its tag announces.
- udpreceive~: only complete frames are played; lost frames are counted; a frame is
  not overwritten while it is played.
- the stream: what is played is what was sent, in order, and the receiver finds the
  frame boundary again after a loss.
- tcpserver, tcpreceive, tcpclient: count, table and descriptors agree; every
  descriptor has one owner; data goes to whom it was meant for; Pd never hangs.
- OSC, httpreceive, tcpserver's input: what TCP has cut is put together as it was sent,
  and each packet is handed on once, with the peer it came from.
- the app's UDP socket: messages leave once and in order, each has one fate, none is lost
  to a close that was asked for after it.
- libpd's queue: messages arrive whole, once and in order, or are refused.
- DSP graph: each object hears the signals it is connected to, summed, and no buffer is
  overwritten before the last who needs it has run.
- clocks and their objects: a clock is called once, at its time, in the order it was set;
  a metro, line, pipe or qlist ends where its last message says.
- soundfile objects: what is heard is what is in the file and the other way round, and
  neither Pd nor a child waits for ever.
- session: each channel streams to the device that published it, and no device gets a
  channel it has not asked for.

The hazards, each at its line, are listed in `PROJECT.json`.

## 2. How the specifications are built

One module per external, one action per message handler, callback or step of a
thread. Variables keep the names of the C fields; variables under "history" exist
only for the properties. A handler that runs on Pd's thread and whose accesses no
thread can interleave is one action. Where a thread runs without a lock, the steps
are its accesses to what is shared. A message that is refused without effect but a
console line is a stuttering step and has no action.

Operators commented as "Mutant" are variants of the definition they precede, with a
mistake one could make in that code. They are not part of the specification;
`PROJECT.json` pairs each of them with the property that tells it from the original,
which is evidence that the property depends on the code.

Abstractions used throughout:

- audio is its layout and its origin (which frame, which offset), never samples;
- a text message or a buffer is a model value; host and port together are one value;
- console output and `info` are left out, outlets are kept where a property needs them
  (`reported`);
- the descriptors of a process are a small set; the kernel gives the lowest free one
  where reuse matters (tcpreceive, tcpserver, tcpclient);
- counters that only grow are bounded by named constants or counted modulo one;
- times are whole numbers, and clock units ratios that keep them so;
- what the patch sends from within an output is a step between the output and its return in
  `MessageSockets`, `PdClock`, `Line`, `Pipe` and `Qlist`, where what has not returned is a
  stack, bounded by a named depth, and in `TcpServer`, which ends where a disconnect comes from
  within tcpserver_notify. In `UdpSendConnector` an answer to an output can only end in a
  deadlock, as section 6 says. The others (`TcpReceive`, `TcpClient`, `HttpReceive`,
  `TcpServerInput`) take an output to return without anything sent to its object.

Parts that do not interact but raise one kind of question share a run: its MC module
EXTENDS their modules, a variable that never changes says which part a behaviour is of,
and the others stay in one of their initial states. The state spaces add up and are not
multiplied; a property of a part is checked in the behaviours of that part.

## 3. The modules

| Module | Models | Composes |
|---|---|---|
| `UdpSendConnector` | `udpsend~.c` 146-304, 776ff, 838-912: connect, disconnect, float, notify, doconnect, new, free | - |
| `UdpSendTilde` | the rest of `udpsend~.c`: format, channels, dsp, perform | EXTENDS `UdpSendConnector`, `FrameSource` |
| `FrameSource` | what the network sees of a udpsend~: abstract specification of `UdpSendTilde`, and the sender of `AudioStream` | EXTENDS `AudioFormat` |
| `UdpReceiveTilde` | `udpreceive~.c`: datapoll, perform, dsp, reset/buffer, new | EXTENDS `AudioFormat` |
| `AudioStream` | one sender, one receiver, the network between them | EXTENDS `FrameSource`, `UdpReceiveTilde` |
| `LossyFifo` | abstract specification of the stream | instantiated by `AudioStream` |
| `PollLoop` | Pd's poll loop, `s_inter.c` 170-196, 334-370 | - |
| `TcpReceive` | `tcpreceive.c`, several objects in one poll loop, their peers and the kernel | EXTENDS `PollLoop` |
| `MessageSockets` | `udpsend.c`, `tcpsend.c`, `udpreceive.c`: objects of one patch that share the descriptors | EXTENDS `PollLoop` |
| `TcpServer` | `tcpserver.c`: table, disconnects, senders, broadcast, free | - |
| `TcpClient` | `tcpclient.c`: connectors, sender slots, disconnect, poll, free | - |
| `Session` | `server.py`, `bonjourBrowseOSC.py`, `multistream.pd`, `BRBonjourOSCClient.m`, `BRViewController.m`, with Bonjour and the network between them | EXTENDS `ConnectorObject` |
| `ConnectorObject` | a udpsend~ as its messages show it: abstract specification of `UdpSendConnector`, and the udpsend~ of `Session` | instantiated by `UdpSendConnector` |
| `TcpServerInput` | `tcpserver.c`: the circular input buffer of a client | - |
| `HttpReceive` | `httpreceive.c` | - |
| `OscMessage`, `OscStream` | messages and bundles of F53OSC as bytes; SLIP framing, `F53OSCSocket`, `F53OSCServer` | `OscStream` EXTENDS `OscMessage` |
| `GCDAsyncUdpSocket` | sending by `GCDAsyncUdpSocket.m` as `F53OSCClient` uses it | - |
| `PdQueue` | `z_queued.c`, `ringbuffer.c`, `PdBase.m` | - |
| `DspGraph` | `d_ugen.c`, `g_io.c`, and what `g_canvas.c` and `m_obj.c` do for the sort | - |
| `Agenda` | what clocks promise: abstract specification of `PdClock`, and the clocks of `Line`, `Pipe`, `Qlist` | - |
| `PdClock` | `m_sched.c` clocks and tick, delay and metro of `x_time.c` | instantiates `Agenda` |
| `Line`, `Pipe` | line and pipe of `x_time.c` | EXTEND `Agenda` |
| `Qlist` | qlist of `x_text.c` | EXTENDS `Agenda` |
| `SoundfileThread` | `d_soundfile.c`: what readsf~ and writesf~ share, the mutex and the conditions | - |
| `ReadSf`, `WriteSf` | readsf~ and writesf~, perform and messages on one side, the child on the other | EXTEND `SoundfileThread` |
| `MCUdpReceiveTilde`, `MCReassembly`, `MCSharedByThreads`, `MCSockets`, `MCPdThread`, `MCAudioStream`, `MCTcpServer` | instances for TLC | - |
| `AudioFormat` | formats and sizes shared by both ends | - |
| `ListParts`, `BasicLemmas` | a list without some of its places; facts about numbers and lists for the proofs | - |
| `UdpSendTilde_proofs`, `Streams_proofs`, `Tcp_proofs`, `Sockets_proofs`, `PdObjects_proofs`, `PdClock_proofs`, `Threads_proofs` | proofs (section 5) | EXTEND the modules they are about |

**UdpSendConnector.** Pd's thread holds `x_mutex` in every handler that touches the
object, so a handler is one action. The child (`udpsend_tilde_doconnect`) is one
action per critical section and per unlocked stretch between two system calls:
ChildCopyHost (181-185), ChildSocket (187-203), ChildResolve (204-235; it reads
`x->x_hostname` without the lock, and a bad host leaks the socket), ChildConnect
(236-246), ChildPublish (247-253). The outlet is called with `x_mutex` locked (150, 162), and
the mutex is not recursive: if the patch answers with a message that takes it, Pd's thread waits
for itself (`stuck`), and the child goes on only to where it needs the mutex. `x_childthread_result` doubles as "a child is at
work"; three early returns write it without the lock. After `free` a child that still
runs uses freed memory; it becomes "undefined" and nothing is said of it.

**ConnectorObject** says what is left of this for whoever only sends messages: an
object at rest, trying or with a report due, connected or not, and which messages it
ignores. It has no variables, only operators on one object's state, so that it serves
as the abstract specification (`KeepsPromise`) and as part of `Session`.

**UdpSendTilde.** perform fills `x_cbuf` block by block, and with the last block sends
a tag datagram and the data. A block of `x_cbuf` is the layout it was written in, or
Stale. When a send fails perform unlocks and then calls disconnect, which locks again;
these are two actions, between which a child may run.

**UdpReceiveTilde.** The message and the DSP side of the receiver, byte by byte: each
byte of a slot is Stale, Foreign, or says which frame it belongs to. One `recvfrom()`
takes one datagram and drops what it has no room for, which is how the receiver finds
back to a tag. Any datagram can arrive in any state.

**AudioStream.** The two ends' own actions over a network that loses, duplicates and
swaps datagrams. The state added is the network and history: which frames a fault
struck, which arrived whole, which was heard last.

**PollLoop and TcpReceive.** A round of the loop asks `select()` once and walks the
list while callbacks change it; removing an entry moves the next one to where the walk
has passed. Peers connect, send and close at any time; the kernel has a backlog.

**MessageSockets.** A message to an object is one action, and so is opening the new
socket of a udpreceive, with its three ends. `udpreceive_read` is two, `Read` and
`Return`, because the patch may answer its first outlet with messages to any object
before the rest runs; the loop in `send` is one action per call of `send()`. A
udpreceive that could not replace its socket keeps the number of the closed one and
closes whatever that is by then: `affected` is history of who was concerned.

**TcpServer.** The table `x_sr` with what lies behind its end, receivers that are
allocated or not, one detached thread per chunk of a message, one for a broadcast.
tcpserver_notify takes several actions, between which threads run: `Notify` counts the client
out and calls the outlets (1035-1037), from within which the patch may send messages;
`NotifyFrees` frees its receiver and leaves a NULL (1040-1041); `MoveEntry` is one turn of the
loop that closes the gap (1044-1047), during which an entry stands twice; `CloseSocket` ends it. A
disconnect from within those outlets would work on a list that is already counted down; the
model ends there (`torn`, section 6). The poll functions have a frame of their own (`poll`), and what
the patch does from within their first outlets may leave what they read next freed or NULL
(`PutOutSocket`, `PutOutData`). Following such a pointer sets `crashed`, after which nothing is
claimed.

**TcpClient.** Each connect message may start a connector; connector and disconnect
write `x_fd` and `x_connectstate` one after the other without a lock, so each write is
an action, and so is the question before (`ConnectorStart`). When `select()` fails, the poll closes
the socket and keeps both (`PollFails`, 495-499); `selectFailed` says that this has been. Pd's thread spins on `threadisvalid` in `send` and in `disconnect`: it has
states of its own for that, in which no other handler runs. The loops are taken as
written, reading the flag at each turn, although it is not declared volatile.

**Session.** An app's handlers run on its main queue, one action each (`ChannelButton`,
`AdvertiseButton`, `ConnectButton`, `DisconnectButton`, `RangeBeacons`, `TakeMessage`;
`Leave` is the end of the app). Bonjour gives a service the first free copy of its name
and queues the news for the script's browser. The script handles one event after the
other; for a new service it takes two actions, `Resolve` and `AddService` or
`BrowseAdded`, because it waits for the answer while devices go on. Which script runs is
chosen initially. The script's messages reach the patch in order, those of apps are a
set from which any may be missing. `server.py` never tells an app its address, so that
the app's own messages go nowhere (`ClientSends`); with `bonjourBrowseOSC.py` both
control the patch. The patch unpacks a message as symbols (`CreateMessage`): a port sent as text
becomes the port of the udpsend~, one sent as an integer, as by `server.py`, is dropped
(`portno`). Each send of a script to a device may fail: in `server.py` this ends the browser's
thread (`DeviceTold`), in `bonjourBrowseOSC.py` the rest of the callback is skipped.

**TcpServerInput, HttpReceive.** A byte is its place in the stream, or what kind of
thing it is (an end of line, a header line, a byte of a message). A callback receives
any part of what has been sent and puts out what it can before it returns. A header line also has
the length of its longest part, which httpreceive copies into `buf` without asking whether it fits:
when it does not, or the header leaves no place for the 0 behind it, `overrun` is set and the model
ends. A list that the patch sends to httpreceive from within its output is left out.

**OscMessage, OscStream.** OscMessage has the codec as operators on sequences of bytes:
padding, type tags, blobs, bundles, and the reading of each, as far as a wrong length can
lead it. What may be sent (`OscMessages`) has an address that begins with a slash, as
`setAddressPattern:` has it, no zero within a string, and a length that fits in two of
the four bytes of a size, which none of the app's messages comes near. OscStream sends
packets over TCP connections, in SLIP frames, and over UDP, lets the network cut the
stream anywhere, and follows F53OSCServer with its buffer per connection. A datagram is a
whole packet.

**GCDAsyncUdpSocket.** The blocks of `socketQueue` are actions, taken from its head; the
calls that maybeDequeueSend, doPreSend and doSend make of each other last are chained by
`calls`, during which no other block runs. A lookup answers by a block at any later time.

**PdQueue.** Each copy into the ring and each write of an index is a step of the writer
or of the reader, each of which computes its room from the other's index before.

**DspGraph.** The sort is one C call; here it is a step per box and connection, with the
calls that have not returned on a stack, so that a recursive descent needs no recursive
operator. A signal's buffer has a name and its reference count; the chain is a sequence
of routines that read and write buffers, and `DspTick` runs it. What a buffer holds is a
bag of sources, against which HearsItsSources compares the connections drawn.

**Agenda, PdClock, Line, Pipe, Qlist.** Agenda is a sequence of what is to be called. In
PdClock the list is the code's, kept sorted by insertion, and the scheduler's tick runs
all that is due before its end. `calls` is the stack of the objects whose outlet is being
banged, from within which messages come. In Line, Pipe and Qlist the clock is Agenda's, which PdClock implements.

**SoundfileThread, ReadSf, WriteSf.** Pd's thread holds the mutex for a whole message or
block, unless it waits for a condition; the child holds it between system calls. A step
runs from where a thread gets the mutex, or still has it, to where it gives it back. The
fifo is modelled by its bytes: each is a place in a file, or silence. dsp may tell any of the
vector sizes at any time (`SfDsp`); `grown` notes that since open it has become larger, after which
blocks may run over the end of the fifo, and of the buffer (`PerformTraps`, `TakeTraps`). A file has
any of the formats its header may tell, with any number of channels: with none the division traps
(`OpenTraps`, `DspTraps`), with too many the fifo has no room at all. perform of readsf~ reads the
format before it locks the mutex (1946, 1951): `PerformIsCalled` takes it into `mine`, which an open
of the child may still change field by field, and `stale` notes a block of a format that is not the
object's.

## 4. The runs

Runs that pass:

| Run | Configuration | What it shows |
|---|---|---|
| shared_by_threads | `MCSharedByThreads.cfg` | what threads share, part by part. udpsend~: in every interleaving of messages, child and clock one connector, every socket owned once, x_connectstate true, the host it names is the peer; every attempt ends; and it implements `ConnectorObject`. libpd's queue: what is queued is delivered, whole and in order. Soundfiles: what is played is the file, what is written is what was heard, Pd waits for the child in vain only where section 6 says so |
| udpsend_tilde | `MCUdpSendTilde.cfg` | frames are whole, in one layout, inside the buffer; data adds up to the tag; a failed socket is the one closed; `UdpSendTilde` implements `FrameSource` |
| reassembly | `MCReassembly.cfg` | receivers of what the network has cut, part by part. udpreceive~: only complete frames are queued and only received bytes are played, losses are counted. OSC: the server takes the packets that were sent and replies to who sent them. httpreceive: it passes on the messages of the responses. tcpserver: a client's bytes come out as they were received |
| audio_stream | `MCAudioStream.cfg` | a frame no fault struck is intact and heard in order and once (`LossyFifo`); damage reaches only as far as the bytes that may be missing |
| sockets | `MCSockets.cfg` | sockets, part by part. The app's UDP socket: messages leave once and in order, each settles. tcpreceive: tables, counts, poll list and descriptors agree; Pd never blocks in a callback; every peer is served although entries are skipped |
| pds_thread | `MCPdThread.cfg` | what runs on Pd's thread, part by part. Sockets: each udpsend, tcpsend and udpreceive holds its own and is polled for it, until a udpreceive acts on a number it has lost; Pd waits only for a socket changed within a round; a message leaves whole unless the system takes it in parts. Signals: each object hears its sources, through edits and switches. Clocks: they implement `Agenda`, and a metro does as it was told last. line ends at its last target; each list of a pipe comes out once, at its time and whole; a qlist plays its score to the end |
| tcpserver | `MCTcpServer.cfg` | whoever leaves in whatever order, and whatever the patch sends from within outlets, the table names the clients; no client that stays gets a broadcast twice, but one that the thread sees while its entry stands twice |
| tcpclient | `MCTcpClient.cfg` | until `select()` fails x_fd never dangles and a sender has an open socket; a sender always has its own data, and none outlives the object; Pd spins for ever only on a slot whose thread was never created |
| session | `MCSession.cfg` | with either script, the patch has been told of every published channel that could be resolved; with server.py each channel ends up at its publisher, though at a port on which nobody listens, unless a message met a busy udpsend~ or a connection failed; no device gets a channel its app has not shown as asked for; who publishes is told to the patch |

Runs that find a disagreement between the code and its comments (section 6):
udpsend_tilde_vecsize, tcpserver_send, tcpclient_state.

Bounds, and why they are enough:

- shared_by_threads, udpsend~: two threads (one more than the code should ever run),
  three descriptors (x_fd, a child's, a leaked one), two hosts. Nothing else is bounded.
  Queue: a ring of seven cells, messages of two to five, four of them, so that
  it wraps and is full. Soundfiles: a buffer of 28 bytes, read and written six at a time; vectors of one and two
  frames of four, six and sixteen bytes, so that neither a block nor a transfer divides the buffer
  and a fifo is shorter than it; a file longer than the fifo with something behind its data, one
  without a header, one with so many channels that the buffer holds no vector of it, or with none;
  two signals per buffer; 30 bytes written. The vector of a readsf~ varies only while it has
  opened none but the first of the files (VectorVaries), that of a writesf~ always.
- udpsend_tilde: BlockSize 4 and vector sizes 2 and 4 give frames of two blocks and of
  one; a packet size of 5 gives 16, 8 and 4 bytes a last packet that is shorter, and a
  frame in one packet; x_count modulo 2. In MCUdpSendTildeVecSize a vector is longer
  than a frame.
- reassembly, udpreceive~: three slots, a queue of two, so that the ring is empty, full
  and overflows; frames in one and two datagrams, tags for too many channels, of no data
  and of an unknown format, data shorter than a tag; five frames between resets, two
  overflows at most. OSC: three peers, two packets under way, read one byte or six at a
  time, which cuts every frame and every escape; packets with the bytes SLIP escapes,
  an address that fills its word, a wide character. httpreceive: fourteen places for a
  header, two responses of eight kinds, among them one whose header leaves no place for the 0
  behind it, one with a field too long for `buf`, one that announces no message, one that is not
  HTTP. tcpserver: a buffer of four, twelve bytes.
- audio_stream: four frames, two faults anywhere, three layouts (two packets, one
  packet, none), a queue of one: two faults are needed for damage that meets damage,
  and four frames for one that is reached, one that is not, and one after it. At most
  one datagram is under way when the next frame is sent; three may be under way then.
- sockets, UDP socket: three messages, for one that has settled, one that is being sent and one
  behind it. tcpreceive: two objects with tables of one, three peers, one descriptor fewer than
  objects and peers need, so that the table, the backlog and the descriptors all run
  out, and descriptors are reused by the other object within a round.
- pds_thread, sockets: one udpsend, one tcpsend and two udpreceive objects with three
  descriptors, so that they run out and are given out again; a buffer of two bytes,
  which messages fill exactly, are too long for, or run over; one forgotten descriptor;
  the patch sends no more messages once two objects are affected, one that lost its
  socket and one that suffers from it. Signals: a flat patch with a fan-out, a sum and an
  object with two outlets, one with a subpatch that gets signals from in- and outside,
  one with a subpatch in another, each with and without switch~; two edits. Clocks: one
  delay, two metros, delays 0 and 1, units twice as slow and in samples, ticks of two,
  time to 3, calls within calls to depth two. line: jumps and ramps of no time and of
  two, grains shorter and longer than a ramp, outputs within an output. pipe: three
  lists, two outlets, four things within each other. qlist: two scores and one that the
  patch adds item by item, two tempos, up to two changes in a wait.
- tcpserver: three clients (first, middle and last of a list), three descriptors, one
  message in one chunk, one broadcast; from within outlets the patch may send anything it may send
  elsewhere. `MAX_CONNECT` is one more than the clients.
  Clients are symmetric: they are told apart only by equality.
- tcpclient: two slots (a ring that wraps and fills), two connectors at a time but any
  number in sequence, two descriptors, two contents.
- session: two devices, two channels, both scripts; four moves of users, beacons and
  devices, enough for a name to be shared, given back and taken over while the script
  waits for an answer about it; one message under way over the air at a time, so that
  of the two messages of a switch at least one is lost unless the other has arrived;
  one beacon for each channel.

CHECK_DEADLOCK is FALSE in all of them: objects may be freed, and bounds reached.

Fairness, and why the code justifies it:

- `CFairSpec`: every child thread goes on (the system schedules it and each of its
  calls returns), and Pd calls a clock that is due. Messages are never fair.
- `UFairness` (UDP socket): blocks put on the serial queue are run, a lookup ends, a timer
  that was set fires: all by GCD and the system. `sendto()` need never have room.
- `QFairness` (queue): the timer that empties the ring goes on, and a hook that has begun
  to write returns. Nothing says that Pd writes.
- `ReadFairness`, `WriteFairness` (soundfiles): the child goes on when it can, its system
  calls return, and Pd's thread, once it is in perform, in open or in free, goes on when it
  is signalled. That it performs again, or that anything is sent, is not assumed.
- `SocketsSpec`, tcpreceive: Pd's scheduler calls the poll loop again and again. Peers are
  not fair; what a peer sent or closed has to be noticed.
- `TcpClient!FairSpec`: Pd's thread goes on, a sender thread runs and its `send()`
  returns, which presumes that the peer reads or the connection breaks.
- `Session!FairSpec`: the script's thread goes on; both scripts wait for an answer with
  a limit. Users, Bonjour, the air and the patch are not fair.

The other runs check safety only, under no fairness.

## 5. What is proved

Proofs are in the modules named `..._proofs`, each about a few parts of one kind (with facts
about numbers, remainders and lists in `BasicLemmas`), for all values of the constants that
satisfy the named assumptions:

| Module | Parts |
|---|---|
| `UdpSendTilde_proofs` | udpsend~, its connection and its audio |
| `Streams_proofs` | udpreceive~; the stream from udpsend~ to udpreceive~; the session |
| `Tcp_proofs` | tcpserver: table, broadcast, input; httpreceive; OSC over TCP and in datagrams |
| `Sockets_proofs` | the app's UDP socket; tcpreceive |
| `PdObjects_proofs` | qlist; line; udpsend, tcpsend and udpreceive |
| `PdClock_proofs` | clocks, delay and metro; pipe |
| `Threads_proofs` | readsf~ and writesf~; tcpclient; libpd's queue |

**Connection part** (from `ConnectorAssumption`). The inductive invariant `CInv`
strengthens the checked invariants with where a child's descriptor and target are at
each of its steps: a child before `socket()` has none, one between `socket()` and
publication has one in `Fds`, and its copies of the destination equal `x_host` — true
only because connect is refused meanwhile, so this and `OneConnector` need each other;
`ClockInv` says that the clock is set only while `x_childthread_result` is zero, without
which a second child could start before notify. Theorems: ConnectorTypeCorrect,
AtMostOneConnector, NoSocketLost, SocketIsWhatItSays, ReportsAreTimely, and
OneChildAndItsSocket, which says what the run checks as one property.
ImplementsConnectorObject is the refinement: while a child is alive the object is
"trying" and no step of the child but its last is to be seen; `OneConnector` makes the
last step of one child the end of all trying, and `ClockInv` and `ChildFdInv` say in
which state it leaves the object.

**Audio part** (also from `TildeAssumption`, `SourceAssumption`, `FormatAssumption`). The actions of
the whole external are those of the connection part, with more guards and more that they change, so
that its theorems carry over. FailedSocketIsClosed uses them: no child can publish between unlock
and disconnect. `AssemblyInv` adds to FrameInAssembly that
`x_blockspersend` belongs to `x_vecsize` and the block counter is below it; from it
follow AudioTypeCorrect and OneLayoutPerFrame. BlocksStayInBuffer and FramesAreWhole
need `VecSizesFit`, that each vector size divides the frame: that dsp accepts other
sizes, which are larger than a frame, is the divergence udpsend_tilde_vecsize shows.
ImplementsSource: what leaves the external is a behaviour of `FrameSource`.

**Receiver** (from `ReceiverAssumption`, `FormatAssumption`). `RInv` relates the ring to
the history: the frames completed and not played are those between the indices plus a
ring for each overflow (`CountInv`), a frame that is partly played is in the ring
(`BlockInv`), and the slot in assembly has received all but the last `x_nbytes` bytes
(`AssemblyInv`), which is what makes it complete when it joins the queue. Theorems:
ReceiverTypeCorrect, OnlyCompleteFrames, LossIsCounted, FrameHeld, QueueIsFilledFirst,
and QueueHoldsWhatItShould, which is what the run checks of the queue.
OnlyReceivedBytesPlayed assumes `TagsFit`: the sender uses the same x_blocksize; it
needs in addition that tags of queued slots fit (`FitInv`).

**The stream** (from `StreamAssumption`, `SourceAssumption`, `ReceiverAssumption`,
`SnugAssumption`: objects with another blocksize are not made, udpsend~.c:881,
udpreceive~.c:755). `StreamInv` says what the faults leave of the order of what is under way:
each datagram of a frame that is not struck is followed by the next (`ChainInv`, `BackInv`), and
such a frame stands between those sent before and after it (`OrderedInv`); what is heard, queued
and under way follow each other in this order (`PlaylistInv`), and a slot that is being filled
for such a frame waits for exactly the datagram that comes next (`AssembledInv`). A loss, a
duplicate, a swap and a reset need one proof: what is under way after it are some of the
datagrams before it in another order, which only frames that are struck notice (`Carries`).
QueuedFramesIntact (the first part of DamageIsLocal) and StreamImplementsFifo follow.
DamageStaysLocal adds `LocalInv`: the bytes that a slot with a struck frame still misses and the
undisturbed ones that came since are together no more than the frame (`ReachInv`), and data that
comes without its tag lost it to such a slot (`StrayInv`). It supposes that the receiver has an
outlet for each channel: a wider frame is refused as it should be, without being struck. That
the datagrams of a frame add up to its tag is DataAmountsToTag.

**Clocks** (from `PdClockAssumption`). `clock_setlist` and the history of
what was asked for hold exactly the clocks that are set, each once; the list is sorted by
time, and where times are equal by that order (ListIsTrue, kept by each of the insertion,
the removal and the call of the first). ImplementsAgenda then needs only that the first
of the list is what `Agenda` calls next. MetrosDoAsTold adds `MetroInv`: a metro that is
in its bang will set its clock when that returns, exactly if `x_hit` is still set, which a
stop from within the bang clears.

**qlist** (from `QlistAssumption`). `CallsInv` says what each call that has
not returned will find: one at most is at the score, and it is the innermost when it is at
an item; as long as nothing has rewound it, a call that plays by itself has no wait set,
and one that was told `next` leaves the wait as it was. `WaitInv` ties the wait to
`x_whenclockset` and `x_clockdelay`, up to the end of the score; QlistPlaysItsScore
follows.

**The app's UDP socket** (from `UdpSocketAssumption`). A message
is at one place at a time, and `OrderInv` orders the places: all that is settled was given
before the current send, this before the socket's queue, this before the blocks that are
still to run. With it every append to `onWire` or `notSent` is behind what is there
(MessagesLeaveOnceInOrder). That no closeAfterSending loses a message comes from the test
the code makes before it closes.

**tcpserver's input** (from `InputAssumption`). At the end of each
callback the head has met the tail (InputIsPutOut), so that a callback that does not fill
the buffer puts out just what it received; one that fills it puts out nothing (section 6).

**httpreceive** (from `HttpAssumption`). The object is between responses, within a header
or within a message, and `WhereItIs` says for each what has come out: all contents of what was
answered; all but those of the last response, the header of which is in `x_status_buf`, the list
and the stream, and complete in none of its proper beginnings; or all but the rest of a message,
which is as long as `x_remaining`. That `buf` and `x_status_buf` hold the parts of a plain
response with a 0 behind each is used where its header is complete: what is read then is the header
that was sent, so nothing is overrun. Headers and contents are lists of lists put one after the
other (`FlattenSeq`), of which the proof needs only what appending one more gives
(HttpreceivePassesResponses).

**OSC** (from `OscAssumption`). First the codec. What its recursive functions (`Decoded`,
`ReadCodes`, `SlipBytes`, `Given`) compute of one more element is proved by a least
counterexample; what holds of all lists of characters, arguments, elements of a bundle or bytes
then follows by `ByAppending`, induction over lists with a set in place of an operator.
StringIsRead, BlobIsRead and NumberIsRead lead to ArgumentsAreRead, MessageIsRead and
PacketIsRead: a packet is read as it was written if its strings are aligned (section 6 has what
happens if not). SlipJoined says that it does not matter where SLIP data is cut, FrameIsRead
what a frame gives. In the invariant, each connection has a tag, and the three tables under it,
to itself (`OscTagsInv`), and to read the bytes under way into what is held for a connection
completes what was sent over it, in whatever part of an escape or a frame the last read ended
(`OscReadInv`); OscServerTakesWhatWasSent follows. Where a packet was not aligned, only the
types are claimed.

**tcpserver** (from `TcpServerAssumption`). `NamesInv` says which places of `x_sr` name
clients while a list has its gap and the entries behind it move, `DescriptorInv` that each client has
one of these places and one descriptor and that no other descriptor is open: the two need each
other, since a client is looked up by its descriptor, which is given out again. ServerTableIsTrue
follows; that an outlet's messages find the table whole, or already counted down with nothing moved,
is part of both. `WalkInv` says that entries only move down, one by one: whoever has got the
broadcast stands before the place the thread is at, and whoever has got it twice one place further
down (`Walked`), where the thread has seen it again while its entry stood twice
(ServerBroadcastsAtMostTwice).

**tcpclient** (from `TcpClientAssumption`). Until `select()` fails, `ConnectorInv` follows the socket
of a connector until it is published; `SlotInv` says that a thread marks its slot until it is over and that
disconnect does not go on before all marks are gone, which is what keeps `x_fd` open under a
sender (ClientUsesWhatIsThere).

**tcpreceive** (from `TcpReceiveAssumption`). DescriptorsStayTrue needs to know in which order a
round comes to the entries: `WalkInv` says that the listening sockets come first, so that until
the walk has passed them nothing that `select()` spoke of has been closed, and what it says of
a connection is still about the same connection, except where an entry was skipped.

**udpsend, tcpsend, udpreceive** (from `MessageSocketsAssumption`). `OwnersInv`: who is not `affected`
holds a socket of its own that no other holds, and the first to be affected is a udpreceive;
`PolledInv` and `WalkInv` relate the poll list and what `select()` found to that as long as
nobody is affected, which is as far as NeverBlocks reaches (ObjectsUseTheirOwn).
SendersSendTheMessage adds `SendingInv`: as long as the object that sends is not affected, its
socket takes the bytes, a datagram whole and in one part; of a stream the count of the bytes that
were taken stays within the message, even though each part is taken from the start of it.

**line, pipe** (from `LineAssumption`, `PipeAssumption`). A ramp is on its way while the clock is
set, with `x_1overtimediff` known once the first output has returned (`WayInv`), and the clock
is never set for later than its end (`StepsInv`): LineGoesWhereItShould. A list that a pipe was
sent is held with its clock set, forgotten, or left to the one call that puts it out, however
deep that call stands in the stack (`HangsInv`, `ListsInv`): PipePutsOutOnce.

**Session** (from `SessionAssumption`). Three invariants over the same types. `AskedInv`: each
service, query, message and stream that leads a channel to a device goes back to something the
device's user did; it is kept although any message may be lost (StreamsWereAsked). `NewsInv`: what
the browser has heard, the news still queued for it and the question it waits for give together
the services that are registered, per name and in order (ScriptTellsWhoIsThere). `ServerInv`, for
server.py only: nobody but the script controls the patch, so that the messages it has sent on a
name and those under way are in turn `connect` and `disconnect` and the udpsend~ is at rest when
they arrive (ServerStreamsToOwner); the cases in which it is not are those the property excepts. `ServesAt` says
which port each udpsend~ that serves or tries to was told: what createMessage makes of the one that
the script and, if they control the patch, the apps send.

**writesf~** (from `WriteSfAssumption`: the buffer holds a vector of MAXVECSIZE for each sample
size that open and each number of channels that creation allows). `RequestInv` is the protocol of
`x_requestcode` between the two threads, `PlaceInv` where the fifo begins and ends: at multiples
of a block, which stay multiples when the vector shrinks, because vector sizes divide one another,
and only while it has not grown since open. `WritingInv` says that what the child writes, without
the lock, is a part of it that perform leaves alone; `FileInv` then that the bytes taken are those
in the file followed by those in the fifo, and `EndInv` that the fifo is empty when the header is
finished (FileHoldsWhatWasHeard).

**readsf~** (from `ReadSfAssumption`, which only says what a file and a format are: it bounds
neither channels nor blocks). In `ReadInv`, `ReadRequestInv` is the protocol of `x_requestcode`,
`FreshInv` says that from an open until the file is there nothing is put out, `FeedInv` where in
the file the child is, `ReadFifoInv` that the bytes read are those put out followed by those in
the fifo, across its end, and `ReadingInv` that what is being read has room; `OutputInv` is the
property (FileIsPlayed). The fifo is described only while what is performed counts, under the
conditions of the property. `grown` and `stale` are two of them, the other is FramesAreWhole: the
buffer holds a vector, the data is whole frames, and the test with which perform makes sure of a
block, `fifohead < fifotail + wantbytes - 1` (d_soundfile.c:1956), which is off by one and lets a
block begin of which the last byte has not been read, does no harm, because no read ends there
(`Aligned`): with blocks of 64 samples and READSIZE 65536 it cannot, with blocks of one sample of
three bytes it can.

**libpd's queue** (from `PdQueueAssumption`). Each cell has its place in all that is ever
written. `QueueRingInv` says that the cells between the indices are those that come next, and
that room for what the hook still has to write is left beside them; `QueueTakenInv` that what
the reader took ends where a message does unless that message is cut, and `QueueNextInv` that
the reader stands at the first message it has not delivered (QueueDeliversInOrder). That
neither thread needs a lock is in this: each step of one leaves the other's part as it is.

Some theorems state properties no configuration lists, because one that is listed implies
or repeats them: the type invariants of udpsend~ and udpreceive~ (CTypeOK, AudioTypeOK,
RTypeOK), FrameInAssembly, PlayedFrameIsHeld, StartsWithFullQueue, ReportedWhenSettled;
BlockFits is the property of the run that is violated, proved under the assumption that
excludes the violation.

Only model-checked:

- all liveness (AttemptEnds, EveryMessageSettles, QueuedIsDelivered, PdGoesOn, PeersAreServed,
  WaitsEnd, PublishedIsTold), which is beyond the prover;
- HearsItsSources: `Reusable` and `ToBeHeard` are recursive operators, about which nothing can
  be proved here, and the property is about everything the sort compiles at once: the order of
  the chain, the buffers that are given out again, and where a switched canvas is skipped.

Where an operator is a recursive function (`Omit`, `Total`, `TotalLen`, `Undisturbed`,
`Bytes`, `FlattenSeq`, those of OSC), what is
needed of it is proved by a least counterexample (`LeastNatural`) in place of induction.

## 6. Where code and comments differ

Shown by a run:

- udpsend~.c:728: dsp checks the vector size against DEFAULT_AUDIO_BUFFER_SIZE, not
  against x_blocksize; a vector longer than a frame is accepted and perform writes past
  what a frame has room for in `x_cbuf` (udpsend_tilde_vecsize).
- tcpserver.c:318, 526: the buffer a sender thread reads is static, and the thread has
  only a descriptor number, so other bytes than were sent can reach a client, or
  another client (tcpserver_send).
- tcpclient.c:221: a disconnect between the connector's two writes leaves
  `x_connectstate` 1 without a socket: connect is refused and disconnect ignored from
  then on (tcpclient_state).

Seen while reading, and in the models where the line is modelled:

- tcpserver.c:1046: closing the gap leaves a copy of the last entry behind the list,
  though 1024 says "remove connection from list"; once that client has left, too,
  tcpserver_free frees it again.
- udpreceive.c:168 says "close the existing socket first", but after a change of port
  that failed (243) or a read error (81) the number is another socket's or none's: the
  next change closes the socket of another object. After a read error the poll function
  stays as well, select() fails from then on, and since s_inter.c:183 does not look at
  its result Pd waits in the first `recvfrom()`. The escape clauses of HoldsItsOwn and
  NeverBlocks, of which UsesItsOwn consists, say how far this reaches: without them a message to udpsend ends up in the
  stream of a tcpsend.
- udpreceive.c:170: a change of port from within a round opens a socket with the old
  number, which select() found readable.
- tcpsend.c:205, udpsend.c:524: `bp` is moved but not used; the parts after the first are
  taken from the start of the buffer. tcpsend.c:157: a number after a file that filled
  byte_buf is written behind it. tcpsend.c:74, udpsend.c:101, udpreceive.c:187: a bad
  host leaks the socket.

- udpsend~.c:150, 162: the outlet is called with `x_mutex` locked. A patch that answers the number
  with connect, disconnect or a float deadlocks: Pd's thread waits for the mutex it has (`stuck`);
  AttemptEnds and KeepsPromise are about patches that do not, or hold because nothing goes on.
- udpsend~.c:251: the child calls `clock_delay` outside Pd's scheduler lock; if the list
  insertion is lost, notify never resets `x_childthread_result`, and the object answers
  "already trying to connect" for ever. The models take the clock as set.
- bonjourBrowseOSC.py:27, 108: `resolvedClients` holds one object many times, and each
  service that is resolved overwrites it: of several clients only the one resolved last
  is disconnected when it disappears, though 73 says that a message is sent when a
  client "was found or disappeared". TellsWhoIsThere holds all the same, its converse
  only for server.py (StreamsToOwner).
- server.py:115, multistream.pd:27: Bonjour renames a second service of a channel to
  "... (2)", which becomes part of the OSC address and is not routed; the device is
  still told `/connect`, which 77 says means that it is connected to the patch.
- server.py:117: the port is sent as an integer, though 111 says that it is the "port used in
  subpatch within iOS application" and multistream.pd:48 unpacks it with `unpack s s s`, which drops
  what is no symbol: udpsend~ is told no port and sends to DEFAULT_PORT, 8000 (udpsend~.c:277),
  where no app listens. StreamsToOwner says that the stream reaches the right device, at that port.
- server.py:165, 180: a socket error while the device is told ends the browser's thread as well,
  after the patch was told.
- server.py:171: the first client ever found under a name is told `/disconnect`, also
  when the name has passed to another device; entries are never removed.
- server.py:92: osc_client_send_host_ip sends `/disconnect` where 90 says that it tells
  the host's address, and nothing calls it: with server.py no app can reach the patch.
- server.py:199: when a service cannot be resolved `info` is None, and the exception ends
  the browser's thread (`alive` in Session).
- BRViewController.m:126: the channel button changes the channel without leaving the
  old one; a device can then get two streams on one port.
- udpsend~.c:753: a `format` message that names the format in use does not undo a
  format asked for earlier and still pending, though the console says it is set.
- udpsend~.c:150 says "we should be connected", but a disconnect may precede the
  callback, which then reports 0 a second time.
- udpreceive~.c:396 gives the range 1..16 for what is 0..15; a t_tag is 24 bytes as
  compilers pad it, where a comment says 16.
- tcpserver.c:1035-1037: the outlets are called between the decrement and the removal, though 1024
  says "remove connection from list". A disconnect from within them works on the list meanwhile. With
  clients A, B and C, of which B leaves and the patch then disconnects A: the inner call moves B and C
  down, the outer one frees C's receiver where it looks for B's, and B's entry, whose socket is
  closed, stays. `disconnectsocket` does not find the last client, but leaves its number in
  `x_sock_fd`. The model ends at such a disconnect (`torn`).
- tcpserver.c:1106: connectpoll looks into `x_sr[i]` again after it has put out the address; if the
  patch has disconnected the new client it follows NULL. 300: what a client has sent is put out of a
  receiver that the patch may have freed when the address was put out. Both set `crashed`.
- tcpserver.c:940, 1046: the broadcast thread has no lock; a client that it sees at two places, while
  its entry stands twice, gets the broadcast twice (BroadcastAtMostTwice).
- tcpserver.c:953: a broadcast ends at the first client that cannot be sent to, though
  791 says "to all clients"; it also passes over a client whose entry moves.
- tcpserver.c:1073: a client more than `x_sr` has places for is entered behind it; 632
  refuses client 32 as out of range [1..32].
- tcpserver.c:283: input that fills the circular buffer exactly is taken for none; the
  branch for a buffer that is too full, "drop the whole thing", is never reached.
- tcpclient.c:498: when `select()` fails the socket is closed, but `x_fd` and `x_connectstate` stay: the
  next poll, send or disconnect uses a number that is closed or somebody else's (`selectFailed`, the
  condition of FdIsOpen and SendsWhileOpen).
- tcpclient.c:362: `pthread_create` reports failure by a positive number, which the
  comparison with 0 misses: the slot stays marked (the escape clause of WaitsEnd).
  202: a bad host leaks the socket. 231: a second connect before the first is done is
  not refused; the first socket is lost. 379: the buffers of a long message may reach
  the stream in another order. 603: free leaves `x_sendclock` set.
- tcpreceive.c:147: an object created while others have connections stands behind them
  in the poll list, and a descriptor closed and accepted again within a round is then
  read without being readable; NeverBlocks is checked for objects created together.

In the app's OSC:

- GCDAsyncUdpSocket.h:977 says that the delegate is told didNotSend when an error occurs,
  but an error of `sendto()` closes the socket, and the current and the queued sends are
  discarded without a word; so they are when `socket()` fails.
- GCDAsyncUdpSocket.m:3953 waits "for a notification of available space", but
  kSock4CanAcceptBytes, once set, is cleared only with the socket, so that the source
  stays suspended and the message waits until its timeout of three seconds.
- NSString+F53OSCString.m:75: the length of a string is counted in characters where the
  reader goes on by bytes; after a string with a wide character arguments are misread or
  lost. A blob comes back with its padding.
- httpreceive.c:160-162: "if the incoming bytes are in more than one list this won't work". A message
  does come out whole from several lists, `x_remaining` being kept between them, as PassesResponses
  says; what is not cached is only that one list is put out for each.
- httpreceive.c:44, 98-133: the reason phrase and the names and values of fields are copied to
  `buf[256]` whatever their length; 84 writes the 0 one place behind the header's last byte, which is
  behind `x_status_buf` when that is full (`Overruns`). PassesResponses is claimed of responses whose
  parts fit.
- httpreceive.c:161: `Content-Length` is matched as written; a response that announces its
  message otherwise, or is longer than the buffer, derails what follows. PassesResponses
  is claimed of responses that are plain in this sense.

In Pure Data and libpd:

- d_ugen.c:1064: for a switched subpatch "fill them in now" is skipped when a loop stands
  before its outlet~, and the parent hears what its buffer held before (SwitchedLoop, left
  out of HearsItsSources). Two connections of the same outlet and inlet end in
  `bug("signal_free 4")`.
- m_sched.c:107: clock_setunit promises to reschedule what is set; a unit in samples is
  negative, the quotient of the two comes out negative, and nothing is rescheduled. The
  test for "no change" (117) never applies to units in milliseconds.
- x_time.c:299: `stop` sets back neither x_targettime nor x_prevtime, so that the next ramp
  starts where the stopped one began; a stop, set or jump sent from within the output of a
  ramp is undone when line_tick sets the clock afterwards, and a time sent there is lost
  ("meddled", left out of GoesWhereItShould).
- x_time.c, pipe: flush puts the newest list out first, and never ends if the patch feeds
  each list back.
- x_text.c:1688: a second change of tempo in one wait reckons from the delay before the
  first; a wait that began at time 0 ignores the tempo, 0 being the mark of no wait. A
  `next` that reaches the end makes it ignored, too, and the bang at the end comes twice
  if a wait was set; `read` leaves the clock set.
- d_soundfile.c, readsf~: x_eof of an earlier file that could not be opened is set after
  the open that follows has cleared it (1685): that file is not played and the bang comes
  at once, though 1647 says that an ensuing open is noticed. A late open overwrites the
  format of the next (1677). After a read error perform waits for ever, x_fileerror being
  set and not x_eof (1805). The vector size may grow while a file is played, of which 1704 says that
  "there could be a problem here": blocks then run over the end of the fifo (2012, 2474 for
  writesf~), bytes are lost or taken from behind the buffer (`grown`, PerformTraps, TakeTraps). perform
  reads the sample size, byte order, channels and vector size before it locks the mutex (1945-1951)
  and again only if it waits: a first block may be made with a format that the child has just
  replaced, or half of it (`stale`). No code limits the channels of a file (268, 316, 379) or of open
  (2087): if the buffer does not hold a vector of them the fifo has no bytes (1706), the child and
  perform wait for ever (FifoIsTooSmall), and 0 channels in a header divide by zero (1706, 2102). The
  end of the bytes (1956) and of a last partial block (1988)
  is off by one. dsp sets the
  signal period without the division by 16 that creation makes (2102).
- d_soundfile.c, writesf~: after a write error (2333) the child goes round with the mutex
  held; a failed creation followed by start lets perform wait for ever once the fifo is
  full; CLOSE (2376) and a failed creation (2263) clear the request whatever it has become,
  so that a QUIT is lost and free waits for ever, though 2603 says "request QUIT and wait
  for acknowledge"; a stop that comes before the file was created leaks its descriptor
  (2267) and loses what was performed; x_itemswritten is too small when a frame does not
  divide what is written at a time (2342). The conditions of PlaysTheFile,
  WritesWhatItHears and PdGoesOn name these cases.

## 7. What is not modelled

- udpsend~: the setters for multicast options (`setsockopt` on x_fd under x_mutex), info.
- udpreceive~: createsocket and free (system calls on one socket), the address outlet,
  the statistics that only info reads.
- tcpserver: clientbuf, status messages, dump.
- tcpclient: host and port, received data, buf, dump, and what the clock callbacks put
  out.
- session: the status shown to the user and the messages that only change it, the error
  statistics with their timer, devices that change their address.
- udpsend: the setters of multicast options. udpreceive: its count of bytes.
- httpreq, which formats one request; bang and verbosity of httpreceive, which print.
- OSC: reading by F53OSCClient, messages made from text, patterns as predicates, coding
  for archives, MetatoneNetworkManager, whose connections are those of F53OSC.
- GCDAsyncUdpSocket: connecting, receiving, binding, multicast, filters, and the choice
  between IPv4 and IPv6.
- DSP graph: block~ with another block size or overlap, resampling, the bang to a switched
  block, several root canvases. Clocks: timer and realtime, which only read the time, an
  object freed in its own output, and the scheduler's wait for real time. What a list of a
  pipe is made of; textfile and the text objects.
- soundfiles: headers and the conversion of samples, soundfiler, which uses no thread. Formats for
  which the products of sample size, channels and vector size are no int.
- qlist (x_text.c): a message of the score that makes the patch change the score (`add`, `clear`, `read`) moves
  the atoms that qlist_donext still passes on (1579, 1581); the model takes them as sent.
- tcpreceive, tcpclient, httpreceive and tcpserver's input: what the patch sends to the object itself
  from within one of its outputs.
- the rest of Pure Data (editing, drawing, files, bindings, the other objects), libpd,
  DropboxSDK and other pods; the user interface, which keeps no protocol state.
- floating-point arithmetic of samples, wall-clock time, and memory damage after the
  points where a model stops (ChildAfterFree, crashed, freed).

## 8. Plan

Done: all that section 3 lists, with the proofs of section 5.

Next, in this order:

1. Modules: blocks of other sizes in the DSP graph; Pd's bindings and message dispatch
   (`m_binbuf.c`, `m_class.c`), which qlist and the session rest on; receiving and
   connecting by GCDAsyncUdpSocket.
