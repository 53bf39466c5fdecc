----------------------------- MODULE PdQueue -----------------------------
(***************************************************************************)
(* libpd's queue of messages from Pd to the app: a ring buffer without a   *)
(* lock.  The hooks of Pd write, on whichever thread has Pd (PdBase lets   *)
(* one at a time in): the audio thread, or the main thread when the app    *)
(* sends Pd a message.  A timer of the main thread reads, and hands each   *)
(* message to the delegate, which may send Pd a message in turn.           *)
(*                                                                         *)
(* A message is a header and a body, which the hooks write with one call   *)
(* of rb_write_to_buffer for the header and one or two for the body; the   *)
(* body of the queue for MIDI is empty.  A cell is the k-th piece of a     *)
(* message; how many bytes a piece has is left out.                        *)
(***************************************************************************)
EXTENDS Integers, Sequences

CONSTANTS
  BufferSize,     \* cells of the ring buffer, one of which stays free
  HeaderSize,     \* cells of a pd_params
  Bodies,         \* how bodies are written: sequences of lengths, one for each call that
                  \* writes anything
  MaxMessages     \* bound: messages that are queued

ASSUME PdQueueAssumption ==
  /\ BufferSize \in Nat \ {0} /\ HeaderSize \in Nat \ {0} /\ MaxMessages \in Nat
  /\ Bodies \subseteq Seq(Nat \ {0})

VARIABLES
  buf, write_idx, read_idx, \* the ring buffer
  queued,         \* the bodies of the messages that found room, a message being its place
  writes,         \* the lengths the hook is still to write of the last of them
  copied,         \* whether the first of these has been copied, but not published
  writer,         \* the thread that runs the hook
  temp_buffer, available, next, \* of the reader; next is an index of temp_buffer
  reader,         \* what the reader does
  delivered,      \* messages the delegate was handed: the message and the body it saw
  \* history
  cut             \* messages of which the reader saw the header before the body was there

ring == <<buf, write_idx, read_idx>>
hookvars == <<queued, writes, copied, writer>>
readervars == <<temp_buffer, available, next, reader>>
qvars == <<ring, hookvars, readervars, delivered, cut>>

QueueThreads == {"audio", "main"}
Total(lengths) ==
  LET sum[n \in 0..Len(lengths)] == IF n = 0 THEN 0 ELSE sum[n - 1] + lengths[n]
  IN  sum[Len(lengths)]
Slot(i) == i % BufferSize

NoCell == [message |-> 0, piece |-> 0]
Piece(m, k) == [message |-> m, piece |-> k]
\* The pieces of a message that are its body.
Body(m) == [k \in 1..Total(queued[m]) |-> Piece(m, HeaderSize + k)]

rb_available_to_write == (BufferSize + read_idx - write_idx - 1) % BufferSize
rb_available_to_read == (BufferSize + write_idx - read_idx) % BufferSize

QInit ==
  /\ buf = [i \in 0..BufferSize - 1 |-> NoCell] /\ write_idx = 0 /\ read_idx = 0
  /\ queued = <<>> /\ writes = <<>> /\ copied = FALSE /\ writer = "audio"
  /\ temp_buffer = [i \in 0..BufferSize - 1 |-> NoCell] /\ available = 0 /\ next = 0
  /\ reader = "waits"
  /\ delivered = <<>> /\ cut = {}

-----------------------------------------------------------------------------
(* The hooks.                                                              *)

\* The main thread is not in the hooks while it runs the reader's own code; it may
\* come to them from the delegate.
MayWrite(thread) == thread = "main" => reader \in {"waits", "dispatches"}

\* Mutant: asks for the room of the header only.
HookTakesHeaderRoom(thread, body) ==
  /\ writes = <<>> /\ MayWrite(thread) /\ Len(queued) < MaxMessages
  /\ rb_available_to_write >= HeaderSize
  /\ queued' = Append(queued, body)
  /\ writes' = <<HeaderSize>> \o body
  /\ writer' = thread
  /\ UNCHANGED <<ring, copied, readervars, delivered, cut>>

\* A hook begins with a message for which there is room; one without is dropped.
Hook(thread, body) ==
  /\ writes = <<>> /\ MayWrite(thread) /\ Len(queued) < MaxMessages
  /\ rb_available_to_write >= HeaderSize + Total(body)
  /\ queued' = Append(queued, body)
  /\ writes' = <<HeaderSize>> \o body
  /\ writer' = thread
  /\ UNCHANGED <<ring, copied, readervars, delivered, cut>>

\* rb_write_to_buffer: the bytes are copied behind write_idx, around the end,
Copy ==
  LET m == Len(queued)
      done == HeaderSize + Total(queued[m]) - Total(writes) IN
  /\ writes # <<>> /\ ~copied
  /\ buf' = [i \in DOMAIN buf |->
               LET k == (BufferSize + i - write_idx) % BufferSize
               IN  IF k < Head(writes) THEN Piece(m, done + k + 1) ELSE buf[i]]
  /\ copied' = TRUE
  /\ UNCHANGED <<write_idx, read_idx, queued, writes, writer, readervars, delivered, cut>>

\* and then write_idx is advanced.
Publish ==
  /\ writes # <<>> /\ copied
  /\ write_idx' = Slot(write_idx + Head(writes))
  /\ writes' = Tail(writes) /\ copied' = FALSE
  /\ UNCHANGED <<buf, read_idx, queued, writer, readervars, delivered, cut>>

-----------------------------------------------------------------------------
(* libpd_queued_receive_pd_messages, on the main thread.                   *)

MainIsFree == writes = <<>> \/ writer # "main"

Look ==
  /\ reader = "waits" /\ MainIsFree /\ rb_available_to_read > 0
  /\ available' = rb_available_to_read
  /\ reader' = "reads"
  /\ cut' = IF writes # <<>> /\ Total(writes) < HeaderSize + Total(queued[Len(queued)])
            THEN cut \cup {Len(queued)} ELSE cut
  /\ UNCHANGED <<ring, hookvars, temp_buffer, next, delivered>>

\* rb_read_from_buffer copies, to a buffer that keeps what was in it behind,
ReadAll ==
  /\ reader = "reads"
  /\ temp_buffer' = [i \in DOMAIN temp_buffer |->
                       IF i < available THEN buf[Slot(read_idx + i)] ELSE temp_buffer[i]]
  /\ reader' = "has read"
  /\ UNCHANGED <<ring, hookvars, available, next, delivered, cut>>

\* Mutant: releases one cell more than it has read.
ReleaseTooMuch ==
  /\ reader = "has read"
  /\ read_idx' = Slot(read_idx + available + 1)
  /\ next' = 0 /\ reader' = "dispatches"
  /\ UNCHANGED <<buf, write_idx, hookvars, temp_buffer, available, delivered, cut>>

\* and releases the room.
Release ==
  /\ reader = "has read"
  /\ read_idx' = Slot(read_idx + available)
  /\ next' = 0 /\ reader' = "dispatches"
  /\ UNCHANGED <<buf, write_idx, hookvars, temp_buffer, available, delivered, cut>>

\* What is at `next` is a header: the message is handed to the delegate with what is
\* behind the header, whether or not it was read now.
DispatchMessage ==
  LET m == temp_buffer[next].message
      length == Total(queued[m]) IN
  /\ reader = "dispatches" /\ MainIsFree /\ next < available
  /\ temp_buffer[next].piece = 1
  /\ delivered' = Append(delivered,
       [message |-> m,
        body |-> [k \in 1..length |->
                    LET i == next + HeaderSize + k - 1
                    IN  IF i < BufferSize THEN temp_buffer[i] ELSE NoCell]])
  /\ next' = next + HeaderSize + length
  /\ UNCHANGED <<ring, hookvars, temp_buffer, available, reader, cut>>

\* It is not: the program takes part of a body for a header, and what it does then is
\* undefined.  The reader stops here.
TakeBodyForHeader ==
  /\ reader = "dispatches" /\ MainIsFree /\ next < available
  /\ temp_buffer[next].piece # 1
  /\ reader' = "is lost"
  /\ UNCHANGED <<ring, hookvars, temp_buffer, available, next, delivered, cut>>

EndOfRound ==
  /\ reader = "dispatches" /\ MainIsFree /\ next >= available
  /\ reader' = "waits" /\ available' = 0 /\ next' = 0
  /\ UNCHANGED <<ring, hookvars, temp_buffer, delivered, cut>>

-----------------------------------------------------------------------------
(* Specification.                                                          *)

Writer == Copy \/ Publish
Receive == Look \/ ReadAll \/ Release \/ DispatchMessage \/ TakeBodyForHeader \/ EndOfRound

QNext ==
  \/ \E thread \in QueueThreads, body \in Bodies : Hook(thread, body)
  \/ Writer
  \/ Receive

\* A hook that has begun runs on; the timer of the main thread fires again and again.
QFairness == WF_qvars(Writer) /\ WF_qvars(Receive)

QSpec == QInit /\ [][QNext]_qvars /\ QFairness

-----------------------------------------------------------------------------
(* Properties.                                                             *)

\* Without a lock between the two threads, whatever the steps of a write and of a read
\* interleave, the delegate is handed the messages in the order in which they were
\* queued, none twice and none left out, each with its own body: unless the reader
\* looked between the writes of a message, and then of that message only the header is
\* right.  Only after that can the reader be lost.
DeliversInOrder ==
  /\ \A i \in DOMAIN delivered :
       /\ delivered[i].message = i
       /\ i \notin cut => delivered[i].body = Body(i)
  /\ reader = "is lost" => cut # {}

\* A message that found room reaches the delegate, if the reader does not get lost.
QueuedIsDelivered ==
  \A m \in 1..MaxMessages : (m <= Len(queued)) ~> (m <= Len(delivered) \/ reader = "is lost")
=============================================================================
