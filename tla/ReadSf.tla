------------------------------- MODULE ReadSf -------------------------------
(***************************************************************************)
(* readsf~: the child thread reads a soundfile ahead into the fifo, and    *)
(* perform takes a block from there for each tick.  Left out are the print *)
(* method, the conversion of samples, the frames that open may skip, and   *)
(* formats of which the bytes of a block are no int.                       *)
(*                                                                         *)
(* External is the file system: a file can be opened and has a good header *)
(* or not; read() returns all that is asked for up to the end of the file, *)
(* or fails.                                                               *)
(***************************************************************************)
EXTENDS SoundfileThread

CONSTANTS
  Files,        \* names to open: records [formats, data, size] by name: the header tells
                \* one of the formats, and the bytes of the data, which may be followed by
                \* something else; or there is no header, and formats is empty
  Formats       \* that open may ask for

\* A format is the bytes of a sample, and how many channels: as many as the header says,
\* and none if it says so, or as many as open asks for.
ASSUME ReadSfAssumption ==
  /\ {NoFile, NotOpened} \cap DOMAIN Files = {}
  /\ Files \in [DOMAIN Files -> [formats : SUBSET ((Nat \ {0, 1}) \X Nat), data : Nat, size : Nat]]
  /\ Formats \subseteq (Nat \ {0, 1}) \X (Nat \ {0})
  /\ \A f \in DOMAIN Files : Files[f].data <= Files[f].size

VARIABLES
  x_bytelimit,  \* bytes of the data still to read, where the header tells
  mine,         \* the format that perform has read before it has the mutex
  output,       \* history: the bytes that the last block was made of
  heard,        \* history: how many bytes there were since open
  ended,        \* history: the object stopped by itself
  stale         \* history: since open, perform has put out frames of another format

heardvars == <<output, heard, ended, stale>>
readvars == <<soundfilevars, x_bytelimit, mine, heardvars>>

NotRead == <<0, 0>>

\* The object is one.
IsReadSf == x_class = "readsf~" /\ UNCHANGED x_class

ReadInit ==
  /\ SoundfileInit
  /\ x_bytelimit = 0
  /\ mine = NotRead
  /\ output = <<>> /\ heard = 0 /\ ended = FALSE /\ stale = FALSE

Lesser(m, n) == IF m < n THEN m ELSE n

-----------------------------------------------------------------------------
(* readsf_child_main.  At the top no file is open: it has been closed at   *)
(* lost, so that the code that closes it elsewhere has nothing to do.      *)

TakeOpen ==
  /\ diskthread = "top" /\ x_requestcode = "open"
  /\ x_requestcode' = "busy"
  /\ x_fileerror' = FALSE
  /\ doing' = [file |-> x_filename, format |-> formatvars]
  /\ diskthread' = "opening"
  /\ UNCHANGED <<x_state, x_filename, formatvars, x_filedes, x_eof, fifovars, tickvars, parent,
                 asleep, x_bytelimit, mine, heardvars>>

\* The format goes to the object, one field after the other, while perform may be reading
\* one after the other.
SetsFormat(format) ==
  /\ x_bytespersample' = format[1] /\ x_sfchannels' = format[2]
  /\ IF parent = "called"
     THEN mine' \in {mine[1], format[1]} \X {mine[2], format[2]}
     ELSE UNCHANGED mine

HasHeader(f) == Files[f].formats # {}

\* In the file that has been opened.
FormatsFound == IF HasHeader(doing.file) THEN Files[doing.file].formats ELSE {doing.format}

\* open_soundfile: what it finds goes to the object, whatever that was asked meanwhile.
Opened(format) ==
  LET file == Files[doing.file]
      frame == Frame(format)
      fifosize == FifoSize(frame)
      sigperiod == SigPeriod(fifosize, Signals, frame, x_vecsize)
  IN  /\ SetsFormat(format)
      /\ x_bytelimit' = IF HasHeader(doing.file) THEN file.data ELSE file.size + 1
      /\ x_filedes' = [file |-> doing.file, at |-> 0]
      /\ IF x_requestcode # "busy"
         THEN diskthread' = "lost" /\ UNCHANGED <<fifovars, tickvars>>
         ELSE /\ diskthread' = "stream"
              /\ x_fifohead' = 0
              /\ x_fifosize' = fifosize
              /\ x_sigcountdown' = sigperiod /\ x_sigperiod' = sigperiod
              /\ UNCHANGED <<x_fifotail, x_buf, vecvars>>
      /\ doing' = Nothing
      /\ UNCHANGED <<x_state, x_requestcode, x_filename, x_fileerror, x_eof, parent, asleep, heardvars>>

Opens == diskthread = "opening" /\ \E format \in FormatsFound : Opened(format)

\* The remainder to a frame of no channels is asked for.
OpenTraps ==
  /\ x_class = "readsf~"
  /\ diskthread = "opening" /\ x_requestcode = "busy"
  /\ \E format \in FormatsFound : Frame(format) = 0
  /\ ProgramEnds
  /\ UNCHANGED <<x_bytelimit, mine, heardvars>>

OpenFails ==
  /\ diskthread = "opening"
  /\ SetsFormat(doing.format)
  /\ x_fileerror' = TRUE
  /\ x_eof' = NotOpened
  /\ diskthread' = "lost"
  /\ doing' = Nothing
  /\ UNCHANGED <<x_state, x_requestcode, x_filename, x_filedes, fifovars, tickvars, parent, asleep,
                 x_bytelimit, heardvars>>

\* Mutant: the buffer may be filled, and looks empty then.
RoomWhenFull ==
  IF x_fifohead >= x_fifotail THEN Lesser(x_fifosize - x_fifohead, READSIZE)
  ELSE IF x_fifotail - x_fifohead - 1 >= READSIZE THEN READSIZE ELSE 0

\* How much fits in: to the end of the buffer, but not all of it; or as much as is
\* read at once.
Room ==
  IF x_fifohead >= x_fifotail
  THEN IF x_fifotail # 0 \/ x_fifosize - x_fifohead > READSIZE
       THEN Lesser(x_fifosize - x_fifohead, READSIZE) ELSE 0
  ELSE IF x_fifotail - x_fifohead - 1 >= READSIZE THEN READSIZE ELSE 0

Feeds == x_requestcode = "busy" /\ x_eof = NoFile

BeginRead ==
  /\ diskthread = "stream" /\ Feeds /\ Room # 0
  /\ doing' = [file |-> x_filedes.file, want |-> Lesser(Room, x_bytelimit), to |-> x_fifohead]
  /\ diskthread' = "reading"
  /\ UNCHANGED <<x_state, x_requestcode, filevars, fifovars, tickvars, parent, asleep, x_bytelimit,
                 mine, heardvars>>

FifoIsFull ==
  /\ diskthread = "stream" /\ Feeds /\ Room = 0
  /\ ChildIsHungry
  /\ UNCHANGED <<x_bytelimit, mine, heardvars>>

StreamEnds ==
  /\ diskthread = "stream" /\ ~Feeds
  /\ diskthread' = "lost"
  /\ UNCHANGED <<x_state, x_requestcode, filevars, fifovars, tickvars, parent, doing, asleep,
                 x_bytelimit, mine, heardvars>>

\* n bytes have been read, when there is still the same to do.
TakesBytes(n) ==
  /\ x_fifohead' = IF doing.to + n = x_fifosize THEN 0 ELSE doing.to + n
  /\ x_bytelimit' = x_bytelimit - n
  /\ IF x_bytelimit' <= 0
     THEN x_eof' = doing.file /\ diskthread' = "lost" /\ UNCHANGED asleep
     ELSE SignalAnswer /\ diskthread' = "stream" /\ UNCHANGED x_eof
  /\ UNCHANGED x_fileerror

ReadBytes ==
  LET at == x_filedes.at
      n == Lesser(doing.want, Files[doing.file].size - at)
  IN  /\ diskthread = "reading"
      /\ x_buf' = [k \in DOMAIN x_buf |->
                    IF k \in doing.to..(doing.to + n - 1)
                    THEN <<doing.file, at + k - doing.to>> ELSE x_buf[k]]
      /\ x_filedes' = [x_filedes EXCEPT !.at = @ + n]
      /\ \/ /\ x_requestcode # "busy"
            /\ diskthread' = "lost"
            /\ UNCHANGED <<x_fifohead, x_bytelimit, x_eof, x_fileerror, asleep>>
         \/ x_requestcode = "busy" /\ n > 0 /\ TakesBytes(n)
         \/ /\ x_requestcode = "busy" /\ n = 0
            /\ x_eof' = doing.file
            /\ diskthread' = "lost"
            /\ UNCHANGED <<x_fifohead, x_bytelimit, x_fileerror, asleep>>
      /\ doing' = Nothing
      /\ UNCHANGED <<x_state, x_requestcode, x_filename, formatvars, x_fifosize, x_fifotail,
                     tickvars, parent, mine, heardvars>>

\* x_eof is left as it is.
ReadFails ==
  /\ diskthread = "reading"
  /\ x_fileerror' = (x_fileerror \/ x_requestcode = "busy")
  /\ diskthread' = "lost"
  /\ doing' = Nothing
  /\ UNCHANGED <<x_state, x_requestcode, x_filename, formatvars, x_filedes, x_eof, fifovars,
                 tickvars, parent, asleep, x_bytelimit, mine, heardvars>>

Lost ==
  /\ diskthread = "lost"
  /\ x_requestcode' = IF x_requestcode = "busy" THEN "nothing" ELSE x_requestcode
  /\ IF x_filedes # Nothing THEN diskthread' = "closing" /\ UNCHANGED asleep
     ELSE diskthread' = "top" /\ SignalAnswer
  /\ UNCHANGED <<x_state, filevars, fifovars, tickvars, parent, doing, x_bytelimit, mine, heardvars>>

ReadFileIsClosed ==
  /\ diskthread = "closing"
  /\ x_filedes' = Nothing
  /\ SignalAnswer
  /\ diskthread' = "top"
  /\ UNCHANGED <<x_state, x_requestcode, x_filename, formatvars, x_fileerror, x_eof, fifovars,
                 tickvars, parent, doing, x_bytelimit, mine, heardvars>>

TakeClose ==
  /\ diskthread = "top" /\ x_requestcode \in {"close", "quit"}
  /\ diskthread' = IF x_requestcode = "quit" THEN "exited" ELSE "top"
  /\ x_requestcode' = "nothing"
  /\ SignalAnswer
  /\ UNCHANGED <<x_state, filevars, fifovars, tickvars, parent, doing, x_bytelimit, mine, heardvars>>

ReadChild ==
  \/ /\ IsReadSf
     /\ \/ (ChildWakes \/ ChildHasNothingToDo) /\ UNCHANGED <<x_bytelimit, mine, heardvars>>
        \/ TakeOpen \/ Opens \/ OpenFails
        \/ BeginRead \/ FifoIsFull \/ StreamEnds \/ ReadBytes \/ ReadFails
        \/ Lost \/ ReadFileIsClosed \/ TakeClose
  \/ OpenTraps

-----------------------------------------------------------------------------
(* Pd's thread.                                                            *)

\* What the buffer held is forgotten: it is nothing of the file.
ReadOpen(f, format) ==
  /\ ParentRuns("idle")
  /\ x_requestcode' = "open"
  /\ x_filename' = f
  /\ x_fifotail' = 0 /\ x_fifohead' = 0
  /\ x_bytespersample' = format[1] /\ x_sfchannels' = format[2]
  /\ x_eof' = NoFile
  /\ x_fileerror' = FALSE
  /\ x_state' = "startup"
  /\ SignalRequest
  /\ output' = <<>> /\ heard' = 0 /\ ended' = FALSE /\ stale' = FALSE
  /\ grown' = (x_vecsize > MAXVECSIZE)
  /\ x_buf' = EmptyBuffer
  /\ UNCHANGED <<x_filedes, x_fifosize, x_vecsize, x_sigcountdown, x_sigperiod, parent, diskthread,
                 doing, x_bytelimit, mine>>

\* Mutant: a fifo that has wrapped around is taken for an empty one.
LacksBytesUnwrapped(want) == x_fifohead < x_fifotail + want - 1

\* The fifo has not got a whole block.
LacksBytes(want) == x_fifohead >= x_fifotail /\ x_fifohead < x_fifotail + want - 1

\* n bytes, of frames of so many.  They are not noted any more when perform was late, or
\* the vector has grown: then the blocks may be from anywhere, and never end.
PutsOut(n, frame) ==
  /\ stale' = (stale \/ frame # x_bytesperframe)
  /\ IF stale' \/ grown
     THEN output' = <<>> /\ heard' = 0
     ELSE output' = [i \in 1..n |-> x_buf[x_fifotail + i - 1]] /\ heard' = heard + n

\* perform reads the format, and then waits for the mutex.
PerformIsCalled ==
  /\ parent = "idle" /\ x_state = "stream"
  /\ parent' = "called"
  /\ mine' = formatvars
  /\ UNCHANGED <<x_state, x_requestcode, filevars, fifovars, tickvars, diskthread, doing, asleep,
                 x_bytelimit, heardvars>>

\* It reads the format again each time it has waited for the child.
PerformsWith == Frame(IF parent = "called" THEN mine ELSE formatvars)

PerformWaits(frame) ==
  /\ x_eof = NoFile /\ LacksBytes(frame * x_vecsize)
  /\ AwaitAnswer("performing")
  /\ UNCHANGED <<x_state, x_fifotail, tickvars, heardvars>>

\* What is left is put out, and silence behind it.
PerformEnds(frame) ==
  /\ x_eof # NoFile /\ LacksBytes(frame * x_vecsize)
  /\ x_state' = "idle"
  /\ PutsOut(((x_fifohead - x_fifotail + 1) \div frame) * frame, frame)
  /\ ended' = TRUE
  /\ SignalRequest
  /\ parent' = "idle"
  /\ UNCHANGED <<x_fifotail, tickvars>>

PerformBlock(frame) ==
  LET want == frame * x_vecsize IN
  /\ ~LacksBytes(want)
  /\ PutsOut(want, frame)
  /\ x_fifotail' = IF x_fifotail + want >= x_fifosize THEN 0 ELSE x_fifotail + want
  /\ CountsDown
  /\ parent' = "idle"
  /\ UNCHANGED <<x_state, vecvars, x_sigperiod, ended>>

ReadPerform ==
  /\ ParentRuns("called") \/ ParentRuns("performing")
  /\ \/ PerformWaits(PerformsWith) \/ PerformEnds(PerformsWith) \/ PerformBlock(PerformsWith)
  /\ mine' = NotRead
  /\ UNCHANGED <<x_requestcode, filevars, x_fifosize, x_fifohead, x_buf, diskthread, doing, x_bytelimit>>

\* A block reaches behind the buffer, and what is there is not to be read.
PerformTraps ==
  /\ x_class = "readsf~"
  /\ ParentRuns("called") \/ ParentRuns("performing")
  /\ ~LacksBytes(PerformsWith * x_vecsize)
  /\ x_fifotail + PerformsWith * x_vecsize > BufSize
  /\ ProgramEnds
  /\ UNCHANGED <<x_bytelimit, mine, heardvars>>

\* dsp divides the fifo by a frame of no channels.
DspTraps ==
  /\ x_class = "readsf~"
  /\ ParentRuns("idle") /\ x_bytesperframe = 0
  /\ ProgramEnds
  /\ UNCHANGED <<x_bytelimit, mine, heardvars>>

ReadWaiting == (IsReadSf /\ ReadPerform) \/ PerformTraps

\* What the properties look at is forgotten, as nothing is put out any more.
ReadFrees ==
  /\ SfFree
  /\ x_buf' = EmptyBuffer
  /\ output' = <<>> /\ heard' = 0 /\ ended' = FALSE
  /\ grown' = FALSE /\ stale' = FALSE
  /\ UNCHANGED <<x_bytelimit, mine>>

ReadFree == IsReadSf /\ (SfFreeWaits \/ SfJoined) /\ UNCHANGED <<x_bytelimit, mine, heardvars>>

\* readsf_dsp does not divide by the number of signals.
ReadParent ==
  \/ /\ IsReadSf
     /\ \/ \E f \in DOMAIN Files, format \in Formats : ReadOpen(f, format)
        \/ PerformIsCalled \/ ReadPerform \/ ReadFree
        \/ ReadFrees
        \/ /\ SfStart \/ SfStop \/ \E v \in VecSizes : SfDsp(1, v)
           /\ UNCHANGED <<x_bytelimit, mine, heardvars>>
  \/ PerformTraps \/ DspTraps

ReadNext == ReadChild \/ ReadParent

\* Both threads run; a call of Pd's thread goes on when it can.
ReadFairness ==
  /\ WF_readvars(ReadChild)
  /\ WF_readvars(ReadWaiting)
  /\ WF_readvars(ReadFree)

ReadSpec == ReadInit /\ [][ReadNext]_readvars /\ ReadFairness

-----------------------------------------------------------------------------
(* Properties.                                                             *)

DataOf(f) == IF HasHeader(f) THEN Files[f].data ELSE Files[f].size

\* The buffer holds a vector of frames, and the file whole frames; and as perform takes a
\* block of which the last byte is missing, no reads end there: a block and a read have a
\* common divisor.
FramesAreWhole ==
  /\ x_bytesperframe # 0 /\ x_bytesperframe * MAXVECSIZE <= BufSize
  /\ DataOf(x_filename) % x_bytesperframe = 0
  /\ \E d \in 2..READSIZE : READSIZE % d = 0 /\ WantBytes % d = 0

\* From open on, the bytes that are put out are those of the file that was opened,
\* from its start and one after the other, while the fifo wraps around, the file is
\* changed, and requests come while the child is at another; and the object stops
\* by itself only when it has put out all frames.  This is so when the frames are
\* whole, the file could be read, no earlier one was found to be missing after open, the
\* vector has not grown, and perform was not late with the format.
PlaysTheFile ==
  (/\ x_filename \in DOMAIN Files /\ x_eof \in {NoFile, x_filename} /\ ~x_fileerror
   /\ FramesAreWhole /\ ~grown /\ ~stale) =>
    /\ \A i \in DOMAIN output : output[i] = <<x_filename, heard - Len(output) + i - 1>>
    /\ ended => heard = DataOf(x_filename)
=============================================================================
