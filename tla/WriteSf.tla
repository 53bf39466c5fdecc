------------------------------ MODULE WriteSf ------------------------------
(***************************************************************************)
(* writesf~: perform puts a block into the fifo for each tick, and the     *)
(* child thread writes to the file what has piled up.  Left out are the    *)
(* print method, the conversion of samples, and an open with bad arguments,*)
(* which does what stop does.                                              *)
(*                                                                         *)
(* External is the file system: a file can be created or not, and write()  *)
(* writes all, or not as much and an error is reported.                    *)
(***************************************************************************)
EXTENDS SoundfileThread

CONSTANTS
  Names,         \* of files to write
  SampleSizes,   \* bytes of a sample that open may set: 2, 3, 4 in the code
  MaxHeard       \* bound on the bytes of a file

\* As open and the creation of the object take no others, the buffer holds a vector.
ASSUME WriteSfAssumption ==
  /\ SampleSizes \subseteq Nat \ {0}
  /\ \A bytes \in SampleSizes, channels \in ChannelCounts :
       Frame(<<bytes, channels>>) * MAXVECSIZE <= BufSize

VARIABLES
  asked,          \* the arguments of the open that waits
  x_itemswritten,
  disk,           \* the file opened last, once it has been created: its bytes and, when
                  \* it has been finished, how many frames its header says it has
  taken           \* how many bytes went to the fifo since open

takevars == <<disk, taken>>
writevars == <<soundfilevars, asked, x_itemswritten, takevars>>

NoHeader == -1
NotCreated == [bytes |-> <<>>, header |-> NoHeader, created |-> FALSE]

\* The object is one.
IsWriteSf == x_class = "writesf~" /\ UNCHANGED x_class

WriteInit ==
  /\ SoundfileInit
  /\ asked = Nothing
  /\ x_itemswritten = 0
  /\ disk = NotCreated
  /\ taken = 0

-----------------------------------------------------------------------------
(* writesf_child_main.  No file is open when an open is taken, as open has *)
(* waited until there is nothing more to do.                               *)

TakeCreate ==
  /\ diskthread = "top" /\ x_requestcode = "open"
  /\ x_requestcode' = "busy"
  /\ x_fileerror' = FALSE
  /\ doing' = [file |-> x_filename]
  /\ diskthread' = "creating"
  /\ UNCHANGED <<x_state, x_filename, formatvars, x_filedes, x_eof, fifovars, tickvars, parent,
                 asleep, asked, x_itemswritten, takevars>>

\* When something else was asked meanwhile the file is forgotten, and stays open.
Created ==
  /\ diskthread = "creating"
  /\ IF x_requestcode # "busy"
     THEN /\ diskthread' = "top"
          /\ UNCHANGED <<x_filedes, x_fifotail, x_itemswritten, disk>>
     ELSE /\ x_filedes' = doing
          /\ x_fifotail' = 0
          /\ x_itemswritten' = 0
          /\ disk' = [NotCreated EXCEPT !.created = TRUE]
          /\ diskthread' = "stream"
  /\ doing' = Nothing
  /\ UNCHANGED <<x_state, x_requestcode, x_filename, formatvars, x_fileerror, x_eof,
                 x_fifosize, x_fifohead, x_buf, tickvars, parent, asleep, asked, taken>>

\* Whatever was asked meanwhile is forgotten.
CreateFails ==
  /\ diskthread = "creating"
  /\ x_eof' = doing.file
  /\ x_fileerror' = TRUE
  /\ x_requestcode' = "nothing"
  /\ diskthread' = "top"
  /\ doing' = Nothing
  /\ UNCHANGED <<x_state, x_filename, formatvars, x_filedes, fifovars, tickvars, parent, asleep,
                 asked, x_itemswritten, takevars>>

\* Mutant: the last part is not written when the file is to be closed.
DrainsWhileBusy == x_requestcode = "busy"

Drains ==
  x_requestcode = "busy" \/ (x_requestcode = "close" /\ x_fifohead # x_fifotail)

\* How much is written now: to the end of the buffer, or when there is enough, or all
\* that is left.
Piled ==
  IF \/ x_fifohead < x_fifotail
     \/ x_fifohead >= x_fifotail + READSIZE
     \/ x_requestcode = "close" /\ x_fifohead # x_fifotail
  THEN LET end == IF x_fifohead < x_fifotail THEN x_fifosize ELSE x_fifohead
       IN  IF end - x_fifotail > READSIZE THEN READSIZE ELSE end - x_fifotail
  ELSE 0

BeginWrite ==
  /\ diskthread = "stream" /\ Drains /\ Piled # 0
  /\ doing' = [file |-> x_filedes.file, n |-> Piled, from |-> x_fifotail]
  /\ diskthread' = "writing"
  /\ UNCHANGED <<x_state, x_requestcode, filevars, fifovars, tickvars, parent, asleep, asked,
                 x_itemswritten, takevars>>

FifoIsLow ==
  /\ diskthread = "stream" /\ Drains /\ Piled = 0
  /\ ChildIsHungry
  /\ UNCHANGED <<asked, x_itemswritten, takevars>>

DrainEnds ==
  /\ diskthread = "stream" /\ ~Drains
  /\ diskthread' = "top"
  /\ UNCHANGED <<x_state, x_requestcode, filevars, fifovars, tickvars, parent, doing, asleep, asked,
                 x_itemswritten, takevars>>

Writes(n) ==
  disk' = [disk EXCEPT !.bytes =
             @ \o [i \in 1..n |-> x_buf[doing.from + i - 1]]]

WriteBytes ==
  /\ diskthread = "writing"
  /\ Writes(doing.n)
  /\ IF x_requestcode \in {"busy", "close"}
     THEN /\ x_fifotail' = (x_fifotail + doing.n) % x_fifosize
          /\ x_itemswritten' = x_itemswritten + doing.n \div x_bytesperframe
          /\ SignalAnswer
          /\ diskthread' = "stream"
     ELSE /\ diskthread' = "top"
          /\ UNCHANGED <<x_fifotail, x_itemswritten, asleep>>
  /\ doing' = Nothing
  /\ UNCHANGED <<x_state, x_requestcode, filevars, x_fifosize, x_fifohead, x_buf, tickvars, parent,
                 asked, taken>>

\* Nothing or a part is written.  x_requestcode is left as it is: if it is busy, the
\* child looks for something to do for ever, and has the mutex.
WriteFails ==
  /\ diskthread = "writing"
  /\ \E n \in {0, doing.n - 1} : Writes(n)
  /\ x_fileerror' = (x_fileerror \/ x_requestcode \in {"busy", "close"})
  /\ diskthread' = "top"
  /\ doing' = Nothing
  /\ UNCHANGED <<x_state, x_requestcode, x_filename, formatvars, x_filedes, x_eof, fifovars,
                 tickvars, parent, asleep, asked, x_itemswritten, taken>>

Answers(quit) ==
  /\ x_requestcode' = "nothing"
  /\ SignalAnswer
  /\ diskthread' = IF quit THEN "exited" ELSE "top"

TakeEnd ==
  /\ diskthread = "top" /\ x_requestcode \in {"close", "quit"}
  /\ IF x_filedes # Nothing
     THEN /\ doing' = [file |-> x_filedes.file, items |-> x_itemswritten,
                       quit |-> x_requestcode = "quit"]
          /\ diskthread' = "finishing"
          /\ UNCHANGED <<x_requestcode, asleep>>
     ELSE Answers(x_requestcode = "quit") /\ UNCHANGED doing
  /\ UNCHANGED <<x_state, filevars, fifovars, tickvars, parent, asked, x_itemswritten, takevars>>

\* soundfile_finishwrite.  Whatever was asked meanwhile is forgotten.
Finished ==
  /\ diskthread = "finishing"
  /\ disk' = [disk EXCEPT !.header = doing.items]
  /\ x_filedes' = Nothing
  /\ Answers(doing.quit)
  /\ doing' = Nothing
  /\ UNCHANGED <<x_state, x_filename, formatvars, x_fileerror, x_eof, fifovars, tickvars,
                 parent, asked, x_itemswritten, taken>>

WriteChild ==
  /\ IsWriteSf
  /\ \/ (ChildWakes \/ ChildHasNothingToDo) /\ UNCHANGED <<asked, x_itemswritten, takevars>>
     \/ TakeCreate \/ Created \/ CreateFails
     \/ BeginWrite \/ FifoIsLow \/ DrainEnds \/ WriteBytes \/ WriteFails
     \/ TakeEnd \/ Finished

-----------------------------------------------------------------------------
(* Pd's thread.                                                            *)

\* open begins with a stop, if the object does anything,
WriteOpen(f, bytes) ==
  /\ ParentRuns("idle")
  /\ asked' = [file |-> f, bytes |-> bytes]
  /\ parent' = "opening"
  /\ x_state' = "idle"
  /\ IF x_state = "idle" THEN UNCHANGED <<x_requestcode, asleep>>
     ELSE x_requestcode' = "close" /\ SignalRequest
  /\ UNCHANGED <<filevars, fifovars, tickvars, diskthread, doing, x_itemswritten, takevars>>

\* and waits until the child has nothing more to do.
WriteOpenWaits ==
  /\ ParentRuns("opening") /\ x_requestcode # "nothing"
  /\ AwaitAnswer("opening")
  /\ UNCHANGED <<x_state, x_requestcode, filevars, fifovars, tickvars, diskthread, doing, asked,
                 x_itemswritten, takevars>>

WriteOpens ==
  LET frame == Frame(<<asked.bytes, x_sfchannels>>)
      fifosize == FifoSize(frame)
      sigperiod == SigPeriod(fifosize, Signals, frame, x_vecsize) IN
  /\ ParentRuns("opening") /\ x_requestcode = "nothing"
  /\ x_requestcode' = "open"
  /\ x_filename' = asked.file
  /\ x_bytespersample' = asked.bytes
  /\ x_itemswritten' = 0
  /\ x_fifotail' = 0 /\ x_fifohead' = 0
  /\ x_eof' = NoFile /\ x_fileerror' = FALSE
  /\ x_state' = "startup"
  /\ x_fifosize' = fifosize
  /\ x_sigcountdown' = sigperiod /\ x_sigperiod' = sigperiod
  /\ grown' = (x_vecsize > MAXVECSIZE)
  /\ SignalRequest
  /\ parent' = "idle"
  /\ asked' = Nothing
  /\ x_buf' = EmptyBuffer
  /\ disk' = NotCreated /\ taken' = 0
  /\ UNCHANGED <<x_filedes, x_sfchannels, x_vecsize, diskthread, doing>>

\* Mutant: the fifo may be filled, and looks empty then.
LacksRoomForOne ==
  LET room == x_fifotail - x_fifohead
  IN  (IF room <= 0 THEN room + x_fifosize ELSE room) < WantBytes

LacksRoom ==
  LET room == x_fifotail - x_fifohead
  IN  (IF room <= 0 THEN room + x_fifosize ELSE room) < WantBytes + 1

TakeWaits ==
  /\ LacksRoom
  /\ AwaitAnswer("performing")
  /\ UNCHANGED <<x_fifohead, x_buf, tickvars, taken>>

TakeBlock ==
  /\ ~LacksRoom
  /\ x_buf' = [k \in DOMAIN x_buf |->
                IF k \in x_fifohead..(x_fifohead + WantBytes - 1)
                THEN <<x_filename, taken + k - x_fifohead>> ELSE x_buf[k]]
  /\ x_fifohead' = IF x_fifohead + WantBytes >= x_fifosize THEN 0 ELSE x_fifohead + WantBytes
  /\ taken' = taken + WantBytes
  /\ CountsDown
  /\ parent' = "idle"
  /\ UNCHANGED <<vecvars, x_sigperiod>>

WritePerform ==
  /\ ParentRuns("idle") \/ ParentRuns("performing")
  /\ x_state = "stream"
  /\ taken + WantBytes <= MaxHeard
  /\ TakeWaits \/ (x_fifohead + WantBytes <= BufSize /\ TakeBlock)
  /\ UNCHANGED <<x_state, x_requestcode, filevars, x_fifosize, x_fifotail, diskthread, doing, asked,
                 x_itemswritten, disk>>

\* A block is written behind the buffer.
TakeTraps ==
  /\ x_class = "writesf~"
  /\ ParentRuns("idle") \/ ParentRuns("performing")
  /\ x_state = "stream" /\ taken + WantBytes <= MaxHeard
  /\ ~LacksRoom /\ x_fifohead + WantBytes > BufSize
  /\ ProgramEnds
  /\ UNCHANGED <<asked, x_itemswritten, takevars>>

WriteWaiting ==
  \/ IsWriteSf /\ ((parent = "performing" /\ WritePerform) \/ WriteOpenWaits \/ WriteOpens)
  \/ parent = "performing" /\ TakeTraps

WriteFree == IsWriteSf /\ (SfFreeWaits \/ SfJoined) /\ UNCHANGED <<asked, x_itemswritten, takevars>>

WriteParent ==
  \/ /\ IsWriteSf
     /\ \/ \E f \in Names, bytes \in SampleSizes : WriteOpen(f, bytes)
        \/ WriteOpenWaits \/ WriteOpens \/ WritePerform \/ WriteFree
        \/ /\ SfStart \/ SfStop \/ (\E v \in VecSizes : SfDsp(Signals, v))
              \/ (SfFree /\ UNCHANGED <<x_buf, grown>>)
           /\ UNCHANGED <<asked, x_itemswritten, takevars>>
  \/ TakeTraps

WriteNext == WriteChild \/ WriteParent

\* Both threads run; a call of Pd's thread goes on when it can.
WriteFairness ==
  /\ WF_writevars(WriteChild)
  /\ WF_writevars(WriteWaiting)
  /\ WF_writevars(WriteFree)

WriteSpec == WriteInit /\ [][WriteNext]_writevars /\ WriteFairness

-----------------------------------------------------------------------------
(* Properties.                                                             *)

\* The file that was opened last holds the blocks that were performed since, in their
\* order and without a gap, also while it is written; when it has been finished after
\* a stop it holds all of them, and its header says how many they are.  This is so when
\* nothing failed and the vector has not grown, and the header is right if what is
\* written at once are whole frames.
WritesWhatItHears ==
  (disk.created /\ ~x_fileerror /\ ~grown) =>
    /\ Len(disk.bytes) <= taken
    /\ \A i \in DOMAIN disk.bytes : disk.bytes[i] = <<x_filename, i - 1>>
    /\ (disk.header # NoHeader /\ parent \in {"idle", "opening"}) =>
         /\ Len(disk.bytes) = taken
         /\ READSIZE % x_bytesperframe = 0 => disk.header * x_bytesperframe = taken
=============================================================================
