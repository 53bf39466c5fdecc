-------------------------- MODULE SoundfileThread --------------------------
(***************************************************************************)
(* What readsf~ and writesf~ have in common: t_readsf, which t_writesf is  *)
(* another name of.  Each object has a child thread which reads or writes  *)
(* the file, and shares a fifo with Pd's thread, a mutex and a condition   *)
(* in each direction.                                                      *)
(*                                                                         *)
(* A step is what a thread does from where it gets the mutex, or has it    *)
(* still, to where it gives it back or takes a turn.  Pd's thread never    *)
(* has the mutex between two steps; the child has it where HasMutex says.  *)
(***************************************************************************)
EXTENDS Integers, SequencesExt, FiniteSetsExt

CONSTANTS
  READSIZE,      \* 65536 in the code, as is WRITESIZE
  MAXVECSIZE,    \* 128 in the code, and the vector size before dsp tells it
  VecSizes,      \* vector sizes that dsp may tell: powers of two
  ChannelCounts, \* that a writesf~ may be created with: 1 to 64 in the code
  BufSize,       \* x_bufsize
  Signals        \* how often a condition is signalled for a buffer: 16 in the code

ASSUME SoundfileAssumption ==
  /\ {READSIZE, MAXVECSIZE, Signals} \subseteq Nat \ {0}
  /\ VecSizes \subseteq Nat \ {0} /\ MAXVECSIZE \in VecSizes
  /\ ChannelCounts \subseteq Nat \ {0}
  /\ \A v, w \in VecSizes : v <= w => w % v = 0
  /\ BufSize \in Nat /\ BufSize >= 4 * READSIZE

VARIABLES
  x_class,    \* what the object is, if there is one and the program has not ended
  x_state, x_requestcode, x_filename,
  x_bytespersample, x_sfchannels,
  x_fileerror,     \* has there been an error
  x_filedes,       \* x_fd: the file and where it is in it, or NoFile
  x_fifosize, x_fifohead, x_fifotail,
  x_eof,           \* NoFile: false; otherwise true, by the end of this file
  x_sigcountdown, x_sigperiod,
  x_vecsize,
  grown,           \* history: since open, the vector size has been made larger
  x_buf,
  parent,     \* where Pd's thread is: between two calls, or in one that waits
  diskthread, \* where the child thread is,
  doing,      \* and what it does there, while it does not have the mutex
  asleep      \* threads that wait for a condition and have not been signalled

fifovars == <<x_fifosize, x_fifohead, x_fifotail, x_buf>>
vecvars == <<x_vecsize, grown>>
tickvars == <<vecvars, x_sigcountdown, x_sigperiod>>
formatvars == <<x_bytespersample, x_sfchannels>>
filevars == <<x_filename, formatvars, x_fileerror, x_filedes, x_eof>>
restvars ==
  <<x_state, x_requestcode, filevars, fifovars, tickvars, parent, diskthread, doing, asleep>>
soundfilevars == <<x_class, restvars>>

NoFile == "none"
NotOpened == "not opened"
Nothing == [file |-> NoFile]

EmptyBuffer == [k \in 0..(BufSize - 1) |-> <<NoFile, 0>>]

SoundfileInit ==
  /\ x_class \in {"readsf~", "writesf~", "none"}
  /\ x_state = "idle" /\ x_requestcode = "nothing" /\ x_filename = NoFile
  /\ x_bytespersample = 2
  /\ x_sfchannels \in IF x_class = "writesf~" THEN ChannelCounts ELSE {1}
  /\ x_fileerror = FALSE /\ x_filedes = Nothing
  /\ x_fifosize = 0 /\ x_fifohead = 0 /\ x_fifotail = 0
  /\ x_eof = NoFile
  /\ x_sigcountdown = 0 /\ x_sigperiod = 0
  /\ x_vecsize = MAXVECSIZE /\ grown = FALSE
  /\ x_buf = EmptyBuffer
  /\ parent = "idle" /\ diskthread = "top" /\ doing = Nothing
  /\ asleep = {}

\* The bytes of a frame of these bytes of a sample and channels.
Frame(format) == format[1] * format[2]
x_bytesperframe == Frame(formatvars)
WantBytes == x_bytesperframe * x_vecsize

\* As many vectors as the buffer holds, were they all of MAXVECSIZE: none at all when it
\* does not hold one.  Where a division by zero does not trap, its quotient is zero.
FifoSize(frame) == IF frame = 0 THEN 0 ELSE BufSize - (BufSize % (frame * MAXVECSIZE))
SigPeriod(fifosize, signals, frame, vecsize) ==
  IF frame = 0 THEN 0 ELSE fifosize \div (signals * frame * vecsize)

\* Where it traps, or what is behind the buffer is not to be touched.
ProgramEnds == x_class' = "none" /\ UNCHANGED restvars

-----------------------------------------------------------------------------
(* Mutex and conditions.                                                   *)

HasMutex == diskthread \in {"top", "stream", "lost"}

\* Pd's thread is in a call that is neither asleep nor kept out.
ParentRuns(where) == parent = where /\ "parent" \notin asleep /\ ~HasMutex

SignalRequest == asleep' = asleep \ {"child"}
SignalAnswer == asleep' = asleep \ {"parent"}

\* Mutant: the parent sleeps without having asked for anything.
AwaitAnswerSilently(where) ==
  /\ asleep' = asleep \cup {"parent"}
  /\ parent' = where

AwaitAnswer(where) ==
  /\ asleep' = (asleep \ {"child"}) \cup {"parent"}
  /\ parent' = where

AwaitRequest(where) ==
  /\ asleep' = (asleep \ {"parent"}) \cup {"child"}
  /\ diskthread' = where

\* The child is signalled and gets the mutex again.
ChildWakes ==
  /\ "child" \notin asleep
  /\ \/ diskthread = "waiting" /\ diskthread' = "top"
     \/ diskthread = "hungry" /\ diskthread' = "stream"
  /\ UNCHANGED <<x_state, x_requestcode, filevars, fifovars, tickvars, parent, doing, asleep>>

ChildHasNothingToDo ==
  /\ diskthread = "top" /\ x_requestcode = "nothing"
  /\ AwaitRequest("waiting")
  /\ UNCHANGED <<x_state, x_requestcode, filevars, fifovars, tickvars, parent, doing>>

\* The fifo has no room, or nothing, for a transfer.
ChildIsHungry ==
  /\ AwaitRequest("hungry")
  /\ UNCHANGED <<x_state, x_requestcode, filevars, fifovars, tickvars, parent, doing>>

-----------------------------------------------------------------------------
(* Messages that both objects know.                                        *)

SfStart ==
  /\ ParentRuns("idle") /\ x_state = "startup"
  /\ x_state' = "stream"
  /\ UNCHANGED <<x_requestcode, filevars, fifovars, tickvars, parent, diskthread, doing, asleep>>

SfStop ==
  /\ ParentRuns("idle")
  /\ x_state' = "idle"
  /\ x_requestcode' = "close"
  /\ SignalRequest
  /\ UNCHANGED <<filevars, fifovars, tickvars, parent, diskthread, doing>>

\* The dsp method, with the number of signals for a buffer.
SfDsp(signals, v) ==
  /\ ParentRuns("idle")
  /\ x_vecsize' = v
  /\ grown' = (grown \/ v > x_vecsize)
  /\ x_sigperiod' = SigPeriod(x_fifosize, signals, x_bytesperframe, v)
  /\ UNCHANGED <<x_state, x_requestcode, filevars, fifovars, x_sigcountdown, parent, diskthread,
                 doing, asleep>>

SfFree ==
  /\ ParentRuns("idle")
  /\ x_requestcode' = "quit"
  /\ AwaitAnswer("freeing")
  /\ UNCHANGED <<x_state, filevars, x_fifosize, x_fifohead, x_fifotail, x_vecsize, x_sigcountdown,
                 x_sigperiod, diskthread, doing>>

SfFreeWaits ==
  /\ ParentRuns("freeing")
  /\ IF x_requestcode # "nothing" THEN AwaitAnswer("freeing")
     ELSE parent' = "joining" /\ UNCHANGED asleep
  /\ UNCHANGED <<x_state, x_requestcode, filevars, fifovars, tickvars, diskthread, doing>>

SfJoined ==
  /\ parent = "joining" /\ diskthread = "exited"
  /\ parent' = "freed"
  /\ UNCHANGED <<x_state, x_requestcode, filevars, fifovars, tickvars, diskthread, doing, asleep>>

\* A signal goes to the child each time a part of the buffer has been used.
CountsDown ==
  IF x_sigcountdown - 1 <= 0
  THEN x_sigcountdown' = x_sigperiod /\ SignalRequest
  ELSE x_sigcountdown' = x_sigcountdown - 1 /\ UNCHANGED asleep

-----------------------------------------------------------------------------
(* Properties.                                                             *)

\* The quit of free is overwritten when the child has finished the file.
QuitIsLost == diskthread = "finishing" /\ ~doing.quit

\* The child waits with a fifo that never holds a block and room for a read: frames may
\* have so many channels, or a vector be so large.
FifoIsTooSmall == diskthread = "hungry" /\ x_fifosize < WantBytes + READSIZE

\* Pd's thread, which waits for the child in perform, in the open of writesf~ and in
\* free, does not wait for ever, whatever signals pass between the two and while the
\* child is anywhere: if no file operation fails, the fifo is not too small, and free
\* does not come while the child finishes a file.
PdGoesOn ==
  /\ (parent \in {"called", "performing", "opening"} /\ ~x_fileerror)
       ~> (parent = "idle" \/ x_class = "none" \/ x_fileerror \/ FifoIsTooSmall)
  /\ (parent = "freeing" /\ x_requestcode = "quit" /\ ~QuitIsLost /\ ~x_fileerror)
       ~> (parent = "freed" \/ x_class = "none" \/ x_fileerror)
=============================================================================
