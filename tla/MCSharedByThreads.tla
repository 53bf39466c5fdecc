------------------------- MODULE MCSharedByThreads -------------------------
(***************************************************************************)
(* What several threads work on, each by itself: a behaviour is one of the *)
(* connection of a udpsend~, with the thread that connects, of libpd's     *)
(* queue, with the thread that has Pd and the main thread, or of a readsf~ *)
(* or writesf~, with the thread that has its file.                         *)
(***************************************************************************)
EXTENDS UdpSendConnector, PdQueue, ReadSf, WriteSf

VARIABLE shared

\* Messages without a body, with one of one part and with one of two.
MCBodies == {<<>>, <<1>>, <<2, 1>>}

\* A soundfile that is longer than the fifo and has something behind its data, one
\* without a header, and one that has so many channels that the buffer does not hold a
\* vector, or has none.
MCFiles ==
  [wav |-> [formats |-> {<<2, 2>>}, data |-> 28, size |-> 30],
   raw |-> [formats |-> {}, data |-> 20, size |-> 20],
   odd |-> [formats |-> {<<2, 8>>, <<2, 0>>}, data |-> 28, size |-> 30]]

\* Not the one that most of the files have.
MCFormats == {<<4, 1>>}

\* Bound: the vector of a readsf~ is another than at first as long as it has opened but
\* one of the files.
VectorVaries == x_vecsize' = MAXVECSIZE \/ x_filename' \in {NoFile, "wav"}

readonlyvars == <<x_bytelimit, mine, heardvars>>
writeonlyvars == <<asked, x_itemswritten, takevars>>
sfvars == <<soundfilevars, readonlyvars, writeonlyvars>>

\* What does not run is as it is in one of its initial states.
Init ==
  /\ shared \in {"udpsend~", "queue", "soundfile"}
  /\ CInit /\ QInit /\ ReadInit /\ WriteInit
  /\ shared = "soundfile" <=> x_class # "none"

Next ==
  /\ \/ shared = "udpsend~" /\ CNext /\ UNCHANGED <<qvars, sfvars>>
     \/ shared = "queue" /\ QNext /\ UNCHANGED <<cvars, sfvars>>
     \/ /\ shared = "soundfile"
        /\ (ReadNext /\ VectorVaries /\ UNCHANGED writeonlyvars) \/ (WriteNext /\ UNCHANGED readonlyvars)
        /\ UNCHANGED <<cvars, qvars>>
  /\ UNCHANGED shared

\* In a part that does not move nothing has been begun, and none of its fair actions is
\* enabled.
Spec ==
  /\ Init /\ [][Next]_<<shared, cvars, qvars, sfvars>>
  /\ CFairness /\ QFairness
  /\ ReadFairness /\ WriteFairness
=============================================================================
