-------------------------------- MODULE Pipe --------------------------------
(***************************************************************************)
(* Pd's object pipe holds every list it is sent for a time, each with a    *)
(* clock of its own, unless it is told to put all out now or to forget     *)
(* them.  A list is put out number by number, through the outlets from the *)
(* last to the first, and from within each the patch may send the pipe     *)
(* anything.                                                               *)
(***************************************************************************)
EXTENDS Agenda

CONSTANTS
  Lists,       \* lists that are sent to it, numbered
  PipeTimes,   \* delay times that are set
  x_n,         \* outlets
  MaxPipeDepth \* bound of the model: what is going on within each other

ASSUME PipeAssumption ==
  /\ Times \subseteq Nat
  /\ x_n \in Nat \ {0}

VARIABLES
  delaytime, \* x_deltime
  x_hang,    \* the lists that are held, the latest first
  doing,     \* what has not returned, the innermost first: hang_tick, with the list
             \* and the outlets that are left, and pipe_flush
  \* history
  given,     \* lists that have been sent
  due,       \* when each is to come out
  out,       \* of how many outlets each has come, and which
  forgotten  \* by clear

pipevars == <<delaytime, x_hang, doing, given, due, out, forgotten>>

PipeInit ==
  /\ delaytime \in PipeTimes
  /\ x_hang = <<>>
  /\ doing = <<>>
  /\ given = {} /\ forgotten = {}
  /\ due = [h \in Lists |-> 0]
  /\ out = [h \in Lists |-> <<>>]

Flushing == [kind |-> "flush", list |-> 0, left |-> 0]
Putting(h, kind) == [kind |-> kind, list |-> h, left |-> x_n]

PipeListens == called = NoClock \/ doing # <<>>

\* pipe_list, with another delay time in front or without.
pipe_list(h, t) ==
  /\ h \notin given /\ \A g \in Lists : g < h => g \in given
  /\ LET time == now + (IF t >= 0 THEN t ELSE 0) IN
     /\ time \in Times
     /\ SetFor(h, time)
     /\ due' = [due EXCEPT ![h] = time]
  /\ delaytime' = t
  /\ x_hang' = <<h>> \o x_hang
  /\ given' = given \cup {h}
  /\ UNCHANGED <<doing, out, forgotten>>

PipeTime(t) ==
  /\ delaytime' = t
  /\ UNCHANGED <<agendavars, x_hang, doing, given, due, out, forgotten>>

\* pipe_clear, which is also what frees the pipe.
pipe_clear ==
  /\ agenda' = Omit(agenda, {k \in DOMAIN agenda : agenda[k].clock \in ToSet(x_hang)})
  /\ x_hang' = <<>>
  /\ forgotten' = forgotten \cup ToSet(x_hang)
  /\ UNCHANGED <<now, called, delaytime, doing, given, due, out>>

pipe_flush ==
  /\ Len(doing) < MaxPipeDepth
  /\ doing' = <<Flushing>> \o doing
  /\ UNCHANGED <<agendavars, delaytime, x_hang, given, due, out, forgotten>>

-----------------------------------------------------------------------------
(* hang_tick, called by the clock or by pipe_flush.                        *)

HangCalled ==
  /\ doing = <<>>
  /\ \E k \in DOMAIN agenda :
       /\ CallOf(k)
       /\ agenda[k].clock \in Lists
       /\ x_hang' = RemoveFirst(x_hang, agenda[k].clock)
       /\ doing' = <<Putting(agenda[k].clock, "clock")>>
  /\ UNCHANGED <<delaytime, given, due, out, forgotten>>

FlushGoesOn ==
  /\ doing # <<>> /\ Head(doing).kind = "flush"
  /\ IF x_hang = <<>> THEN doing' = Tail(doing) /\ UNCHANGED x_hang
     ELSE /\ x_hang' = Tail(x_hang)
          /\ doing' = <<Putting(Head(x_hang), "flushed")>> \o doing
  /\ UNCHANGED <<agendavars, delaytime, given, due, out, forgotten>>

PutsOutNumber ==
  /\ doing # <<>> /\ Head(doing).kind # "flush" /\ Head(doing).left > 0
  /\ out' = [out EXCEPT ![Head(doing).list] = Append(@, [outlet |-> Head(doing).left, at |-> now])]
  /\ doing' = [doing EXCEPT ![1].left = @ - 1]
  /\ UNCHANGED <<agendavars, delaytime, x_hang, given, due, forgotten>>

\* Mutant: the clock is not unset.
hang_free_only(h) == UNCHANGED agendavars

\* The clock is freed with it.
hang_free(h) == UnsetOf(h)

HangReturns ==
  /\ doing # <<>> /\ Head(doing).kind # "flush" /\ Head(doing).left = 0
  /\ hang_free(Head(doing).list)
  /\ doing' = Tail(doing)
  /\ UNCHANGED <<delaytime, x_hang, given, due, out, forgotten>>

PipeCallEnds ==
  /\ called # NoClock /\ doing = <<>>
  /\ called' = NoClock
  /\ UNCHANGED <<now, agenda, pipevars>>

PipeTimePasses ==
  /\ doing = <<>>
  /\ \E t \in Times : t > now /\ PassTo(t)
  /\ UNCHANGED pipevars

PipeNext ==
  \/ /\ PipeListens
     /\ \/ \E t \in PipeTimes : PipeTime(t) \/ \E h \in Lists : pipe_list(h, t)
        \/ pipe_clear \/ pipe_flush
  \/ HangCalled \/ FlushGoesOn \/ PutsOutNumber \/ HangReturns
  \/ PipeCallEnds \/ PipeTimePasses

PipeSpec == AInit /\ PipeInit /\ [][PipeNext]_<<agendavars, pipevars>>

-----------------------------------------------------------------------------
\* A list that was sent is held, with its clock set for its time; or is being put out
\* or has been, in its time or sooner by flush, each number once and none after a
\* clear; or is forgotten.  So no clock finds its list gone, whatever the pipe is sent
\* from within its outputs, a flush or a clear within a flush included.
EachListOnce ==
  LET Held == ToSet(x_hang)
      Underway == {doing[k].list : k \in {j \in DOMAIN doing : doing[j].kind # "flush"}}
      Set == {h \in Lists : Indexed(h) # {}}
      Flushed == {doing[k].list : k \in {j \in DOMAIN doing : doing[j].kind = "flushed"}}
      Whole(h) == [k \in DOMAIN out[h] |-> out[h][k].outlet] = [k \in 1..x_n |-> x_n + 1 - k]
  IN
  /\ IsInjective(x_hang) /\ Held \cap forgotten = {}
  /\ Set = Held \cup Flushed
  /\ \A h \in Set : \A k \in Indexed(h) : agenda[k].time = due[h]
  /\ \A h \in given :
       /\ h \in Held \cup forgotten => out[h] = <<>>
       /\ h \notin Held \cup forgotten \cup Underway => Whole(h)
       /\ \A k \in DOMAIN out[h] : out[h][k].at <= due[h]
=============================================================================
