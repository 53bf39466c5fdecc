------------------------------- MODULE Agenda -------------------------------
(***************************************************************************)
(* What Pd's clocks promise the objects that have them: each clock that is *)
(* set is called once, at its time and in the order of the times, those of *)
(* one time in the order in which they were set, unless it is unset or set *)
(* anew before.                                                            *)
(***************************************************************************)
EXTENDS ListParts

CONSTANTS
  Clock,
  Times,
  NoClock \* what called is when no clock is being called

VARIABLES
  now,
  agenda, \* what is to be called, as [clock, time], in the order it was set
  called  \* the clock that is being called

agendavars == <<now, agenda, called>>

Indexed(c) == {k \in DOMAIN agenda : agenda[k].clock = c}

Without(c) ==
  IF Indexed(c) = {} THEN agenda ELSE RemoveAt(agenda, CHOOSE k \in Indexed(c) : TRUE)

With(c, t) == Append(Without(c), [clock |-> c, time |-> t])

AInit == now = 0 /\ agenda = <<>> /\ called = NoClock

\* Nothing is set for the past.
SetFor(c, t) ==
  /\ t >= now
  /\ agenda' = With(c, t)
  /\ UNCHANGED <<now, called>>

UnsetOf(c) ==
  /\ agenda' = Without(c)
  /\ UNCHANGED <<now, called>>

\* The first one of those that are due next.
IsNext(k) ==
  /\ \A j \in DOMAIN agenda : agenda[k].time <= agenda[j].time
  /\ \A j \in 1..(k - 1) : agenda[k].time < agenda[j].time

\* It is called, at its time.
CallOf(k) ==
  /\ called = NoClock
  /\ IsNext(k)
  /\ now' = agenda[k].time
  /\ called' = agenda[k].clock
  /\ agenda' = RemoveAt(agenda, k)

\* A call may end with setting the clock again.
ReturnOf ==
  /\ called # NoClock
  /\ called' = NoClock
  /\ agenda' \in {agenda} \cup {With(called, t) : t \in {u \in Times : u >= now}}
  /\ UNCHANGED now

\* Time goes on when nothing is due before.
PassTo(t) ==
  /\ called = NoClock
  /\ t >= now
  /\ \A k \in DOMAIN agenda : agenda[k].time >= t
  /\ now' = t
  /\ UNCHANGED <<agenda, called>>

ANext ==
  \/ \E c \in Clock : UnsetOf(c) \/ \E t \in Times : SetFor(c, t)
  \/ \E k \in DOMAIN agenda : CallOf(k)
  \/ ReturnOf
  \/ \E t \in Times : PassTo(t)

ASpec == AInit /\ [][ANext]_agendavars
=============================================================================
