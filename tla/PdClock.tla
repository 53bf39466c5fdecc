------------------------------ MODULE PdClock ------------------------------
(***************************************************************************)
(* Pd's clocks, and the objects delay and metro which have one each.  The  *)
(* clocks that are set are in a list by their times.  A tick of the        *)
(* scheduler calls those that are due before its end.  The object then     *)
(* bangs its outlet, and from within that call the patch may send anything *)
(* to any object, this one included.                                       *)
(*                                                                         *)
(* Times are whole numbers of what is the unit of a clock at first.        *)
(***************************************************************************)
EXTENDS Integers, SequencesExt, FiniteSetsExt

CONSTANTS
  Delays, Metros,
  DelTimes,  \* delay times that patches set
  NewUnits,  \* units that they set: in samples when they are negative
  TickTime,  \* sys_time_per_dsp_tick
  Nobody,    \* no clock is being called
  MaxTime, MaxDepth \* bounds of the model: of time, and of calls from within a call

ASSUME PdClockAssumption ==
  /\ Delays \cap Metros = {}
  /\ Nobody \notin Delays \cup Metros
  /\ DelTimes \subseteq Nat
  /\ NewUnits \subseteq Int \ {0}
  /\ TickTime \in Nat \ {0}
  /\ MaxTime \in Nat
  /\ MaxDepth \in Nat

Clocks == Delays \cup Metros
NoTime == -1

VARIABLES
  objects,       \* those that have not been freed
  sys_time,
  c_settime,     \* of each clock, or NoTime
  c_unit,
  clock_setlist, \* the clocks that are set, in the order in which they are called
  next_sys_time, \* where the tick that runs ends, or NoTime
  x_deltime,
  x_hit,         \* of a metro: it was sent something while it banged
  calls,         \* objects whose outlet is being banged, the innermost first, each
                 \* with who asked for it: the scheduler or a message
  \* history
  told,          \* of each metro, whether the last message to it started it
  asked          \* the clocks that are set, in the order in which they were set

pdvars == <<objects, sys_time, c_settime, c_unit, clock_setlist, next_sys_time, x_deltime,
            x_hit, calls, told, asked>>

KInit ==
  /\ objects = Clocks
  /\ sys_time = 0
  /\ c_settime = [c \in Clocks |-> NoTime]
  /\ c_unit = [c \in Clocks |-> 1]
  /\ clock_setlist = <<>>
  /\ next_sys_time = NoTime
  /\ x_deltime \in {t \in [Clocks -> DelTimes] : \A m \in Metros : t[m] > 0}
  /\ x_hit = [m \in Metros |-> FALSE]
  /\ calls = <<>>
  /\ told = [m \in Metros |-> FALSE]
  /\ asked = <<>>

-----------------------------------------------------------------------------
(* The list.                                                               *)

ListWithout(list, c) ==
  LET at == {k \in DOMAIN list : list[k] = c}
  IN  IF at = {} THEN list ELSE RemoveAt(list, CHOOSE k \in at : TRUE)

\* Before the first of these.
InsertedBefore(list, places, c) ==
  IF places = {} THEN Append(list, c) ELSE InsertAt(list, Min(places), c)

\* Mutant: before the clocks of the same time.
InsertedFirst(list, c, t) ==
  InsertedBefore(list, {k \in DOMAIN list : c_settime[list[k]] >= t}, c)

\* Before the first clock whose time is later.
Inserted(list, c, t) ==
  InsertedBefore(list, {k \in DOMAIN list : c_settime[list[k]] > t}, c)

clock_unset(c) ==
  /\ c_settime' = [c_settime EXCEPT ![c] = NoTime]
  /\ clock_setlist' = ListWithout(clock_setlist, c)
  /\ asked' = ListWithout(asked, c)

clock_set(c, setticks) ==
  LET t == IF setticks < sys_time THEN sys_time ELSE setticks IN
  /\ t <= MaxTime
  /\ c_settime' = [c_settime EXCEPT ![c] = t]
  /\ clock_setlist' = Inserted(ListWithout(clock_setlist, c), c, t)
  /\ asked' = Append(ListWithout(asked, c), c)

UnitLength(unit) == IF unit > 0 THEN unit ELSE -unit

clock_delay(c, delaytime) == clock_set(c, sys_time + UnitLength(c_unit[c]) * delaytime)

\* clock_setunit, called by tempo: the time that is left is reckoned in the new unit,
\* but for a clock that counts in samples, for which it comes out negative.  Times that
\* are not whole then are left out.
SetUnit(c, unit) ==
  LET left == c_settime[c] - sys_time IN
  /\ unit < 0 => unit # c_unit[c]
  /\ c_unit' = [c_unit EXCEPT ![c] = unit]
  /\ IF c_settime[c] # NoTime /\ (c_unit[c] > 0 \/ left = 0)
     THEN /\ (left * UnitLength(unit)) % UnitLength(c_unit[c]) = 0
          /\ clock_set(c, sys_time + (left * UnitLength(unit)) \div UnitLength(c_unit[c]))
     ELSE UNCHANGED <<c_settime, clock_setlist, asked>>
  /\ UNCHANGED <<objects, sys_time, next_sys_time, x_deltime, x_hit, calls, told>>

-----------------------------------------------------------------------------
(* The objects.  They are sent something between two ticks, or from within *)
(* a call.                                                                 *)

CanBeSent == next_sys_time = NoTime \/ calls # <<>>

Bangs(obj, by) == calls' = <<[obj |-> obj, by |-> by]>> \o calls

\* delay: bang and stop; a number is first the delay time and then a bang.
DelayBang(d, deltime) ==
  /\ x_deltime' = [x_deltime EXCEPT ![d] = deltime]
  /\ clock_delay(d, deltime)
  /\ UNCHANGED <<objects, sys_time, c_unit, next_sys_time, x_hit, calls, told>>

DelayStop(d) ==
  /\ clock_unset(d)
  /\ UNCHANGED <<objects, sys_time, c_unit, next_sys_time, x_deltime, x_hit, calls, told>>

\* Either object: the delay time, which for a metro is not 0.
SetDelTime(obj, deltime) ==
  /\ obj \in Metros => deltime > 0
  /\ x_deltime' = [x_deltime EXCEPT ![obj] = deltime]
  /\ UNCHANGED <<objects, sys_time, c_settime, c_unit, clock_setlist, next_sys_time, x_hit, calls,
                 told, asked>>

\* metro: a number or bang starts it, which is its first bang; 0 or stop stops it.
MetroStart(m) ==
  /\ Len(calls) < MaxDepth
  /\ x_hit' = [x_hit EXCEPT ![m] = FALSE]
  /\ Bangs(m, "message")
  /\ told' = [told EXCEPT ![m] = TRUE]
  /\ UNCHANGED <<objects, sys_time, c_settime, c_unit, clock_setlist, next_sys_time, x_deltime, asked>>

MetroStop(m) ==
  /\ clock_unset(m)
  /\ x_hit' = [x_hit EXCEPT ![m] = TRUE]
  /\ told' = [told EXCEPT ![m] = FALSE]
  /\ UNCHANGED <<objects, sys_time, c_unit, next_sys_time, x_deltime, calls>>

\* Either object is freed, from outside its own calls.
FreeObject(obj) ==
  /\ \A k \in DOMAIN calls : calls[k].obj # obj
  /\ objects' = objects \ {obj}
  /\ clock_unset(obj)
  /\ told' = [m \in Metros |-> m # obj /\ told[m]]
  /\ UNCHANGED <<sys_time, c_unit, next_sys_time, x_deltime, x_hit, calls>>

\* Mutant: the metro goes on whatever it was sent while it banged.
GoesOnAnyway(m) == TRUE

\* After its bang a metro sets its clock, unless it was sent something meanwhile.
GoesOn(m) == ~x_hit[m]

\* The outlet has been banged.
CallEnds ==
  /\ calls # <<>>
  /\ LET obj == Head(calls).obj IN
     /\ IF obj \in Metros /\ GoesOn(obj) THEN clock_delay(obj, x_deltime[obj])
        ELSE UNCHANGED <<c_settime, clock_setlist, asked>>
     /\ x_hit' = IF Head(calls).by = "message" THEN [x_hit EXCEPT ![obj] = TRUE] ELSE x_hit
  /\ calls' = Tail(calls)
  /\ UNCHANGED <<objects, sys_time, c_unit, next_sys_time, x_deltime, told>>

-----------------------------------------------------------------------------
(* sched_tick.                                                             *)

TickBegins ==
  /\ next_sys_time = NoTime /\ calls = <<>>
  /\ sys_time + TickTime <= MaxTime
  /\ next_sys_time' = sys_time + TickTime
  /\ UNCHANGED <<objects, sys_time, c_settime, c_unit, clock_setlist, x_deltime, x_hit, calls, told, asked>>

Due == clock_setlist # <<>> /\ c_settime[Head(clock_setlist)] < next_sys_time

\* The first clock is unset, and its object called.
CallClock ==
  /\ next_sys_time # NoTime /\ calls = <<>> /\ Due
  /\ LET c == Head(clock_setlist) IN
     /\ sys_time' = c_settime[c]
     /\ clock_unset(c)
     /\ Bangs(c, "scheduler")
     /\ x_hit' = IF c \in Metros THEN [x_hit EXCEPT ![c] = FALSE] ELSE x_hit
  /\ UNCHANGED <<objects, c_unit, next_sys_time, x_deltime, told>>

TickEnds ==
  /\ next_sys_time # NoTime /\ calls = <<>> /\ ~Due
  /\ sys_time' = next_sys_time
  /\ next_sys_time' = NoTime
  /\ UNCHANGED <<objects, c_settime, c_unit, clock_setlist, x_deltime, x_hit, calls, told, asked>>

Message ==
  /\ CanBeSent
  /\ \/ \E d \in Delays \cap objects : DelayStop(d) \/ \E t \in DelTimes : DelayBang(d, t)
     \/ \E m \in Metros \cap objects : MetroStart(m) \/ MetroStop(m)
     \/ \E obj \in objects :
          \/ \E t \in DelTimes : SetDelTime(obj, t)
          \/ \E unit \in NewUnits : SetUnit(obj, unit)
          \/ FreeObject(obj)

KNext == Message \/ CallEnds \/ TickBegins \/ CallClock \/ TickEnds


-----------------------------------------------------------------------------
(* Properties.                                                             *)

Entries(list, times) == [k \in DOMAIN list |-> [clock |-> list[k], time |-> times[list[k]]]]

TheAgenda == Entries(asked, c_settime)

TheCalled == IF next_sys_time = NoTime \/ calls = <<>> THEN Nobody ELSE Last(calls).obj

ClockAgenda == INSTANCE Agenda WITH
  Clock <- Clocks, Times <- 0..MaxTime, now <- sys_time, agenda <- TheAgenda, called <- TheCalled, NoClock <- Nobody

\* Whatever the objects do to their clocks, and to each other's, from within a call,
\* every clock that is set is called once, when nothing is due before it.
KeepsTheAgenda == ClockAgenda!ASpec

\* A metro whose outlet is not being banged goes on if the last message to it has
\* started it, and is silent if it has stopped it, also when that message came from
\* within its own bang, or from one within that.
MetroDoesAsTold ==
  \A m \in Metros :
    (\A k \in DOMAIN calls : calls[k].obj # m) => (told[m] <=> c_settime[m] # NoTime)
=============================================================================
