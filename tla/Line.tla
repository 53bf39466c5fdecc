-------------------------------- MODULE Line --------------------------------
(***************************************************************************)
(* Pd's object line: a number makes it go there in steps, from where it is *)
(* and in the time that came before the number, or jump there if none did. *)
(* From within each output the patch may send it anything.                 *)
(*                                                                         *)
(* Times are whole numbers, and so are the values on the way when the      *)
(* targets are multiples of a high enough power of 2.                      *)
(***************************************************************************)
EXTENDS Agenda

CONSTANTS
  line,             \* the clock of the object
  Targets,          \* numbers that are sent to it
  RampTimes,        \* and times
  Grains,           \* and grains
  DEFAULTLINEGRAIN,
  MaxLineDepth      \* bound of the model: outputs from within an output

ASSUME LineAssumption ==
  /\ Times \subseteq Nat
  /\ Targets \subseteq Int
  /\ RampTimes \subseteq Int
  /\ Grains \subseteq Int
  /\ DEFAULTLINEGRAIN \in Nat \ {0}

VARIABLES
  x_targettime, x_targetval, x_prevtime, x_setval, x_gotinlet, x_grain,
  x_timediff, \* its inverse is x_1overtimediff
  x_in1val,
  putting,    \* outputs that have not returned, the innermost first, as what
              \* put them out
  \* history
  way,        \* where it should be going: from, since, to, by; whether it is heard
  lastout,    \* the last value put out, and when
  meddled     \* the last message came from within an output of a ramp on its way

linevars == <<x_targettime, x_targetval, x_prevtime, x_setval, x_gotinlet, x_grain, x_timediff,
              x_in1val, putting, way, lastout, meddled>>

\* There, from now on, with an output or without one.
There(value, heard) == [from |-> value, since |-> now, to |-> value, by |-> now, heard |-> heard]

LineInit ==
  /\ x_targetval = 0 /\ x_setval = 0 /\ x_gotinlet = FALSE
  /\ x_timediff = 1 /\ x_in1val = 0
  /\ x_targettime = 0 /\ x_prevtime = 0
  /\ x_grain \in Grains
  /\ putting = <<>>
  /\ way = There(0, FALSE)
  /\ lastout = [value |-> 0, at |-> 0]
  /\ meddled = FALSE

\* Where one is at time t who goes from here to there since t0 and for so long.
OnTheWay(from, to, t0, long, t) == from + ((to - from) * (t - t0)) \div long

Position == OnTheWay(x_setval, x_targetval, x_prevtime, x_timediff, now)

\* Where it should be.
ShouldBe(t) ==
  IF t >= way.by THEN way.to
  ELSE OnTheWay(way.from, way.to, way.since, way.by - way.since, t)

PutsOut(value, t, kind) ==
  /\ putting' = <<[by |-> kind, togo |-> x_targettime - t]>> \o putting
  /\ lastout' = [value |-> value, at |-> t]

-----------------------------------------------------------------------------
(* Messages, between the calls of clocks or from within an output.         *)

LineListens == called = NoClock \/ putting # <<>>

OnItsWay == \E k \in DOMAIN putting : putting[k].by \in {"ramp", "tick"}

\* line_float, with a time: the first output is where it is.
LineRamp(f) ==
  /\ Len(putting) < MaxLineDepth
  /\ x_gotinlet /\ x_in1val > 0
  /\ x_setval' = IF now > x_targettime THEN x_targetval ELSE Position
  /\ x_prevtime' = now
  /\ x_targettime' = now + x_in1val
  /\ x_targetval' = f
  /\ PutsOut(x_setval', now, "ramp")
  /\ way' = [from |-> ShouldBe(now), since |-> now, to |-> f, by |-> now + x_in1val,
             heard |-> TRUE]
  /\ meddled' = OnItsWay
  /\ UNCHANGED <<agendavars, x_gotinlet, x_grain, x_timediff, x_in1val>>

\* line_float, without.
LineJump(f) ==
  /\ Len(putting) < MaxLineDepth
  /\ ~(x_gotinlet /\ x_in1val > 0)
  /\ UnsetOf(line)
  /\ x_targetval' = f /\ x_setval' = f
  /\ PutsOut(f, now, "jump")
  /\ way' = There(f, TRUE)
  /\ meddled' = OnItsWay
  /\ UNCHANGED <<x_targettime, x_prevtime, x_gotinlet, x_grain, x_timediff, x_in1val>>

line_ft1(g) ==
  /\ x_in1val' = g
  /\ x_gotinlet' = TRUE
  /\ meddled' = (meddled \/ OnItsWay)
  /\ UNCHANGED <<agendavars, x_targettime, x_targetval, x_prevtime, x_setval, x_grain, x_timediff,
                 putting, way, lastout>>

LineGrain(g) ==
  /\ x_grain' = g
  /\ UNCHANGED <<agendavars, x_targettime, x_targetval, x_prevtime, x_setval, x_gotinlet,
                 x_timediff, x_in1val, putting, way, lastout, meddled>>

\* It goes on, the next time, from where the ramp it has stopped began.
line_stop ==
  /\ UnsetOf(line)
  /\ x_targetval' = x_setval
  /\ way' = There(x_setval, FALSE)
  /\ meddled' = OnItsWay
  /\ UNCHANGED <<x_targettime, x_prevtime, x_setval, x_gotinlet, x_grain, x_timediff, x_in1val,
                 putting, lastout>>

line_set(f) ==
  /\ UnsetOf(line)
  /\ x_targetval' = f /\ x_setval' = f
  /\ way' = There(f, FALSE)
  /\ meddled' = OnItsWay
  /\ UNCHANGED <<x_targettime, x_prevtime, x_gotinlet, x_grain, x_timediff, x_in1val, putting,
                 lastout>>

-----------------------------------------------------------------------------
(* The clock, and what is done when an output returns.                     *)

\* line_tick, called by the clock: there, or on the way.
line_tick ==
  /\ putting = <<>>
  /\ \E k \in Indexed(line) : CallOf(k)
  /\ IF x_targettime <= now'
     THEN PutsOut(x_targetval, now', "end")
     ELSE PutsOut(OnTheWay(x_setval, x_targetval, x_prevtime, x_timediff, now'), now', "tick")
  /\ UNCHANGED <<x_targettime, x_targetval, x_prevtime, x_setval, x_gotinlet, x_grain, x_timediff,
                 x_in1val, way, meddled>>

Grain == IF x_grain <= 0 THEN DEFAULTLINEGRAIN ELSE x_grain

\* Mutant: a whole grain, also when there is less to go.
GrainOnly(togo) == Grain

Step(togo) == IF Grain > togo THEN togo ELSE Grain

\* The clock is set for then, or for now if that is past.
Delayed(time) ==
  LET t == now + (IF time > 0 THEN time ELSE 0) IN t \in Times /\ SetFor(line, t)

\* The output of this kind returns.
Returns(kind) ==
  /\ putting # <<>> /\ Head(putting).by = kind
  /\ putting' = Tail(putting)

\* line_tick ends.  What is to go was reckoned before the output: of a message from
\* within it this knows nothing.
TickReturns ==
  /\ Returns("tick")
  /\ Delayed(Step(Head(putting).togo))
  /\ x_grain' = Grain
  /\ UNCHANGED <<x_targettime, x_targetval, x_prevtime, x_setval, x_gotinlet, x_timediff, x_in1val,
                 way, lastout, meddled>>

\* line_float ends, with a ramp: the time that is to go is the last that came.
RampReturns ==
  /\ Returns("ramp")
  /\ Delayed(Step(x_in1val))
  /\ x_grain' = Grain
  /\ x_gotinlet' = FALSE
  /\ x_timediff' = x_targettime - now
  /\ UNCHANGED <<x_targettime, x_targetval, x_prevtime, x_setval, x_in1val, way, lastout, meddled>>

JumpReturns ==
  /\ Returns("jump")
  /\ x_gotinlet' = FALSE
  /\ UNCHANGED <<agendavars, x_targettime, x_targetval, x_prevtime, x_setval, x_grain, x_timediff,
                 x_in1val, way, lastout, meddled>>

EndReturns ==
  /\ Returns("end")
  /\ UNCHANGED <<agendavars, x_targettime, x_targetval, x_prevtime, x_setval, x_gotinlet, x_grain,
                 x_timediff, x_in1val, way, lastout, meddled>>

LineCallEnds ==
  /\ putting = <<>>
  /\ called # NoClock
  /\ called' = NoClock
  /\ UNCHANGED <<now, agenda, linevars>>

TimePasses == /\ putting = <<>>
              /\ \E t \in Times : t > now /\ PassTo(t)
              /\ UNCHANGED linevars

LineNext ==
  \/ /\ LineListens
     /\ \/ \E f \in Targets : LineRamp(f) \/ LineJump(f) \/ line_set(f)
        \/ \E g \in RampTimes : line_ft1(g)
        \/ \E g \in Grains : LineGrain(g)
        \/ line_stop
  \/ line_tick \/ TickReturns \/ RampReturns \/ JumpReturns \/ EndReturns
  \/ LineCallEnds \/ TimePasses

LineSpec == AInit /\ LineInit /\ [][LineNext]_<<agendavars, linevars>>

-----------------------------------------------------------------------------
\* What was put out last is where the line should have been then.  When it has not
\* come to its end it goes on before it should be there; when it has, or was told to
\* jump or to stop, it is silent.  This is so whatever it is sent, before it is there
\* or from within its last output or that of a jump; a message from within another
\* output is forgotten in part.
GoesWhereItShould ==
  putting = <<>> /\ ~meddled =>
    /\ \A k \in Indexed(line) : now <= agenda[k].time /\ agenda[k].time <= way.by
    /\ Indexed(line) = {} /\ way.heard => lastout.at = way.by
    /\ Indexed(line) # {} => way.heard
    /\ way.heard => lastout.value = ShouldBe(lastout.at)
=============================================================================
