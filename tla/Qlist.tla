-------------------------------- MODULE Qlist --------------------------------
(***************************************************************************)
(* Pd's object qlist plays a score: it sends messages to the objects they  *)
(* name, and waits between them.  What it sends may come back to it, as    *)
(* rewind, bang, next, tempo or as a change of the score, while it is at   *)
(* the message that caused this; so do its outlets.                        *)
(***************************************************************************)
EXTENDS Agenda

CONSTANTS
  qlist,         \* the clock of the object
  message,       \* a message in a score
  Items,         \* items that are added: a message, or numbers, for which it waits
  Scores,        \* scores that are read or set
  Tempos,        \* times that a wait of 1 takes
  MaxItems, MaxRetuned, MaxQlistDepth \* bounds of the model: of a score, of changes of
                \* the tempo in a wait, and of what is going on within each other

ASSUME QlistAssumption ==
  /\ Times \subseteq Nat
  /\ message \notin Nat
  /\ Items \subseteq Nat \cup {message} /\ Scores \subseteq Seq(Nat \cup {message})
  /\ Tempos \subseteq Nat \ {0}
  /\ qlist # NoClock

VARIABLES
  x_binbuf,
  x_onset,       \* items of it that are done, or TheEnd
  x_tempo, x_whenclockset, x_clockdelay, x_rewound, x_innext,
  running,       \* what has not returned, the innermost first: qlist_donext between two
                 \* items, sending a message or a list, or at the bang after the last
  \* history
  playing,       \* started and neither rewound nor at the end
  goal,          \* when the wait ends
  began, retuned \* when it began, and how often the tempo was changed since

qlistvars == <<x_binbuf, x_onset, x_tempo, x_whenclockset, x_clockdelay, x_rewound, x_innext,
               running, playing, goal, began, retuned>>

\* 0x7fffffff
TheEnd == -1

QlistInit ==
  /\ x_binbuf = <<>>
  /\ x_onset = TheEnd
  /\ x_tempo = 1 /\ x_whenclockset = 0 /\ x_clockdelay = 0
  /\ x_rewound = FALSE /\ x_innext = FALSE
  /\ running = <<>>
  /\ playing = FALSE
  /\ goal = 0 /\ began = 0 /\ retuned = 0

QlistListens == called = NoClock \/ running # <<>>

Waiting == Indexed(qlist) # {}

Stale == [k \in DOMAIN running |-> [running[k] EXCEPT !.fresh = FALSE]]

NoWait == goal' = 0 /\ began' = 0 /\ retuned' = 0

\* qlist_donext is called, and is at it.
Donext(before, automatic, drop) ==
  running' = <<[at |-> "item", automatic |-> automatic, drop |-> drop,
                wasrewound |-> FALSE, fresh |-> TRUE]>> \o before

-----------------------------------------------------------------------------
(* Messages, between the calls of clocks or from within what it does.      *)

\* qlist_rewind is the first thing that bang, clear and set do.
qlist_rewind ==
  /\ UnsetOf(qlist)
  /\ x_onset' = 0 /\ x_whenclockset' = 0 /\ x_rewound' = TRUE
  /\ running' = Stale
  /\ playing' = FALSE
  /\ NoWait
  /\ UNCHANGED <<x_binbuf, x_tempo, x_clockdelay, x_innext>>

\* From within qlist_donext it starts by its clock.
qlist_bang ==
  /\ x_onset' = 0 /\ x_rewound' = TRUE
  /\ playing' = TRUE
  /\ IF x_innext
     THEN /\ SetFor(qlist, now)
          /\ x_whenclockset' = now /\ x_clockdelay' = 0
          /\ running' = Stale
          /\ goal' = now /\ began' = now /\ retuned' = 0
          /\ UNCHANGED x_innext
     ELSE /\ Len(running) < MaxQlistDepth
          /\ UnsetOf(qlist)
          /\ x_whenclockset' = 0
          /\ x_innext' = TRUE
          /\ Donext(Stale, TRUE, FALSE)
          /\ NoWait
          /\ UNCHANGED x_clockdelay
  /\ UNCHANGED <<x_binbuf, x_tempo>>

qlist_next(drop) ==
  /\ ~x_innext
  /\ Len(running) < MaxQlistDepth
  /\ x_innext' = TRUE
  /\ Donext(running, FALSE, drop)
  /\ UNCHANGED <<agendavars, x_binbuf, x_onset, x_tempo, x_whenclockset, x_clockdelay, x_rewound,
                 playing, goal, began, retuned>>

qlist_add(item) ==
  /\ Len(x_binbuf) < MaxItems
  /\ x_binbuf' = Append(x_binbuf, item)
  /\ UNCHANGED <<agendavars, x_onset, x_tempo, x_whenclockset, x_clockdelay, x_rewound, x_innext,
                 running, playing, goal, began, retuned>>

\* qlist_set, and qlist_clear, which sets no score.
qlist_set(score) ==
  /\ UnsetOf(qlist)
  /\ x_binbuf' = score
  /\ x_onset' = 0 /\ x_whenclockset' = 0 /\ x_rewound' = TRUE
  /\ running' = Stale
  /\ playing' = FALSE
  /\ NoWait
  /\ UNCHANGED <<x_tempo, x_clockdelay, x_innext>>

\* The clock stays set: when it calls, the qlist is at its end.
qlist_read(score) ==
  /\ x_binbuf' = score
  /\ x_onset' = TheEnd /\ x_rewound' = TRUE
  /\ running' = Stale
  /\ playing' = (playing /\ Waiting)
  /\ UNCHANGED <<agendavars, x_tempo, x_whenclockset, x_clockdelay, x_innext, goal, began, retuned>>

\* What is left, of this time at the tempo there was, at the new one.
AtTempo(left, newtempo) == (left * newtempo) \div x_tempo

\* Mutant: as much as is left at the tempo there was.
AtOldTempo(left, newtempo) == left

\* Times that are not whole then are left out.
qlist_tempo(newtempo) ==
  LET left == x_clockdelay - (now - x_whenclockset)
      rest == IF left < 0 THEN 0 ELSE left
  IN
  /\ retuned < MaxRetuned
  /\ x_tempo' = newtempo
  /\ Waiting => ((goal - now) * newtempo) % x_tempo = 0
  /\ IF x_whenclockset # 0
     THEN /\ (rest * newtempo) % x_tempo = 0
          /\ now + AtTempo(rest, newtempo) \in Times
          /\ SetFor(qlist, now + AtTempo(rest, newtempo))
     ELSE UNCHANGED agendavars
  /\ goal' = IF Waiting THEN now + ((goal - now) * newtempo) \div x_tempo ELSE goal
  /\ retuned' = IF Waiting THEN retuned + 1 ELSE retuned
  /\ UNCHANGED <<x_binbuf, x_onset, x_whenclockset, x_clockdelay, x_rewound, x_innext, running,
                 playing, began>>

-----------------------------------------------------------------------------
(* qlist_donext, item by item.                                             *)

AtItem == running # <<>> /\ Head(running).at = "item"

More == x_onset # TheEnd /\ x_onset < Len(x_binbuf)

Item == x_binbuf[x_onset + 1]

\* The score is at its end.
EndOfScore ==
  /\ AtItem /\ ~More
  /\ x_onset' = TheEnd /\ x_whenclockset' = 0 /\ x_innext' = FALSE
  /\ running' = [running EXCEPT ![1].at = "end"]
  /\ playing' = (playing /\ ~Head(running).automatic)
  /\ UNCHANGED <<agendavars, x_binbuf, x_tempo, x_clockdelay, x_rewound, goal, began, retuned>>

\* A number: it waits, or puts it out if it was told next.
WaitItem ==
  /\ AtItem /\ More /\ Item # message
  /\ x_onset' = x_onset + 1
  /\ IF Head(running).automatic
     THEN /\ now + Item * x_tempo \in Times
          /\ SetFor(qlist, now + Item * x_tempo)
          /\ x_clockdelay' = Item * x_tempo /\ x_whenclockset' = now
          /\ x_innext' = FALSE
          /\ running' = Tail(running)
          /\ goal' = now + Item * x_tempo /\ began' = now /\ retuned' = 0
     ELSE /\ running' = [running EXCEPT ![1].at = "list"]
          /\ UNCHANGED <<agendavars, x_clockdelay, x_whenclockset, x_innext, goal, began, retuned>>
  /\ UNCHANGED <<x_binbuf, x_tempo, x_rewound, playing>>

\* A message, which is sent unless it is to be dropped.
SendItem ==
  /\ AtItem /\ More /\ Item = message
  /\ x_onset' = x_onset + 1
  /\ IF Head(running).drop THEN UNCHANGED <<x_rewound, running>>
     ELSE /\ x_rewound' = FALSE
          /\ running' = [running EXCEPT ![1].at = "message", ![1].wasrewound = x_rewound]
  /\ UNCHANGED <<agendavars, x_binbuf, x_tempo, x_whenclockset, x_clockdelay, x_innext, playing,
                 goal, began, retuned>>

\* Mutant: it goes on, whatever has been sent to it.
NeverRewound == FALSE

\* It has been rewound while it sent this message.
Rewound == x_rewound

SendReturns ==
  /\ running # <<>> /\ Head(running).at = "message"
  /\ IF Rewound
     THEN /\ x_innext' = FALSE
          /\ running' = Tail(running)
          /\ UNCHANGED x_rewound
     ELSE /\ x_rewound' = Head(running).wasrewound
          /\ running' = [running EXCEPT ![1].at = "item"]
          /\ UNCHANGED x_innext
  /\ UNCHANGED <<agendavars, x_binbuf, x_onset, x_tempo, x_whenclockset, x_clockdelay, playing,
                 goal, began, retuned>>

\* The list, or the bang at the end, has been put out.
OutletReturns ==
  /\ running # <<>> /\ Head(running).at \in {"list", "end"}
  /\ x_innext' = (x_innext /\ Head(running).at # "list")
  /\ running' = Tail(running)
  /\ UNCHANGED <<agendavars, x_binbuf, x_onset, x_tempo, x_whenclockset, x_clockdelay, x_rewound,
                 playing, goal, began, retuned>>

\* qlist_tick
QlistCalled ==
  /\ running = <<>>
  /\ \E k \in Indexed(qlist) : CallOf(k)
  /\ x_whenclockset' = 0
  /\ IF x_innext THEN UNCHANGED <<x_innext, running>>
     ELSE x_innext' = TRUE /\ Donext(running, TRUE, FALSE)
  /\ NoWait
  /\ UNCHANGED <<x_binbuf, x_onset, x_tempo, x_clockdelay, x_rewound, playing>>

QlistCallEnds ==
  /\ called # NoClock /\ running = <<>>
  /\ called' = NoClock
  /\ UNCHANGED <<now, agenda, qlistvars>>

QlistTimePasses ==
  /\ running = <<>>
  /\ \E t \in Times : t > now /\ PassTo(t)
  /\ UNCHANGED qlistvars

QlistNext ==
  \/ /\ QlistListens /\ ~AtItem
     /\ \/ qlist_rewind \/ qlist_bang
        \/ \E drop \in BOOLEAN : qlist_next(drop)
        \/ \E item \in Items : qlist_add(item)
        \/ \E score \in Scores : qlist_set(score) \/ qlist_read(score)
        \/ \E tempo \in Tempos : qlist_tempo(tempo)
  \/ EndOfScore \/ WaitItem \/ SendItem \/ SendReturns \/ OutletReturns
  \/ QlistCalled \/ QlistCallEnds \/ QlistTimePasses

QlistSpec == AInit /\ QlistInit /\ [][QlistNext]_<<agendavars, qlistvars>>

-----------------------------------------------------------------------------
\* Whatever comes back to it while it plays, and whatever of this is within something
\* else: x_innext tells whether it is at its score, so that it neither refuses to go
\* on for ever nor is in it twice; what was rewound sends nothing more; it goes on to
\* the end when it was started, and is silent when it was rewound; and its waits end
\* when they should, if the tempo is changed but once in a wait that did not begin
\* at the very start of time.
PlaysItsScore ==
  LET AtScore == {k \in DOMAIN running : running[k].at # "end"} IN
  /\ Cardinality(AtScore) = IF x_innext THEN 1 ELSE 0
  /\ AtItem => Head(running).fresh
  /\ ~x_innext => (playing <=> Waiting)
  /\ (Waiting /\ x_onset # TheEnd /\ (retuned = 1 => began > 0) /\ retuned <= 1) =>
       \A k \in Indexed(qlist) : agenda[k].time = goal
=============================================================================
