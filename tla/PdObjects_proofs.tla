------------------------- MODULE PdObjects_proofs --------------------------
(***************************************************************************)
(* Proofs about objects of a patch that are called again from within what  *)
(* they put out: qlist, line, and the objects that send and receive        *)
(* messages.                                                               *)
(*                                                                         *)
(* qlist, for any scores, tempos and times, and any depth of what the      *)
(* patch does.  Of the calls that have not returned one at most is at the  *)
(* score, and it knows what is to come of it: as long as nothing has       *)
(* rewound it, a call that plays by itself has no wait set, and one that   *)
(* was told next leaves the wait as it found it.                           *)
(*                                                                         *)
(* line, for any targets, times and grains, and any depth.  It is where it *)
(* should be in the end, or goes there as it should; unless something came *)
(* from within an output on the way, what has not returned knows how much  *)
(* is to go, and the clock is not set for later than the end.              *)
(*                                                                         *)
(* tcpsend, udpsend and udpreceive, for any numbers of objects and         *)
(* descriptors.  Who is not affected by a descriptor closed twice has its  *)
(* own socket and, if it receives, its entry in the poll list; the walk    *)
(* finds ready what select() found ready, unless it was closed since, and  *)
(* what is given out again since is fresh.  As many bytes of a message     *)
(* leave as it has, and of a datagram all at once.                         *)
(***************************************************************************)
EXTENDS Qlist, Line, MessageSockets, FiniteSetTheorems, BasicLemmas

-----------------------------------------------------------------------------
(* qlist.                                                                  *)

Frame ==
  [at : {"item", "message", "list", "end"}, automatic : BOOLEAN, drop : BOOLEAN,
   wasrewound : BOOLEAN, fresh : BOOLEAN]

Entry(c, t) == [clock |-> c, time |-> t]

\* One wait of c at most is set, and no other clock's.
WaitsOnly(c) ==
  /\ now \in Nat
  /\ \/ agenda = <<>> /\ Indexed(c) = {}
     \/ \E t \in Nat : t >= now /\ agenda = <<Entry(c, t)>> /\ Indexed(c) = {1}

AgendaInv == WaitsOnly(qlist)

QTypeOK ==
  /\ x_binbuf \in Seq(Nat \cup {message})
  /\ x_onset \in Nat \cup {TheEnd}
  /\ x_tempo \in Nat \ {0}
  /\ x_whenclockset \in Nat /\ x_clockdelay \in Nat
  /\ x_rewound \in BOOLEAN /\ x_innext \in BOOLEAN
  /\ running \in Seq(Frame)
  /\ playing \in BOOLEAN
  /\ goal \in Int /\ began \in Nat /\ retuned \in Nat

AtScore == {k \in DOMAIN running : running[k].at # "end"}

\* A call that goes on with the score when what it does now has returned.
GoesOn(r) == r.at = "item" \/ (r.at = "message" /\ ~x_rewound)

CallsInv ==
  /\ x_innext => \E k \in DOMAIN running : AtScore = {k}
  /\ ~x_innext => AtScore = {}
  /\ \A k \in AtScore :
       /\ running[k].at = "item" => k = 1
       /\ GoesOn(running[k]) => running[k].fresh
       /\ GoesOn(running[k]) /\ running[k].automatic => playing /\ ~Waiting
       /\ ~(GoesOn(running[k]) /\ running[k].automatic) => (playing <=> Waiting)
  /\ ~x_innext => (playing <=> Waiting)

\* The wait is known by when it began, until the end of the score.
WaitInv ==
  /\ x_whenclockset # 0 => Waiting
  /\ Waiting /\ x_onset # TheEnd =>
       /\ x_whenclockset = began
       /\ retuned = 0 => goal = began + x_clockdelay
       /\ (retuned = 1 => began > 0) /\ retuned <= 1 => agenda[1].time = goal

PlayInv == AgendaInv /\ QTypeOK /\ CallsInv /\ WaitInv

-----------------------------------------------------------------------------
(* The agenda.                                                             *)

LEMMA OneEntry ==
  ASSUME NEW c, NEW t
  PROVE  /\ {k \in DOMAIN <<Entry(c, t)>> : <<Entry(c, t)>>[k].clock = c} = {1}
         /\ RemoveAt(<<Entry(c, t)>>, 1) = <<>>
         /\ Append(<<>>, Entry(c, t)) = <<Entry(c, t)>>
         /\ <<Entry(c, t)>>[1].time = t
<1>1. <<Entry(c, t)>>[1].clock = c /\ <<Entry(c, t)>>[1].time = t
  BY DEF Entry
<1>2. DOMAIN <<Entry(c, t)>> = {1} /\ Len(<<Entry(c, t)>>) = 1
  OBVIOUS
<1>3. RemoveAt(<<Entry(c, t)>>, 1) = <<>>
  BY <1>2 DEF RemoveAt
<1> QED
  BY <1>1, <1>2, <1>3

LEMMA NoneLeft ==
  ASSUME NEW c, WaitsOnly(c)
  PROVE  Without(c) = <<>>
<1>1. ASSUME NEW t, agenda = <<Entry(c, t)>>, Indexed(c) = {1}
      PROVE  Without(c) = <<>>
  <2>1. (CHOOSE k \in Indexed(c) : TRUE) = 1
    BY <1>1
  <2> QED
    BY <1>1, <2>1, OneEntry DEF Without
<1> QED
  BY <1>1 DEF WaitsOnly, Without

LEMMA TheWait ==
  ASSUME NEW c, WaitsOnly(c)
  PROVE  \A k \in Indexed(c) : k = 1 /\ agenda[k].time \in Nat /\ agenda[k].time >= now
<1>1. ASSUME NEW t \in Nat, t >= now, agenda = <<Entry(c, t)>>, Indexed(c) = {1}
      PROVE  \A k \in Indexed(c) : k = 1 /\ agenda[k].time \in Nat /\ agenda[k].time >= now
  BY <1>1, OneEntry
<1> QED
  BY <1>1 DEF WaitsOnly

LEMMA OneIsSet ==
  ASSUME NEW c, WaitsOnly(c), NEW t \in Nat, SetFor(c, t)
  PROVE  /\ WaitsOnly(c)' /\ Indexed(c)' = {1} /\ agenda'[1].time = t
         /\ now' = now /\ called' = called
<1>1. agenda' = <<Entry(c, t)>> /\ t >= now /\ UNCHANGED <<now, called>>
  BY NoneLeft, OneEntry DEF SetFor, With, Entry
<1>2. Indexed(c)' = {1}
  BY <1>1, OneEntry DEF Indexed
<1> QED
  BY <1>1, <1>2, OneEntry DEF WaitsOnly

LEMMA OneIsUnset ==
  ASSUME NEW c, WaitsOnly(c), UnsetOf(c)
  PROVE  WaitsOnly(c)' /\ Indexed(c)' = {} /\ now' = now /\ called' = called
<1>1. agenda' = <<>> /\ UNCHANGED <<now, called>>
  BY NoneLeft DEF UnsetOf
<1>2. Indexed(c)' = {}
  BY <1>1 DEF Indexed
<1> QED
  BY <1>1, <1>2 DEF WaitsOnly

LEMMA OneIsOver ==
  ASSUME NEW c, WaitsOnly(c), NEW k \in Indexed(c), CallOf(k)
  PROVE  WaitsOnly(c)' /\ Indexed(c)' = {} /\ now' = agenda[k].time /\ now' \in Nat /\ now' >= now
<1>1. PICK t \in Nat : t >= now /\ agenda = <<Entry(c, t)>> /\ Indexed(c) = {1}
  BY DEF WaitsOnly
<1>2. k = 1 /\ agenda[1].time = t /\ t \in Nat
  BY <1>1, OneEntry
<1>3. agenda' = <<>> /\ now' = t
  BY <1>1, <1>2, OneEntry DEF CallOf
<1>4. Indexed(c)' = {}
  BY <1>3 DEF Indexed
<1> QED
  BY <1>1, <1>2, <1>3, <1>4 DEF WaitsOnly

\* Time passes up to the wait.
LEMMA OneIsAhead ==
  ASSUME NEW c, WaitsOnly(c), NEW t \in Nat, PassTo(t)
  PROVE  WaitsOnly(c)' /\ Indexed(c)' = Indexed(c) /\ agenda' = agenda /\ now' = t /\ t >= now
<1>1. now' = t /\ t >= now /\ agenda' = agenda /\ \A k \in DOMAIN agenda : agenda[k].time >= t
  BY DEF PassTo
<1>2. Indexed(c)' = Indexed(c)
  BY <1>1 DEF Indexed
<1>3. ASSUME NEW u \in Nat, u >= now, agenda = <<Entry(c, u)>>, Indexed(c) = {1}
      PROVE  WaitsOnly(c)'
  <2>1. u >= t
    BY <1>1, <1>3, OneEntry
  <2> QED
    BY <1>1, <1>2, <1>3, <2>1 DEF WaitsOnly
<1>4. CASE agenda = <<>> /\ Indexed(c) = {}
  BY <1>1, <1>2, <1>4 DEF WaitsOnly
<1> QED
  BY <1>1, <1>2, <1>3, <1>4 DEF WaitsOnly

LEMMA OneStays ==
  ASSUME NEW c, WaitsOnly(c), UNCHANGED <<now, agenda>>
  PROVE  WaitsOnly(c)' /\ Indexed(c)' = Indexed(c)
  BY DEF WaitsOnly, Indexed

\* For qlist.
LEMMA WaitIsSet ==
  ASSUME AgendaInv, NEW t \in Nat, SetFor(qlist, t)
  PROVE  AgendaInv' /\ Waiting' /\ agenda'[1].time = t /\ now' = now /\ called' = called
  BY OneIsSet DEF AgendaInv, Waiting

LEMMA WaitIsUnset ==
  ASSUME AgendaInv, UnsetOf(qlist)
  PROVE  AgendaInv' /\ ~Waiting' /\ now' = now /\ called' = called
  BY OneIsUnset DEF AgendaInv, Waiting

LEMMA WaitIsOver ==
  ASSUME AgendaInv, NEW k \in Indexed(qlist), CallOf(k)
  PROVE  AgendaInv' /\ ~Waiting'
  BY OneIsOver DEF AgendaInv, Waiting

LEMMA AgendaStays ==
  ASSUME AgendaInv, UNCHANGED <<now, agenda>>
  PROVE  AgendaInv' /\ Waiting' = Waiting
  BY OneStays DEF AgendaInv, Waiting

-----------------------------------------------------------------------------
(* The calls.                                                              *)

LEMMA CallsGoStale ==
  ASSUME running \in Seq(Frame)
  PROVE  /\ Stale \in Seq(Frame) /\ DOMAIN Stale = DOMAIN running
         /\ \A k \in DOMAIN running :
              Stale[k].at = running[k].at /\ Stale[k].automatic = running[k].automatic
<1>1. DOMAIN running = 1..Len(running) /\ Len(running) \in Nat
  BY LenProperties
<1>2. \A k \in DOMAIN running : running[k] \in Frame
  BY <1>1, ElementOfSeq
<1>3. \A k \in DOMAIN running :
        /\ [running[k] EXCEPT !.fresh = FALSE] \in Frame
        /\ [running[k] EXCEPT !.fresh = FALSE].at = running[k].at
        /\ [running[k] EXCEPT !.fresh = FALSE].automatic = running[k].automatic
  BY <1>2 DEF Frame
<1>4. Stale = [k \in 1..Len(running) |-> [running[k] EXCEPT !.fresh = FALSE]]
  BY <1>1 DEF Stale
<1>5. Stale \in Seq(Frame)
  BY <1>1, <1>3, <1>4, IsASeq
<1> QED
  BY <1>1, <1>3, <1>4, <1>5

LEMMA CallReturns ==
  ASSUME running \in Seq(Frame), running # <<>>
  PROVE  /\ Head(running) = running[1] /\ 1 \in DOMAIN running /\ Head(running) \in Frame
         /\ Tail(running) \in Seq(Frame)
         /\ \A k \in DOMAIN Tail(running) :
              k + 1 \in DOMAIN running /\ Tail(running)[k] = running[k + 1] /\ k \in Nat /\ k > 0
         /\ \A k \in DOMAIN running : k # 1 => k - 1 \in DOMAIN Tail(running)
<1>1. Tail(running) \in Seq(Frame)
  BY PoppedProperties
<1>2. \A k \in DOMAIN Tail(running) : k \in Nat /\ k > 0
  BY <1>1, LenProperties
<1> QED
  BY <1>1, <1>2, PoppedProperties

LEMMA CallChanges ==
  ASSUME running \in Seq(Frame), running # <<>>, NEW r \in Frame,
         running' = [running EXCEPT ![1] = r]
  PROVE  /\ running' \in Seq(Frame) /\ DOMAIN running' = DOMAIN running
         /\ running'[1] = r /\ \A k \in DOMAIN running : k # 1 => running'[k] = running[k]
  BY PoppedProperties, ChangedProperties

LEMMA CallBegins ==
  ASSUME NEW before \in Seq(Frame), \A k \in DOMAIN before : before[k].at = "end",
         NEW automatic \in BOOLEAN, NEW drop \in BOOLEAN, Donext(before, automatic, drop)
  PROVE  /\ running' \in Seq(Frame) /\ 1 \in DOMAIN running' /\ AtScore' = {1}
         /\ running'[1].at = "item" /\ running'[1].automatic = automatic /\ running'[1].fresh
<1> DEFINE r == [at |-> "item", automatic |-> automatic, drop |-> drop,
                 wasrewound |-> FALSE, fresh |-> TRUE]
<1>1. r \in Frame /\ r.at = "item" /\ r.automatic = automatic /\ r.fresh
  BY DEF Frame
<1>2. running' = <<r>> \o before
  BY DEF Donext
<1> HIDE DEF r
<1>3. /\ running' \in Seq(Frame) /\ 1 \in DOMAIN running' /\ running'[1] = r
      /\ \A k \in DOMAIN running' : k # 1 => k - 1 \in DOMAIN before /\ running'[k] = before[k - 1]
  BY <1>1, <1>2, PushedProperties
<1> QED
  BY <1>1, <1>3 DEF AtScore

\* What is at the score and has not called anything is the innermost.
LEMMA HeadIsAtScore ==
  ASSUME running \in Seq(Frame), CallsInv, running # <<>>, Head(running).at # "end"
  PROVE  x_innext /\ AtScore = {1} /\ Head(running) = running[1] /\ 1 \in DOMAIN running
<1>1. Head(running) = running[1] /\ 1 \in DOMAIN running
  BY CallReturns
<1>2. 1 \in AtScore
  BY <1>1 DEF AtScore
<1> QED
  BY <1>1, <1>2 DEF CallsInv

-----------------------------------------------------------------------------
(* The steps.                                                              *)

LEMMA QlistBegins == AInit /\ QlistInit => PlayInv
<1> SUFFICES ASSUME AInit, QlistInit PROVE PlayInv
  OBVIOUS
<1>1. running = <<>> /\ running \in Seq(Frame) /\ DOMAIN running = {} /\ x_binbuf \in Seq(Nat \cup {message})
  BY DEF QlistInit
<1>2. agenda = <<>> /\ Indexed(qlist) = {} /\ AgendaInv
  BY DEF AInit, Indexed, AgendaInv, WaitsOnly
<1>3. QTypeOK
  <2>1. x_onset \in Nat \cup {TheEnd} /\ x_tempo \in Nat \ {0}
    BY DEF QlistInit
  <2>2. x_whenclockset \in Nat /\ x_clockdelay \in Nat /\ goal \in Int /\ began \in Nat /\ retuned \in Nat
    BY DEF QlistInit
  <2>3. x_rewound \in BOOLEAN /\ x_innext \in BOOLEAN /\ playing \in BOOLEAN
    BY DEF QlistInit
  <2> QED
    BY <1>1, <2>1, <2>2, <2>3 DEF QTypeOK
<1>4. CallsInv
  BY <1>1, <1>2 DEF QlistInit, CallsInv, AtScore, Waiting
<1>5. WaitInv
  BY <1>2 DEF QlistInit, WaitInv, Waiting
<1> QED
  BY <1>2, <1>3, <1>4, <1>5 DEF PlayInv

\* It is rewound, when nothing is at an item: all that goes on becomes stale.
LEMMA RewoundCalls ==
  ASSUME PlayInv, ~AtItem, running' = Stale, x_rewound' = TRUE, UNCHANGED x_innext,
         playing' <=> Waiting'
  PROVE  running' \in Seq(Frame) /\ CallsInv'
<1>1. running \in Seq(Frame) /\ CallsInv
  BY DEF PlayInv, QTypeOK
<1>2. /\ Stale \in Seq(Frame) /\ DOMAIN Stale = DOMAIN running
      /\ \A k \in DOMAIN running : Stale[k].at = running[k].at
  BY <1>1, CallsGoStale
<1>3. AtScore' = AtScore
  BY <1>2 DEF AtScore
<1>4. \A k \in AtScore : running[k].at # "item"
  <2>1. SUFFICES ASSUME NEW k \in AtScore, running[k].at = "item" PROVE FALSE
    OBVIOUS
  <2>2. k = 1 /\ 1 \in DOMAIN running
    BY <1>1, <2>1 DEF CallsInv, AtScore
  <2>3. running # <<>>
    BY <2>2
  <2> QED
    BY <1>1, <2>1, <2>2, <2>3, CallReturns DEF AtItem
<1>5. \A k \in AtScore' : k \in DOMAIN running /\ ~(running[k].at = "item") /\ running'[k].at = running[k].at
  BY <1>2, <1>3, <1>4 DEF AtScore
<1>6. CallsInv'
  BY <1>1, <1>2, <1>3, <1>5 DEF CallsInv, GoesOn
<1> QED
  BY <1>2, <1>6

LEMMA RewindStep ==
  ASSUME PlayInv, ~AtItem, qlist_rewind \/ \E score \in Scores : qlist_set(score)
  PROVE  PlayInv'
<1>1. /\ UnsetOf(qlist)
      /\ x_onset' = 0 /\ x_whenclockset' = 0 /\ x_rewound' = TRUE
      /\ running' = Stale /\ playing' = FALSE /\ goal' = 0 /\ began' = 0 /\ retuned' = 0
      /\ UNCHANGED <<x_tempo, x_clockdelay, x_innext>>
      /\ x_binbuf' = x_binbuf \/ x_binbuf' \in Scores
  BY DEF qlist_rewind, qlist_set, NoWait
<1>2. QTypeOK /\ AgendaInv
  BY DEF PlayInv
<1>3. AgendaInv' /\ ~Waiting'
  BY <1>1, <1>2, WaitIsUnset
<1>4. running' \in Seq(Frame) /\ CallsInv'
  BY <1>1, <1>3, RewoundCalls
<1>5. x_binbuf' \in Seq(Nat \cup {message})
  BY <1>1, <1>2, QlistAssumption DEF QTypeOK
<1>6. QTypeOK'
  <2>1. x_onset' \in Nat \cup {TheEnd} /\ x_tempo' \in Nat \ {0} /\ playing' \in BOOLEAN
    BY <1>1, <1>2 DEF QTypeOK
  <2> QED
    BY <1>1, <1>2, <1>4, <1>5, <2>1 DEF QTypeOK
<1>7. WaitInv'
  BY <1>1, <1>3 DEF WaitInv
<1> QED
  BY <1>3, <1>4, <1>6, <1>7 DEF PlayInv

LEMMA BangStep ==
  ASSUME PlayInv, ~AtItem, qlist_bang PROVE PlayInv'
<1>1. x_onset' = 0 /\ x_rewound' = TRUE /\ playing' = TRUE /\ UNCHANGED <<x_binbuf, x_tempo>>
  BY DEF qlist_bang
<1>2. QTypeOK /\ AgendaInv /\ CallsInv
  BY DEF PlayInv
<1>3. CASE x_innext
  <2>1. /\ SetFor(qlist, now) /\ x_whenclockset' = now /\ x_clockdelay' = 0
        /\ running' = Stale /\ goal' = now /\ began' = now /\ retuned' = 0 /\ UNCHANGED x_innext
    BY <1>3 DEF qlist_bang
  <2>2. now \in Nat
    BY <1>2 DEF AgendaInv, WaitsOnly
  <2>3. AgendaInv' /\ Waiting' /\ agenda'[1].time = now
    BY <1>2, <2>1, <2>2, WaitIsSet
  <2>4. running' \in Seq(Frame) /\ CallsInv'
    BY <1>1, <2>1, <2>3, RewoundCalls
  <2>5. QTypeOK'
    BY <1>1, <1>2, <2>1, <2>2, <2>4 DEF QTypeOK
  <2>6. WaitInv'
    BY <2>1, <2>2, <2>3 DEF WaitInv
  <2> QED
    BY <2>3, <2>4, <2>5, <2>6 DEF PlayInv
<1>4. CASE ~x_innext
  <2>1. /\ UnsetOf(qlist) /\ x_whenclockset' = 0 /\ x_innext' = TRUE /\ Donext(Stale, TRUE, FALSE)
        /\ goal' = 0 /\ began' = 0 /\ retuned' = 0 /\ UNCHANGED x_clockdelay
    BY <1>4 DEF qlist_bang, NoWait
  <2>2. AgendaInv' /\ ~Waiting'
    BY <1>2, <2>1, WaitIsUnset
  <2>3. Stale \in Seq(Frame) /\ \A k \in DOMAIN Stale : Stale[k].at = "end"
    BY <1>2, <1>4, CallsGoStale DEF QTypeOK, CallsInv, AtScore
  <2>4. /\ running' \in Seq(Frame) /\ 1 \in DOMAIN running' /\ AtScore' = {1}
        /\ running'[1].at = "item" /\ running'[1].automatic = TRUE /\ running'[1].fresh
    BY <2>1, <2>3, CallBegins
  <2>5. QTypeOK'
    BY <1>1, <1>2, <2>1, <2>4 DEF QTypeOK
  <2>6. CallsInv'
    BY <1>1, <2>1, <2>2, <2>4 DEF CallsInv, GoesOn
  <2>7. WaitInv'
    BY <2>1, <2>2 DEF WaitInv
  <2> QED
    BY <2>2, <2>5, <2>6, <2>7 DEF PlayInv
<1> QED
  BY <1>3, <1>4

LEMMA NextStep ==
  ASSUME PlayInv, NEW drop \in BOOLEAN, qlist_next(drop) PROVE PlayInv'
<1>1. /\ ~x_innext /\ x_innext' = TRUE /\ Donext(running, FALSE, drop)
      /\ UNCHANGED <<now, agenda, called, x_binbuf, x_onset, x_tempo, x_whenclockset, x_clockdelay,
                     x_rewound, playing, goal, began, retuned>>
  BY DEF qlist_next, agendavars
<1>2. QTypeOK /\ AgendaInv /\ CallsInv /\ WaitInv
  BY DEF PlayInv
<1>3. AgendaInv' /\ Waiting' = Waiting
  BY <1>1, <1>2, AgendaStays
<1>4. /\ running' \in Seq(Frame) /\ 1 \in DOMAIN running' /\ AtScore' = {1}
      /\ running'[1].at = "item" /\ running'[1].automatic = FALSE /\ running'[1].fresh
  <2>1. running \in Seq(Frame) /\ \A k \in DOMAIN running : running[k].at = "end"
    BY <1>1, <1>2 DEF QTypeOK, CallsInv, AtScore
  <2> QED
    BY <1>1, <2>1, CallBegins
<1>5. QTypeOK'
  BY <1>1, <1>2, <1>4 DEF QTypeOK
<1>6. playing' <=> Waiting'
  BY <1>1, <1>2, <1>3 DEF CallsInv
<1>7. CallsInv'
  BY <1>1, <1>4, <1>6 DEF CallsInv, GoesOn
<1>8. WaitInv'
  BY <1>1, <1>2, <1>3 DEF WaitInv
<1> QED
  BY <1>3, <1>5, <1>7, <1>8 DEF PlayInv

LEMMA AddStep ==
  ASSUME PlayInv, NEW item \in Items, qlist_add(item) PROVE PlayInv'
<1>1. /\ x_binbuf' = Append(x_binbuf, item)
      /\ UNCHANGED <<now, agenda, called, x_onset, x_tempo, x_whenclockset, x_clockdelay,
                     x_rewound, x_innext, running, playing, goal, began, retuned>>
  BY DEF qlist_add, agendavars
<1>2. QTypeOK /\ AgendaInv /\ CallsInv /\ WaitInv
  BY DEF PlayInv
<1>3. AgendaInv' /\ Waiting' = Waiting
  BY <1>1, <1>2, AgendaStays
<1>4. x_binbuf' \in Seq(Nat \cup {message})
  <2>1. x_binbuf \in Seq(Nat \cup {message}) /\ item \in Nat \cup {message}
    BY <1>2, QlistAssumption DEF QTypeOK
  <2> QED
    BY <1>1, <2>1, AppendProperties
<1>5. QTypeOK'
  BY <1>1, <1>2, <1>4 DEF QTypeOK
<1>6. CallsInv'
  BY <1>1, <1>2, <1>3 DEF CallsInv, AtScore, GoesOn
<1>7. WaitInv'
  BY <1>1, <1>2, <1>3 DEF WaitInv
<1> QED
  BY <1>3, <1>5, <1>6, <1>7 DEF PlayInv

\* Who waits plays.
LEMMA WaitingIsPlaying ==
  ASSUME QTypeOK, CallsInv, Waiting PROVE playing
<1>1. CASE x_innext
  <2>1. PICK k \in DOMAIN running : AtScore = {k}
    BY <1>1 DEF CallsInv
  <2> QED
    BY <2>1 DEF CallsInv
<1>2. CASE ~x_innext
  BY <1>2 DEF CallsInv
<1> QED
  BY <1>1, <1>2 DEF QTypeOK

LEMMA ReadStep ==
  ASSUME PlayInv, ~AtItem, NEW score \in Scores, qlist_read(score) PROVE PlayInv'
<1>1. /\ x_binbuf' = score /\ x_onset' = TheEnd /\ x_rewound' = TRUE /\ running' = Stale
      /\ playing' = (playing /\ Waiting)
      /\ UNCHANGED <<now, agenda, called, x_tempo, x_whenclockset, x_clockdelay, x_innext, goal,
                     began, retuned>>
  BY DEF qlist_read, agendavars
<1>2. QTypeOK /\ AgendaInv /\ CallsInv /\ WaitInv
  BY DEF PlayInv
<1>3. AgendaInv' /\ Waiting' = Waiting
  BY <1>1, <1>2, AgendaStays
<1>4. playing' <=> Waiting'
  BY <1>1, <1>2, <1>3, WaitingIsPlaying
<1>5. running' \in Seq(Frame) /\ CallsInv'
  BY <1>1, <1>4, RewoundCalls
<1>6. QTypeOK'
  <2>1. x_binbuf' \in Seq(Nat \cup {message}) /\ x_onset' \in Nat \cup {TheEnd}
    BY <1>1, QlistAssumption
  <2>2. playing' \in BOOLEAN /\ x_rewound' \in BOOLEAN
    BY <1>1
  <2> QED
    BY <1>1, <1>2, <1>5, <2>1, <2>2 DEF QTypeOK
<1>7. WaitInv'
  BY <1>1, <1>2, <1>3 DEF WaitInv
<1> QED
  BY <1>3, <1>5, <1>6, <1>7 DEF PlayInv

LEMMA TempoStep ==
  ASSUME PlayInv, NEW newtempo \in Tempos, qlist_tempo(newtempo) PROVE PlayInv'
<1> DEFINE left == x_clockdelay - (now - x_whenclockset)
           rest == IF left < 0 THEN 0 ELSE left
<1>1. /\ x_tempo' = newtempo
      /\ IF x_whenclockset # 0
         THEN now + AtTempo(rest, newtempo) \in Times /\ SetFor(qlist, now + AtTempo(rest, newtempo))
         ELSE UNCHANGED <<now, agenda, called>>
      /\ goal' = IF Waiting THEN now + ((goal - now) * newtempo) \div x_tempo ELSE goal
      /\ retuned' = IF Waiting THEN retuned + 1 ELSE retuned
      /\ UNCHANGED <<x_binbuf, x_onset, x_whenclockset, x_clockdelay, x_rewound, x_innext, running,
                     playing, began>>
  BY DEF qlist_tempo, agendavars
<1>2. QTypeOK /\ AgendaInv /\ CallsInv /\ WaitInv
  BY DEF PlayInv
<1>3. now \in Nat /\ x_tempo \in Nat \ {0} /\ newtempo \in Nat \ {0}
  BY <1>2, QlistAssumption DEF AgendaInv, WaitsOnly, QTypeOK
<1>4. /\ AgendaInv' /\ Waiting' = Waiting /\ now' = now
      /\ x_whenclockset # 0 => agenda'[1].time = now + AtTempo(rest, newtempo)
      /\ x_whenclockset = 0 => agenda' = agenda
  <2>1. CASE x_whenclockset # 0
    <3>1. now + AtTempo(rest, newtempo) \in Nat
      BY <1>1, <2>1, QlistAssumption
    <3>2. AgendaInv' /\ Waiting' /\ agenda'[1].time = now + AtTempo(rest, newtempo) /\ now' = now
      BY <1>1, <1>2, <2>1, <3>1, WaitIsSet
    <3>3. Waiting' = Waiting
      BY <1>2, <2>1, <3>2 DEF WaitInv, Waiting
    <3> QED
      BY <2>1, <3>2, <3>3
  <2>2. CASE x_whenclockset = 0
    BY <1>1, <1>2, <2>2, AgendaStays
  <2> QED
    BY <2>1, <2>2
<1>5. goal' \in Int /\ retuned' \in Nat
  <2>1. goal \in Int /\ retuned \in Nat
    BY <1>2 DEF QTypeOK
  <2>2. ((goal - now) * newtempo) \div x_tempo \in Int
    BY <1>3, <2>1
  <2> QED
    BY <1>1, <1>3, <2>1, <2>2
<1>6. QTypeOK'
  BY <1>1, <1>2, <1>3, <1>5 DEF QTypeOK
<1>7. CallsInv'
  BY <1>1, <1>2, <1>4 DEF CallsInv, AtScore, GoesOn
<1>8. WaitInv'
  <2>1. x_whenclockset' # 0 => Waiting'
    BY <1>1, <1>2, <1>4 DEF WaitInv
  <2>2. ASSUME Waiting', x_onset' # TheEnd
        PROVE  /\ x_whenclockset' = began' /\ retuned' # 0
               /\ (retuned' = 1 => began' > 0) /\ retuned' <= 1 => agenda'[1].time = goal'
    <3>1. Waiting /\ x_onset # TheEnd /\ retuned' = retuned + 1 /\ retuned \in Nat
          /\ x_whenclockset = began /\ began' = began
      BY <1>1, <1>2, <1>4, <2>2 DEF WaitInv, QTypeOK
    <3>2. ASSUME began > 0, retuned = 0
          PROVE  agenda'[1].time = goal'
      <4>1. goal = began + x_clockdelay /\ agenda[1].time = goal
        BY <1>2, <3>1, <3>2 DEF WaitInv
      <4>2. goal >= now
        BY <1>2, <3>1, <4>1, OneEntry DEF AgendaInv, WaitsOnly, Waiting
      <4>3. began \in Nat /\ x_clockdelay \in Nat /\ goal \in Int
        BY <1>2 DEF QTypeOK
      <4>4. left = goal - now
        BY <1>3, <3>1, <4>1, <4>3
      <4>5. rest = goal - now
        BY <1>3, <4>2, <4>3, <4>4
      <4>6. agenda'[1].time = now + ((goal - now) * newtempo) \div x_tempo
        BY <1>4, <3>1, <3>2, <4>3, <4>5 DEF AtTempo
      <4> QED
        BY <1>1, <3>1, <4>6
    <3> QED
      BY <1>1, <3>1, <3>2
  <2> QED
    BY <2>1, <2>2 DEF WaitInv
<1> QED
  BY <1>4, <1>6, <1>7, <1>8 DEF PlayInv

\* What is known of a call that is at an item.
LEMMA AtAnItem ==
  ASSUME PlayInv, AtItem
  PROVE  /\ running \in Seq(Frame) /\ running # <<>> /\ 1 \in DOMAIN running
         /\ Head(running) = running[1] /\ Head(running) \in Frame /\ running[1].at = "item"
         /\ x_innext /\ AtScore = {1} /\ running[1].fresh
         /\ running[1].automatic => playing /\ ~Waiting
         /\ ~running[1].automatic => (playing <=> Waiting)
<1>1. running \in Seq(Frame) /\ running # <<>> /\ Head(running).at = "item" /\ CallsInv
  BY DEF PlayInv, QTypeOK, AtItem
<1>2. x_innext /\ AtScore = {1} /\ Head(running) = running[1] /\ 1 \in DOMAIN running
  BY <1>1, HeadIsAtScore
<1>3. Head(running) \in Frame
  BY <1>1, CallReturns
<1> QED
  BY <1>1, <1>2, <1>3 DEF CallsInv, GoesOn

LEMMA EndStep ==
  ASSUME PlayInv, EndOfScore PROVE PlayInv'
<1>1. /\ AtItem /\ x_onset' = TheEnd /\ x_whenclockset' = 0 /\ x_innext' = FALSE
      /\ running' = [running EXCEPT ![1].at = "end"]
      /\ playing' = (playing /\ ~Head(running).automatic)
      /\ UNCHANGED <<now, agenda, called, x_binbuf, x_tempo, x_clockdelay, x_rewound, goal, began,
                     retuned>>
  BY DEF EndOfScore, agendavars
<1>2. QTypeOK /\ AgendaInv /\ CallsInv
  BY DEF PlayInv
<1>3. AgendaInv' /\ Waiting' = Waiting
  BY <1>1, <1>2, AgendaStays
<1> DEFINE r == [running[1] EXCEPT !.at = "end"]
<1>4. r \in Frame /\ r.at = "end"
  BY <1>1, AtAnItem DEF Frame
<1>5. running' = [running EXCEPT ![1] = r]
  BY <1>1
<1> HIDE DEF r
<1>6. /\ running' \in Seq(Frame) /\ DOMAIN running' = DOMAIN running /\ running'[1] = r
      /\ \A k \in DOMAIN running : k # 1 => running'[k] = running[k]
  BY <1>1, <1>4, <1>5, AtAnItem, CallChanges
<1>7. AtScore' = {}
  BY <1>1, <1>4, <1>6, AtAnItem DEF AtScore
<1>8. playing' <=> Waiting'
  BY <1>1, <1>3, AtAnItem
<1>9. QTypeOK'
  <2>1. x_onset' \in Nat \cup {TheEnd} /\ playing' \in BOOLEAN
    BY <1>1
  <2> QED
    BY <1>1, <1>2, <1>6, <2>1 DEF QTypeOK
<1>10. CallsInv' /\ WaitInv'
  BY <1>1, <1>7, <1>8 DEF CallsInv, WaitInv
<1> QED
  BY <1>3, <1>9, <1>10 DEF PlayInv

LEMMA ItemIsThere ==
  ASSUME QTypeOK, More
  PROVE  x_onset \in Nat /\ x_onset + 1 # TheEnd /\ Item \in Nat \cup {message}
<1>1. x_onset \in Nat /\ x_onset + 1 \in 1..Len(x_binbuf) /\ x_binbuf \in Seq(Nat \cup {message})
  BY LenProperties DEF QTypeOK, More, TheEnd
<1>2. Item \in Nat \cup {message}
  BY <1>1, ElementOfSeq DEF Item
<1> QED
  BY <1>1, <1>2 DEF TheEnd

LEMMA WaitStep ==
  ASSUME PlayInv, WaitItem PROVE PlayInv'
<1>1. /\ AtItem /\ More /\ Item # message /\ x_onset' = x_onset + 1
      /\ UNCHANGED <<x_binbuf, x_tempo, x_rewound, playing>>
  BY DEF WaitItem
<1>2. QTypeOK /\ AgendaInv /\ CallsInv /\ WaitInv
  BY DEF PlayInv
<1>3. x_onset' \in Nat /\ x_onset' # TheEnd /\ Item \in Nat /\ x_onset # TheEnd
  BY <1>1, <1>2, ItemIsThere DEF More
<1>4. CASE Head(running).automatic
  <2>1. /\ now + Item * x_tempo \in Times /\ SetFor(qlist, now + Item * x_tempo)
        /\ x_clockdelay' = Item * x_tempo /\ x_whenclockset' = now /\ x_innext' = FALSE
        /\ running' = Tail(running)
        /\ goal' = now + Item * x_tempo /\ began' = now /\ retuned' = 0
    BY <1>4 DEF WaitItem
  <2>2. now \in Nat /\ now + Item * x_tempo \in Nat /\ Item * x_tempo \in Nat
    BY <1>2, <1>3, <2>1, QlistAssumption DEF AgendaInv, WaitsOnly, QTypeOK
  <2>3. AgendaInv' /\ Waiting' /\ agenda'[1].time = now + Item * x_tempo
    BY <1>2, <2>1, <2>2, WaitIsSet
  <2>4. running' \in Seq(Frame) /\ AtScore' = {}
    <3>1. \A k \in DOMAIN Tail(running) :
            k + 1 \in DOMAIN running /\ Tail(running)[k] = running[k + 1] /\ k + 1 # 1
      BY <1>1, AtAnItem, CallReturns
    <3>2. Tail(running) \in Seq(Frame)
      BY <1>1, AtAnItem, CallReturns
    <3> QED
      BY <1>1, <2>1, <3>1, <3>2, AtAnItem DEF AtScore
  <2>5. QTypeOK'
    <3>1. x_onset' \in Nat \cup {TheEnd} /\ x_innext' \in BOOLEAN
      BY <1>3, <2>1
    <3>2. x_clockdelay' \in Nat /\ x_whenclockset' \in Nat /\ goal' \in Int /\ began' \in Nat
          /\ retuned' \in Nat
      BY <2>1, <2>2
    <3> QED
      BY <1>1, <1>2, <2>4, <3>1, <3>2 DEF QTypeOK
  <2>6. playing' <=> Waiting'
    BY <1>1, <1>4, <2>3, AtAnItem
  <2>7. CallsInv'
    BY <2>1, <2>4, <2>6 DEF CallsInv
  <2>8. WaitInv'
    BY <2>1, <2>2, <2>3 DEF WaitInv
  <2> QED
    BY <2>3, <2>5, <2>7, <2>8 DEF PlayInv
<1>5. CASE ~Head(running).automatic
  <2>1. /\ running' = [running EXCEPT ![1].at = "list"]
        /\ UNCHANGED <<now, agenda, called, x_clockdelay, x_whenclockset, x_innext, goal, began, retuned>>
    BY <1>5 DEF WaitItem, agendavars
  <2>2. AgendaInv' /\ Waiting' = Waiting
    BY <1>2, <2>1, AgendaStays
  <2> DEFINE r == [running[1] EXCEPT !.at = "list"]
  <2>3. r \in Frame /\ r.at = "list"
    BY <1>1, AtAnItem DEF Frame
  <2>4. running' = [running EXCEPT ![1] = r]
    BY <2>1
  <2> HIDE DEF r
  <2>5. /\ running' \in Seq(Frame) /\ DOMAIN running' = DOMAIN running /\ running'[1] = r
        /\ \A k \in DOMAIN running : k # 1 => running'[k] = running[k]
    BY <1>1, <2>3, <2>4, AtAnItem, CallChanges
  <2>6. AtScore' = {1} /\ x_innext' /\ 1 \in DOMAIN running'
    BY <1>1, <2>1, <2>3, <2>5, AtAnItem DEF AtScore
  <2>7. playing' <=> Waiting'
    BY <1>1, <1>5, <2>2, AtAnItem
  <2>8. QTypeOK'
    BY <1>1, <1>2, <1>3, <2>1, <2>5 DEF QTypeOK
  <2>9. CallsInv'
    BY <2>3, <2>5, <2>6, <2>7 DEF CallsInv, GoesOn
  <2>10. WaitInv'
    BY <1>1, <1>2, <1>3, <2>1, <2>2 DEF WaitInv
  <2> QED
    BY <2>2, <2>8, <2>9, <2>10 DEF PlayInv
<1> QED
  BY <1>4, <1>5

LEMMA SendStep ==
  ASSUME PlayInv, SendItem PROVE PlayInv'
<1>1. /\ AtItem /\ More /\ x_onset' = x_onset + 1
      /\ \/ UNCHANGED <<x_rewound, running>>
         \/ /\ x_rewound' = FALSE
            /\ running' = [running EXCEPT ![1].at = "message", ![1].wasrewound = x_rewound]
      /\ UNCHANGED <<now, agenda, called, x_binbuf, x_tempo, x_whenclockset, x_clockdelay, x_innext,
                     playing, goal, began, retuned>>
  BY DEF SendItem, agendavars
<1>2. QTypeOK /\ AgendaInv /\ CallsInv /\ WaitInv
  BY DEF PlayInv
<1>3. AgendaInv' /\ Waiting' = Waiting
  BY <1>1, <1>2, AgendaStays
<1>4. x_onset' \in Nat /\ x_onset' # TheEnd /\ x_onset # TheEnd
  BY <1>1, <1>2, ItemIsThere DEF More
<1>5. WaitInv'
  BY <1>1, <1>2, <1>3, <1>4 DEF WaitInv
<1>6. CASE UNCHANGED <<x_rewound, running>>
  <2>1. QTypeOK'
    BY <1>1, <1>2, <1>4, <1>6 DEF QTypeOK
  <2>2. CallsInv'
    BY <1>1, <1>2, <1>3, <1>6 DEF CallsInv, AtScore, GoesOn
  <2> QED
    BY <1>3, <1>5, <2>1, <2>2 DEF PlayInv
<1>7. CASE /\ x_rewound' = FALSE
           /\ running' = [running EXCEPT ![1].at = "message", ![1].wasrewound = x_rewound]
  <2> DEFINE r == [running[1] EXCEPT !.at = "message", !.wasrewound = x_rewound]
  <2>1. /\ r \in Frame /\ r.at = "message" /\ r.automatic = running[1].automatic
        /\ r.fresh = running[1].fresh
    BY <1>1, <1>2, AtAnItem DEF Frame, QTypeOK
  <2>2. running' = [running EXCEPT ![1] = r]
    <3>1. 1 \in DOMAIN running
      BY <1>1, AtAnItem
    <3> QED
      BY <1>7, <3>1
  <2> HIDE DEF r
  <2>3. /\ running' \in Seq(Frame) /\ DOMAIN running' = DOMAIN running /\ running'[1] = r
        /\ \A k \in DOMAIN running : k # 1 => running'[k] = running[k]
    BY <1>1, <2>1, <2>2, AtAnItem, CallChanges
  <2>4. AtScore' = {1} /\ x_innext' /\ 1 \in DOMAIN running'
    BY <1>1, <2>1, <2>3, AtAnItem DEF AtScore
  <2>5. /\ running'[1].fresh
        /\ running'[1].automatic => playing' /\ ~Waiting'
        /\ ~running'[1].automatic => (playing' <=> Waiting')
    BY <1>1, <1>3, <2>1, <2>3, AtAnItem
  <2>6. QTypeOK'
    <3>1. x_rewound' \in BOOLEAN
      BY <1>7
    <3> QED
      BY <1>1, <1>2, <1>4, <2>3, <3>1 DEF QTypeOK
  <2>7. CallsInv'
    BY <1>7, <2>1, <2>3, <2>4, <2>5 DEF CallsInv, GoesOn
  <2> QED
    BY <1>3, <1>5, <2>6, <2>7 DEF PlayInv
<1> QED
  BY <1>1, <1>6, <1>7

\* The call at the score returns.
LEMMA ScoreIsLeft ==
  ASSUME running \in Seq(Frame), running # <<>>, CallsInv, Head(running).at # "end",
         running' = Tail(running)
  PROVE  running' \in Seq(Frame) /\ AtScore' = {}
<1>1. \A k \in DOMAIN Tail(running) :
        k + 1 \in DOMAIN running /\ Tail(running)[k] = running[k + 1] /\ k + 1 # 1
  BY CallReturns
<1>2. Tail(running) \in Seq(Frame) /\ AtScore = {1}
  BY CallReturns, HeadIsAtScore
<1> QED
  BY <1>1, <1>2 DEF AtScore

LEMMA SendReturnsStep ==
  ASSUME PlayInv, SendReturns PROVE PlayInv'
<1>1. /\ running # <<>> /\ Head(running).at = "message"
      /\ UNCHANGED <<now, agenda, called, x_binbuf, x_onset, x_tempo, x_whenclockset, x_clockdelay,
                     playing, goal, began, retuned>>
  BY DEF SendReturns, agendavars
<1>2. QTypeOK /\ AgendaInv /\ CallsInv /\ WaitInv /\ running \in Seq(Frame)
  BY DEF PlayInv, QTypeOK
<1>3. AgendaInv' /\ Waiting' = Waiting
  BY <1>1, <1>2, AgendaStays
<1>4. /\ x_innext /\ AtScore = {1} /\ Head(running) = running[1] /\ 1 \in DOMAIN running
      /\ running[1] \in Frame
  BY <1>1, <1>2, HeadIsAtScore, CallReturns
<1>5. WaitInv'
  BY <1>1, <1>2, <1>3 DEF WaitInv
<1>6. CASE x_rewound
  <2>1. x_innext' = FALSE /\ running' = Tail(running) /\ UNCHANGED x_rewound
    BY <1>6 DEF SendReturns, Rewound
  <2>2. running' \in Seq(Frame) /\ AtScore' = {}
    BY <1>1, <1>2, <2>1, ScoreIsLeft
  <2>3. playing' <=> Waiting'
    BY <1>1, <1>2, <1>3, <1>4, <1>6 DEF CallsInv, GoesOn
  <2>4. QTypeOK'
    BY <1>1, <1>2, <2>1, <2>2 DEF QTypeOK
  <2>5. CallsInv'
    BY <2>1, <2>2, <2>3 DEF CallsInv
  <2> QED
    BY <1>3, <1>5, <2>4, <2>5 DEF PlayInv
<1>7. CASE ~x_rewound
  <2>1. /\ x_rewound' = Head(running).wasrewound /\ running' = [running EXCEPT ![1].at = "item"]
        /\ UNCHANGED x_innext
    BY <1>7 DEF SendReturns, Rewound
  <2> DEFINE r == [running[1] EXCEPT !.at = "item"]
  <2>2. /\ r \in Frame /\ r.at = "item" /\ r.automatic = running[1].automatic
        /\ r.fresh = running[1].fresh /\ running[1].wasrewound \in BOOLEAN
    BY <1>4 DEF Frame
  <2>3. running' = [running EXCEPT ![1] = r]
    BY <2>1
  <2> HIDE DEF r
  <2>4. /\ running' \in Seq(Frame) /\ DOMAIN running' = DOMAIN running /\ running'[1] = r
        /\ \A k \in DOMAIN running : k # 1 => running'[k] = running[k]
    BY <1>1, <1>2, <2>2, <2>3, CallChanges
  <2>5. AtScore' = {1} /\ x_innext' /\ 1 \in DOMAIN running'
    BY <1>4, <2>1, <2>2, <2>4 DEF AtScore
  <2>6. GoesOn(running[1])
    BY <1>1, <1>4, <1>7 DEF GoesOn
  <2>7. /\ running'[1].fresh
        /\ running'[1].automatic => playing' /\ ~Waiting'
        /\ ~running'[1].automatic => (playing' <=> Waiting')
    BY <1>1, <1>2, <1>3, <1>4, <2>2, <2>4, <2>6 DEF CallsInv
  <2>8. QTypeOK'
    <3>1. x_rewound' \in BOOLEAN
      BY <1>4, <2>1, <2>2
    <3> QED
      BY <1>1, <1>2, <2>1, <2>4, <3>1 DEF QTypeOK
  <2>9. CallsInv'
    BY <2>2, <2>4, <2>5, <2>7 DEF CallsInv, GoesOn
  <2> QED
    BY <1>3, <1>5, <2>8, <2>9 DEF PlayInv
<1> QED
  BY <1>6, <1>7

LEMMA OutletReturnsStep ==
  ASSUME PlayInv, OutletReturns PROVE PlayInv'
<1>1. /\ running # <<>> /\ Head(running).at \in {"list", "end"}
      /\ x_innext' = (x_innext /\ Head(running).at # "list")
      /\ running' = Tail(running)
      /\ UNCHANGED <<now, agenda, called, x_binbuf, x_onset, x_tempo, x_whenclockset, x_clockdelay,
                     x_rewound, playing, goal, began, retuned>>
  BY DEF OutletReturns, agendavars
<1>2. QTypeOK /\ AgendaInv /\ CallsInv /\ WaitInv /\ running \in Seq(Frame)
  BY DEF PlayInv, QTypeOK
<1>3. AgendaInv' /\ Waiting' = Waiting
  BY <1>1, <1>2, AgendaStays
<1>4. WaitInv'
  BY <1>1, <1>2, <1>3 DEF WaitInv
<1>5. /\ Head(running) = running[1] /\ 1 \in DOMAIN running /\ running' \in Seq(Frame)
      /\ \A k \in DOMAIN running' :
           k + 1 \in DOMAIN running /\ running'[k] = running[k + 1] /\ k \in Nat /\ k > 0
      /\ \A k \in DOMAIN running : k # 1 => k - 1 \in DOMAIN running'
      /\ DOMAIN running \subseteq Int
  <2>1. DOMAIN running \subseteq Int
    BY <1>2, LenProperties
  <2> QED
    BY <1>1, <1>2, <2>1, CallReturns
<1>6. QTypeOK'
  <2>1. x_innext' \in BOOLEAN
    BY <1>1
  <2> QED
    BY <1>1, <1>2, <1>5, <2>1 DEF QTypeOK
<1>7. CASE Head(running).at = "list"
  <2>1. running' \in Seq(Frame) /\ AtScore' = {} /\ AtScore = {1} /\ x_innext' = FALSE
    BY <1>1, <1>2, <1>7, ScoreIsLeft, HeadIsAtScore
  <2>2. playing' <=> Waiting'
    BY <1>1, <1>2, <1>3, <1>5, <1>7, <2>1 DEF CallsInv, GoesOn
  <2>3. CallsInv'
    BY <2>1, <2>2 DEF CallsInv
  <2> QED
    BY <1>3, <1>4, <1>6, <2>3 DEF PlayInv
<1>8. CASE Head(running).at = "end"
  <2>1. x_innext' = x_innext
    BY <1>1, <1>2, <1>8 DEF QTypeOK
  <2>2. \A k \in AtScore' : k + 1 \in AtScore /\ running'[k] = running[k + 1]
    BY <1>5 DEF AtScore
  <2>3. \A k \in AtScore : k - 1 \in AtScore' /\ k \in Int
    <3>1. SUFFICES ASSUME NEW k \in AtScore PROVE k - 1 \in AtScore' /\ k \in Int
      OBVIOUS
    <3>2. k # 1 /\ k \in DOMAIN running /\ k \in Int /\ running[k].at # "end"
      BY <1>5, <1>8 DEF AtScore
    <3>3. k - 1 \in DOMAIN running' /\ running'[k - 1] = running[(k - 1) + 1] /\ (k - 1) + 1 = k
      BY <1>5, <3>2
    <3> QED
      BY <3>2, <3>3 DEF AtScore
  <2>4. x_innext' => \E k \in DOMAIN running' : AtScore' = {k}
    <3>1. SUFFICES ASSUME x_innext PROVE \E k \in DOMAIN running' : AtScore' = {k}
      BY <2>1
    <3>2. PICK k \in DOMAIN running : AtScore = {k}
      BY <1>2, <3>1 DEF CallsInv
    <3>3. k - 1 \in AtScore' /\ k \in Int
      BY <2>3, <3>2
    <3>4. \A j \in AtScore' : j = k - 1
      <4>1. SUFFICES ASSUME NEW j \in AtScore' PROVE j = k - 1
        OBVIOUS
      <4>2. j + 1 = k /\ j \in Nat
        BY <1>5, <2>2, <3>2 DEF AtScore
      <4> QED
        BY <4>2
    <3>5. AtScore' = {k - 1} /\ k - 1 \in DOMAIN running'
      BY <3>3, <3>4 DEF AtScore
    <3> QED
      BY <3>5
  <2>5. ~x_innext' => AtScore' = {}
    BY <1>2, <2>1, <2>2 DEF CallsInv
  <2>6. \A k \in AtScore' : running'[k].at # "item"
    <3>1. SUFFICES ASSUME NEW k \in AtScore', running'[k].at = "item" PROVE FALSE
      OBVIOUS
    <3>2. k + 1 = 1 /\ k \in Nat /\ k > 0
      BY <1>2, <1>5, <2>2, <3>1 DEF CallsInv, AtScore
    <3> QED
      BY <3>2
  <2>7. CallsInv'
    BY <1>1, <1>2, <1>3, <2>1, <2>2, <2>4, <2>5, <2>6 DEF CallsInv, GoesOn
  <2> QED
    BY <1>3, <1>4, <1>6, <2>7 DEF PlayInv
<1> QED
  BY <1>1, <1>7, <1>8

LEMMA CalledStep ==
  ASSUME PlayInv, QlistCalled PROVE PlayInv'
<1>1. /\ running = <<>> /\ x_whenclockset' = 0
      /\ goal' = 0 /\ began' = 0 /\ retuned' = 0
      /\ UNCHANGED <<x_binbuf, x_onset, x_tempo, x_clockdelay, x_rewound, playing>>
  BY DEF QlistCalled, NoWait
<1>2. PICK k \in Indexed(qlist) : CallOf(k)
  BY DEF QlistCalled
<1>3. QTypeOK /\ AgendaInv /\ CallsInv /\ AtScore = {} /\ Waiting
  BY <1>1, <1>2 DEF PlayInv, AtScore, Waiting
<1>4. AgendaInv' /\ ~Waiting'
  BY <1>2, <1>3, QlistAssumption, WaitIsOver
<1>5. ~x_innext /\ playing
  BY <1>3, WaitingIsPlaying DEF CallsInv
<1>6. x_innext' = TRUE /\ Donext(running, TRUE, FALSE)
  BY <1>5 DEF QlistCalled
<1>7. /\ running' \in Seq(Frame) /\ 1 \in DOMAIN running' /\ AtScore' = {1}
      /\ running'[1].at = "item" /\ running'[1].automatic = TRUE /\ running'[1].fresh
  <2>1. running \in Seq(Frame) /\ \A j \in DOMAIN running : running[j].at = "end"
    BY <1>1
  <2> QED
    BY <1>6, <2>1, CallBegins
<1>8. QTypeOK'
  BY <1>1, <1>3, <1>6, <1>7 DEF QTypeOK
<1>9. CallsInv'
  BY <1>1, <1>4, <1>5, <1>6, <1>7 DEF CallsInv, GoesOn
<1>10. WaitInv'
  BY <1>1, <1>4 DEF WaitInv
<1> QED
  BY <1>4, <1>8, <1>9, <1>10 DEF PlayInv

\* The object does nothing; the time may pass.
LEMMA NothingStep ==
  ASSUME PlayInv, UNCHANGED qlistvars, agenda' = agenda,
         \/ now' = now
         \/ now' \in Nat /\ \A k \in DOMAIN agenda : agenda[k].time >= now'
  PROVE  PlayInv'
<1>1. AgendaInv /\ QTypeOK /\ CallsInv /\ WaitInv
  BY DEF PlayInv
<1>2. Indexed(qlist)' = Indexed(qlist) /\ Waiting' = Waiting
  BY DEF Indexed, Waiting
<1>3. AgendaInv'
  <2>1. now' \in Nat
    BY <1>1 DEF AgendaInv, WaitsOnly
  <2>2. ASSUME NEW t \in Nat, t >= now, agenda = <<Entry(qlist, t)>>, Indexed(qlist) = {1}
        PROVE  t >= now'
    <3>1. 1 \in DOMAIN agenda /\ agenda[1].time = t
      BY <2>2, OneEntry
    <3> QED
      BY <2>2, <3>1
  <2> QED
    BY <1>1, <1>2, <2>1, <2>2 DEF AgendaInv, WaitsOnly
<1>4. QTypeOK' /\ CallsInv' /\ WaitInv'
  BY <1>1, <1>2 DEF qlistvars, QTypeOK, CallsInv, AtScore, GoesOn, WaitInv
<1> QED
  BY <1>3, <1>4 DEF PlayInv

LEMMA QlistStep == PlayInv /\ [QlistNext]_<<agendavars, qlistvars>> => PlayInv'
<1> SUFFICES ASSUME PlayInv, [QlistNext]_<<agendavars, qlistvars>> PROVE PlayInv'
  OBVIOUS
<1>1. CASE QlistCallEnds \/ QlistTimePasses \/ UNCHANGED <<agendavars, qlistvars>>
  BY <1>1, NothingStep, QlistAssumption DEF QlistCallEnds, QlistTimePasses, PassTo, agendavars
<1> QED
  BY <1>1, RewindStep, BangStep, NextStep, AddStep, ReadStep, TempoStep, EndStep, WaitStep,
     SendStep, SendReturnsStep, OutletReturnsStep, CalledStep
  DEF QlistNext

-----------------------------------------------------------------------------
(* The theorem.                                                            *)

\* A qlist is at its score once, or not at all when x_innext says so; what has been
\* rewound sends nothing more; one that was started waits or plays until its end, and
\* one that was rewound is silent; and a wait ends when it should, after one change of
\* the tempo: whatever the patch sends it from within what it sends and puts out, for
\* any scores and any depth.
THEOREM QlistPlaysItsScore == QlistSpec => []PlaysItsScore
<1>1. PlayInv => PlaysItsScore
  <2> SUFFICES ASSUME PlayInv PROVE PlaysItsScore
    OBVIOUS
  <2>1. AgendaInv /\ QTypeOK /\ CallsInv /\ WaitInv
    BY DEF PlayInv
  <2>2. Cardinality(AtScore) = IF x_innext THEN 1 ELSE 0
    BY <2>1, FS_EmptySet, FS_Singleton DEF CallsInv
  <2>3. AtItem => Head(running).fresh
    BY AtAnItem
  <2>4. ~x_innext => (playing <=> Waiting)
    BY <2>1 DEF CallsInv
  <2>5. (Waiting /\ x_onset # TheEnd /\ (retuned = 1 => began > 0) /\ retuned <= 1) =>
          \A k \in Indexed(qlist) : agenda[k].time = goal
    BY <2>1 DEF WaitInv, AgendaInv, WaitsOnly, Waiting
  <2> QED
    BY <2>2, <2>3, <2>4, <2>5 DEF PlaysItsScore, AtScore
<1> QED
  BY <1>1, QlistBegins, QlistStep, PTL DEF QlistSpec

-----------------------------------------------------------------------------
(* line.                                                                   *)

Output == [by : {"ramp", "tick", "jump", "end"}, togo : Int]

LineTypeOK ==
  /\ x_targettime \in Int /\ x_targetval \in Int /\ x_prevtime \in Nat /\ x_setval \in Int
  /\ x_gotinlet \in BOOLEAN /\ x_grain \in Int /\ x_timediff \in Nat \ {0} /\ x_in1val \in Int
  /\ putting \in Seq(Output)
  /\ way \in [from : Int, since : Nat, to : Int, by : Int, heard : BOOLEAN]
  /\ lastout \in [value : Int, at : Int]
  /\ meddled \in BOOLEAN

\* It is where it should be in the end.
Flat == x_setval = way.to /\ x_targetval = way.to /\ way.by <= now

\* It goes where it should, and when.
Ramp ==
  /\ way.from = x_setval /\ way.to = x_targetval /\ way.since = x_prevtime /\ way.by = x_targettime
  /\ way.since < way.by /\ way.since <= now /\ way.heard

\* Where one is at time t who goes the way w.
Place(w, t) == IF t >= w.by THEN w.to ELSE OnTheWay(w.from, w.to, w.since, w.by - w.since, t)

RampBegins == \E k \in DOMAIN putting : putting[k].by = "ramp"

\* The inverse of the time it takes is known when the first output has returned.
WayInv ==
  /\ Flat \/ (Ramp /\ (x_timediff = way.by - way.since \/ RampBegins))
  /\ RampBegins => x_targettime > now /\ (Flat \/ x_prevtime = now)
  /\ way.heard => lastout.value = Place(way, lastout.at)

\* Unless something came from within the output of a ramp, what is on its way knows how
\* much is to go, and the clock is not set for later than the end.
StepsInv ==
  ~meddled =>
    /\ \A k \in DOMAIN putting : putting[k].by \in {"ramp", "tick"} => k = 1
    /\ putting # <<>> /\ putting[1].by = "ramp" => Ramp /\ now < way.by /\ x_in1val = way.by - now
    /\ putting # <<>> /\ putting[1].by = "tick" =>
         Ramp /\ now < way.by /\ putting[1].togo = way.by - now
    /\ ~OnItsWay =>
         /\ \A k \in Indexed(line) : Ramp /\ agenda[k].time <= way.by
         /\ Indexed(line) = {} /\ way.heard => lastout.at = way.by

LineInv == WaitsOnly(line) /\ LineTypeOK /\ WayInv /\ StepsInv

-----------------------------------------------------------------------------
(* Values on the way, and outputs.                                         *)

LEMMA OnTheWayIs ==
  ASSUME NEW from \in Int, NEW to \in Int, NEW t0 \in Int, NEW long \in Nat \ {0}, NEW t \in Int
  PROVE  /\ OnTheWay(from, to, t0, long, t) \in Int
         /\ t = t0 => OnTheWay(from, to, t0, long, t) = from
         /\ t = t0 + long => OnTheWay(from, to, t0, long, t) = to
         /\ from = to => OnTheWay(from, to, t0, long, t) = to
<1>1. ((to - from) * (t - t0)) \in Int /\ (((to - from) * (t - t0)) \div long) \in Int
  <2>1. to - from \in Int /\ t - t0 \in Int
    OBVIOUS
  <2>2. \A a, b \in Int : a * b \in Int
    OBVIOUS
  <2>3. \A a \in Int : a \div long \in Int
    OBVIOUS
  <2> QED
    BY <2>1, <2>2, <2>3
<1>2. 0 \div long = 0
  OBVIOUS
<1>3. \A a \in Int : (a * long) \div long = a
  <2> SUFFICES ASSUME NEW a \in Int PROVE (a * long) \div long = a
    OBVIOUS
  <2> DEFINE q == (a * long) \div long
             r == (a * long) % long
  <2>1. q \in Int /\ r \in 0..(long - 1) /\ a * long = long * q + r
    OBVIOUS
  <2> HIDE DEF q, r
  <2>2. a * long = long * a /\ long * a - long * q = r /\ long * (a - q) = r
    BY <2>1
  <2>3. a - q \in Int
    BY <2>1
  <2>4. a - q < 1
    <3>1. SUFFICES ASSUME a - q >= 1 PROVE FALSE
      BY <2>3
    <3>2. long * (a - q) >= long * 1
      BY <2>3, <3>1
    <3> QED
      BY <2>1, <2>2, <3>2
  <2>5. a - q > -1
    <3>1. SUFFICES ASSUME a - q <= -1 PROVE FALSE
      BY <2>3
    <3>2. long * (a - q) <= long * (-1)
      BY <2>3, <3>1
    <3> QED
      BY <2>1, <2>2, <3>2
  <2>6. q = a
    BY <2>1, <2>3, <2>4, <2>5
  <2> QED
    BY <2>6 DEF q
<1>4. ASSUME t = t0 PROVE ((to - from) * (t - t0)) \div long = 0
  <2>1. (to - from) * (t - t0) = 0
    BY <1>4
  <2> QED
    BY <1>2, <2>1
<1>5. ASSUME t = t0 + long PROVE ((to - from) * (t - t0)) \div long = to - from
  <2>1. t - t0 = long /\ to - from \in Int
    BY <1>5
  <2> QED
    BY <1>3, <2>1
<1>6. ASSUME from = to PROVE ((to - from) * (t - t0)) \div long = 0
  <2>1. (to - from) * (t - t0) = 0
    BY <1>6
  <2> QED
    BY <1>2, <2>1
<1> QED
  BY <1>1, <1>4, <1>5, <1>6 DEF OnTheWay

LEMMA PlaceAtEnd ==
  ASSUME NEW w, NEW t \in Nat, w.by = t PROVE Place(w, t) = w.to
  BY DEF Place

LEMMA OutputBegins ==
  ASSUME LineTypeOK, NEW value, NEW t \in Int, NEW kind \in {"ramp", "tick", "jump", "end"},
         PutsOut(value, t, kind)
  PROVE  /\ putting' \in Seq(Output) /\ putting' # <<>> /\ 1 \in DOMAIN putting'
         /\ putting'[1].by = kind /\ putting'[1].togo = x_targettime - t
         /\ \A k \in DOMAIN putting' : k # 1 => k - 1 \in DOMAIN putting /\ putting'[k] = putting[k - 1]
         /\ \A k \in DOMAIN putting : k + 1 \in DOMAIN putting' /\ putting'[k + 1] = putting[k]
         /\ lastout' = [value |-> value, at |-> t]
<1> DEFINE r == [by |-> kind, togo |-> x_targettime - t]
<1>1. r \in Output /\ r.by = kind /\ r.togo = x_targettime - t
  BY DEF Output, LineTypeOK
<1>2. putting' = <<r>> \o putting /\ lastout' = [value |-> value, at |-> t]
  BY DEF PutsOut
<1> HIDE DEF r
<1> QED
  BY <1>1, <1>2, PushedProperties DEF LineTypeOK

LEMMA OutputReturns ==
  ASSUME LineTypeOK, NEW kind, Returns(kind)
  PROVE  /\ putting # <<>> /\ 1 \in DOMAIN putting /\ Head(putting) = putting[1]
         /\ putting[1].by = kind /\ putting[1] \in Output
         /\ putting' \in Seq(Output)
         /\ \A k \in DOMAIN putting' : k + 1 \in DOMAIN putting /\ putting'[k] = putting[k + 1] /\ k + 1 # 1
         /\ \A k \in DOMAIN putting : k # 1 => k - 1 \in DOMAIN putting' /\ putting'[k - 1] = putting[k]
  BY PoppedProperties DEF Returns, LineTypeOK

LEMMA NoOutput ==
  ASSUME putting = <<>> PROVE ~OnItsWay /\ ~RampBegins
  BY DEF OnItsWay, RampBegins

\* Where it is and where it should be, whatever it is told now.
LEMMA IsWhereItShouldBe ==
  ASSUME LineInv
  PROVE  /\ ShouldBe(now) \in Int
         /\ (IF now > x_targettime THEN x_targetval ELSE Position) = ShouldBe(now)
<1>1. LineTypeOK /\ WayInv /\ now \in Nat
  BY DEF LineInv, WaitsOnly
<1>2. CASE Flat
  <2>1. ShouldBe(now) = way.to /\ way.to \in Int
    BY <1>1, <1>2 DEF ShouldBe, Flat, LineTypeOK
  <2>2. Position = x_targetval
    BY <1>1, <1>2, OnTheWayIs DEF Position, Flat, LineTypeOK
  <2> QED
    BY <1>2, <2>1, <2>2 DEF Flat
<1>3. CASE ~Flat /\ Ramp /\ RampBegins
  <2>1. x_targettime > now /\ x_prevtime = now /\ now < way.by /\ way.by - way.since \in Nat \ {0}
    BY <1>1, <1>3 DEF WayInv, Ramp, LineTypeOK
  <2>2. Position = x_setval
    BY <1>1, <2>1, OnTheWayIs DEF Position, LineTypeOK
  <2>3. ShouldBe(now) = way.from
    BY <1>1, <1>3, <2>1, OnTheWayIs DEF ShouldBe, Ramp, LineTypeOK
  <2> QED
    BY <1>1, <1>3, <2>1, <2>2, <2>3 DEF Ramp, LineTypeOK
<1>4. CASE Ramp /\ x_timediff = way.by - way.since
  <2>1. way.by = x_targettime /\ way.by = way.since + x_timediff /\ x_targettime \in Int
    BY <1>1, <1>4 DEF Ramp, LineTypeOK
  <2>2. now = way.by => Position = way.to
    BY <1>1, <1>4, <2>1, OnTheWayIs DEF Position, Ramp, LineTypeOK
  <2>3. now < way.by => ShouldBe(now) = Position /\ Position \in Int
    <3>1. /\ x_setval \in Int /\ x_targetval \in Int /\ x_prevtime \in Int /\ x_timediff \in Nat \ {0}
          /\ now \in Int /\ way.by \in Int
      BY <1>1, <2>1 DEF LineTypeOK
    <3>2. Position \in Int
      BY <3>1, OnTheWayIs DEF Position
    <3>3. now < way.by => ShouldBe(now) = Position
      BY <1>4, <3>1 DEF ShouldBe, Position, Ramp
    <3> QED
      BY <3>2, <3>3
  <2>4. now >= way.by => ShouldBe(now) = way.to /\ way.to \in Int /\ way.to = x_targetval
    BY <1>1, <1>4 DEF ShouldBe, Ramp, LineTypeOK
  <2> QED
    BY <1>1, <2>1, <2>2, <2>3, <2>4
<1> QED
  BY <1>1, <1>2, <1>3, <1>4 DEF WayInv
-----------------------------------------------------------------------------
(* The steps of line.                                                      *)

LEMMA LineBegins == AInit /\ LineInit => LineInv
<1> SUFFICES ASSUME AInit, LineInit PROVE LineInv
  OBVIOUS
<1>1. agenda = <<>> /\ now = 0 /\ Indexed(line) = {} /\ WaitsOnly(line)
  BY DEF AInit, Indexed, WaitsOnly
<1>2. putting = <<>> /\ putting \in Seq(Output) /\ DOMAIN putting = {}
  BY DEF LineInit
<1>3. LineTypeOK
  <2>1. way \in [from : Int, since : Nat, to : Int, by : Int, heard : BOOLEAN]
    BY <1>1 DEF LineInit, There
  <2>2. lastout \in [value : Int, at : Int] /\ x_grain \in Int
    BY LineAssumption DEF LineInit
  <2>3. x_gotinlet \in BOOLEAN /\ meddled \in BOOLEAN
    BY DEF LineInit
  <2>4. /\ x_targettime \in Int /\ x_targetval \in Int /\ x_prevtime \in Nat /\ x_setval \in Int
        /\ x_timediff \in Nat \ {0} /\ x_in1val \in Int
    BY DEF LineInit
  <2> QED
    BY <1>2, <2>1, <2>2, <2>3, <2>4 DEF LineTypeOK
<1>4. Flat /\ ~RampBegins /\ ~way.heard
  BY <1>1, <1>2 DEF LineInit, There, Flat, RampBegins
<1>5. WayInv
  BY <1>4 DEF WayInv
<1>6. StepsInv
  BY <1>1, <1>2, <1>4 DEF StepsInv
<1> QED
  BY <1>1, <1>3, <1>5, <1>6 DEF LineInv

LEMMA RampStep ==
  ASSUME LineInv, NEW f \in Targets, LineRamp(f) PROVE LineInv'
<1>1. /\ x_in1val > 0 /\ x_prevtime' = now /\ x_targettime' = now + x_in1val /\ x_targetval' = f
      /\ x_setval' = ShouldBe(now) /\ PutsOut(x_setval', now, "ramp")
      /\ way' = [from |-> ShouldBe(now), since |-> now, to |-> f, by |-> now + x_in1val,
                 heard |-> TRUE]
      /\ meddled' = OnItsWay
      /\ UNCHANGED <<now, agenda, x_gotinlet, x_grain, x_timediff, x_in1val>>
  BY IsWhereItShouldBe DEF LineRamp, agendavars
<1>2. LineTypeOK /\ WaitsOnly(line) /\ now \in Nat /\ f \in Int /\ ShouldBe(now) \in Int
      /\ x_in1val \in Nat \ {0}
  BY <1>1, IsWhereItShouldBe, LineAssumption DEF LineInv, WaitsOnly, LineTypeOK
<1>3. WaitsOnly(line)'
  BY <1>1, <1>2, OneStays
<1>4. /\ putting' \in Seq(Output) /\ putting' # <<>> /\ 1 \in DOMAIN putting' /\ putting'[1].by = "ramp"
      /\ \A k \in DOMAIN putting' : k # 1 => k - 1 \in DOMAIN putting /\ putting'[k] = putting[k - 1]
      /\ lastout' = [value |-> x_setval', at |-> now]
  BY <1>1, <1>2, OutputBegins
<1>5. LineTypeOK'
  <2>1. x_targettime' \in Int /\ x_targetval' \in Int /\ x_prevtime' \in Nat /\ x_setval' \in Int
    BY <1>1, <1>2
  <2>2. way' \in [from : Int, since : Nat, to : Int, by : Int, heard : BOOLEAN]
    BY <1>1, <1>2
  <2>3. lastout' \in [value : Int, at : Int]
    BY <1>2, <1>4, <2>1
  <2>4. meddled' \in BOOLEAN
    BY <1>1 DEF OnItsWay
  <2> QED
    BY <1>1, <1>2, <1>4, <2>1, <2>2, <2>3, <2>4 DEF LineTypeOK
<1>6. Ramp' /\ way'.by = x_targettime' /\ x_targettime' > now' /\ x_prevtime' = now'
      /\ way'.by - way'.since = x_in1val
  BY <1>1, <1>2 DEF Ramp
<1>7. OnTheWay(ShouldBe(now), f, now, x_in1val, now) = ShouldBe(now)
  BY <1>2, OnTheWayIs
<1>8. lastout'.value = Place(way', lastout'.at)
  <2>1. lastout'.at = now /\ ~(now >= way'.by) /\ lastout'.value = ShouldBe(now)
    BY <1>1, <1>2, <1>4, <1>6
  <2>2. way'.from = ShouldBe(now) /\ way'.to = f /\ way'.since = now
    BY <1>1
  <2> QED
    BY <1>6, <1>7, <2>1, <2>2 DEF Place
<1>9. RampBegins' /\ OnItsWay'
  BY <1>4 DEF RampBegins, OnItsWay
<1>10. WayInv'
  BY <1>6, <1>8, <1>9 DEF WayInv
<1>11. StepsInv'
  <2>1. ASSUME ~meddled', NEW k \in DOMAIN putting', putting'[k].by \in {"ramp", "tick"}
        PROVE  k = 1
    BY <1>1, <1>4, <2>1 DEF OnItsWay
  <2>2. now' < way'.by /\ x_in1val' = way'.by - now'
    BY <1>1, <1>2, <1>6
  <2> QED
    BY <1>4, <1>6, <1>9, <2>1, <2>2 DEF StepsInv
<1> QED
  BY <1>3, <1>5, <1>10, <1>11 DEF LineInv

\* The line is flat from now on, and the clock is not set.
LEMMA FlatFromNow ==
  ASSUME LineInv, UnsetOf(line), Flat', NEW value \in Int, NEW heard \in BOOLEAN,
         way' = There(value, heard), LineTypeOK',
         heard => lastout' = [value |-> value, at |-> now],
         meddled' = OnItsWay,
         UNCHANGED <<x_targettime, x_prevtime>>,
         \A k \in DOMAIN putting' :
           putting'[k].by \in {"ramp", "tick"} => OnItsWay /\ (putting'[k].by = "ramp" => RampBegins)
  PROVE  LineInv'
<1>1. WaitsOnly(line) /\ LineTypeOK /\ WayInv
  BY DEF LineInv
<1>2. WaitsOnly(line)' /\ Indexed(line)' = {} /\ now' = now /\ now \in Nat
  BY <1>1, OneIsUnset DEF WaitsOnly
<1>3. way'.to = value /\ way'.by = now
  BY DEF There
<1>8. way'.heard = heard
  BY DEF There
<1>4. way'.heard => lastout'.at = way'.by /\ lastout'.value = Place(way', lastout'.at)
  <2> SUFFICES ASSUME heard PROVE lastout'.at = way'.by /\ lastout'.value = Place(way', lastout'.at)
    BY <1>8
  <2>1. lastout'.at = now /\ lastout'.value = value
    OBVIOUS
  <2>2. Place(way', now) = way'.to
    BY <1>2, <1>3, PlaceAtEnd
  <2> QED
    BY <1>3, <2>1, <2>2
<1>5. RampBegins' => RampBegins
  BY DEF RampBegins
<1>6. WayInv'
  BY <1>1, <1>2, <1>4, <1>5 DEF WayInv
<1>7. StepsInv'
  <2>1. SUFFICES ASSUME ~meddled' PROVE
          /\ \A k \in DOMAIN putting' : ~(putting'[k].by \in {"ramp", "tick"})
          /\ putting' # <<>> => 1 \in DOMAIN putting'
    BY <1>2, <1>4 DEF StepsInv
  <2>2. putting' \in Seq(Output)
    BY DEF LineTypeOK
  <2> QED
    BY <2>1, <2>2, LenProperties, EmptySeq
<1> QED
  BY <1>2, <1>6, <1>7 DEF LineInv

LEMMA JumpStep ==
  ASSUME LineInv, NEW f \in Targets, LineJump(f) PROVE LineInv'
<1>1. /\ UnsetOf(line) /\ x_targetval' = f /\ x_setval' = f /\ PutsOut(f, now, "jump")
      /\ way' = There(f, TRUE) /\ meddled' = OnItsWay
      /\ UNCHANGED <<x_targettime, x_prevtime, x_gotinlet, x_grain, x_timediff, x_in1val>>
  BY DEF LineJump
<1>2. LineTypeOK /\ now \in Nat /\ f \in Int /\ now' = now
  BY <1>1, LineAssumption DEF LineInv, WaitsOnly, UnsetOf
<1>3. /\ putting' \in Seq(Output) /\ putting'[1].by = "jump"
      /\ \A k \in DOMAIN putting' : k # 1 => k - 1 \in DOMAIN putting /\ putting'[k] = putting[k - 1]
      /\ lastout' = [value |-> f, at |-> now]
  BY <1>1, <1>2, OutputBegins
<1>4. LineTypeOK'
  <2>1. way' \in [from : Int, since : Nat, to : Int, by : Int, heard : BOOLEAN]
    BY <1>1, <1>2 DEF There
  <2>2. lastout' \in [value : Int, at : Int] /\ meddled' \in BOOLEAN
    BY <1>1, <1>2, <1>3 DEF OnItsWay
  <2> QED
    BY <1>1, <1>2, <1>3, <2>1, <2>2 DEF LineTypeOK
<1>5. Flat'
  BY <1>1, <1>2 DEF Flat, There
<1>6. ASSUME NEW k \in DOMAIN putting', putting'[k].by \in {"ramp", "tick"}
      PROVE  OnItsWay /\ (putting'[k].by = "ramp" => RampBegins)
  <2>1. k - 1 \in DOMAIN putting /\ putting'[k] = putting[k - 1]
    BY <1>3, <1>6
  <2> QED
    BY <1>6, <2>1 DEF OnItsWay, RampBegins
<1> QED
  BY <1>1, <1>2, <1>3, <1>4, <1>5, <1>6, FlatFromNow

LEMMA StopAndSetStep ==
  ASSUME LineInv, line_stop \/ \E f \in Targets : line_set(f) PROVE LineInv'
<1>1. PICK f \in Int :
        /\ UnsetOf(line) /\ x_targetval' = f /\ x_setval' = f
        /\ way' = There(f, FALSE) /\ meddled' = OnItsWay
        /\ UNCHANGED <<x_targettime, x_prevtime, x_gotinlet, x_grain, x_timediff, x_in1val, putting,
                       lastout>>
  <2>1. CASE line_stop
    <3>1. x_setval \in Int
      BY DEF LineInv, LineTypeOK
    <3> QED
      BY <2>1, <3>1 DEF line_stop
  <2>2. CASE \E f \in Targets : line_set(f)
    BY <2>2, LineAssumption DEF line_set
  <2> QED
    BY <2>1, <2>2
<1>2. LineTypeOK /\ now \in Nat /\ now' = now
  BY <1>1 DEF LineInv, WaitsOnly, UnsetOf
<1>3. LineTypeOK'
  <2>1. way' \in [from : Int, since : Nat, to : Int, by : Int, heard : BOOLEAN]
    BY <1>1, <1>2 DEF There
  <2>2. meddled' \in BOOLEAN
    BY <1>1 DEF OnItsWay
  <2> QED
    BY <1>1, <1>2, <2>1, <2>2 DEF LineTypeOK
<1>4. Flat'
  BY <1>1, <1>2 DEF Flat, There
<1>5. ASSUME NEW k \in DOMAIN putting', putting'[k].by \in {"ramp", "tick"}
      PROVE  OnItsWay /\ (putting'[k].by = "ramp" => RampBegins)
  <2>1. k \in DOMAIN putting /\ putting'[k] = putting[k]
    BY <1>1
  <2> QED
    BY <1>5, <2>1 DEF OnItsWay, RampBegins
<1> QED
  BY <1>1, <1>3, <1>4, <1>5, FlatFromNow

\* A time or a grain, or the end of a call.
LEMMA LineStays ==
  ASSUME LineInv,
         UNCHANGED <<now, agenda, x_targettime, x_targetval, x_prevtime, x_setval, x_timediff, putting,
                     way, lastout>>,
         x_gotinlet' \in BOOLEAN, x_grain' \in Int,
         \/ UNCHANGED <<x_in1val, meddled>>
         \/ x_in1val' \in Int /\ meddled' = (meddled \/ OnItsWay)
  PROVE  LineInv'
<1>1. WaitsOnly(line) /\ LineTypeOK /\ WayInv /\ StepsInv
  BY DEF LineInv
<1>2. WaitsOnly(line)' /\ Indexed(line)' = Indexed(line)
  BY <1>1, OneStays
<1>3. LineTypeOK'
  BY <1>1 DEF LineTypeOK
<1>4. Ramp' = Ramp /\ Flat' = Flat /\ RampBegins' = RampBegins /\ OnItsWay' = OnItsWay
  BY DEF Ramp, Flat, RampBegins, OnItsWay
<1>5. WayInv'
  BY <1>1, <1>4 DEF WayInv
<1>6. CASE UNCHANGED <<x_in1val, meddled>>
  BY <1>1, <1>2, <1>3, <1>4, <1>5, <1>6 DEF LineInv, StepsInv
<1>7. CASE meddled' = (meddled \/ OnItsWay)
  <2>1. SUFFICES ASSUME ~meddled, ~OnItsWay PROVE StepsInv'
    BY <1>2, <1>3, <1>5, <1>7 DEF LineInv, StepsInv
  <2>2. putting # <<>> => 1 \in DOMAIN putting
    BY <1>1, LenProperties, EmptySeq DEF LineTypeOK
  <2>3. \A k \in DOMAIN putting : ~(putting[k].by \in {"ramp", "tick"})
    BY <2>1 DEF OnItsWay
  <2> QED
    BY <1>1, <1>2, <1>4, <2>1, <2>2, <2>3 DEF StepsInv
<1> QED
  BY <1>6, <1>7

LEMMA TickStep ==
  ASSUME LineInv, line_tick PROVE LineInv'
<1>1. PICK k \in Indexed(line) : CallOf(k)
  BY DEF line_tick
<1>2. /\ putting = <<>>
      /\ UNCHANGED <<x_targettime, x_targetval, x_prevtime, x_setval, x_gotinlet, x_grain, x_timediff,
                     x_in1val, way, meddled>>
      /\ IF x_targettime <= now'
         THEN PutsOut(x_targetval, now', "end")
         ELSE PutsOut(OnTheWay(x_setval, x_targetval, x_prevtime, x_timediff, now'), now', "tick")
  BY DEF line_tick
<1>3. WaitsOnly(line) /\ LineTypeOK /\ WayInv /\ StepsInv /\ now \in Nat
  BY DEF LineInv, WaitsOnly
<1>4. WaitsOnly(line)' /\ Indexed(line)' = {} /\ now' = agenda[k].time /\ now' \in Nat /\ now' >= now
  BY <1>1, <1>3, OneIsOver
<1>5. ~OnItsWay /\ ~RampBegins /\ DOMAIN putting = {}
  BY <1>2, NoOutput
<1>6. /\ Flat \/ (Ramp /\ x_timediff = way.by - way.since)
      /\ (Flat' \/ (Ramp' /\ x_timediff' = way'.by - way'.since))
  BY <1>2, <1>3, <1>4, <1>5 DEF WayInv, Flat, Ramp, LineTypeOK
<1>7. ~meddled => Ramp /\ now' <= way.by
  BY <1>3, <1>4, <1>5 DEF StepsInv
<1>8. PICK value \in Int, kind \in {"end", "tick"} :
        /\ PutsOut(value, now', kind) /\ value = Place(way', now')
        /\ kind = IF x_targettime <= now' THEN "end" ELSE "tick"
  <2>1. CASE x_targettime <= now'
    <3>1. x_targetval \in Int /\ PutsOut(x_targetval, now', "end")
      BY <1>2, <1>3, <2>1 DEF LineTypeOK
    <3>2. x_targetval = Place(way', now')
      BY <1>2, <1>3, <1>4, <1>6, <2>1 DEF Place, Flat, Ramp, LineTypeOK
    <3> QED
      BY <2>1, <3>1, <3>2
  <2>2. CASE ~(x_targettime <= now')
    <3> DEFINE v == OnTheWay(x_setval, x_targetval, x_prevtime, x_timediff, now')
    <3>1. PutsOut(v, now', "tick")
      BY <1>2, <2>2
    <3>2. v \in Int /\ (x_setval = x_targetval => v = x_targetval)
      <4>1. x_setval \in Int /\ x_targetval \in Int /\ x_prevtime \in Int /\ x_timediff \in Nat \ {0}
            /\ now' \in Int
        BY <1>3, <1>4 DEF LineTypeOK
      <4> QED
        BY <4>1, OnTheWayIs
    <3>3. v = Place(way', now')
      <4>1. CASE Flat
        BY <1>2, <1>3, <1>4, <3>2, <4>1 DEF Place, Flat, LineTypeOK
      <4>2. CASE Ramp /\ x_timediff = way.by - way.since
        <5>1. ~(now' >= way'.by)
          BY <1>2, <1>3, <1>4, <2>2, <4>2 DEF Ramp, LineTypeOK
        <5> QED
          BY <1>2, <4>2, <5>1 DEF Place, Ramp
      <4> QED
        BY <1>6, <4>1, <4>2
    <3> HIDE DEF v
    <3> QED
      BY <2>2, <3>1, <3>2, <3>3
  <2> QED
    BY <2>1, <2>2
<1>9. /\ putting' \in Seq(Output) /\ putting' # <<>> /\ 1 \in DOMAIN putting' /\ putting'[1].by = kind
      /\ putting'[1].togo = x_targettime - now'
      /\ DOMAIN putting' = {1} /\ lastout' = [value |-> value, at |-> now']
  <2>1. kind \in {"ramp", "tick", "jump", "end"} /\ now' \in Int
    BY <1>4
  <2> QED
    BY <1>3, <1>5, <1>8, <2>1, OutputBegins
<1>10. LineTypeOK'
  <2>1. lastout' \in [value : Int, at : Int]
    BY <1>4, <1>9
  <2> QED
    BY <1>2, <1>3, <1>9, <2>1 DEF LineTypeOK
<1>11. lastout'.at = now' /\ lastout'.value = Place(way', lastout'.at) /\ ~RampBegins'
  <2>1. lastout'.at = now' /\ lastout'.value = value
    BY <1>9
  <2> QED
    BY <1>8, <1>9, <2>1 DEF RampBegins
<1>12. WayInv'
  BY <1>6, <1>11 DEF WayInv
<1>13. StepsInv'
  <2>1. SUFFICES ASSUME ~meddled PROVE StepsInv'
    BY <1>2 DEF StepsInv
  <2>2. Ramp /\ Ramp' /\ now' <= way.by /\ way.by = x_targettime
    BY <1>2, <1>4, <1>7, <1>3, <2>1 DEF Ramp, LineTypeOK
  <2>3. CASE kind = "tick"
    <3>1. now' < way'.by /\ putting'[1].togo = way'.by - now' /\ OnItsWay'
      BY <1>2, <1>3, <1>4, <1>8, <1>9, <2>2, <2>3 DEF OnItsWay, LineTypeOK
    <3> QED
      BY <1>9, <2>2, <2>3, <3>1 DEF StepsInv
  <2>4. CASE kind = "end"
    <3>1. lastout'.at = way'.by /\ ~OnItsWay'
      BY <1>2, <1>3, <1>4, <1>8, <1>9, <1>11, <2>2, <2>4 DEF OnItsWay, LineTypeOK
    <3> QED
      BY <1>4, <1>9, <2>4, <3>1 DEF StepsInv
  <2> QED
    BY <2>3, <2>4
<1> QED
  BY <1>4, <1>10, <1>12, <1>13 DEF LineInv

LEMMA StepIs ==
  ASSUME LineTypeOK, now \in Nat, NEW togo \in Int, Delayed(Step(togo))
  PROVE  \E t \in Nat : SetFor(line, t) /\ (togo > 0 => t <= now + togo)
<1> DEFINE t == now + (IF Step(togo) > 0 THEN Step(togo) ELSE 0)
<1>1. t \in Times /\ SetFor(line, t)
  BY DEF Delayed
<1>2. Step(togo) \in Int /\ Step(togo) <= togo
  BY LineAssumption DEF LineTypeOK, Step, Grain
<1>3. t \in Nat /\ (togo > 0 => t <= now + togo)
  BY <1>1, <1>2, LineAssumption
<1> HIDE DEF t
<1> QED
  BY <1>1, <1>3

\* The first output of a ramp returns, or one on the way.
LEMMA WayReturnsStep ==
  ASSUME LineInv, TickReturns \/ RampReturns PROVE LineInv'
<1>1. WaitsOnly(line) /\ LineTypeOK /\ WayInv /\ StepsInv /\ now \in Nat
  BY DEF LineInv, WaitsOnly
<1>2. PICK kind \in {"tick", "ramp"} :
        /\ kind = "tick" => TickReturns
        /\ kind = "ramp" => RampReturns
  BY Zenon
<1>3. /\ Returns(kind) /\ x_grain' = Grain
      /\ UNCHANGED <<x_targettime, x_targetval, x_prevtime, x_setval, x_in1val, way, lastout, meddled>>
      /\ kind = "tick" => UNCHANGED <<x_gotinlet, x_timediff>> /\ Delayed(Step(Head(putting).togo))
      /\ kind = "ramp" => x_gotinlet' = FALSE /\ x_timediff' = x_targettime - now /\ Delayed(Step(x_in1val))
  BY <1>2 DEF TickReturns, RampReturns
<1>4. /\ putting # <<>> /\ 1 \in DOMAIN putting /\ Head(putting) = putting[1]
      /\ putting[1].by = kind /\ putting[1] \in Output
      /\ putting' \in Seq(Output)
      /\ \A k \in DOMAIN putting' : k + 1 \in DOMAIN putting /\ putting'[k] = putting[k + 1] /\ k + 1 # 1
      /\ \A k \in DOMAIN putting : k # 1 => k - 1 \in DOMAIN putting' /\ putting'[k - 1] = putting[k]
  BY <1>1, <1>3, OutputReturns
<1> DEFINE togo == IF kind = "tick" THEN putting[1].togo ELSE x_in1val
<1>5. togo \in Int /\ Delayed(Step(togo))
  BY <1>1, <1>3, <1>4 DEF Output, LineTypeOK
<1> HIDE DEF togo
<1>6. PICK t \in Nat : SetFor(line, t) /\ (togo > 0 => t <= now + togo)
  BY <1>1, <1>5, StepIs
<1>7. WaitsOnly(line)' /\ Indexed(line)' = {1} /\ agenda'[1].time = t /\ now' = now
  BY <1>1, <1>6, OneIsSet
<1>8. RampBegins' => RampBegins
  BY <1>4 DEF RampBegins
<1>9. kind = "ramp" => RampBegins /\ x_targettime > now
  BY <1>1, <1>4 DEF RampBegins, WayInv
<1>10. LineTypeOK'
  <2>1. x_grain' \in Int
    BY <1>1, <1>3, LineAssumption DEF Grain, LineTypeOK
  <2>3. x_gotinlet' \in BOOLEAN
    BY <1>1, <1>3 DEF LineTypeOK
  <2>2. x_timediff' \in Nat \ {0}
    BY <1>1, <1>3, <1>9 DEF LineTypeOK
  <2> QED
    BY <1>1, <1>3, <1>4, <2>1, <2>2, <2>3 DEF LineTypeOK
<1>11. Flat' = Flat /\ Ramp' = Ramp
  BY <1>3, <1>7 DEF Flat, Ramp
<1>12. WayInv'
  <2>1. Flat' \/ (Ramp' /\ (x_timediff' = way'.by - way'.since \/ RampBegins'))
    <3>1. CASE kind = "tick"
      <4>1. RampBegins => RampBegins'
        BY <1>4, <3>1 DEF RampBegins
      <4> QED
        BY <1>1, <1>3, <1>11, <3>1, <4>1 DEF WayInv
    <3>2. CASE kind = "ramp" /\ ~Flat
      <4>1. Ramp /\ x_prevtime = now
        BY <1>1, <1>9, <3>2 DEF WayInv
      <4>2. x_timediff' = way'.by - way'.since
        BY <1>3, <3>2, <4>1 DEF Ramp
      <4> QED
        BY <1>11, <4>1, <4>2
    <3> QED
      BY <1>11, <3>1, <3>2
  <2>2. RampBegins' => x_targettime' > now' /\ (Flat' \/ x_prevtime' = now')
    BY <1>1, <1>3, <1>7, <1>8, <1>11 DEF WayInv
  <2>3. way'.heard => lastout'.value = Place(way', lastout'.at)
    BY <1>1, <1>3 DEF WayInv
  <2> QED
    BY <2>1, <2>2, <2>3 DEF WayInv
<1>13. StepsInv'
  <2>1. SUFFICES ASSUME ~meddled PROVE StepsInv'
    BY <1>3 DEF StepsInv
  <2>2. \A k \in DOMAIN putting' : ~(putting'[k].by \in {"ramp", "tick"})
    BY <1>1, <1>4, <2>1 DEF StepsInv
  <2>3. putting' # <<>> => 1 \in DOMAIN putting'
    BY <1>4, LenProperties, EmptySeq
  <2>4. Ramp /\ now < way.by /\ togo = way.by - now
    BY <1>1, <1>4, <2>1 DEF StepsInv, togo
  <2>5. agenda'[1].time <= way'.by
    BY <1>1, <1>3, <1>6, <1>7, <2>4 DEF LineTypeOK
  <2> QED
    BY <1>7, <1>11, <2>2, <2>3, <2>4, <2>5 DEF StepsInv
<1> QED
  BY <1>7, <1>10, <1>12, <1>13 DEF LineInv

LEMMA OtherReturnsStep ==
  ASSUME LineInv, JumpReturns \/ EndReturns PROVE LineInv'
<1>1. WaitsOnly(line) /\ LineTypeOK /\ WayInv /\ StepsInv
  BY DEF LineInv
<1>2. /\ \E kind \in {"jump", "end"} : Returns(kind)
      /\ x_gotinlet' \in {x_gotinlet, FALSE}
      /\ UNCHANGED <<now, agenda, x_targettime, x_targetval, x_prevtime, x_setval, x_grain, x_timediff,
                     x_in1val, way, lastout, meddled>>
  BY DEF JumpReturns, EndReturns, agendavars
<1>3. PICK kind \in {"jump", "end"} : Returns(kind)
  BY <1>2
<1>4. /\ putting # <<>> /\ 1 \in DOMAIN putting /\ putting[1].by = kind /\ putting' \in Seq(Output)
      /\ \A k \in DOMAIN putting' : k + 1 \in DOMAIN putting /\ putting'[k] = putting[k + 1] /\ k + 1 # 1
      /\ \A k \in DOMAIN putting : k # 1 => k - 1 \in DOMAIN putting' /\ putting'[k - 1] = putting[k]
  BY <1>1, <1>3, OutputReturns
<1>5. WaitsOnly(line)' /\ Indexed(line)' = Indexed(line)
  BY <1>1, <1>2, OneStays
<1>6. LineTypeOK'
  BY <1>1, <1>2, <1>4 DEF LineTypeOK
<1>7. Flat' = Flat /\ Ramp' = Ramp
  BY <1>2 DEF Flat, Ramp
<1>8. RampBegins' <=> RampBegins
  <2>1. RampBegins' => RampBegins
    BY <1>4 DEF RampBegins
  <2>2. ASSUME NEW k \in DOMAIN putting, putting[k].by = "ramp" PROVE RampBegins'
    <3>1. k # 1 /\ k - 1 \in DOMAIN putting' /\ putting'[k - 1] = putting[k]
      BY <1>3, <1>4, <2>2
    <3> QED
      BY <2>2, <3>1 DEF RampBegins
  <2> QED
    BY <2>1, <2>2 DEF RampBegins
<1>9. WayInv'
  BY <1>1, <1>2, <1>7, <1>8 DEF WayInv
<1>10. StepsInv'
  <2>1. SUFFICES ASSUME ~meddled PROVE StepsInv'
    BY <1>2 DEF StepsInv
  <2>2. \A k \in DOMAIN putting : ~(putting[k].by \in {"ramp", "tick"})
    BY <1>1, <1>3, <1>4, <2>1 DEF StepsInv
  <2>3. \A k \in DOMAIN putting' : ~(putting'[k].by \in {"ramp", "tick"})
    BY <1>4, <2>2
  <2>4. ~OnItsWay /\ (putting' # <<>> => 1 \in DOMAIN putting')
    BY <1>4, <2>2, LenProperties, EmptySeq DEF OnItsWay
  <2> QED
    BY <1>1, <1>2, <1>5, <1>7, <2>1, <2>3, <2>4 DEF StepsInv
<1> QED
  BY <1>5, <1>6, <1>9, <1>10 DEF LineInv

LEMMA TimeStep ==
  ASSUME LineInv, TimePasses PROVE LineInv'
<1>1. PICK t \in Nat : PassTo(t)
  BY LineAssumption DEF TimePasses
<1>2. putting = <<>> /\ UNCHANGED linevars
  BY DEF TimePasses
<1>3. WaitsOnly(line) /\ LineTypeOK /\ WayInv /\ StepsInv /\ now \in Nat
  BY DEF LineInv, WaitsOnly
<1>4. WaitsOnly(line)' /\ Indexed(line)' = Indexed(line) /\ agenda' = agenda /\ now' = t /\ t >= now
  BY <1>1, <1>3, OneIsAhead
<1>5. LineTypeOK'
  BY <1>2, <1>3 DEF LineTypeOK, linevars
<1>6. putting' = <<>> /\ ~RampBegins /\ ~RampBegins' /\ ~OnItsWay
  BY <1>2, NoOutput DEF RampBegins, linevars
<1>7. (Flat => Flat') /\ (Ramp => Ramp')
  BY <1>2, <1>3, <1>4 DEF Flat, Ramp, LineTypeOK, linevars
<1>8. WayInv'
  BY <1>2, <1>3, <1>6, <1>7 DEF WayInv, linevars
<1>9. StepsInv'
  BY <1>2, <1>3, <1>4, <1>6, <1>7 DEF StepsInv, linevars
<1> QED
  BY <1>4, <1>5, <1>8, <1>9 DEF LineInv

LEMMA LineStep == LineInv /\ [LineNext]_<<agendavars, linevars>> => LineInv'
<1> SUFFICES ASSUME LineInv, [LineNext]_<<agendavars, linevars>> PROVE LineInv'
  OBVIOUS
<1>1. x_gotinlet \in BOOLEAN /\ x_grain \in Int
  BY DEF LineInv, LineTypeOK
<1>2. CASE UNCHANGED <<agendavars, linevars>> \/ LineCallEnds
  BY <1>1, <1>2, LineStays DEF LineCallEnds, agendavars, linevars
<1>3. ASSUME NEW g \in RampTimes, line_ft1(g) PROVE LineInv'
  BY <1>1, <1>3, LineStays, LineAssumption DEF line_ft1, agendavars
<1>4. ASSUME NEW g \in Grains, LineGrain(g) PROVE LineInv'
  BY <1>1, <1>4, LineStays, LineAssumption DEF LineGrain, agendavars
<1> QED
  BY <1>2, <1>3, <1>4, RampStep, JumpStep, StopAndSetStep, TickStep, WayReturnsStep, OtherReturnsStep,
     TimeStep
  DEF LineNext

\* What a line put out last is where it should have been then; on its way it goes on
\* before it should be there, and there, or told to jump or to stop, it is silent:
\* whatever it is sent, when and with any times and grains, unless it came from within
\* an output on the way.
THEOREM LineGoesWhereItShould == LineSpec => []GoesWhereItShould
<1>1. LineInv => GoesWhereItShould
  <2> SUFFICES ASSUME LineInv, putting = <<>>, ~meddled
               PROVE  /\ \A k \in Indexed(line) : now <= agenda[k].time /\ agenda[k].time <= way.by
                      /\ Indexed(line) = {} /\ way.heard => lastout.at = way.by
                      /\ Indexed(line) # {} => way.heard
                      /\ way.heard => lastout.value = ShouldBe(lastout.at)
    BY DEF GoesWhereItShould
  <2>1. WaitsOnly(line) /\ WayInv /\ StepsInv /\ ~OnItsWay /\ now \in Nat
    BY NoOutput DEF LineInv, WaitsOnly
  <2>2. \A k \in Indexed(line) : agenda[k].time \in Nat /\ agenda[k].time >= now
    BY <2>1, TheWait
  <2>3. \A k \in Indexed(line) : Ramp /\ agenda[k].time <= way.by
    BY <2>1 DEF StepsInv
  <2> QED
    BY <2>1, <2>2, <2>3 DEF StepsInv, WayInv, Ramp, ShouldBe, Place
<1> QED
  BY <1>1, LineBegins, LineStep, PTL DEF LineSpec

-----------------------------------------------------------------------------
(* The objects that send and receive messages.                             *)

PollEntry == [fd : Fds, fn : {"read"}, obj : Receivers]

SocketsTypeOK ==
  /\ sys_fdpoll \in Seq(PollEntry)
  /\ readset \subseteq Fds /\ at \in Nat
  /\ x_fd \in [Senders -> Fds \cup {NoFd}]
  /\ reported \in [Senders -> {0, 1}]
  /\ x_connectsocket \in [Receivers -> Fds \cup {NoFd}]
  /\ call \in {NoCall} \cup [obj : Receivers, failed : BOOLEAN]
  /\ sending # NotSending => "obj" \in DOMAIN sending /\ sending.obj \in Senders
  /\ sock \in [Fds -> Senders \cup Receivers \cup {Closed}]
  /\ ready \subseteq Fds /\ leaked \subseteq Fds /\ fresh \subseteq Fds
  /\ affected \subseteq Senders \cup Receivers

\* Who is not affected has its own socket; the first who is, is a receiver.
OwnersInv ==
  /\ \A s \in Senders \ affected : TellsItsSocket(s)
  /\ \A r \in Receivers \ affected : ListensOnItsSocket(r)
  /\ \A fd \in leaked : sock[fd] # Closed
  /\ affected \cap Receivers = {} => affected = {}

\* While nobody is, open descriptors are held or leaked, and the list has one
\* entry for each receiver's.
PolledInv ==
  affected = {} =>
    /\ \A fd \in Fds : sock[fd] # Closed => fd \in Held \cup leaked
    /\ \A i \in DOMAIN sys_fdpoll : \E r \in Receivers : x_connectsocket[r] = sys_fdpoll[i].fd
    /\ \A i, j \in DOMAIN sys_fdpoll : sys_fdpoll[i].fd = sys_fdpoll[j].fd => i = j

\* The entries the walk has still to come to.
Ahead == {i \in DOMAIN sys_fdpoll : i > at \/ (i = at /\ call = NoCall)}

\* Those select() has found readable have not been read since.
WalkInv ==
  /\ at = 0 => readset = {}
  /\ affected = {} =>
       \A i \in Ahead : sys_fdpoll[i].fd \in readset => sys_fdpoll[i].fd \in ready \cup fresh

SocketsInv == SocketsTypeOK /\ OwnersInv /\ PolledInv /\ WalkInv

-----------------------------------------------------------------------------
(* The list without its first entry for a descriptor.                      *)

LEMMA UnregisteredProperties ==
  ASSUME NEW S, NEW list \in Seq(S), NEW fd
  PROVE  \/ /\ Unregistered(list, fd) = list
            /\ \A i \in DOMAIN list : list[i].fd # fd
         \/ \E k \in DOMAIN list :
              /\ list[k].fd = fd
              /\ Unregistered(list, fd) = RemoveAt(list, k)
<1> DEFINE I == {i \in 1..Len(list) : list[i].fd = fd}
<1>1. DOMAIN list = 1..Len(list) /\ Len(list) \in Nat
  BY LenProperties
<1>2. Unregistered(list, fd) = IF \E i \in 1..Len(list) : list[i].fd = fd
                               THEN RemoveAt(list, IF I # {} THEN Min(I) ELSE 0) ELSE list
  BY DEF Unregistered, RemoveFirstMatch, SelectInSeq
<1>3. CASE I = {}
  BY <1>1, <1>2, <1>3
<1>4. CASE I # {}
  <2>1. I \subseteq Nat
    BY <1>1
  <2>2. Min(I) \in I
    BY <1>4, <2>1, LeastElement
  <2> QED
    BY <1>1, <1>2, <1>4, <2>2
<1> QED
  BY <1>3, <1>4

LEMMA ListWithoutFd ==
  ASSUME NEW list \in Seq(PollEntry), NEW fd
  PROVE  LET new == Unregistered(list, fd) IN
         /\ new \in Seq(PollEntry)
         /\ \A i \in DOMAIN new : \E j \in DOMAIN list : j >= i /\ new[i] = list[j]
         /\ \A j \in DOMAIN list : list[j].fd # fd => \E i \in DOMAIN new : new[i] = list[j]
         /\ (\A i, j \in DOMAIN list : list[i].fd = list[j].fd => i = j) =>
              /\ \A i \in DOMAIN new : new[i].fd # fd
              /\ \A i, j \in DOMAIN new : new[i].fd = new[j].fd => i = j
<1> DEFINE new == Unregistered(list, fd)
           n == Len(list)
<1>0. DOMAIN list = 1..n /\ n \in Nat
  BY LenProperties
<1>1. CASE new = list /\ \A i \in DOMAIN list : list[i].fd # fd
  BY <1>0, <1>1
<1>2. ASSUME NEW k \in DOMAIN list, list[k].fd = fd, new = RemoveAt(list, k)
      PROVE  /\ new \in Seq(PollEntry)
             /\ \A i \in DOMAIN new : \E j \in DOMAIN list : j >= i /\ new[i] = list[j]
             /\ \A j \in DOMAIN list : list[j].fd # fd => \E i \in DOMAIN new : new[i] = list[j]
             /\ (\A i, j \in DOMAIN list : list[i].fd = list[j].fd => i = j) =>
                  /\ \A i \in DOMAIN new : new[i].fd # fd
                  /\ \A i, j \in DOMAIN new : new[i].fd = new[j].fd => i = j
  <2> DEFINE From(i) == IF i < k THEN i ELSE i + 1
             To(j) == IF j < k THEN j ELSE j - 1
  <2> HIDE DEF new
  <2>1. k \in 1..n
    BY <1>0, <1>2
  <2>2. /\ new \in Seq(PollEntry) /\ Len(new) = n - 1
        /\ \A i \in 1..(n - 1) : new[i] = IF i < k THEN list[i] ELSE list[i + 1]
    BY <1>2, <2>1, RemoveAtProperties
  <2>3. DOMAIN new = 1..(n - 1)
    BY <2>2, LenProperties
  <2>4. \A i \in 1..(n - 1) :
          From(i) \in 1..n /\ From(i) # k /\ From(i) >= i /\ new[i] = list[From(i)]
    BY <1>0, <2>1, <2>2
  <2>5. \A j \in 1..n : j # k => To(j) \in 1..(n - 1) /\ From(To(j)) = j
    BY <1>0, <2>1
  <2>6. \A i, j \in 1..(n - 1) : From(i) = From(j) => i = j
    BY <1>0, <2>1
  <2> HIDE DEF From, To
  <2>7. \A i \in DOMAIN new : \E j \in DOMAIN list : j >= i /\ new[i] = list[j]
    BY <1>0, <2>3, <2>4
  <2>8. \A j \in DOMAIN list : list[j].fd # fd => \E i \in DOMAIN new : new[i] = list[j]
    BY <1>0, <1>2, <2>3, <2>4, <2>5
  <2>9. ASSUME \A i, j \in DOMAIN list : list[i].fd = list[j].fd => i = j
        PROVE  /\ \A i \in DOMAIN new : new[i].fd # fd
               /\ \A i, j \in DOMAIN new : new[i].fd = new[j].fd => i = j
    BY <1>0, <1>2, <2>1, <2>3, <2>4, <2>6, <2>9
  <2> QED
    BY <2>2, <2>7, <2>8, <2>9
<1> QED
  BY <1>1, <1>2, UnregisteredProperties

-----------------------------------------------------------------------------
(* The initial state, and a descriptor that is given out.                  *)

LEMMA SocketsBegin == MInit => SocketsInv
  BY MessageSocketsAssumption
  DEF MInit, PollInit, SocketsInv, SocketsTypeOK, OwnersInv, PolledInv, WalkInv, Ahead,
      TellsItsSocket, ListensOnItsSocket, Senders, NoFd, Fds, PollEntry

LEMMA LowestIsFree ==
  ASSUME NEW table, FreeFds(table) # {}
  PROVE  Lowest(FreeFds(table)) \in Fds /\ table[Lowest(FreeFds(table))] = Closed
<1>1. FreeFds(table) \subseteq Nat
  BY DEF FreeFds, Fds
<1>2. \E fd \in FreeFds(table) : \A g \in FreeFds(table) : fd <= g
  BY <1>1, LeastNatural
<1>3. Lowest(FreeFds(table)) \in FreeFds(table)
  BY <1>2, Zenon DEF Lowest
<1> QED
  BY <1>3 DEF FreeFds

\* What is used of the assumption.
LEMMA ObjectsDiffer ==
  /\ Senders \cap Receivers = {} /\ Closed \notin Senders \cup Receivers /\ "none" \notin Receivers
  /\ NoFd \notin Fds /\ NoFd = -1 /\ Fds \subseteq Nat \ {0}
  BY MessageSocketsAssumption DEF Senders, Closed, NoFd, Fds

-----------------------------------------------------------------------------
(* udpsend and tcpsend.                                                    *)

LEMMA ConnectStep ==
  ASSUME SocketsInv, NEW s \in Senders, Connect(s)
  PROVE  SocketsInv'
<1> DEFINE fd == Lowest(FreeFds(sock))
<1>1. fd \in Fds /\ sock[fd] = Closed
  BY LowestIsFree DEF Connect
<1>2. /\ sock' = [sock EXCEPT ![fd] = s]
      /\ x_fd' = [x_fd EXCEPT ![s] = fd]
      /\ reported' = [reported EXCEPT ![s] = 1]
      /\ fresh' = IF at = 0 THEN {} ELSE fresh \cup {fd}
      /\ UNCHANGED <<pollvars, x_connectsocket, call, sending, ready, leaked, affected>>
      /\ x_fd[s] = NoFd
  BY DEF Connect, New
<1> HIDE DEF fd
<1>3. SocketsTypeOK'
  BY <1>1, <1>2, ObjectsDiffer DEF SocketsInv, SocketsTypeOK, pollvars
<1>4. OwnersInv'
  BY <1>1, <1>2, <1>3, ObjectsDiffer
  DEF SocketsInv, SocketsTypeOK, OwnersInv, TellsItsSocket, ListensOnItsSocket, pollvars
<1>5. PolledInv'
  BY <1>1, <1>2, ObjectsDiffer DEF SocketsInv, SocketsTypeOK, PolledInv, Held, pollvars
<1>6. WalkInv'
  BY <1>1, <1>2 DEF SocketsInv, SocketsTypeOK, WalkInv, Ahead, pollvars
<1> QED
  BY <1>3, <1>4, <1>5, <1>6 DEF SocketsInv

LEMMA BadHostStep ==
  ASSUME SocketsInv, NEW s \in Senders, BadHost(s)
  PROVE  SocketsInv'
<1> DEFINE fd == Lowest(FreeFds(sock))
<1>1. fd \in Fds /\ sock[fd] = Closed
  BY LowestIsFree DEF BadHost
<1>2. /\ sock' = [sock EXCEPT ![fd] = s]
      /\ leaked' = leaked \cup {fd}
      /\ fresh' = IF at = 0 THEN {} ELSE fresh \cup {fd}
      /\ UNCHANGED <<pollvars, sendvars, x_connectsocket, call, sending, ready, affected>>
  BY DEF BadHost, New
<1> HIDE DEF fd
<1>3. SocketsTypeOK'
  BY <1>1, <1>2 DEF SocketsInv, SocketsTypeOK, pollvars, sendvars
<1>4. OwnersInv'
  BY <1>1, <1>2, ObjectsDiffer
  DEF SocketsInv, SocketsTypeOK, OwnersInv, TellsItsSocket, ListensOnItsSocket, pollvars, sendvars
<1>5. PolledInv'
  BY <1>1, <1>2, ObjectsDiffer DEF SocketsInv, SocketsTypeOK, PolledInv, Held, pollvars, sendvars
<1>6. WalkInv'
  BY <1>1, <1>2 DEF SocketsInv, SocketsTypeOK, WalkInv, Ahead, pollvars, sendvars
<1> QED
  BY <1>3, <1>4, <1>5, <1>6 DEF SocketsInv

\* While nobody is affected, closing its own socket affects nobody else.
LEMMA CloseSocketStep ==
  ASSUME SocketsInv, NEW s \in Senders, CloseSocket(s),
         UNCHANGED <<pollvars, x_connectsocket, call, fresh>>,
         sending' = sending \/ sending' = NotSending
  PROVE  SocketsInv'
<1> DEFINE fd == x_fd[s]
<1>1. fd \in Fds \cup {NoFd}
  BY DEF SocketsInv, SocketsTypeOK
<1>2. /\ sock' = [g \in Fds |-> IF g = fd THEN Closed ELSE sock[g]]
      /\ ready' = ready \ {fd}
      /\ leaked' = leaked \ {fd}
      /\ affected' = affected \cup (IF fd = NoFd \/ sock[fd] = Closed THEN {} ELSE {sock[fd]} \ {s})
      /\ x_fd' = [x_fd EXCEPT ![s] = NoFd]
      /\ reported' = [reported EXCEPT ![s] = 0]
  BY DEF CloseSocket, Closes, TableWithout
<1> DEFINE victims == IF fd = NoFd \/ sock[fd] = Closed THEN {} ELSE {sock[fd]} \ {s}
<1>v. /\ victims \subseteq Senders \cup Receivers /\ s \notin victims
      /\ \A o \in Senders \cup Receivers : o # s /\ fd # NoFd /\ sock[fd] = o => o \in victims
      /\ affected = {} => victims = {}
  BY <1>1, ObjectsDiffer DEF SocketsInv, SocketsTypeOK, OwnersInv, TellsItsSocket
<1>w. affected' = affected \cup victims
  BY <1>2
<1> HIDE DEF fd, victims
<1>3. SocketsTypeOK'
  BY <1>1, <1>2, <1>v, <1>w DEF SocketsInv, SocketsTypeOK, pollvars
<1>4. OwnersInv'
  <2>1. ASSUME NEW q \in Senders \ affected' PROVE TellsItsSocket(q)'
    BY <1>1, <1>2, <1>v, <1>w, <2>1, ObjectsDiffer DEF SocketsInv, SocketsTypeOK, OwnersInv, TellsItsSocket, fd
  <2>2. ASSUME NEW r \in Receivers \ affected' PROVE ListensOnItsSocket(r)'
    BY <1>1, <1>2, <1>v, <1>w, <2>2, ObjectsDiffer
    DEF SocketsInv, SocketsTypeOK, OwnersInv, ListensOnItsSocket, pollvars
  <2>3. \A g \in leaked' : sock'[g] # Closed
    BY <1>2 DEF SocketsInv, SocketsTypeOK, OwnersInv
  <2>4. affected' \cap Receivers = {} => affected' = {}
    BY <1>v, <1>w DEF SocketsInv, OwnersInv
  <2> QED
    BY <2>1, <2>2, <2>3, <2>4 DEF OwnersInv
<1>5. ASSUME affected = {}, fd # NoFd, NEW r \in Receivers PROVE x_connectsocket[r] # fd
  <2>1. TellsItsSocket(s) /\ ListensOnItsSocket(r)
    BY <1>5 DEF SocketsInv, OwnersInv
  <2>2. sock[fd] = s
    BY <1>5, <2>1 DEF TellsItsSocket, fd
  <2>3. s # r
    BY ObjectsDiffer
  <2> QED
    BY <1>5, <2>1, <2>2, <2>3 DEF ListensOnItsSocket
<1>6. PolledInv'
  <2>1. SUFFICES ASSUME affected = {}, NEW g \in Fds, sock'[g] # Closed
                 PROVE  (g \in Held \cup leaked)'
    BY <1>2, <1>w DEF SocketsInv, PolledInv, pollvars
  <2>2. g # fd /\ g \in Held \cup leaked
    BY <1>2, <2>1 DEF SocketsInv, PolledInv
  <2>3. ASSUME NEW q \in Senders, x_fd[q] = g PROVE x_fd'[q] = g
    BY <1>2, <2>2, <2>3 DEF SocketsInv, SocketsTypeOK, fd
  <2>4. x_connectsocket' = x_connectsocket
    OBVIOUS
  <2> QED
    BY <1>2, <2>2, <2>3, <2>4 DEF Held
<1>7. WalkInv'
  <2>1. SUFFICES ASSUME affected = {}, NEW i \in Ahead, sys_fdpoll[i].fd \in readset
                 PROVE  sys_fdpoll[i].fd \in ready' \cup fresh
    BY <1>w DEF SocketsInv, WalkInv, pollvars, Ahead
  <2>2. sys_fdpoll[i].fd # fd
    BY <1>5, <2>1, ObjectsDiffer DEF SocketsInv, SocketsTypeOK, PolledInv, Ahead, PollEntry
  <2> QED
    BY <1>2, <2>1, <2>2 DEF SocketsInv, WalkInv
<1> QED
  BY <1>3, <1>4, <1>6, <1>7 DEF SocketsInv

-----------------------------------------------------------------------------
(* udpreceive.                                                             *)

\* Those who lose their socket when o closes fd.
Victims(o, fd) == IF fd = NoFd \/ sock[fd] = Closed THEN {} ELSE {sock[fd]} \ {o}

LEMMA VictimsOfReceiver ==
  ASSUME SocketsInv, NEW r \in Receivers
  PROVE  LET old == x_connectsocket[r]  victims == Victims(r, old) IN
         /\ old \in Fds \cup {NoFd}
         /\ victims \subseteq Senders \cup Receivers /\ r \notin victims
         /\ affected = {} => victims = {}
         /\ \A s \in Senders : s \notin affected \cup victims /\ x_fd[s] # NoFd => x_fd[s] # old
         /\ \A q \in Receivers :
              q \notin affected \cup victims /\ q # r /\ x_connectsocket[q] # NoFd
                => x_connectsocket[q] # old
<1> DEFINE old == x_connectsocket[r]
           victims == Victims(r, old)
<1>1. old \in Fds \cup {NoFd}
  BY DEF SocketsInv, SocketsTypeOK
<1>2. /\ victims \subseteq Senders \cup Receivers /\ r \notin victims
      /\ \A o \in Senders \cup Receivers : o # r /\ old # NoFd /\ sock[old] = o => o \in victims
  BY <1>1, ObjectsDiffer DEF SocketsInv, SocketsTypeOK, Victims
<1>3. affected = {} => victims = {}
  BY DEF SocketsInv, OwnersInv, ListensOnItsSocket, Victims
<1> HIDE DEF old, victims
<1>4. ASSUME NEW s \in Senders, s \notin affected \cup victims, x_fd[s] # NoFd PROVE x_fd[s] # old
  <2>1. sock[x_fd[s]] = s /\ s # r
    BY <1>4, ObjectsDiffer DEF SocketsInv, OwnersInv, TellsItsSocket
  <2> QED
    BY <1>2, <1>4, <2>1
<1>5. ASSUME NEW q \in Receivers, q \notin affected \cup victims, q # r, x_connectsocket[q] # NoFd
      PROVE  x_connectsocket[q] # old
  <2>1. sock[x_connectsocket[q]] = q
    BY <1>5 DEF SocketsInv, OwnersInv, ListensOnItsSocket
  <2> QED
    BY <1>2, <1>5, <2>1
<1> QED
  BY <1>1, <1>2, <1>3, <1>4, <1>5 DEF old, victims

\* The state in which udpreceive_new_socket asks for a socket, and udpreceive_free
\* ends: the old one is closed and not polled any more.
LEMMA SocketIsGivenUp ==
  ASSUME SocketsInv, NEW r \in Receivers, at = 0 \/ call # NoCall
  PROVE  LET old == x_connectsocket[r]
             table == TableWithout(old)
             list == NotPolled(old)
             victims == Victims(r, old)
         IN
         /\ list \in Seq(PollEntry)
         /\ table \in [Fds -> Senders \cup Receivers \cup {Closed}]
         /\ \A s \in Senders : s \notin affected \cup victims /\ x_fd[s] # NoFd => table[x_fd[s]] = s
         /\ \A q \in Receivers :
              q \notin affected \cup victims /\ q # r /\ x_connectsocket[q] # NoFd =>
                /\ table[x_connectsocket[q]] = q
                /\ \E i \in DOMAIN list : list[i] = [fd |-> x_connectsocket[q], fn |-> "read", obj |-> q]
         /\ \A g \in leaked \ {old} : table[g] # Closed
         /\ affected = {} =>
              /\ \A g \in Fds : table[g] # Closed => g # old /\ g \in Held \cup leaked
              /\ \A i \in DOMAIN list :
                   /\ list[i].fd # old /\ table[list[i].fd] # Closed
                   /\ \E q \in Receivers : q # r /\ x_connectsocket[q] = list[i].fd
              /\ \A i, j \in DOMAIN list : list[i].fd = list[j].fd => i = j
              /\ \A i \in DOMAIN list :
                   i > at /\ list[i].fd \in readset => list[i].fd \in (ready \ {old}) \cup fresh
<1> DEFINE old == x_connectsocket[r]
           table == TableWithout(old)
           list == NotPolled(old)
           victims == Victims(r, old)
<1>1. /\ list \in Seq(PollEntry)
      /\ \A i \in DOMAIN list : \E j \in DOMAIN sys_fdpoll : j >= i /\ list[i] = sys_fdpoll[j]
      /\ \A j \in DOMAIN sys_fdpoll : sys_fdpoll[j].fd # old =>
           \E i \in DOMAIN list : list[i] = sys_fdpoll[j]
      /\ (\A i, j \in DOMAIN sys_fdpoll : sys_fdpoll[i].fd = sys_fdpoll[j].fd => i = j) =>
           /\ \A i \in DOMAIN list : list[i].fd # old
           /\ \A i, j \in DOMAIN list : list[i].fd = list[j].fd => i = j
  BY ListWithoutFd DEF NotPolled, SocketsInv, SocketsTypeOK
<1>2. /\ table \in [Fds -> Senders \cup Receivers \cup {Closed}]
      /\ \A g \in Fds : table[g] = IF g = old THEN Closed ELSE sock[g]
  BY DEF TableWithout, SocketsInv, SocketsTypeOK
<1>3. /\ old \in Fds \cup {NoFd}
      /\ \A s \in Senders : s \notin affected \cup victims /\ x_fd[s] # NoFd => x_fd[s] # old
      /\ \A q \in Receivers :
           q \notin affected \cup victims /\ q # r /\ x_connectsocket[q] # NoFd
             => x_connectsocket[q] # old
  BY VictimsOfReceiver
<1> HIDE DEF list, table, victims
<1>4. ASSUME NEW s \in Senders, s \notin affected \cup victims, x_fd[s] # NoFd
      PROVE  table[x_fd[s]] = s
  BY <1>2, <1>3, <1>4 DEF SocketsInv, SocketsTypeOK, OwnersInv, TellsItsSocket
<1>5. ASSUME NEW q \in Receivers, q \notin affected \cup victims, q # r, x_connectsocket[q] # NoFd
      PROVE  /\ table[x_connectsocket[q]] = q
             /\ \E i \in DOMAIN list : list[i] = [fd |-> x_connectsocket[q], fn |-> "read", obj |-> q]
  <2>1. x_connectsocket[q] \in Fds /\ x_connectsocket[q] # old
    BY <1>3, <1>5 DEF SocketsInv, SocketsTypeOK
  <2>2. PICK j \in DOMAIN sys_fdpoll : sys_fdpoll[j] = [fd |-> x_connectsocket[q], fn |-> "read", obj |-> q]
    BY <1>5 DEF SocketsInv, OwnersInv, ListensOnItsSocket, Range
  <2>3. sock[x_connectsocket[q]] = q
    BY <1>5 DEF SocketsInv, OwnersInv, ListensOnItsSocket
  <2> QED
    BY <1>1, <1>2, <2>1, <2>2, <2>3
<1>6. \A g \in leaked \ {old} : table[g] # Closed
  BY <1>2 DEF SocketsInv, SocketsTypeOK, OwnersInv
<1>7. ASSUME affected = {}
      PROVE  /\ \A g \in Fds : table[g] # Closed => g # old /\ g \in Held \cup leaked
             /\ \A i \in DOMAIN list :
                  /\ list[i].fd # old /\ table[list[i].fd] # Closed
                  /\ \E q \in Receivers : q # r /\ x_connectsocket[q] = list[i].fd
             /\ \A i, j \in DOMAIN list : list[i].fd = list[j].fd => i = j
             /\ \A i \in DOMAIN list :
                  i > at /\ list[i].fd \in readset => list[i].fd \in (ready \ {old}) \cup fresh
  <2>1. \A g \in Fds : table[g] # Closed => g # old /\ g \in Held \cup leaked
    BY <1>2, <1>7 DEF SocketsInv, PolledInv
  <2>2. /\ \A i \in DOMAIN list : list[i].fd # old
        /\ \A i, j \in DOMAIN list : list[i].fd = list[j].fd => i = j
    BY <1>1, <1>7 DEF SocketsInv, PolledInv
  <2>3. ASSUME NEW i \in DOMAIN list
        PROVE  /\ table[list[i].fd] # Closed
               /\ \E q \in Receivers : q # r /\ x_connectsocket[q] = list[i].fd
               /\ i > at /\ list[i].fd \in readset => list[i].fd \in (ready \ {old}) \cup fresh
    <3>1. PICK j \in DOMAIN sys_fdpoll : j >= i /\ list[i] = sys_fdpoll[j]
      BY <1>1
    <3>2. PICK q \in Receivers : x_connectsocket[q] = list[i].fd
      BY <1>7, <3>1 DEF SocketsInv, PolledInv
    <3>3. q # r /\ list[i].fd \in Fds
      <4>1. list[i] \in PollEntry
        BY <1>1
      <4> QED
        BY <2>2, <3>2, <4>1 DEF PollEntry
    <3>4. sock[list[i].fd] = q
      BY <1>7, <3>2, <3>3, ObjectsDiffer DEF SocketsInv, OwnersInv, ListensOnItsSocket
    <3>5. table[list[i].fd] # Closed
      BY <1>2, <2>2, <3>3, <3>4, ObjectsDiffer
    <3>6. i \in Nat /\ j \in Nat /\ at \in Nat
      BY <1>1, LenProperties DEF SocketsInv, SocketsTypeOK
    <3>7. ASSUME i > at, list[i].fd \in readset PROVE list[i].fd \in (ready \ {old}) \cup fresh
      <4>1. j \in Ahead
        BY <3>1, <3>6, <3>7 DEF Ahead
      <4> QED
        BY <1>7, <2>2, <3>1, <3>7, <4>1 DEF SocketsInv, WalkInv
    <3> QED
      BY <3>2, <3>3, <3>5, <3>7
  <2> QED
    BY <2>1, <2>2, <2>3
<1> QED
  BY <1>1, <1>2, <1>4, <1>5, <1>6, <1>7 DEF table, list, victims, old

LEMMA BoundStep ==
  ASSUME SocketsInv, NEW r \in Receivers, at = 0 \/ call # NoCall,
         ready' = ready \ {x_connectsocket[r]},
         Bound(r, TableWithout(x_connectsocket[r]), NotPolled(x_connectsocket[r])),
         UNCHANGED <<readset, at, sendvars, call, sending>>
  PROVE  SocketsInv'
<1> DEFINE old == x_connectsocket[r]
           table == TableWithout(old)
           list == NotPolled(old)
           victims == Victims(r, old)
           fd == Lowest(FreeFds(table))
           entry == [fd |-> fd, fn |-> "read", obj |-> r]
           n == Len(list)
<1>1. fd \in Fds /\ table[fd] = Closed
  BY LowestIsFree DEF Bound
<1>2. /\ old \in Fds \cup {NoFd}
      /\ victims \subseteq Senders \cup Receivers /\ r \notin victims
      /\ affected = {} => victims = {}
  BY VictimsOfReceiver
<1>3. /\ sock' = [table EXCEPT ![fd] = r]
      /\ x_connectsocket' = [x_connectsocket EXCEPT ![r] = fd]
      /\ sys_fdpoll' = Append(list, entry)
      /\ fresh' = IF at = 0 THEN {} ELSE fresh \cup {fd}
      /\ leaked' = leaked \ {old}
      /\ affected' = affected \cup victims
  BY DEF Bound, Registered, New, Closes, Victims
<1>4. /\ list \in Seq(PollEntry)
      /\ table \in [Fds -> Senders \cup Receivers \cup {Closed}]
      /\ \A s \in Senders : s \notin affected \cup victims /\ x_fd[s] # NoFd => table[x_fd[s]] = s
      /\ \A q \in Receivers :
           q \notin affected \cup victims /\ q # r /\ x_connectsocket[q] # NoFd =>
             /\ table[x_connectsocket[q]] = q
             /\ \E i \in DOMAIN list : list[i] = [fd |-> x_connectsocket[q], fn |-> "read", obj |-> q]
      /\ \A g \in leaked \ {old} : table[g] # Closed
  BY SocketIsGivenUp
<1>5. affected = {} =>
           /\ \A g \in Fds : table[g] # Closed => g # old /\ g \in Held \cup leaked
           /\ \A i \in DOMAIN list :
                /\ list[i].fd # old /\ table[list[i].fd] # Closed
                /\ \E q \in Receivers : q # r /\ x_connectsocket[q] = list[i].fd
           /\ \A i, j \in DOMAIN list : list[i].fd = list[j].fd => i = j
           /\ \A i \in DOMAIN list :
                i > at /\ list[i].fd \in readset => list[i].fd \in (ready \ {old}) \cup fresh
  BY SocketIsGivenUp
<1> HIDE DEF table, list, victims, fd
<1>6. entry \in PollEntry
  BY <1>1 DEF PollEntry
<1>7. /\ Append(list, entry) \in Seq(PollEntry)
      /\ n \in Nat /\ DOMAIN list = 1..n /\ DOMAIN Append(list, entry) = 1..(n + 1)
      /\ \A i \in 1..n : Append(list, entry)[i] = list[i]
      /\ Append(list, entry)[n + 1] = entry
  <2> HIDE DEF entry
  <2> QED
    BY <1>4, <1>6, AppendProperties, LenProperties
<1>8. DOMAIN sys_fdpoll' = 1..n \cup {n + 1} /\ n + 1 \notin 1..n
  BY <1>3, <1>7
<1>9. UNCHANGED <<readset, at, x_fd, reported, call, sending>>
  BY DEF sendvars
<1>10. SocketsTypeOK'
  BY <1>1, <1>2, <1>3, <1>4, <1>7, <1>9 DEF SocketsInv, SocketsTypeOK
<1>11. OwnersInv'
  <2>1. ASSUME NEW s \in Senders \ affected' PROVE TellsItsSocket(s)'
    <3>1. TellsItsSocket(s) /\ s \notin affected \cup victims
      BY <1>3, <2>1 DEF SocketsInv, OwnersInv
    <3>2. CASE x_fd[s] = NoFd
      BY <1>9, <3>1, <3>2 DEF TellsItsSocket
    <3>3. CASE x_fd[s] # NoFd
      <4>1. table[x_fd[s]] = s /\ s # Closed /\ x_fd[s] \in Fds
        BY <1>4, <3>1, <3>3, ObjectsDiffer DEF SocketsInv, SocketsTypeOK
      <4>2. sock'[x_fd[s]] = s
        BY <1>1, <1>3, <1>4, <4>1
      <4> QED
        BY <1>3, <1>9, <3>1, <3>3, <4>2 DEF TellsItsSocket
    <3> QED
      BY <3>2, <3>3
  <2>2. ASSUME NEW q \in Receivers \ affected' PROVE ListensOnItsSocket(q)'
    <3>1. CASE q = r
      BY <1>1, <1>3, <1>4, <1>7, <1>8, <3>1 DEF ListensOnItsSocket, Range, SocketsInv, SocketsTypeOK
    <3>2. CASE q # r /\ x_connectsocket[q] # NoFd
      <4>1. /\ table[x_connectsocket[q]] = q /\ q # Closed /\ x_connectsocket[q] \in Fds
            /\ x_connectsocket'[q] = x_connectsocket[q]
        BY <1>3, <1>4, <2>2, <3>2, ObjectsDiffer DEF SocketsInv, SocketsTypeOK
      <4>2. PICK i \in DOMAIN list : list[i] = [fd |-> x_connectsocket[q], fn |-> "read", obj |-> q]
        BY <1>3, <1>4, <2>2, <3>2
      <4>3. sock'[x_connectsocket[q]] = q
        BY <1>1, <1>3, <1>4, <4>1
      <4>4. i \in DOMAIN sys_fdpoll' /\ sys_fdpoll'[i] = list[i]
        BY <1>3, <1>7, <1>8
      <4> QED
        BY <4>1, <4>2, <4>3, <4>4 DEF ListensOnItsSocket, Range
    <3>3. CASE q # r /\ x_connectsocket[q] = NoFd
      BY <1>3, <3>3 DEF ListensOnItsSocket, SocketsInv, SocketsTypeOK
    <3> QED
      BY <3>1, <3>2, <3>3
  <2>3. \A g \in leaked' : sock'[g] # Closed
    BY <1>3, <1>4, ObjectsDiffer DEF SocketsInv, SocketsTypeOK
  <2>4. affected' \cap Receivers = {} => affected' = {}
    BY <1>2, <1>3 DEF SocketsInv, OwnersInv
  <2> QED
    BY <2>1, <2>2, <2>3, <2>4 DEF OwnersInv
<1>12. PolledInv'
  <2>1. SUFFICES ASSUME affected = {}
                 PROVE  /\ \A g \in Fds : sock'[g] # Closed => (g \in Held \cup leaked)'
                        /\ \A i \in DOMAIN sys_fdpoll' :
                             \E q \in Receivers : x_connectsocket'[q] = sys_fdpoll'[i].fd
                        /\ \A i, j \in DOMAIN sys_fdpoll' :
                             sys_fdpoll'[i].fd = sys_fdpoll'[j].fd => i = j
    BY <1>3 DEF PolledInv
  <2>2. x_connectsocket'[r] = fd /\ \A q \in Receivers : q # r => x_connectsocket'[q] = x_connectsocket[q]
    BY <1>3 DEF SocketsInv, SocketsTypeOK
  <2>3. ASSUME NEW g \in Fds, sock'[g] # Closed PROVE (g \in Held \cup leaked)'
    <3>1. CASE g = fd
      BY <2>2, <3>1 DEF Held
    <3>2. CASE g # fd
      <4>1. g # old /\ g \in Held \cup leaked
        BY <1>1, <1>3, <1>4, <1>5, <2>1, <2>3, <3>2
      <4> QED
        BY <1>3, <1>9, <2>2, <4>1 DEF Held
    <3> QED
      BY <3>1, <3>2
  <2>4. ASSUME NEW i \in DOMAIN sys_fdpoll'
        PROVE  \E q \in Receivers : x_connectsocket'[q] = sys_fdpoll'[i].fd
    BY <1>3, <1>5, <1>7, <1>8, <2>1, <2>2, <2>4
  <2>5. \A i \in 1..n : list[i].fd # fd
    BY <1>1, <1>5, <1>7, <2>1
  <2>6. ASSUME NEW i \in DOMAIN sys_fdpoll', NEW j \in DOMAIN sys_fdpoll',
               sys_fdpoll'[i].fd = sys_fdpoll'[j].fd
        PROVE  i = j
    BY <1>3, <1>5, <1>7, <1>8, <2>1, <2>5, <2>6
  <2> QED
    BY <2>3, <2>4, <2>6
<1>13. WalkInv'
  <2>1. ASSUME affected = {}, at # 0, NEW i \in Ahead', sys_fdpoll'[i].fd \in readset
        PROVE  sys_fdpoll'[i].fd \in ready' \cup fresh'
    <3>1. i > at /\ i \in DOMAIN sys_fdpoll'
      BY <1>9, <2>1 DEF Ahead
    <3>2. CASE i = n + 1
      BY <1>3, <1>7, <2>1, <3>2
    <3>3. CASE i \in 1..n
      BY <1>3, <1>5, <1>7, <2>1, <3>1, <3>3
    <3> QED
      BY <1>8, <3>1, <3>2, <3>3
  <2> QED
    BY <1>3, <1>9, <2>1 DEF SocketsInv, WalkInv
<1> QED
  BY <1>10, <1>11, <1>12, <1>13 DEF SocketsInv

\* Without a new socket: what is closed or opened besides the old one is leaked,
\* and the number is kept or, by free, given up.
LEMMA UnboundStep ==
  ASSUME SocketsInv, NEW r \in Receivers, at = 0 \/ call # NoCall,
         NEW stays \in BOOLEAN, NEW forgotten \in SUBSET Fds,
         \A g \in forgotten : TableWithout(x_connectsocket[r])[g] = Closed,
         ready' = ready \ {x_connectsocket[r]},
         sock' = [g \in Fds |-> IF g \in forgotten THEN r ELSE TableWithout(x_connectsocket[r])[g]],
         sys_fdpoll' = NotPolled(x_connectsocket[r]),
         Closes(r, x_connectsocket[r], stays, forgotten),
         x_connectsocket' = IF stays THEN x_connectsocket ELSE [x_connectsocket EXCEPT ![r] = NoFd],
         fresh' \in SUBSET Fds /\ (at # 0 => fresh \subseteq fresh'),
         UNCHANGED <<readset, at, sendvars, call, sending>>
  PROVE  SocketsInv'
<1> DEFINE old == x_connectsocket[r]
           table == TableWithout(old)
           list == NotPolled(old)
           victims == Victims(r, old)
           kept == {i \in {r} : stays /\ old # NoFd}
<1>2. /\ old \in Fds \cup {NoFd}
      /\ victims \subseteq Senders \cup Receivers /\ r \notin victims
      /\ affected = {} => victims = {}
  BY VictimsOfReceiver
<1>3. /\ sock' = [g \in Fds |-> IF g \in forgotten THEN r ELSE table[g]]
      /\ sys_fdpoll' = list
      /\ leaked' = (leaked \ {old}) \cup forgotten
      /\ affected' = affected \cup victims \cup kept
      /\ \A g \in forgotten : table[g] = Closed
  BY DEF Closes, Victims
<1>4. /\ list \in Seq(PollEntry)
      /\ table \in [Fds -> Senders \cup Receivers \cup {Closed}]
      /\ \A s \in Senders : s \notin affected \cup victims /\ x_fd[s] # NoFd => table[x_fd[s]] = s
      /\ \A q \in Receivers :
           q \notin affected \cup victims /\ q # r /\ x_connectsocket[q] # NoFd =>
             /\ table[x_connectsocket[q]] = q
             /\ \E i \in DOMAIN list : list[i] = [fd |-> x_connectsocket[q], fn |-> "read", obj |-> q]
      /\ \A g \in leaked \ {old} : table[g] # Closed
  BY SocketIsGivenUp
<1>5. affected = {} =>
           /\ \A g \in Fds : table[g] # Closed => g # old /\ g \in Held \cup leaked
           /\ \A i \in DOMAIN list :
                /\ list[i].fd # old /\ table[list[i].fd] # Closed
                /\ \E q \in Receivers : q # r /\ x_connectsocket[q] = list[i].fd
           /\ \A i, j \in DOMAIN list : list[i].fd = list[j].fd => i = j
           /\ \A i \in DOMAIN list :
                i > at /\ list[i].fd \in readset => list[i].fd \in (ready \ {old}) \cup fresh
  BY SocketIsGivenUp
<1>k. \/ kept = {} /\ x_connectsocket'[r] = NoFd
      \/ kept = {r}
  BY DEF SocketsInv, SocketsTypeOK
<1>c. /\ x_connectsocket' \in [Receivers -> Fds \cup {NoFd}]
      /\ \A q \in Receivers : q # r => x_connectsocket'[q] = x_connectsocket[q]
  BY DEF SocketsInv, SocketsTypeOK
<1>9. UNCHANGED <<readset, at, x_fd, reported, call, sending>>
  BY DEF sendvars
<1> HIDE DEF table, list, victims, kept
<1>10. SocketsTypeOK'
  <2>1. kept \subseteq Receivers
    BY <1>k
  <2>2. sock' \in [Fds -> Senders \cup Receivers \cup {Closed}]
    BY <1>3, <1>4
  <2> QED
    BY <1>2, <1>3, <1>4, <1>c, <1>9, <2>1, <2>2 DEF SocketsInv, SocketsTypeOK
<1>11. OwnersInv'
  <2>1. ASSUME NEW s \in Senders \ affected' PROVE TellsItsSocket(s)'
    <3>1. TellsItsSocket(s) /\ s \notin affected \cup victims
      BY <1>3, <2>1 DEF SocketsInv, OwnersInv
    <3>2. CASE x_fd[s] = NoFd
      BY <1>9, <3>1, <3>2 DEF TellsItsSocket
    <3>3. CASE x_fd[s] # NoFd
      <4>1. table[x_fd[s]] = s /\ s # Closed /\ x_fd[s] \in Fds
        BY <1>4, <3>1, <3>3, ObjectsDiffer DEF SocketsInv, SocketsTypeOK
      <4>2. x_fd[s] \notin forgotten /\ sock'[x_fd[s]] = s
        BY <1>3, <1>4, <4>1
      <4> QED
        BY <1>3, <1>9, <3>1, <3>3, <4>2 DEF TellsItsSocket
    <3> QED
      BY <3>2, <3>3
  <2>2. ASSUME NEW q \in Receivers \ affected' PROVE ListensOnItsSocket(q)'
    <3>1. CASE q = r
      BY <1>3, <1>k, <2>2, <3>1 DEF ListensOnItsSocket
    <3>2. CASE q # r /\ x_connectsocket[q] # NoFd
      <4>1. /\ table[x_connectsocket[q]] = q /\ q # Closed /\ x_connectsocket[q] \in Fds
            /\ x_connectsocket'[q] = x_connectsocket[q]
        BY <1>3, <1>4, <1>c, <2>2, <3>2, ObjectsDiffer DEF SocketsInv, SocketsTypeOK
      <4>2. \E i \in DOMAIN list : list[i] = [fd |-> x_connectsocket[q], fn |-> "read", obj |-> q]
        BY <1>3, <1>4, <2>2, <3>2
      <4>3. sock'[x_connectsocket[q]] = q
        BY <1>3, <1>4, <4>1
      <4> QED
        BY <1>3, <4>1, <4>2, <4>3 DEF ListensOnItsSocket, Range
    <3>3. CASE q # r /\ x_connectsocket[q] = NoFd
      BY <1>c, <3>3 DEF ListensOnItsSocket
    <3> QED
      BY <3>1, <3>2, <3>3
  <2>3. ASSUME NEW g \in leaked' PROVE sock'[g] # Closed
    <3>1. g \in Fds
      BY <1>3 DEF SocketsInv, SocketsTypeOK
    <3>2. r # Closed
      BY ObjectsDiffer
    <3> QED
      BY <1>3, <1>4, <3>1, <3>2
  <2>4. affected' \cap Receivers = {} => affected' = {}
    BY <1>2, <1>3, <1>k DEF SocketsInv, OwnersInv
  <2> QED
    BY <2>1, <2>2, <2>3, <2>4 DEF OwnersInv
<1>12. PolledInv'
  <2>1. SUFFICES ASSUME affected = {}, kept = {}
                 PROVE  /\ \A g \in Fds : sock'[g] # Closed => (g \in Held \cup leaked)'
                        /\ \A i \in DOMAIN list : \E q \in Receivers : x_connectsocket'[q] = list[i].fd
    BY <1>3, <1>5 DEF PolledInv
  <2>2. ASSUME NEW g \in Fds, sock'[g] # Closed PROVE (g \in Held \cup leaked)'
    <3>1. CASE g \in forgotten
      BY <1>3, <3>1
    <3>2. CASE g \notin forgotten
      <4>1. g # old /\ g \in Held \cup leaked
        BY <1>3, <1>4, <1>5, <2>1, <2>2, <3>2
      <4> QED
        BY <1>3, <1>9, <1>c, <4>1 DEF Held
    <3> QED
      BY <3>1, <3>2
  <2>3. ASSUME NEW i \in DOMAIN list
        PROVE  \E q \in Receivers : x_connectsocket'[q] = list[i].fd
    BY <1>5, <1>c, <2>1
  <2> QED
    BY <2>2, <2>3
<1>13. WalkInv'
  <2>1. ASSUME affected = {}, at # 0, NEW i \in Ahead', list[i].fd \in readset
        PROVE  list[i].fd \in ready' \cup fresh'
    <3>1. i > at /\ i \in DOMAIN list
      BY <1>3, <1>9, <2>1 DEF Ahead
    <3> QED
      BY <1>5, <2>1, <3>1
  <2> QED
    BY <1>3, <1>9, <2>1 DEF SocketsInv, WalkInv
<1> QED
  BY <1>10, <1>11, <1>12, <1>13 DEF SocketsInv

LEMMA NewSocketStep ==
  ASSUME SocketsInv, NEW r \in Receivers, NewSocket(r)
  PROVE  SocketsInv'
<1> DEFINE old == x_connectsocket[r]
           table == TableWithout(old)
           list == NotPolled(old)
<1>1. /\ at = 0 \/ call # NoCall
      /\ ready' = ready \ {old}
      /\ UNCHANGED <<readset, at, sendvars, call, sending>>
  BY DEF NewSocket, Idle
<1>2. Bound(r, table, list) \/ NotBound(r, table, list) \/ NoAddress(r, table, list)
  BY DEF NewSocket
<1>3. CASE Bound(r, table, list)
  BY <1>1, <1>3, BoundStep
<1>4. CASE NotBound(r, table, list)
  <2> DEFINE none == {}
  <2>1. /\ sock' = [g \in Fds |-> IF g \in none THEN r ELSE table[g]]
        /\ none \in SUBSET Fds /\ \A g \in none : table[g] = Closed
    BY <1>4 DEF NotBound, TableWithout
  <2>2. fresh' \in SUBSET Fds /\ (at # 0 => fresh \subseteq fresh')
    BY <1>4 DEF NotBound, New, SocketsInv, SocketsTypeOK
  <2>3. sys_fdpoll' = list /\ Closes(r, old, TRUE, none) /\ x_connectsocket' = x_connectsocket
    BY <1>4 DEF NotBound
  <2> HIDE DEF none
  <2> QED
    BY <1>1, <2>1, <2>2, <2>3, UnboundStep
<1>5. CASE NoAddress(r, table, list)
  <2> DEFINE fd == Lowest(FreeFds(table))
  <2>1. fd \in Fds /\ table[fd] = Closed
    BY <1>5, LowestIsFree DEF NoAddress
  <2>2. /\ sock' = [table EXCEPT ![fd] = r]
        /\ fresh' = IF at = 0 THEN {} ELSE fresh \cup {fd}
        /\ sys_fdpoll' = list /\ Closes(r, old, TRUE, {fd}) /\ x_connectsocket' = x_connectsocket
    BY <1>5 DEF NoAddress, New
  <2> HIDE DEF fd
  <2>3. sock' = [g \in Fds |-> IF g \in {fd} THEN r ELSE table[g]]
    BY <2>1, <2>2 DEF TableWithout
  <2>4. fresh' \in SUBSET Fds /\ (at # 0 => fresh \subseteq fresh')
    BY <2>1, <2>2 DEF SocketsInv, SocketsTypeOK
  <2>5. {fd} \in SUBSET Fds /\ \A g \in {fd} : table[g] = Closed
    BY <2>1
  <2> QED
    BY <1>1, <2>2, <2>3, <2>4, <2>5, UnboundStep
<1> QED
  BY <1>2, <1>3, <1>4, <1>5

LEMMA FreeReceiverStep ==
  ASSUME SocketsInv, NEW r \in Receivers, FreeReceiver(r)
  PROVE  SocketsInv'
<1> DEFINE none == {}
<1>1. /\ sock' = [g \in Fds |-> IF g \in none THEN r ELSE TableWithout(x_connectsocket[r])[g]]
      /\ none \in SUBSET Fds /\ \A g \in none : TableWithout(x_connectsocket[r])[g] = Closed
  BY DEF FreeReceiver, TableWithout
<1>2. /\ at = 0
      /\ ready' = ready \ {x_connectsocket[r]}
      /\ sys_fdpoll' = NotPolled(x_connectsocket[r])
      /\ Closes(r, x_connectsocket[r], FALSE, none)
      /\ x_connectsocket' = [x_connectsocket EXCEPT ![r] = NoFd]
      /\ UNCHANGED <<readset, at, sendvars, call, sending, fresh>>
  BY DEF FreeReceiver
<1>3. fresh' \in SUBSET Fds /\ (at # 0 => fresh \subseteq fresh')
  BY <1>2 DEF SocketsInv, SocketsTypeOK
<1> HIDE DEF none
<1> QED
  BY <1>1, <1>2, <1>3, UnboundStep

LEMMA ReadsStep ==
  ASSUME SocketsInv, NEW r \in Receivers, NEW fd \in Fds, Read(r, fd)
  PROVE  SocketsInv'
<1>f. \E failed \in BOOLEAN : call' = [obj |-> r, failed |-> failed]
  <2>1. PICK failed \in {TRUE, sock[fd] = Closed} : call' = [obj |-> r, failed |-> failed]
    BY Zenon DEF Read
  <2>2. failed \in BOOLEAN
    BY Zenon
  <2> QED
    BY <2>1, <2>2, Zenon
<1>1. /\ call = NoCall /\ at \in DOMAIN sys_fdpoll /\ sys_fdpoll[at].fd = fd
      /\ ready' = ready \ {fd}
      /\ UNCHANGED <<sys_fdpoll, readset, at, x_fd, reported, x_connectsocket, sending, sock,
                     leaked, affected, fresh>>
  BY DEF Read, AtReadable, pollvars, sendvars, history
<1>2. call' # NoCall
  <2>1. r # "none"
    BY ObjectsDiffer
  <2> QED
    BY <1>f, <2>1 DEF NoCall
<1>3. SocketsTypeOK'
  BY <1>f, <1>1 DEF SocketsInv, SocketsTypeOK
<1>4. OwnersInv' /\ PolledInv'
  BY <1>1 DEF SocketsInv, OwnersInv, PolledInv, TellsItsSocket, ListensOnItsSocket, Held
<1>5. WalkInv'
  <2>1. \A i \in Ahead' : i \in Ahead /\ i # at
    BY <1>1, <1>2, LenProperties DEF Ahead, SocketsInv, SocketsTypeOK
  <2>2. affected = {} => \A i \in Ahead' : sys_fdpoll[i].fd # fd
    BY <1>1, <2>1 DEF Ahead, SocketsInv, PolledInv
  <2> QED
    BY <1>1, <2>1, <2>2 DEF SocketsInv, WalkInv
<1> QED
  BY <1>3, <1>4, <1>5 DEF SocketsInv

LEMMA ReturnStep ==
  ASSUME SocketsInv, Return
  PROVE  SocketsInv'
<1> DEFINE r == call.obj
           old == x_connectsocket[r]
           victims == Victims(r, old)
<1>1. /\ call # NoCall /\ call' = NoCall /\ at' = at + 1
      /\ UNCHANGED <<sys_fdpoll, readset, x_fd, reported, x_connectsocket, sending, fresh>>
  BY DEF Return, Called, sendvars
<1>2. r \in Receivers
  BY <1>1 DEF SocketsInv, SocketsTypeOK
<1>3. Ahead' = Ahead
  BY <1>1, LenProperties DEF Ahead, SocketsInv, SocketsTypeOK
<1>4. CASE ~call.failed
  <2>1. UNCHANGED <<sock, ready, leaked, affected>>
    BY <1>4 DEF Return
  <2>2. SocketsTypeOK'
    BY <1>1, <2>1 DEF SocketsInv, SocketsTypeOK
  <2>3. OwnersInv' /\ PolledInv'
    BY <1>1, <2>1 DEF SocketsInv, OwnersInv, PolledInv, TellsItsSocket, ListensOnItsSocket, Held
  <2>4. WalkInv'
    BY <1>1, <1>3, <2>1 DEF SocketsInv, SocketsTypeOK, WalkInv
  <2> QED
    BY <2>2, <2>3, <2>4 DEF SocketsInv
<1>5. CASE call.failed
  <2>1. /\ sock' = [g \in Fds |-> IF g = old THEN Closed ELSE sock[g]]
        /\ ready' = ready \ {old}
        /\ leaked' = leaked \ {old}
        /\ affected' = affected \cup victims \cup {i \in {r} : old # NoFd}
    BY <1>5 DEF Return, Closes, TableWithout, Victims
  <2>2. /\ old \in Fds \cup {NoFd}
        /\ victims \subseteq Senders \cup Receivers
        /\ affected = {} => victims = {}
        /\ \A s \in Senders : s \notin affected \cup victims /\ x_fd[s] # NoFd => x_fd[s] # old
        /\ \A q \in Receivers :
             q \notin affected \cup victims /\ q # r /\ x_connectsocket[q] # NoFd
               => x_connectsocket[q] # old
    BY <1>2, VictimsOfReceiver
  <2> HIDE DEF r, old, victims
  <2>3. SocketsTypeOK'
    BY <1>1, <1>2, <2>1, <2>2 DEF SocketsInv, SocketsTypeOK
  <2>4. OwnersInv'
    <3>1. ASSUME NEW s \in Senders \ affected' PROVE TellsItsSocket(s)'
      BY <1>1, <2>1, <2>2, <3>1 DEF SocketsInv, SocketsTypeOK, OwnersInv, TellsItsSocket
    <3>2. ASSUME NEW q \in Receivers \ affected' PROVE ListensOnItsSocket(q)'
      <4>1. q = r => old = NoFd
        BY <2>1, <3>2
      <4> QED
        BY <1>1, <2>1, <2>2, <3>2, <4>1 DEF SocketsInv, SocketsTypeOK, OwnersInv, ListensOnItsSocket, old
    <3>3. \A g \in leaked' : sock'[g] # Closed
      BY <2>1 DEF SocketsInv, SocketsTypeOK, OwnersInv
    <3>4. affected' \cap Receivers = {} => affected' = {}
      BY <1>2, <2>1, <2>2 DEF SocketsInv, OwnersInv
    <3> QED
      BY <3>1, <3>2, <3>3, <3>4 DEF OwnersInv
  <2>5. ASSUME affected' = {} PROVE UNCHANGED <<sock, ready, leaked, affected>>
    <3>1. old = NoFd /\ affected = {}
      BY <2>1, <2>5
    <3> QED
      BY <2>1, <2>5, <3>1, ObjectsDiffer DEF SocketsInv, SocketsTypeOK
  <2>6. PolledInv'
    BY <1>1, <2>5 DEF SocketsInv, PolledInv, Held
  <2>7. WalkInv'
    BY <1>1, <1>3, <2>5 DEF SocketsInv, SocketsTypeOK, WalkInv
  <2> QED
    BY <2>3, <2>4, <2>6, <2>7 DEF SocketsInv
<1> QED
  BY <1>4, <1>5

-----------------------------------------------------------------------------
(* Kernel and poll loop.                                                   *)

LEMMA ArriveStep ==
  ASSUME SocketsInv, NEW fd \in Fds, Arrive(fd)
  PROVE  SocketsInv'
<1>1. /\ ready' = ready \cup {fd}
      /\ UNCHANGED <<sys_fdpoll, readset, at, x_fd, reported, x_connectsocket, call, sending, sock,
                     leaked, affected, fresh>>
  BY DEF Arrive, pollvars, sendvars, history
<1> QED
  BY <1>1 DEF SocketsInv, SocketsTypeOK, OwnersInv, PolledInv, WalkInv, Ahead,
              TellsItsSocket, ListensOnItsSocket, Held

\* While nobody is affected nothing in the list is closed: select() answers.
LEMMA ReadableIsReady ==
  ASSUME SocketsInv, affected = {}
  PROVE  Readable = PollFds \cap ready
<1>1. ASSUME NEW fd \in PollFds PROVE sock[fd] # Closed
  <2>1. PICK i \in DOMAIN sys_fdpoll : fd = sys_fdpoll[i].fd
    BY DEF PollFds
  <2>2. PICK r \in Receivers : x_connectsocket[r] = fd
    BY <2>1 DEF SocketsInv, PolledInv
  <2>3. sys_fdpoll[i] \in PollEntry
    BY DEF SocketsInv, SocketsTypeOK
  <2>4. fd # NoFd
    BY <2>1, <2>3, ObjectsDiffer DEF PollEntry
  <2> QED
    BY <2>2, <2>4, ObjectsDiffer DEF SocketsInv, OwnersInv, ListensOnItsSocket
<1> QED
  BY <1>1 DEF Readable

LEMMA RoundStep ==
  ASSUME SocketsInv, Round
  PROVE  SocketsInv'
<1>1. /\ call = NoCall
      /\ fresh' = IF at' = 0 THEN {} ELSE fresh
      /\ UNCHANGED <<x_fd, reported, x_connectsocket, call, sending, sock, ready, leaked, affected>>
  BY DEF Round, sendvars
<1>2. CASE Select(Readable)
  <2>1. /\ at = 0 /\ at' = 1 /\ readset' = Readable \cap PollFds /\ sys_fdpoll' = sys_fdpoll
    BY <1>2 DEF Select
  <2>2. PollFds \subseteq Fds
    <3>1. \A i \in DOMAIN sys_fdpoll : sys_fdpoll[i] \in PollEntry
      BY DEF SocketsInv, SocketsTypeOK
    <3> QED
      BY <3>1 DEF PollFds, PollEntry
  <2>3. SocketsTypeOK'
    BY <1>1, <2>1, <2>2 DEF SocketsInv, SocketsTypeOK
  <2>4. WalkInv'
    BY <1>1, <2>1, ReadableIsReady DEF WalkInv, Ahead
  <2>5. OwnersInv' /\ PolledInv'
    BY <1>1, <2>1 DEF SocketsInv, OwnersInv, PolledInv, TellsItsSocket, ListensOnItsSocket, Held
  <2> QED
    BY <2>3, <2>4, <2>5 DEF SocketsInv
<1>3. CASE Pass
  <2>1. at' = at + 1 /\ UNCHANGED <<sys_fdpoll, readset>>
    BY <1>3 DEF Pass
  <2>2. at' \in Nat /\ at' # 0
    BY <2>1 DEF SocketsInv, SocketsTypeOK
  <2>3. SocketsTypeOK'
    BY <1>1, <2>1, <2>2 DEF SocketsInv, SocketsTypeOK
  <2>4. \A i \in Ahead' : i \in Ahead
    BY <1>1, <2>1, LenProperties DEF Ahead, SocketsInv, SocketsTypeOK
  <2>5. WalkInv'
    BY <1>1, <2>1, <2>2, <2>4 DEF SocketsInv, WalkInv
  <2>6. OwnersInv' /\ PolledInv'
    BY <1>1, <2>1 DEF SocketsInv, OwnersInv, PolledInv, TellsItsSocket, ListensOnItsSocket, Held
  <2> QED
    BY <2>3, <2>5, <2>6 DEF SocketsInv
<1>4. CASE EndRound
  <2>1. at' = 0 /\ readset' = {} /\ sys_fdpoll' = sys_fdpoll
    BY <1>4 DEF EndRound
  <2> QED
    BY <1>1, <2>1 DEF SocketsInv, SocketsTypeOK, WalkInv, OwnersInv, PolledInv,
                      TellsItsSocket, ListensOnItsSocket, Held
<1> QED
  BY <1>2, <1>3, <1>4 DEF Round

-----------------------------------------------------------------------------
(* All steps, and what follows.                                            *)

\* What send does to what is sent changes nothing of this.
LEMMA SendingStep ==
  ASSUME SocketsInv,
         UNCHANGED <<pollvars, sendvars, x_connectsocket, call, sock, ready, history>>,
         sending' # NotSending => "obj" \in DOMAIN sending' /\ sending'.obj \in Senders
  PROVE  SocketsInv'
<1>1. UNCHANGED <<sys_fdpoll, readset, at, x_fd, reported, x_connectsocket, call, sock, ready,
                  leaked, affected, fresh>>
  BY DEF pollvars, sendvars, history
<1> QED
  BY <1>1 DEF SocketsInv, SocketsTypeOK, OwnersInv, PolledInv, WalkInv, Ahead,
              TellsItsSocket, ListensOnItsSocket, Held

LEMMA SocketsStep == SocketsInv /\ [MNext]_mvars => SocketsInv'
<1> SUFFICES ASSUME SocketsInv, [MNext]_mvars PROVE SocketsInv'
  OBVIOUS
<1>1. ASSUME NEW s \in Senders, Connect(s) \/ BadHost(s) PROVE SocketsInv'
  BY <1>1, ConnectStep, BadHostStep
<1>2. ASSUME NEW s \in Senders, Disconnect(s) PROVE SocketsInv'
  BY <1>2, CloseSocketStep DEF Disconnect
<1>3. ASSUME NEW s \in Senders, NEW m \in Messages, Send(s, m) PROVE SocketsInv'
  BY <1>3, SendingStep DEF Send
<1>4. CASE SendTurn
  <2>1. PICK n \in 1..BYTE_BUF_LEN : SendRest(n)
    BY <1>4 DEF SendTurn
  <2>2. "obj" \in DOMAIN sending' /\ sending'.obj \in Senders
    BY <1>4, <2>1 DEF SendTurn, SendRest, SocketsInv, SocketsTypeOK
  <2> QED
    BY <1>4, <2>2, SendingStep DEF SendTurn
<1>5. CASE SendEnds
  BY <1>5, SendingStep DEF SendEnds
<1>6. CASE SendFails
  <2>1. sending.obj \in Senders
    BY <1>6 DEF SendFails, SocketsInv, SocketsTypeOK
  <2> QED
    BY <1>6, <2>1, CloseSocketStep DEF SendFails
<1>7. ASSUME NEW r \in Receivers, NewSocket(r) \/ FreeReceiver(r) PROVE SocketsInv'
  BY <1>7, NewSocketStep, FreeReceiverStep
<1>8. ASSUME NEW r \in Receivers, NEW fd \in Fds, Read(r, fd) PROVE SocketsInv'
  BY <1>8, ReadsStep
<1>9. CASE Return
  BY <1>9, ReturnStep
<1>10. ASSUME NEW fd \in Fds, Arrive(fd) PROVE SocketsInv'
  BY <1>10, ArriveStep
<1>11. CASE Round
  BY <1>11, RoundStep
<1>12. CASE UNCHANGED mvars
  <2>1. sending' = sending
    BY <1>12 DEF mvars
  <2> QED
    BY <1>12, <2>1, SendingStep DEF mvars, SocketsInv, SocketsTypeOK
<1> QED
  BY <1>1, <1>2, <1>3, <1>4, <1>5, <1>6, <1>7, <1>8, <1>9, <1>10, <1>11, <1>12 DEF MNext

LEMMA OneEntryEach ==
  ASSUME SocketsInv, affected = {}
  PROVE  Len(sys_fdpoll) = Cardinality(PollFds)
<1> DEFINE n == Len(sys_fdpoll)
           f == [i \in 1..n |-> sys_fdpoll[i].fd]
<1>1. n \in Nat /\ DOMAIN sys_fdpoll = 1..n
  BY LenProperties DEF SocketsInv, SocketsTypeOK
<1>2. f \in Bijection(1..n, PollFds)
  <2>1. f \in Injection(1..n, PollFds)
    BY <1>1 DEF SocketsInv, PolledInv, Injection, IsInjective, PollFds
  <2>2. f \in Surjection(1..n, PollFds)
    BY <1>1 DEF Surjection, PollFds
  <2> QED
    BY <2>1, <2>2 DEF Bijection
<1>3. IsFiniteSet(1..n) /\ Cardinality(1..n) = n
  <2> HIDE DEF n
  <2> QED
    BY <1>1, FS_Interval
<1>4. Cardinality(1..n) = Cardinality(PollFds)
  BY <1>2, <1>3, FS_Bijection DEF ExistsBijection
<1> QED
  BY <1>3, <1>4

LEMMA SocketsInvImplies == SocketsInv => UsesItsOwn
<1> SUFFICES ASSUME SocketsInv PROVE UsesItsOwn
  OBVIOUS
<1>1. ASSUME affected = {}
      PROVE  /\ Fds \ FreeFds(sock) = (Held \ {NoFd}) \cup leaked
             /\ PollFds = {x_connectsocket[r] : r \in Receivers} \ {NoFd}
  <2>1. ASSUME NEW fd \in Held, fd # NoFd PROVE fd \in Fds /\ sock[fd] # Closed
    <3>1. ASSUME NEW s \in Senders, fd = x_fd[s] PROVE fd \in Fds /\ sock[fd] # Closed
      BY <1>1, <2>1, <3>1, ObjectsDiffer DEF SocketsInv, SocketsTypeOK, OwnersInv, TellsItsSocket
    <3>2. ASSUME NEW r \in Receivers, fd = x_connectsocket[r] PROVE fd \in Fds /\ sock[fd] # Closed
      <4>1. ListensOnItsSocket(r)
        BY <1>1 DEF SocketsInv, OwnersInv
      <4>2. sock[fd] = r /\ r # Closed
        BY <2>1, <3>2, <4>1, ObjectsDiffer DEF ListensOnItsSocket
      <4> QED
        BY <2>1, <3>2, <4>2 DEF SocketsInv, SocketsTypeOK
    <3> QED
      BY <3>1, <3>2 DEF Held
  <2>2. \A fd \in leaked : fd \in Fds /\ sock[fd] # Closed
    BY DEF SocketsInv, SocketsTypeOK, OwnersInv
  <2>3. \A fd \in Fds : sock[fd] # Closed => fd \in (Held \ {NoFd}) \cup leaked
    BY <1>1, ObjectsDiffer DEF SocketsInv, PolledInv
  <2>4. Fds \ FreeFds(sock) = (Held \ {NoFd}) \cup leaked
    BY <2>1, <2>2, <2>3 DEF FreeFds
  <2>5. ASSUME NEW fd \in PollFds PROVE fd \in {x_connectsocket[r] : r \in Receivers} \ {NoFd}
    <3>1. PICK i \in DOMAIN sys_fdpoll : fd = sys_fdpoll[i].fd
      BY DEF PollFds
    <3>2. sys_fdpoll[i] \in PollEntry
      BY DEF SocketsInv, SocketsTypeOK
    <3> QED
      BY <1>1, <3>1, <3>2, ObjectsDiffer DEF SocketsInv, PolledInv, PollEntry
  <2>6. ASSUME NEW r \in Receivers, x_connectsocket[r] # NoFd PROVE x_connectsocket[r] \in PollFds
    <3>1. [fd |-> x_connectsocket[r], fn |-> "read", obj |-> r] \in Range(sys_fdpoll)
      BY <1>1, <2>6 DEF SocketsInv, OwnersInv, ListensOnItsSocket
    <3> QED
      BY <3>1 DEF Range, PollFds
  <2> QED
    BY <2>4, <2>5, <2>6
<1>2. HoldsItsOwn
  BY <1>1, OneEntryEach DEF HoldsItsOwn, SocketsInv, OwnersInv
<1>3. NeverBlocks
  <2>1. SUFFICES ASSUME AtReadable, call = NoCall, affected \cap Receivers = {},
                        sys_fdpoll[at].fd \notin fresh
                 PROVE  sys_fdpoll[at].fd \in ready
    BY DEF NeverBlocks
  <2>2. at \in Ahead /\ sys_fdpoll[at].fd \in readset
    BY <2>1 DEF AtReadable, Ahead
  <2> QED
    BY <2>1, <2>2 DEF SocketsInv, OwnersInv, WalkInv
<1> QED
  BY <1>2, <1>3 DEF UsesItsOwn

\* An object's number is that of its own open socket and Pd does not wait in
\* recvfrom(), for any numbers of objects and descriptors, whatever the patch sends
\* them, also from within what udpreceive puts out while the loop is at it.
THEOREM ObjectsUseTheirOwn == MSpec => []UsesItsOwn
<1>1. MInit => SocketsInv
  BY SocketsBegin
<1>2. SocketsInv /\ [MNext]_mvars => SocketsInv'
  BY SocketsStep
<1>3. SocketsInv => UsesItsOwn
  BY SocketsInvImplies
<1> QED
  BY <1>1, <1>2, <1>3, PTL DEF MSpec

-----------------------------------------------------------------------------
(* What udpsend and tcpsend send.                                          *)

\* The bytes there are in messages.
Octets == UNION {UNION {Range(item) : item \in Range(m) \ {BadItem}} : m \in Messages}

\* byte_buf after the first n items of a message, by the equation that defines it.
LEMMA BytesIsDefined ==
  ASSUME NEW m, Len(m) \in Nat
  PROVE  \E buf :
           /\ Bytes(m) = buf[Len(m)]
           /\ buf[0] = <<>>
           /\ \A n \in 1..Len(m) :
                buf[n] = SubSeq(buf[n - 1] \o m[n], 1, Min({Len(buf[n - 1] \o m[n]), BYTE_BUF_LEN}))
<1> DEFINE Cut(b) == SubSeq(b, 1, Min({Len(b), BYTE_BUF_LEN}))
           ItemStep(f, n) == IF n = 0 THEN <<>> ELSE Cut(f[n - 1] \o m[n])
           Solves(f, k) == f = [n \in 0..k |-> ItemStep(f, n)]
           Bad == {k \in 0..Len(m) : ~ \E f : Solves(f, k)}
<1>d. \A b : Cut(b) = SubSeq(b, 1, Min({Len(b), BYTE_BUF_LEN}))
  OBVIOUS
<1>3. Bytes(m) = (CHOOSE f : Solves(f, Len(m)))[Len(m)]
  BY DEF Bytes
<1> HIDE DEF Cut
<1>1. Bad = {}
  <2>1. SUFFICES ASSUME Bad # {} PROVE FALSE
    OBVIOUS
  <2>2. PICK k \in Bad : \A j \in Bad : k <= j
    <3> HIDE DEF Solves
    <3>1. Bad \subseteq Nat
      OBVIOUS
    <3> HIDE DEF Bad
    <3> QED
      BY <2>1, <3>1, LeastNatural
  <2>3. k # 0
    <3>1. Solves([n \in 0..0 |-> <<>>], 0)
      OBVIOUS
    <3> HIDE DEF Solves
    <3> QED
      BY <3>1
  <2>4. PICK f : Solves(f, k - 1)
    <3> HIDE DEF Solves
    <3>1. k - 1 \in 0..Len(m) /\ k - 1 \notin Bad
      BY <2>2, <2>3
    <3> QED
      BY <3>1
  <2> DEFINE g == [n \in 0..k |-> IF n = k THEN ItemStep(f, k) ELSE f[n]]
  <2>5. Solves(g, k)
    <3>1. \A n \in 0..(k - 1) : f[n] = ItemStep(f, n)
      BY <2>4
    <3>2. \A n \in 0..k : g[n] = ItemStep(g, n)
      <4>1. ASSUME NEW n \in 0..k, n = k PROVE g[n] = ItemStep(g, n)
        <5>1. g[k] = ItemStep(f, k)
          OBVIOUS
        <5>2. k - 1 \in 0..k /\ k - 1 # k /\ g[k - 1] = f[k - 1]
          BY <2>3
        <5> HIDE DEF g
        <5> QED
          BY <4>1, <5>1, <5>2, <2>3
      <4>2. ASSUME NEW n \in 0..k, n # k PROVE g[n] = ItemStep(g, n)
        <5>1. g[n] = f[n] /\ f[n] = ItemStep(f, n)
          BY <3>1, <4>2
        <5>2. n # 0 => g[n - 1] = f[n - 1]
          BY <4>2
        <5> HIDE DEF g
        <5> QED
          BY <5>1, <5>2
      <4> QED
        BY <4>1, <4>2
    <3>3. g = [n \in 0..k |-> g[n]]
      OBVIOUS
    <3> HIDE DEF g
    <3>4. [n \in 0..k |-> g[n]] = [n \in 0..k |-> ItemStep(g, n)]
      BY <3>2
    <3> QED
      BY <3>3, <3>4
  <2> HIDE DEF Solves
  <2> QED
    BY <2>2, <2>5
<1> DEFINE buf == CHOOSE f : Solves(f, Len(m))
<1>2. Solves(buf, Len(m))
  <2> HIDE DEF Solves
  <2>1. \E f : Solves(f, Len(m))
    BY <1>1
  <2> QED
    BY <2>1
<1>4. Bytes(m) = buf[Len(m)]
  BY <1>3
<1> HIDE DEF buf
<1>5. \A n \in 0..Len(m) : buf[n] = ItemStep(buf, n)
  BY <1>2
<1>6. buf[0] = <<>> /\ \A n \in 1..Len(m) : buf[n] = Cut(buf[n - 1] \o m[n])
  BY <1>5
<1> QED
  BY <1>4, <1>6, <1>d

\* No more than there is room for, whatever the items are.
LEMMA MinIsBelow ==
  ASSUME NEW a \in Nat, NEW b \in Nat
  PROVE  Min({a, b}) \in Nat /\ Min({a, b}) <= a /\ Min({a, b}) <= b
<1>1. {a, b} \subseteq Nat /\ {a, b} # {}
  OBVIOUS
<1>2. Min({a, b}) \in {a, b} /\ \A y \in {a, b} : Min({a, b}) <= y
  BY <1>1, LeastElement
<1> QED
  BY <1>2

LEMMA BytesAreOctets ==
  ASSUME NEW m \in Messages, ~Refused(m)
  PROVE  Bytes(m) \in Seq(Octets) /\ Len(Bytes(m)) <= BYTE_BUF_LEN
<1>1. /\ m \in Seq(Range(m)) /\ Len(m) \in Nat /\ DOMAIN m = 1..Len(m)
      /\ \A n \in 1..Len(m) : m[n] \in Seq(Octets)
  <2>1. m \in Seq(Range(m))
    BY MessageSocketsAssumption
  <2>2. Len(m) \in Nat /\ DOMAIN m = 1..Len(m)
    BY <2>1, LenProperties
  <2>3. ASSUME NEW n \in 1..Len(m) PROVE m[n] \in Seq(Octets)
    <3>1. m[n] \in Range(m) /\ m[n] # BadItem
      BY <2>2 DEF Range, Refused
    <3>2. m[n] \in Seq(Range(m[n]))
      BY <3>1, MessageSocketsAssumption
    <3>3. Range(m[n]) \subseteq Octets
      BY <3>1 DEF Octets
    <3> QED
      BY <3>2, <3>3, SeqMonotonic
  <2> QED
    BY <2>1, <2>2, <2>3
<1>2. PICK buf :
        /\ Bytes(m) = buf[Len(m)]
        /\ buf[0] = <<>>
        /\ \A n \in 1..Len(m) :
             buf[n] = SubSeq(buf[n - 1] \o m[n], 1, Min({Len(buf[n - 1] \o m[n]), BYTE_BUF_LEN}))
  BY <1>1, BytesIsDefined
<1> DEFINE Good(n) == buf[n] \in Seq(Octets) /\ Len(buf[n]) <= BYTE_BUF_LEN
           Bad == {n \in 0..Len(m) : ~Good(n)}
<1>3. Good(0)
  BY <1>2, EmptySeq, MessageSocketsAssumption
<1>4. ASSUME NEW n \in 1..Len(m), Good(n - 1) PROVE Good(n)
  <2> DEFINE b == buf[n - 1] \o m[n]
             l == Min({Len(b), BYTE_BUF_LEN})
  <2>1. b \in Seq(Octets)
    BY <1>1, <1>4, ConcatProperties
  <2>2. buf[n] = SubSeq(b, 1, l)
    BY <1>2
  <2> HIDE DEF b
  <2>3. Len(b) \in Nat /\ \A i \in 1..Len(b) : b[i] \in Octets
    BY <2>1, LenProperties, ElementOfSeq
  <2>4. l \in Nat /\ l <= Len(b) /\ l <= BYTE_BUF_LEN
    BY <2>3, MinIsBelow, MessageSocketsAssumption
  <2> HIDE DEF l
  <2>5. \A i \in 1..l : b[i] \in Octets
    BY <2>3, <2>4
  <2>6. SubSeq(b, 1, l) \in Seq(Octets) /\ Len(SubSeq(b, 1, l)) = IF 1 <= l THEN l - 1 + 1 ELSE 0
    BY <2>4, <2>5, SubSeqProperties
  <2>7. Len(SubSeq(b, 1, l)) = l
    BY <2>4, <2>6
  <2> QED
    BY <2>2, <2>4, <2>6, <2>7
<1> HIDE DEF Good
<1>5. Bad = {}
  <2>1. SUFFICES ASSUME Bad # {} PROVE FALSE
    OBVIOUS
  <2>2. PICK n \in Bad : \A k \in Bad : n <= k
    <3>1. Bad \subseteq Nat
      BY <1>1
    <3> HIDE DEF Bad
    <3> QED
      BY <2>1, <3>1, LeastNatural
  <2>3. n \in 1..Len(m) /\ n - 1 \in 0..Len(m)
    BY <1>1, <1>3, <2>2
  <2>4. Good(n - 1)
    BY <2>2, <2>3
  <2> QED
    BY <1>4, <2>2, <2>3, <2>4
<1>6. Good(Len(m))
  BY <1>1, <1>5
<1> QED
  BY <1>2, <1>6 DEF Good

\* What is being sent: the first part is the beginning of byte_buf; a datagram is sent
\* in one part, if it is the object's own socket it is sent through.
Sending ==
  [obj : Senders, byte_buf : Seq(Octets), sent : Nat, parts : Nat, wire : Seq(Octets)]

SendingInv ==
  sending # NotSending =>
    /\ sending \in Sending
    /\ sending.sent = Len(sending.wire)
    /\ sending.sent <= Len(sending.byte_buf)
    /\ sending.parts = 0 => sending.wire = <<>>
    /\ sending.parts = 1 => IsPrefix(sending.wire, sending.byte_buf)
    /\ sending.obj \notin affected =>
         /\ x_fd[sending.obj] # NoFd
         /\ sending.parts > 0 /\ sending.obj \in UdpSenders =>
              sending.parts = 1 /\ sending.sent = Len(sending.byte_buf)

SendsInv == SocketsInv /\ SendingInv

LEMMA SendBegins ==
  ASSUME SendsInv, NEW s \in Senders, NEW m \in Messages, Send(s, m)
  PROVE  SendingInv'
<1>1. /\ sending' = [obj |-> s, byte_buf |-> Bytes(m), sent |-> 0, parts |-> 0, wire |-> <<>>]
      /\ x_fd[s] # NoFd /\ UNCHANGED x_fd
  BY DEF Send, sendvars
<1>2. Bytes(m) \in Seq(Octets) /\ Len(Bytes(m)) \in Nat
  BY BytesAreOctets, LenProperties DEF Send
<1>3. <<>> \in Seq(Octets) /\ Len(<<>>) = 0
  BY EmptySeq
<1>4. sending' \in Sending
  BY <1>1, <1>2, <1>3 DEF Sending
<1> QED
  BY <1>1, <1>2, <1>3, <1>4 DEF SendingInv

\* Where a socket is the object's own, a datagram goes as a whole.
LEMMA PartTaken ==
  ASSUME SendsInv, sending # NotSending, NEW n \in 1..BYTE_BUF_LEN,
         n \in Takes(x_fd[sending.obj], Len(sending.byte_buf) - sending.sent)
  PROVE  /\ n <= Len(sending.byte_buf) - sending.sent
         /\ sending.obj \notin affected /\ sending.obj \in UdpSenders =>
              n = Len(sending.byte_buf) - sending.sent
<1> DEFINE fd == x_fd[sending.obj]
           length == Len(sending.byte_buf) - sending.sent
<1>1. sending \in Sending /\ sending.obj \in Senders
  BY DEF SendsInv, SendingInv, Sending
<1>2. length \in Int
  BY <1>1, LenProperties DEF Sending
<1>3. sending.obj \notin affected => sock[fd] = sending.obj
  BY <1>1 DEF SendsInv, SocketsInv, OwnersInv, SendingInv, TellsItsSocket
<1> HIDE DEF fd, length
<1>4. n \in Takes(fd, length)
  BY DEF fd, length
<1>5. n <= length
  BY <1>2, <1>4 DEF Takes
<1>6. sending.obj \notin affected /\ sending.obj \in UdpSenders => n = length
  BY <1>3, <1>4 DEF Takes
<1> QED
  BY <1>5, <1>6 DEF length

LEMMA SendTurnStep ==
  ASSUME SendsInv, SendTurn
  PROVE  SendingInv'
<1>1. PICK n \in 1..BYTE_BUF_LEN : SendRest(n)
  BY DEF SendTurn
<1>2. /\ sending # NotSending /\ sending.sent < Len(sending.byte_buf)
      /\ UNCHANGED <<x_fd, affected>>
  BY DEF SendTurn, sendvars, history
<1>3. /\ sending \in Sending
      /\ sending.sent = Len(sending.wire)
      /\ sending.sent <= Len(sending.byte_buf)
      /\ sending.parts = 0 => sending.wire = <<>>
  BY <1>2 DEF SendsInv, SendingInv
<1> DEFINE b == sending.byte_buf
           w == sending.wire
           p == SubSeq(b, 1, n)
<1>4. b \in Seq(Octets) /\ w \in Seq(Octets) /\ Len(b) \in Nat /\ Len(w) \in Nat
  BY <1>3, LenProperties DEF Sending
<1>5. /\ n <= Len(b) - sending.sent
      /\ sending.obj \notin affected /\ sending.obj \in UdpSenders => n = Len(b) - sending.sent
  BY <1>1, <1>2, PartTaken DEF SendRest
<1>6. sending' = [sending EXCEPT !.sent = @ + n, !.parts = @ + 1, !.wire = @ \o SubSeq(b, 1, n)]
  BY <1>1 DEF SendRest
<1> HIDE DEF b, w
<1>7. sending.sent = Len(w) /\ sending.sent \in Nat /\ sending.parts \in Nat /\ n \in Nat \ {0} /\ n <= Len(b)
  BY <1>3, <1>4, <1>5, MessageSocketsAssumption DEF Sending, w
<1>8. p \in Seq(Octets) /\ Len(p) = n
  <2>1. \A i \in 1..n : b[i] \in Octets
    BY <1>4, <1>7, ElementOfSeq
  <2>2. p \in Seq(Octets) /\ Len(p) = IF 1 <= n THEN n - 1 + 1 ELSE 0
    BY <1>7, <2>1, SubSeqProperties
  <2> QED
    BY <1>7, <2>2
<1>9. w \o p \in Seq(Octets) /\ Len(w \o p) = Len(w) + n
  <2> HIDE DEF p
  <2> QED
    BY <1>4, <1>8, ConcatProperties
<1>10. w = <<>> => w \o p = p
  <2> HIDE DEF p
  <2> QED
    BY <1>8, ConcatEmptySeq
<1>11. IsPrefix(p, b)
  <2>1. SubSeq(p, 1, Len(p)) = p
    BY <1>8, SubSeqFull
  <2>2. Len(p) = n
    BY <1>8
  <2>3. SubSeq(p, 1, Len(p)) = SubSeq(b, 1, Len(p))
    BY <2>1, <2>2
  <2> QED
    BY <1>7, <2>2, <2>3 DEF IsPrefix
<1> DEFINE q == w \o p
<1>12. /\ sending'.obj = sending.obj /\ sending'.byte_buf = b /\ sending'.sent = sending.sent + n
       /\ sending'.parts = sending.parts + 1 /\ sending'.wire = q
       /\ sending' = [obj |-> sending'.obj, byte_buf |-> sending'.byte_buf, sent |-> sending'.sent,
                      parts |-> sending'.parts, wire |-> sending'.wire]
  BY <1>3, <1>6 DEF Sending, b, w
<1>13. sending.obj \in Senders
  BY <1>3 DEF Sending
<1> HIDE DEF p, q
<1>14. q \in Seq(Octets) /\ Len(q) = sending.sent + n /\ (sending.parts = 0 => q = p /\ sending.sent = 0)
  BY <1>3, <1>7, <1>9, <1>10, EmptySeq DEF q, w
<1>15. sending' \in Sending
  BY <1>4, <1>7, <1>12, <1>13, <1>14 DEF Sending
<1>16. /\ sending'.sent = Len(sending'.wire)
       /\ sending'.sent <= Len(sending'.byte_buf)
       /\ sending'.parts # 0
  BY <1>4, <1>5, <1>7, <1>12, <1>14
<1>17. sending'.parts = 1 => IsPrefix(sending'.wire, sending'.byte_buf)
  BY <1>7, <1>11, <1>12, <1>14
<1>18. ASSUME sending'.obj \notin affected'
       PROVE  /\ x_fd'[sending'.obj] # NoFd
              /\ sending'.parts > 0 /\ sending'.obj \in UdpSenders =>
                   sending'.parts = 1 /\ sending'.sent = Len(sending'.byte_buf)
  <2>1. sending.obj \notin affected /\ x_fd[sending.obj] # NoFd
    BY <1>2, <1>12, <1>18 DEF SendsInv, SendingInv
  <2>2. ASSUME sending.obj \in UdpSenders
        PROVE  sending.parts = 0 /\ sending.sent + n = Len(b)
    <3>1. n = Len(b) - sending.sent
      BY <1>5, <2>1, <2>2
    <3>2. ~(sending.parts > 0)
      BY <1>2, <1>3, <2>1, <2>2 DEF SendsInv, SendingInv
    <3> QED
      BY <1>4, <1>7, <3>1, <3>2
  <2> QED
    BY <1>2, <1>7, <1>12, <2>1, <2>2
<1> QED
  BY <1>15, <1>16, <1>17, <1>18 DEF SendingInv

LEMMA SendsStep == SendsInv /\ [MNext]_mvars => SendsInv'
<1> SUFFICES ASSUME SendsInv, [MNext]_mvars PROVE SendsInv'
  OBVIOUS
<1>1. SocketsInv'
  BY SocketsStep DEF SendsInv
<1>2. ASSUME sending' = NotSending PROVE SendingInv'
  BY <1>2 DEF SendingInv
<1>3. ASSUME sending = NotSending, sending' = sending PROVE SendingInv'
  BY <1>3 DEF SendingInv
<1>4. ASSUME UNCHANGED <<sending, x_fd, affected>> PROVE SendingInv'
  BY <1>4 DEF SendsInv, SendingInv
<1>5. ASSUME NEW s \in Senders, Connect(s) \/ BadHost(s) \/ Disconnect(s) PROVE SendingInv'
  BY <1>3, <1>5 DEF Connect, BadHost, Disconnect, Idle
<1>6. ASSUME NEW s \in Senders, NEW m \in Messages, Send(s, m) PROVE SendingInv'
  BY <1>6, SendBegins
<1>7. ASSUME SendTurn PROVE SendingInv'
  BY <1>7, SendTurnStep
<1>8. ASSUME SendEnds \/ SendFails PROVE SendingInv'
  BY <1>2, <1>8 DEF SendEnds, SendFails
<1>9. ASSUME NEW r \in Receivers, NewSocket(r) \/ FreeReceiver(r) PROVE SendingInv'
  BY <1>3, <1>9 DEF NewSocket, FreeReceiver, Idle
<1>10. ASSUME NEW r \in Receivers, NEW fd \in Fds, Read(r, fd) PROVE SendingInv'
  BY <1>3, <1>10 DEF Read
<1>11. ASSUME Return \/ Round PROVE SendingInv'
  BY <1>3, <1>11 DEF Return, Round
<1>12. ASSUME NEW fd \in Fds, Arrive(fd) PROVE SendingInv'
  BY <1>4, <1>12 DEF Arrive, sendvars, history
<1>13. ASSUME UNCHANGED mvars PROVE SendingInv'
  BY <1>4, <1>13 DEF mvars, sendvars, history
<1>14. SendingInv'
  BY <1>5, <1>6, <1>7, <1>8, <1>9, <1>10, <1>11, <1>12, <1>13 DEF MNext
<1> QED
  BY <1>1, <1>14 DEF SendsInv

\* As many bytes leave as the message has, whatever its items and however many of them
\* the system takes at a time, and through the object's own socket; a datagram, and
\* what the system takes in one part, is the message.
THEOREM SendersSendTheMessage == MSpec => []SendsTheMessage
<1>1. MInit => SendsInv
  BY SocketsBegin DEF SendsInv, SendingInv, MInit
<1>2. SendsInv /\ [MNext]_mvars => SendsInv'
  BY SendsStep
<1>3. SendsInv => SendsTheMessage
  <2> SUFFICES ASSUME SendsInv, sending # NotSending
               PROVE  /\ sending.sent = Len(sending.wire)
                      /\ sending.sent <= Len(sending.byte_buf)
                      /\ sending.parts = 1 => IsPrefix(sending.wire, sending.byte_buf)
                      /\ sending.obj \notin affected =>
                           /\ sock[x_fd[sending.obj]] = sending.obj
                           /\ sending.parts > 1 => sending.obj \in TcpSenders
    BY DEF SendsTheMessage
  <2>1. sending \in Sending /\ sending.obj \in Senders /\ sending.parts \in Nat
    BY DEF SendsInv, SendingInv, Sending
  <2>2. sending.obj \notin affected => sock[x_fd[sending.obj]] = sending.obj
    BY <2>1 DEF SendsInv, SendingInv, SocketsInv, OwnersInv, TellsItsSocket
  <2>3. sending.obj \notin affected /\ sending.parts > 1 => sending.obj \in TcpSenders
    BY <2>1 DEF SendsInv, SendingInv, Senders
  <2> QED
    BY <2>2, <2>3 DEF SendsInv, SendingInv
<1> QED
  BY <1>1, <1>2, <1>3, PTL DEF MSpec
=============================================================================
