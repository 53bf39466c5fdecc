------------------------------ MODULE DspGraph ------------------------------
(***************************************************************************)
(* How Pd sorts the signal objects of a patch into the chain of routines   *)
(* that it runs for every block of samples.  An object goes to the chain   *)
(* when the last of its inlets has got its signal, depth first; a buffer   *)
(* is given to another signal when the last who needs it is on the chain.  *)
(* Several signals of one inlet are summed two by two.  A subpatch is      *)
(* sorted in its turn, when the box that stands for it is; the signals     *)
(* into and out of it are not copied: they borrow the buffer.              *)
(*                                                                         *)
(* All this is one call of C, here a step per box and connection, with the *)
(* calls that have not returned on a stack.  No canvas has a block~ that   *)
(* changes its block size, so that all signals are alike; it may have a    *)
(* switch~, which turns it on and off.  External are the routines of the   *)
(* objects: each reads its inlets, and then writes its outlets.            *)
(***************************************************************************)
EXTENDS Integers, SequencesExt, FiniteSetsExt, Bags

CONSTANTS
  Patches,  \* records [list, kind, ins, outs, port, switched, wires]: of each canvas its
            \* boxes in order; of each box what it is, how many signal inlets and
            \* outlets it has, and which one of its canvas's it is; canvases with
            \* a switch~; connections.  The canvas Top is no box.
  MaxEdits  \* bound on the connections made and taken away

Top == "top"

VARIABLES
  patch,
  wires,    \* of each outlet, the inlets it is connected to, oldest first
  edits,    \* how many changes of wires there were
  on,       \* canvases whose switch~ is on
  dspstate, \* "off", "sorting" or "on"
  \* the sort
  stack,    \* calls: of ugen_done_graph, with the boxes it has still to look at,
            \* and of ugen_doit, with where it is and the connections it has not served
  u_done,   \* boxes that have been through ugen_doit
  i_ngot,   \* of each inlet, how many connections have been served
  i_signal, \* of each inlet, its signal, or 0
  o_signal, \* of each outlet
  pool,     \* the signals, and the ones to be reused, of their own and borrowing
  \* what comes of it
  chain,
  mem,      \* what the buffers hold: a bag of those whose output is summed in it
  performed \* what the boxes heard in the last tick

sortvars == <<stack, u_done, i_ngot, i_signal, o_signal, pool, chain>>
dspvars == <<patch, wires, edits, on, dspstate, sortvars, mem, performed>>

Canvases == DOMAIN patch.list
Boxes == DOMAIN patch.kind
CanvasOf(b) == CHOOSE c \in Canvases : b \in Range(patch.list[c])
InletsOf(b) == {<<b, i>> : i \in 1..patch.ins[b]}
OutletsOf(b) == {<<b, i>> : i \in 1..patch.outs[b]}
Inlets == UNION {InletsOf(b) : b \in Boxes}
Outlets == UNION {OutletsOf(b) : b \in Boxes}

\* The connections of an inlet.
SourcesOf(inlet) ==
  UNION {{<<o, k>> : k \in {j \in DOMAIN wires[o] : wires[o][j] = inlet}} : o \in Outlets}

i_nconnect(inlet) == Cardinality(SourcesOf(inlet))

NoSignals == [sig |-> <<>>, freelist |-> <<>>, freeborrowed |-> <<>>]

NotPerformed == <<[box |-> "none", heard |-> <<>>]>>

DInit ==
  /\ patch \in Patches
  /\ wires = patch.wires
  /\ edits = 0
  /\ on = {}
  /\ dspstate = "off"
  /\ stack = <<>> /\ u_done = {} /\ chain = <<>>
  /\ i_ngot = [i \in Inlets |-> 0]
  /\ i_signal = [i \in Inlets |-> 0]
  /\ o_signal = [o \in Outlets |-> 0]
  /\ pool = NoSignals
  /\ mem = <<>>
  /\ performed = NotPerformed

-----------------------------------------------------------------------------
(* Signals.  One that borrows has the buffer of another.                   *)

\* signal_new, for n # 0 and for n = 0: the first of the list, or a new one.
Reused(p, list) == IF list = <<>> THEN Len(p.sig) + 1 ELSE Head(list)
NewSignal(p) == Reused(p, p.freelist)
NewBorrowed(p) == Reused(p, p.freeborrowed)

Put(p, s, signal) ==
  IF s \in DOMAIN p.sig THEN [p.sig EXCEPT ![s] = signal] ELSE Append(p.sig, signal)

WithSignal(p, refs) ==
  [p EXCEPT !.sig = Put(p, NewSignal(p),
                        [borrows |-> FALSE, from |-> 0, vec |-> NewSignal(p), refs |-> refs]),
            !.freelist = IF @ = <<>> THEN @ ELSE Tail(@)]

WithBorrowed(p, refs) ==
  [p EXCEPT !.sig = Put(p, NewBorrowed(p),
                        [borrows |-> TRUE, from |-> 0, vec |-> 0, refs |-> refs]),
            !.freeborrowed = IF @ = <<>> THEN @ ELSE Tail(@)]

\* signal_setborrowed
Borrowing(p, s, s2) ==
  [p EXCEPT !.sig[s].from = s2, !.sig[s].vec = p.sig[s2].vec]

Counted(p, s, n) == [p EXCEPT !.sig[s].refs = @ + n]

\* signal_makereusable.  A signal that is on its list already stays where it is:
\* that is a bug, which is reported.
RECURSIVE Reusable(_, _)
Reusable(p, s) ==
  IF s \in Range(p.freelist \o p.freeborrowed) THEN p
  ELSE IF ~p.sig[s].borrows THEN [p EXCEPT !.freelist = <<s>> \o @]
  ELSE LET lender == p.sig[s].from
           q == Counted(p, lender, -1)
           r == IF q.sig[lender].refs = 0 THEN Reusable(q, lender) ELSE q
       IN  [r EXCEPT !.freeborrowed = <<s>> \o @]

ReusableIfUnused(p, s) == IF p.sig[s].refs = 0 THEN Reusable(p, s) ELSE p

\* What is put on the chain.
Instruction(does, box, in, out) == [does |-> does, box |-> box, in |-> in, out |-> out]
Zero(vec) == Instruction("zero", "none", <<>>, <<vec>>)

Perform(b, in, out) == Instruction("perform", b, in, out)
Plus(vec1, vec2, vec3) == Instruction("plus", "none", <<vec1, vec2>>, <<vec3>>)
Copy(vec, vec2) == Instruction("copy", "none", <<vec>>, <<vec2>>)
Prolog(c) == Instruction("block_prolog", c, <<>>, <<>>)
Epilog(c) == Instruction("block_epilog", c, <<>>, <<>>)

-----------------------------------------------------------------------------
(* The sort.                                                               *)

Call(fn, of, todo) == [fn |-> fn, of |-> of, todo |-> todo]
Calling(fn) == stack # <<>> /\ Head(stack).fn = fn
Of == Head(stack).of
Todo == Head(stack).todo
Continue(fn, todo) == <<Call(fn, Of, todo)>> \o Tail(stack)

\* ugen_start_graph, ugen_add and ugen_connect, up to the sort: the list of boxes is
\* in reverse, as are the connections of an outlet.
DoneGraph(c) == Call("ugen_done_graph", c, Reverse(patch.list[c]))

ConnectionsOf(b) ==
  FlattenSeq([i \in 1..patch.outs[b] |->
    LET inlets == Reverse(wires[<<b, i>>])
    IN  [k \in DOMAIN inlets |-> [outlet |-> <<b, i>>, inlet |-> inlets[k]]]])

Switched(c) == c \in patch.switched
PrologOf(c) == IF Switched(c) THEN <<Prolog(c)>> ELSE <<>>

\* A box that is not on the chain and has no connected inlet is put there.
Visit ==
  /\ Calling("ugen_done_graph") /\ Todo # <<>>
  /\ LET b == Head(Todo)
         startable == b \notin u_done /\ \A i \in InletsOf(b) : i_nconnect(i) = 0
     IN  stack' = (IF startable THEN <<Call("ugen_doit", b, <<>>)>> ELSE <<>>)
                    \o Continue("ugen_done_graph", Tail(Todo))
  /\ UNCHANGED <<patch, wires, edits, on, dspstate, u_done, i_ngot, i_signal, o_signal, pool,
                 chain, mem, performed>>

\* Whose output signals are borrowed, and whose input signals stay.
nonewsigs(b) == patch.kind[b] \in {"canvas", "inlet~"}
nofreesigs(b) ==
  patch.kind[b] \in {"canvas", "outlet~"} \ (IF Switched(CanvasOf(b)) THEN {"outlet~"} ELSE {})

Upto(n) == [i \in 1..n |-> i]

\* An inlet that is not connected gets a signal that is zero.
FillsInlets(b, w) ==
  FoldLeft(LAMBDA v, i :
             IF i_nconnect(<<b, i>>) # 0 THEN v
             ELSE [v EXCEPT !.pool = WithSignal(@, 1),
                            !.chain = Append(@, Zero(NewSignal(v.pool))),
                            !.in[<<b, i>>] = NewSignal(v.pool)],
           w, Upto(patch.ins[b]))

TakesInlets(b, w) ==
  FoldLeft(LAMBDA v, i :
             IF nofreesigs(b) THEN v
             ELSE [v EXCEPT !.pool =
                     ReusableIfUnused(Counted(@, v.in[<<b, i>>], -1), v.in[<<b, i>>])],
           w, Upto(patch.ins[b]))

OpensOutlets(b, w) ==
  FoldLeft(LAMBDA v, i :
             LET refs == Len(wires[<<b, i>>]) IN
             IF nonewsigs(b)
             THEN [v EXCEPT !.pool = WithBorrowed(@, refs),
                            !.out[<<b, i>>] = NewBorrowed(v.pool)]
             ELSE [v EXCEPT !.pool = WithSignal(@, refs),
                            !.out[<<b, i>>] = NewSignal(v.pool)],
           w, Upto(patch.outs[b]))

Prepared(b) ==
  OpensOutlets(b, TakesInlets(b, FillsInlets(b,
    [pool |-> pool, chain |-> chain, in |-> i_signal, out |-> o_signal])))

\* The dsp method, of an object,
Vecs(w, signals, n, b) == [i \in 1..n |-> w.pool.sig[signals[<<b, i>>]].vec]

ObjectDsp(b, w) ==
  /\ patch.kind[b] = "object"
  /\ pool' = w.pool
  /\ chain' = Append(w.chain, Perform(b, Vecs(w, w.in, patch.ins[b], b),
                                         Vecs(w, w.out, patch.outs[b], b)))
  /\ stack' = Continue("dsp", <<>>)

\* of inlet~, whose outlet is what comes in at the canvas,
InletDsp(b, w) ==
  /\ patch.kind[b] = "inlet~"
  /\ pool' = Borrowing(w.pool, w.out[<<b, 1>>], w.in[<<CanvasOf(b), patch.port[b]>>])
  /\ chain' = w.chain
  /\ stack' = Continue("dsp", <<>>)

\* of outlet~, whose inlet is what goes out there, unless the canvas is switched,
OutletDsp(b, w) ==
  LET out == w.out[<<CanvasOf(b), patch.port[b]>>]
      in == w.in[<<b, 1>>]
  IN  /\ patch.kind[b] = "outlet~"
      /\ \/ /\ ~Switched(CanvasOf(b))
            /\ pool' = Borrowing(w.pool, out, in)
            /\ chain' = w.chain
         \/ /\ Switched(CanvasOf(b))
            /\ chain' = Append(w.chain, Copy(w.pool.sig[in].vec, w.pool.sig[out].vec))
            /\ pool' = w.pool
      /\ stack' = Continue("dsp", <<>>)

\* and of a canvas: it is sorted.  If it is switched its outlets get signals to fill.
LendsTo(p, s) == Counted(Borrowing(WithSignal(p, 0), s, NewSignal(p)), s, 1)

CanvasDsp(b, w) ==
  /\ patch.kind[b] = "canvas"
  /\ pool' = IF Switched(b)
             THEN FoldLeft(LAMBDA p, i : LendsTo(p, w.out[<<b, i>>]), w.pool, Upto(patch.outs[b]))
             ELSE w.pool
  /\ chain' = w.chain \o PrologOf(b)
  /\ stack' = <<DoneGraph(b)>> \o Continue("dsp", <<>>)

Doit ==
  /\ Calling("ugen_doit")
  /\ \E w \in {Prepared(Of)} :
       /\ i_signal' = w.in /\ o_signal' = w.out
       /\ ObjectDsp(Of, w) \/ InletDsp(Of, w) \/ OutletDsp(Of, w) \/ CanvasDsp(Of, w)
  /\ UNCHANGED <<patch, wires, edits, on, dspstate, u_done, i_ngot, mem, performed>>

\* After the dsp method a signal that is not connected is free.
DspIsDone ==
  /\ Calling("dsp")
  /\ pool' = FoldLeft(LAMBDA p, i : ReusableIfUnused(p, o_signal[<<Of, i>>]),
                      pool, Upto(patch.outs[Of]))
  /\ stack' = Continue("pass it on", ConnectionsOf(Of))
  /\ UNCHANGED <<patch, wires, edits, on, dspstate, u_done, i_ngot, i_signal, o_signal, chain,
                 mem, performed>>

\* One connection: the inlet has no signal yet, or the two are summed.
FirstSignal(s1, inlet) ==
  /\ i_signal[inlet] = 0
  /\ i_signal' = [i_signal EXCEPT ![inlet] = s1]
  /\ UNCHANGED <<pool, chain>>

\* Mutant: the two are free, whoever else may still need them.
SummedAndFreed(s1, s2, p) ==
  [pool |-> Reusable(Reusable(WithSignal(p, 1), s1), s2),
   signal |-> NewSignal(p)]

\* The two are given up when the sum has its buffer.
Summed(s1, s2, p) ==
  [pool |-> ReusableIfUnused(ReusableIfUnused(WithSignal(p, 1), s1), s2),
   signal |-> NewSignal(p)]

NextSignal(s1, inlet) ==
  LET s2 == i_signal[inlet] IN
  /\ s2 # 0
  /\ \E sum \in {Summed(s1, s2, Counted(Counted(pool, s1, -1), s2, -1))} :
       /\ pool' = sum.pool
       /\ i_signal' = [i_signal EXCEPT ![inlet] = sum.signal]
       /\ chain' = Append(chain, Plus(pool.sig[s1].vec, pool.sig[s2].vec, sum.signal))

AllAreFilled(got, inlet) == \A i \in InletsOf(inlet[1]) : got[i] = i_nconnect(i)

PassOn ==
  /\ Calling("pass it on") /\ Todo # <<>>
  /\ LET inlet == Head(Todo).inlet
         s1 == o_signal[Head(Todo).outlet]
     IN  /\ FirstSignal(s1, inlet) \/ NextSignal(s1, inlet)
         /\ i_ngot' = [i_ngot EXCEPT ![inlet] = @ + 1]
         /\ stack' = (IF AllAreFilled(i_ngot', inlet)
                      THEN <<Call("ugen_doit", inlet[1], <<>>)>> ELSE <<>>)
                       \o Continue("pass it on", Tail(Todo))
  /\ UNCHANGED <<patch, wires, edits, on, dspstate, u_done, o_signal, mem, performed>>

DoitReturns ==
  /\ Calling("pass it on") /\ Todo = <<>>
  /\ u_done' = u_done \cup {Of}
  /\ stack' = Tail(stack)
  /\ UNCHANGED <<patch, wires, edits, on, dspstate, i_ngot, i_signal, o_signal, pool, chain,
                 mem, performed>>

\* The end of ugen_done_graph.  Behind a loop, outlets whose signal still has no
\* buffer get one that is zero; a switched canvas gets its epilogs.
FillsOutlets(c) ==
  FoldLeft(LAMBDA v, i :
             LET s == o_signal[<<c, i>>] IN
             IF v.pool.sig[s].from # 0 THEN v
             ELSE [pool |-> LendsTo(v.pool, s), chain |-> Append(v.chain, Zero(NewSignal(v.pool)))],
           [pool |-> pool, chain |-> chain], Upto(IF c = Top THEN 0 ELSE patch.outs[c]))

OutletBoxes(c) == SelectSeq(Reverse(patch.list[c]), LAMBDA b : patch.kind[b] = "outlet~")

EpilogsOf(c, p) ==
  IF ~Switched(c) THEN <<>>
  ELSE <<Epilog(c)>> \o
       [k \in DOMAIN OutletBoxes(c) |-> Zero(p.sig[o_signal[<<c, patch.port[OutletBoxes(c)[k]]>>]].vec)]

LoopIn(c) == \E b \in Range(patch.list[c]) : b \notin u_done

GraphIsDone ==
  /\ Calling("ugen_done_graph") /\ Todo = <<>>
  /\ \E w \in {IF LoopIn(Of) THEN FillsOutlets(Of) ELSE [pool |-> pool, chain |-> chain]} :
       /\ pool' = w.pool
       /\ chain' = w.chain \o EpilogsOf(Of, w.pool)
  /\ stack' = Tail(stack)
  /\ IF stack' = <<>>
     THEN /\ dspstate' = "on"
          /\ mem' = [v \in DOMAIN pool'.sig |-> EmptyBag]
     ELSE UNCHANGED <<dspstate, mem>>
  /\ UNCHANGED <<patch, wires, edits, on, u_done, i_ngot, i_signal, o_signal, performed>>

-----------------------------------------------------------------------------
(* What the patch does meanwhile.  A sort starts from nothing.             *)

Sorts ==
  /\ dspstate' = "sorting"
  /\ stack' = <<DoneGraph(Top)>>
  /\ chain' = PrologOf(Top)
  /\ u_done' = {}
  /\ i_ngot' = [i \in Inlets |-> 0]
  /\ i_signal' = [i \in Inlets |-> 0]
  /\ o_signal' = [o \in Outlets |-> 0]
  /\ pool' = NoSignals
  /\ mem' = <<>>
  /\ performed' = NotPerformed

\* canvas_update_dsp, when the connections have changed.
Updates == IF dspstate = "on" THEN Sorts ELSE UNCHANGED <<dspstate, sortvars, mem, performed>>

obj_connect(outlet, inlet) ==
  /\ dspstate # "sorting"
  /\ CanvasOf(outlet[1]) = CanvasOf(inlet[1])
  /\ edits < MaxEdits /\ edits' = edits + 1
  /\ wires' = [wires EXCEPT ![outlet] = Append(@, inlet)]
  /\ Updates
  /\ UNCHANGED <<patch, on>>

obj_disconnect(outlet, inlet) ==
  /\ dspstate # "sorting"
  /\ inlet \in Range(wires[outlet])
  /\ edits < MaxEdits /\ edits' = edits + 1
  /\ wires' = [wires EXCEPT ![outlet] = RemoveFirst(@, inlet)]
  /\ Updates
  /\ UNCHANGED <<patch, on>>

\* The message dsp to pd: on and off.
DspOn ==
  /\ dspstate = "off"
  /\ Sorts
  /\ UNCHANGED <<patch, wires, edits, on>>

DspOff ==
  /\ dspstate = "on"
  /\ dspstate' = "off"
  /\ stack' = <<>> /\ chain' = <<>> /\ pool' = NoSignals
  /\ u_done' = {}
  /\ i_ngot' = [i \in Inlets |-> 0]
  /\ i_signal' = [i \in Inlets |-> 0]
  /\ o_signal' = [o \in Outlets |-> 0]
  /\ mem' = <<>> /\ performed' = NotPerformed
  /\ UNCHANGED <<patch, wires, edits, on>>

\* A number to a switch~.
BlockFloat(c) ==
  /\ dspstate # "sorting"
  /\ on' = (on \ {c}) \cup ({c} \ on)
  /\ performed' = NotPerformed
  /\ UNCHANGED <<patch, wires, edits, dspstate, sortvars, mem>>

-----------------------------------------------------------------------------
(* A tick.                                                                 *)

Writes(m, i) ==
  CASE i.does = "zero" -> <<EmptyBag>>
    [] i.does = "copy" -> <<m[i.in[1]]>>
    [] i.does = "plus" -> <<m[i.in[1]] (+) m[i.in[2]]>>
    [] i.does = "perform" -> [k \in DOMAIN i.out |-> SetToBag({<<i.box, k>>})]
    [] OTHER -> <<>>

\* The routine of each outlet in its turn.
Written(m, i) ==
  FoldLeft(LAMBDA n, k : [n EXCEPT ![i.out[k]] = Writes(m, i)[k]], m, Upto(Len(i.out)))

EpilogAt(c) == CHOOSE k \in DOMAIN chain : chain[k] = Epilog(c)

\* Where the next routine is: a canvas that is off is skipped, and one that is on
\* skips the epilogs of its outlets.
Onset(k, i) ==
  CASE i.does = "block_prolog" /\ i.box \notin on -> EpilogAt(i.box) + 1
    [] i.does = "block_epilog" -> k + 1 + Len(OutletBoxes(i.box))
    [] OTHER -> k + 1

Hears(m, i) ==
  IF i.does = "perform"
  THEN <<[box |-> i.box, heard |-> [k \in DOMAIN i.in |-> m[i.in[k]]]]>>
  ELSE <<>>

\* What the buffers still hold from before.
Old(m) == [v \in DOMAIN m |-> IF m[v] = EmptyBag THEN EmptyBag ELSE SetToBag({<<"old", 0>>})]

DspTick ==
  /\ dspstate = "on"
  /\ \E t \in {FoldLeft(LAMBDA s, k :
                    IF k # s.at THEN s
                    ELSE [mem |-> Written(s.mem, chain[k]),
                          performed |-> s.performed \o Hears(s.mem, chain[k]),
                          at |-> Onset(k, chain[k])],
                  [mem |-> Old(mem), performed |-> <<>>, at |-> 1], Upto(Len(chain)))} :
       /\ mem' = t.mem
       /\ performed' = t.performed
  /\ UNCHANGED <<patch, wires, edits, on, dspstate, sortvars>>

DNext ==
  \/ \E outlet \in Outlets, inlet \in Inlets : obj_connect(outlet, inlet) \/ obj_disconnect(outlet, inlet)
  \/ DspOn \/ DspOff
  \/ \E c \in patch.switched : BlockFloat(c)
  \/ Visit \/ Doit \/ DspIsDone \/ PassOn \/ DoitReturns \/ GraphIsDone
  \/ DspTick


-----------------------------------------------------------------------------
(* Properties.                                                             *)

\* Boxes that are in a loop or behind one: each is fed by another of them.
Feeds(a, b) == \E o \in OutletsOf(a) : \E k \in DOMAIN wires[o] : wires[o][k][1] = b

BehindLoops(c) ==
  UNION {S \in SUBSET Range(patch.list[c]) : \A b \in S : \E a \in S : Feeds(a, b)}

IsBehindLoop(b) == b \in BehindLoops(CanvasOf(b))

OutletBox(c, n) ==
  CHOOSE b \in Range(patch.list[c]) : patch.kind[b] = "outlet~" /\ patch.port[b] = n

\* What is to be heard at an inlet: the sum of what is put out by all that is
\* connected to it, through the canvases.
RECURSIVE ToBeHeard(_)
ToBeHeard(inlet) ==
  LET PutOut(outlet) ==
        LET b == outlet[1] IN
        CASE patch.kind[b] = "object" -> SetToBag({outlet})
          [] patch.kind[b] = "inlet~" -> ToBeHeard(<<CanvasOf(b), patch.port[b]>>)
          [] patch.kind[b] = "canvas" ->
               IF \/ b \in patch.switched \ on
                  \/ IsBehindLoop(OutletBox(b, outlet[2]))
               THEN EmptyBag
               ELSE ToBeHeard(<<OutletBox(b, outlet[2]), 1>>)
  IN  FoldSet(LAMBDA w, sum : sum (+) PutOut(w[1]), EmptyBag, SourcesOf(inlet))

RECURSIVE IsToPerform(_)
IsToPerform(b) ==
  LET c == CanvasOf(b) IN
  /\ ~IsBehindLoop(b)
  /\ c \notin patch.switched \ on
  /\ c # Top => IsToPerform(c)

\* An outlet of a switched canvas behind a loop inside it is not filled when it is on.
SwitchedLoop ==
  \E c \in patch.switched \ {Top} : \E b \in BehindLoops(c) : patch.kind[b] = "outlet~"

\* In every tick each object that is neither switched off nor behind a loop performs
\* once, and hears at each inlet the sum of what its sources put out in this very
\* tick: they come before it, and no buffer is overwritten while it is needed, however
\* the patch is wired, edited and switched.
HearsItsSources ==
  (performed # NotPerformed /\ ~SwitchedLoop) =>
    LET boxes == {b \in Boxes : patch.kind[b] = "object" /\ IsToPerform(b)} IN
    /\ {performed[k].box : k \in DOMAIN performed} = boxes
    /\ Len(performed) = Cardinality(boxes)
    /\ \A k \in DOMAIN performed : \A i \in 1..patch.ins[performed[k].box] :
         performed[k].heard[i] = ToBeHeard(<<performed[k].box, i>>)
=============================================================================
