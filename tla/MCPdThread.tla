---------------------------- MODULE MCPdThread ----------------------------
(***************************************************************************)
(* What runs on Pd's thread, each by itself: a behaviour is one of the     *)
(* message sockets of a patch, of the sort of its signal objects, of its   *)
(* clocks with a delay and two metros, or of a line, a pipe or a qlist.    *)
(***************************************************************************)
EXTENDS MessageSockets, DspGraph, PdClock, Line, Pipe, Qlist

CONSTANTS i1, i2 \* bytes of messages

VARIABLE part

-----------------------------------------------------------------------------
(* Messages: two numbers, the buffer being full then; a file that is too   *)
(* long; an item for which there is no room; one that is refused; none.    *)

MCMessages ==
  {<<<<i1>>, <<i2>>>>, <<<<i1, i2, i1>>>>, <<<<i1, i2>>, <<i2>>>>, <<<<i1>>, BadItem>>, <<>>}

-----------------------------------------------------------------------------
(* Patches: signals that fan out and are summed, an object with two        *)
(* outlets, subpatches with sources inside and outside, one in another,    *)
(* with and without switch~.                                               *)

\* A box of a patch: an object, or what has one inlet or outlet of the canvas.
Object(ins, outs) == [kind |-> "object", ins |-> ins, outs |-> outs, port |-> 0]
Canvas(ins, outs) == [kind |-> "canvas", ins |-> ins, outs |-> outs, port |-> 0]
InletTilde(n) == [kind |-> "inlet~", ins |-> 0, outs |-> 1, port |-> n]
OutletTilde(n) == [kind |-> "outlet~", ins |-> 1, outs |-> 0, port |-> n]

\* Each connection leads from an outlet to an inlet.
Patch(list, box, wire, switched) ==
  LET outlets == UNION {{<<b, i>> : i \in 1..box[b].outs} : b \in DOMAIN box} IN
  [list |-> list,
   kind |-> [b \in DOMAIN box |-> box[b].kind],
   ins |-> [b \in DOMAIN box |-> box[b].ins],
   outs |-> [b \in DOMAIN box |-> box[b].outs],
   port |-> [b \in DOMAIN box |-> box[b].port],
   switched |-> switched,
   wires |-> [o \in outlets |->
     LET mine == SelectSeq(wire, LAMBDA w : w[1] = o) IN [k \in DOMAIN mine |-> mine[k][2]]]]

Flat(switched) == Patch(
  "top" :> <<"osc~", "*~", "+~", "udpsend~">>,
  "osc~" :> Object(0, 1) @@ "*~" :> Object(2, 1) @@ "+~" :> Object(1, 2)
    @@ "udpsend~" :> Object(2, 0),
  << <<<<"osc~", 1>>, <<"*~", 1>>>>, <<<<"osc~", 1>>, <<"*~", 2>>>>,
     <<<<"*~", 1>>, <<"udpsend~", 1>>>>, <<<<"*~", 1>>, <<"udpsend~", 2>>>> >>,
  switched)

Nested(switched) == Patch(
  "top" :> <<"pd", "osc~", "udpsend~">> @@ "pd" :> <<"inlet~", "outlet~", "*~">>,
  "osc~" :> Object(0, 1) @@ "pd" :> Canvas(1, 1) @@ "udpsend~" :> Object(2, 0)
    @@ "inlet~" :> InletTilde(1) @@ "*~" :> Object(2, 1) @@ "outlet~" :> OutletTilde(1),
  << <<<<"osc~", 1>>, <<"pd", 1>>>>, <<<<"pd", 1>>, <<"udpsend~", 1>>>>,
     <<<<"inlet~", 1>>, <<"*~", 1>>>>, <<<<"*~", 1>>, <<"outlet~", 1>>>> >>,
  switched)

Deep(switched) == Patch(
  "top" :> <<"osc~", "pd a", "udpsend~">> @@ "pd a" :> <<"inlet~ a", "pd b", "outlet~ a">>
    @@ "pd b" :> <<"inlet~ b", "outlet~ b">>,
  "osc~" :> Object(0, 1) @@ "pd a" :> Canvas(1, 1) @@ "udpsend~" :> Object(1, 0)
    @@ "inlet~ a" :> InletTilde(1) @@ "pd b" :> Canvas(1, 1) @@ "outlet~ a" :> OutletTilde(1)
    @@ "inlet~ b" :> InletTilde(1) @@ "outlet~ b" :> OutletTilde(1),
  << <<<<"osc~", 1>>, <<"pd a", 1>>>>, <<<<"pd a", 1>>, <<"udpsend~", 1>>>>,
     <<<<"inlet~ a", 1>>, <<"pd b", 1>>>>, <<<<"pd b", 1>>, <<"outlet~ a", 1>>>>,
     <<<<"inlet~ b", 1>>, <<"outlet~ b", 1>>>> >>,
  switched)

NoObjects == Patch("top" :> <<>>, <<>>, <<>>, {})

MCPatches ==
  {NoObjects, Flat({}), Nested({}), Nested({"pd"}), Deep({}), Deep({"pd a", "pd b"}), Flat({"top"})}

-----------------------------------------------------------------------------
(* Clocks: twice as slow, and counting in samples.                         *)

MCNewUnits == {2, -1}

MetrosAreAlike == Permutations(Metros)

-----------------------------------------------------------------------------
(* A score to play, and one that ends with a wait.                         *)

MCScores == {<<>>, <<message, 1, message>>, <<message, message, 2>>}

MCClock == {line, qlist} \cup Lists

-----------------------------------------------------------------------------
Parts == {"message sockets", "signal objects", "clocks", "line", "pipe", "qlist"}

\* What does not run is as it is in one of its initial states.
Init ==
  /\ part \in Parts
  /\ MInit /\ DInit /\ KInit /\ AInit /\ LineInit /\ PipeInit /\ QlistInit
  /\ part # "signal objects" => patch = NoObjects
  /\ part # "clocks" => \A obj \in Clocks : x_deltime[obj] = 1
  /\ part # "line" => x_grain = 1
  /\ part # "pipe" => delaytime = 0

Next ==
  /\ \/ part = "message sockets" /\ MNext
        /\ UNCHANGED <<dspvars, pdvars, agendavars, linevars, pipevars, qlistvars>>
     \/ part = "signal objects" /\ DNext
        /\ UNCHANGED <<mvars, pdvars, agendavars, linevars, pipevars, qlistvars>>
     \/ part = "clocks" /\ KNext
        /\ UNCHANGED <<mvars, dspvars, agendavars, linevars, pipevars, qlistvars>>
     \/ part = "line" /\ LineNext /\ UNCHANGED <<mvars, dspvars, pdvars, pipevars, qlistvars>>
     \/ part = "pipe" /\ PipeNext /\ UNCHANGED <<mvars, dspvars, pdvars, linevars, qlistvars>>
     \/ part = "qlist" /\ QlistNext /\ UNCHANGED <<mvars, dspvars, pdvars, linevars, pipevars>>
  /\ UNCHANGED part

Spec ==
  Init /\ [][Next]_<<part, mvars, dspvars, pdvars, agendavars, linevars, pipevars, qlistvars>>
=============================================================================
