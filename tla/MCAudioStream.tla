--------------------------- MODULE MCAudioStream ---------------------------
(***************************************************************************)
(* AudioStream for TLC: a stream that changes between a large, a small     *)
(* and an empty layout, in which damage may reach further than the next    *)
(* frame.                                                                  *)
(***************************************************************************)
EXTENDS AudioStream

SomeLayouts == {FirstTag, [format |-> "8bit", channels |-> 1], [format |-> "8bit", channels |-> 0]}

\* The receiver is driven by net, not by this set.
NoDatagrams == {}
=============================================================================
