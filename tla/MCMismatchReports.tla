------------------------- MODULE MCMismatchReports -------------------------
(* Captures of a two-turn and a one-turn task, complete and with gaps.       *)
EXTENDS MismatchReports

A(r, probes) == [role |-> "assistant", r |-> r, probes |-> probes, routed |-> TRUE]
Tool == [role |-> "tool", r |-> 0, probes |-> "none", routed |-> FALSE]
Unrouted == [A(1, "full") EXCEPT !.routed = FALSE]

MCCaptures ==
  {<<<<A(2, "full"), Tool, A(1, "full")>>, <<A(2, "full")>>>>,
   <<<<A(1, "none"), Tool, A(2, "response")>>, <<A(2, "full")>>>>,
   <<None, <<A(1, "response"), Tool, Unrouted>>>>}
=============================================================================
