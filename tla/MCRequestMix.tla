----------------------------- MODULE MCRequestMix -----------------------------
(* RequestMix with a four-bit word. *)
EXTENDS RequestMix, TLC

CONSTANTS a, b

Mixed == {[hot |-> 5, cold |-> 3], [hot |-> 8, cold |-> 0]}
PureHot == {[hot |-> 8, cold |-> 0]}
TwoCallers == {a, b}
Symmetry == Permutations(Callers)
===============================================================================
