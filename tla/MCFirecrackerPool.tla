--------------------------- MODULE MCFirecrackerPool ---------------------------
(* Instances of FirecrackerPool for TLC. *)
EXTENDS FirecrackerPool, TLC

CONSTANTS h1, h2, c1, r1, r2

HotOne == {h1}
HotTwo == {h1, h2}
ColdOne == {c1}
TwoClients == {r1, r2}
OneClient == {r1}

(* Connections are interchangeable: nothing in the code compares them.      *)
Symmetry == Permutations(Requests)
===============================================================================
