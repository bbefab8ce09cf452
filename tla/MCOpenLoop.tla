------------------------------ MODULE MCOpenLoop ------------------------------
(* Traces for OpenLoop, over two seconds. *)
EXTENDS OpenLoop

Entry(t, r) == [time |-> t, rate |-> r]

(* A constant rate, a fall and a rise within the run, entries past its end, *)
(* a rate that is no divisor of the tick, a pause; a trace that starts late *)
(* and one that does not increase.                                          *)
Shapes ==
    { <<Entry(0, 2)>>,
      <<Entry(0, 2), Entry(1, 1)>>,
      <<Entry(0, 3), Entry(1, 1)>>,
      <<Entry(0, 1), Entry(2, 3)>>,
      <<Entry(0, 1), Entry(1, 3)>>,
      <<Entry(0, 1), Entry(1, 0)>>,
      <<Entry(1, 2)>>,
      <<Entry(0, 1), Entry(0, 2)>>,
      <<>> }

Even == {<<Entry(0, 2)>>}
NoLag == {0}
SomeLag == {0, 8}
===============================================================================
