----------------------------- MODULE MCLogFanOut -----------------------------
(* LogFanOut with three servers of two events each, over two timestamps. *)
EXTENDS LogFanOut

AllVariants == {"dedicated", "spin", "python"}
TwoTimes == {1, 2}
===============================================================================
