------------------------------ MODULE MCOpfsLog ------------------------------
(* Model-checking instances of OpfsLog: see README.md for the runs. *)
EXTENDS OpfsLog, TLC

CONSTANTS old, a, b

MCEvents  == {old, a, b}
MCPayLen  == [e \in MCEvents |-> IF e = b THEN 2 ELSE 1]
MCLegacy  == <<[seq |-> 1, ev |-> old], Hole>>

NoLegacy  == << >>
=============================================================================
