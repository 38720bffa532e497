---------------------------- MODULE MCLocalStore ----------------------------
(* Model-checking instances of LocalStore: see README.md for the runs. *)
EXTENDS LocalStore, TLC

\* Events are only ever compared for equality.
EventSymmetry == Permutations(Events)
=============================================================================
