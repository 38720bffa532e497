-------------------------- MODULE MCBlockHydration --------------------------
(* Model-checking instances of BlockHydration: see README.md for the runs. *)
EXTENDS BlockHydration
=============================================================================
