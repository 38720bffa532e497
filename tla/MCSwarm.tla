------------------------------- MODULE MCSwarm -------------------------------
(* Model-checking instances of Swarm: see README.md for the runs. *)
EXTENDS Swarm, TLC

CONSTANTS a, b, h1, h2

\* Two peers with the same bytes, or the author and one with other bytes.
MCHoldings == {a :> h1 @@ b :> h1, a :> h1 @@ b :> h2}
=============================================================================
