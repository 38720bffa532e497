---------------------------- MODULE MCBlockChain ----------------------------
(* Model-checking instances of BlockChain: see README.md for the runs. *)
EXTENDS BlockChain, TLC

\* The devices are interchangeable: a claim is compared by who wrote it, no more.
Symmetry == Permutations(Clients)
=============================================================================
