------------------------------ MODULE MCPeerSync ------------------------------
(* Model-checking instances of PeerSync: see README.md for the runs. *)
EXTENDS PeerSync, TLC

CONSTANTS a, b, t, u, e1, e2, e3, e4

\* Two edits of one target that neither instantiates, and a target that two users instantiate.
MCEdits == {[id |-> e1, op |-> "DEF", target |-> t], [id |-> e2, op |-> "DEF", target |-> t],
            [id |-> e3, op |-> "INS", target |-> u], [id |-> e4, op |-> "INS", target |-> u]}

\* Two users edit one target, which nobody but their devices instantiates.
MCPlainEdits == {[id |-> e1, op |-> "DEF", target |-> t], [id |-> e2, op |-> "DEF", target |-> t]}

\* The devices are alike, and so are the edits of a target.
MCSymmetry == Permutations({a, b}) \union Permutations({e1, e2}) \union Permutations({e3, e4})
=============================================================================
