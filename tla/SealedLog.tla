------------------------------ MODULE SealedLog ------------------------------
(***************************************************************************)
(* What the block chain promises a reader: a log of sealed segments, which *)
(* is at every time some earlier version of it with one segment more.  Two *)
(* writers that extend the same version drop each other's segment; neither *)
(* writes a segment that does not take up the timeline where the version   *)
(* it extends stopped.  A segment lo..hi with hi = lo - 1 is a published   *)
(* payload that covers no timeline event.                                  *)
(***************************************************************************)
EXTENDS Integers, Sequences

VARIABLES
  log,        \* the sealed segments, oldest first
  versions    \* every value log has had

Init == log = << >> /\ versions = {<< >>}

\* The last timeline event that a version seals, or 0.
CutoffOf(v) == IF v = << >> THEN 0 ELSE v[Len(v)].hi

Follows(v, s) ==
  /\ s.lo >= 1
  /\ s.hi >= s.lo - 1
  /\ CutoffOf(v) # 0 => s.lo = CutoffOf(v) + 1

\* One more segment is sealed on top of a version of the log.
SealSegment ==
  LET w == log' IN
  /\ w # << >>
  /\ \E v \in versions : w = Append(v, w[Len(w)]) /\ Follows(v, w[Len(w)])
  /\ versions' = versions \union {w}

Next == SealSegment

Spec == Init /\ [][Next]_<<log, versions>>
=============================================================================
