------------------------------ MODULE AppendLog ------------------------------
(***************************************************************************)
(* The append-only log that the store relies on (LocalStore's opfs): what  *)
(* it holds only grows, entry by entry, and an append that is promised is  *)
(* in it for good.  Entries whose append was not answered may be part of   *)
(* what the log grows by.                                                  *)
(***************************************************************************)
EXTENDS Naturals, Sequences

VARIABLES
  contents,   \* the entries, oldest first
  promised    \* the entries whose append was acknowledged

Init == contents = << >> /\ promised = {}

Extends(longer, shorter) ==
  /\ Len(longer) > Len(shorter)
  /\ SubSeq(longer, 1, Len(shorter)) = shorter

\* An append is acknowledged, with whatever lies between it and the one before.
Add == /\ Extends(contents', contents)
       /\ promised' = promised \union {contents'[Len(contents')]}

Next == Add

Spec == Init /\ [][Next]_<<contents, promised>>
=============================================================================
