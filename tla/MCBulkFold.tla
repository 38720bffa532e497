----------------------------- MODULE MCBulkFold -----------------------------
(* Model-checking instances of BulkFold: see README.md for the runs. *)
EXTENDS BulkFold

CONSTANTS a, b

E(i, op, on, to) == [id |-> i, op |-> op, on |-> on, to |-> to]

InsA == E(1, "INS", a, {})
InsB == E(2, "INS", b, {})
Con  == E(3, "CON", a, {b})
SegA == E(4, "SEG", a, {})
SegB == E(5, "SEG", b, {})
DefA == E(6, "DEF", a, {})
EvaB == E(7, "EVA", b, {})
NulA == E(8, "NUL", a, {})
InsAgain == E(9, "INS", a, {})

SmallTargetKeys == <<a, b>>
SmallShardOf == (a :> 1) @@ (b :> 0)
SmallLocals == {InsA, Con, DefA}
SmallImports ==
  {<<InsA, InsB, Con>>, <<InsA, SegB>>, <<DefA, NulA, SegA>>, <<Con, InsB>>,
   <<Con, SegB>>, <<InsAgain, DefA, EvaB>>, <<EvaB, SegB, DefA>>, <<InsB, InsA, DefA>>}
=============================================================================
