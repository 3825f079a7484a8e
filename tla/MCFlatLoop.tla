----------------------------- MODULE MCFlatLoop -----------------------------
(***************************************************************************)
(* The loops TLC runs: every statement form, alone and beside another that *)
(* may disturb what the preheader established.                             *)
(***************************************************************************)
EXTENDS FlatLoop

Statement(op, x, y, i) == [op |-> op, x |-> x, y |-> y, i |-> i]
PushA == Statement("push", "a", "none", "iv")
PushB == Statement("push", "b", "none", "iv")
ZeroA == Statement("zero", "a", "none", "iv")
GetA == Statement("get", "a", "none", "iv")
GetB == Statement("get", "b", "none", "any")
SetA == Statement("set", "a", "none", "any")
CopyAB == Statement("copy", "a", "b", "iv")
EitherAB == Statement("either", "a", "b", "iv")
EitherA == Statement("either", "a", "none", "iv")
LeaveA == Statement("leave", "a", "none", "iv")
AssignA == Statement("assign", "a", "none", "iv")

While(cond, step, body) == [cond |-> cond, on |-> "a", step |-> step, body |-> body]

MCLoops ==
    {While(c, 1, b) : c \in {"lt", "le"},
        b \in {<<ZeroA>>, <<PushA>>, <<PushA, PushB>>, <<CopyAB>>, <<EitherAB, PushA>>,
               <<EitherA, SetA>>, <<PushA, LeaveA>>, <<PushB, GetA>>, <<PushA, GetB>>,
               <<GetA, PushA, GetA>>}}
    \cup {While("len", st, b) : st \in {1, -1},
        b \in {<<GetA, PushB>>, <<GetA, EitherA>>, <<AssignA, GetA>>, <<GetA, AssignA>>, <<CopyAB>>}}
    \cup {While("lt", -1, <<GetA>>)}

\* Two appends in each turn, to two names.
TwoAppends == {While("lt", 1, <<PushA, PushB>>)}
=============================================================================
