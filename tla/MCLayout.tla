------------------------------ MODULE MCLayout ------------------------------
(* Instances of Layout for TLC: the intermediate code of small functions.  *)
EXTENDS Layout, TLC

CONSTANTS MaxLen, Widths

I(op, a1, a3, w) == [op |-> op, a1 |-> a1, a3 |-> a3, w |-> w]
Placed(s) == [i \in DOMAIN s |-> s[i] @@ [id |-> i]]

\* Every instruction at place i (from 0) of code of length n.
At(i, n) ==
    {I("mov", 0, 0, w) : w \in Widths}
    \cup {I("movsym", 0, 0, 2), I("callsym", 0, 0, 1)}
    \cup {I("jmp", 0, t, 0) : t \in 0 .. n}
    \cup {I(op, a, 0, 2) : op \in {"add", "call", "st"}, a \in 0 .. i - 1}
    \cup {I("ret", a, 0, 0) : a \in 0 .. i - 1}
    \cup {I("jz", a, t, 1) : a \in 0 .. i - 1, t \in 0 .. n}
CodeOf(n) == {s \in [1 .. n -> UNION {At(i, n) : i \in 0 .. n - 1}] :
                \A i \in 1 .. n : s[i] \in At(i - 1, n)}
\* Longer code of jumps over jumps, all of it live.
Jumping(n) == [1 .. n -> {I("callsym", 0, 0, 1)} \cup {I("jmp", 0, t, 0) : t \in 0 .. n}]
AllCode == {Placed(s) : s \in Jumping(4) \cup UNION {CodeOf(n) : n \in 0 .. MaxLen}}
LaterCode == {Placed(s) : s \in {<<I("callsym", 0, 0, 1), I("jmp", 0, 0, 0)>>,
              <<I("movsym", 0, 0, 2), I("jz", 0, 3, 1), I("ret", 0, 0, 0)>>}}
TwoFrames == {<<0, 2>>, <<4, 5>>}
=============================================================================
