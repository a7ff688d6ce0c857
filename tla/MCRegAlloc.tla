----------------------------- MODULE MCRegAlloc -----------------------------
(***************************************************************************)
(* Instances of RegAlloc for TLC: seven registers, of which two are for    *)
(* arguments and one is callee-saved, and functions of a few statements    *)
(* with locals 1 to 3.                                                     *)
(***************************************************************************)
EXTENDS RegAlloc

S == INSTANCE Statements

TmpRegs == <<4, 5, 6, 7, 3, 2, 1>>
ArgRegs == <<1, 2>>
MemRegs == <<4, 5, 6, 7>>

V1 == S!Var(1)
V2 == S!Var(2)
V3 == S!Var(3)
Plus(e, f)  == S!Binary(e, f)
Put(l, e)  == S!Assign(l, e).c
Fun(O, cs) == S!Function(1, <<1, 1, 1>>, O, S!Block(cs))

\* Expressions of the argument and a local with calls, arguments on the stack,
\* calls within calls, branches, and more values than registers.
Wide[n \in Nat] == IF n = 0 THEN S!Unary(V1) ELSE Plus(S!Unary(V2), Wide[n - 1])
WideCall[n \in Nat] == IF n = 0 THEN S!Call(<<>>) ELSE Plus(S!Unary(V2), WideCall[n - 1])
Operands == {V2, S!Unary(V1), S!Call(<<>>)}
Expressions ==
    {Plus(S!Call(<<e>>), Plus(S!Unary(f), S!Call(<<f, e>>))) : e, f \in {V1, V2, S!Num}}
    \cup {S!Call(<<e, V1, g>>) : e \in {V2, S!Num}, g \in {V2, S!Call(<<V1>>)}}
    \cup {S!Call(<<e, S!Call(<<f, e, V1, V2>>), f, V1>>) : e, f \in {V2, S!Unary(V1)}}
    \cup {S!CallPointer(2, <<e, f>>) : e, f \in Operands}
    \cup {Plus(g, S!Conditional(e, f, V1, 3, 7)) : e, f, g \in Operands}
    \cup {S!Call(<<g, S!And(e, f, 3, 7)>>) : e, f, g \in Operands}
    \cup {S!PostInc(2), Plus(S!PostInc(2), V1), Wide[4], Wide[8], WideCall[3], WideCall[7]}
Evaluate == {Fun(O, <<Put(2, V1), Put(l, e), Put(2, V1), S!Return(Plus(V2, V1))>>) :
                l \in {1, 2}, e \in Expressions, O \in {1, 2}}

\* Branches and loops, in which locals live from one block to another.
Simple == {<<>>, Put(2, V1), Put(3, V2), Put(1, V3), Put(2, S!Call(<<V1>>))}
NonZero == S!JumpZ(V1, S!NoLabel)
Less    == S!JumpGE(V2, V1, S!NoLabel)
Called  == S!JumpZ(S!Call(<<V2>>), S!NoLabel)
Wider   == S!JumpGE(Plus(V3, V2), Wide[5], S!NoLabel)
Branches == {Fun(O, <<Put(2, V1), s, S!IfElse(Less, r, q, 1), S!Return(Plus(V2, V3))>>) :
                s, r, q \in Simple, O \in {1, 2}}
Loops ==
    {Fun(O, <<Put(2, V1), S!DoWhile(S!Block(<<S!If(Called, s, 2), r>>), NonZero, 1),
              S!Return(Plus(V2, V3))>>) : s, r \in Simple, O \in {1, 2}}
    \cup {Fun(O, <<Put(2, V1), Put(3, S!Num), s, S!While(Wider, S!Block(<<Put(3, S!Unary(V2)), r>>), 1),
                   S!Return(Plus(V2, V3))>>) : s, r \in Simple, O \in {1, 2}}
    \cup {Fun(O, <<S!For(Put(2, e), Less, r, s, 1), S!Return(V2)>>) :
             e \in {S!Num, V1}, r \in {S!PostInc(2).c, Put(2, V1), Put(1, V2)},
             s \in Simple \ {Put(1, V3)}, O \in {1, 2}}

\* Stores and loads through pointers to locals, and parts of a local.
Memory == {<<>>, S!StorePointer(V3, S!Num), Put(1, S!Deref(V3)), Put(2, V1), Put(1, V2),
           Put(2, S!Call(<<V1, V3>>)), S!Memory("mset", S!AddressOf(1), S!Unary(V2)),
           S!Memory("mcpy", S!AddressOf(1), S!Unary(V3)), S!AssignPart(1, V2, 1, 1).c,
           Put(2, S!Part(1, 1, 1))}
Pointers == {Fun(O, <<Put(2, V1), Put(3, S!AddressOf(l)), s, r, S!Return(Plus(V2, V1))>>) :
                l \in {1, 2}, s, r \in Memory, O \in {1, 2}}

\* An argument on the stack; and with -O0 every local is reached by its address.
Third == {<<>>, Put(1, V3), Put(3, V2), Put(2, S!Call(<<V3, V1, V2>>))}
Plain == S!Block(<<S!StorePointer(S!AddressOf(2), S!Deref(S!AddressOf(1))),
                   S!Return(S!Deref(S!AddressOf(2)))>>)
Arguments ==
    {S!Function(3, <<1>>, O, S!Block(<<s, r, Put(4, Plus(V3, V1)), S!Return(Plus(Plus(V2, S!Var(4)), V3))>>)) :
        s, r \in Third, O \in {1, 2}}
    \cup {Fun(0, <<Plain>>)}

Functions == Evaluate \cup Branches \cup Loops \cup Pointers \cup Arguments

\* The increment of a loop reads a local that only its body sets:
\*     for (i = 0; i < n; i = k) k = ...;
Increment == {Fun(O, <<S!For(Put(2, S!Num), Less, Put(2, V3), Put(3, S!Unary(V2)), 1),
                       S!Return(V2)>>) : O \in {1, 2}}
=============================================================================
