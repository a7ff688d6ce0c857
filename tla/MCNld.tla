------------------------------- MODULE MCNld -------------------------------
(* Instances of Nld for TLC: small programs and archives.                  *)
EXTENDS Nld

Def1(sec, name, glob, len, refs) == [sec |-> sec, name |-> name, glob |-> glob, len |-> len, refs |-> refs]
Ref(name, bit, kind, add) == [name |-> name, bit |-> bit, kind |-> kind, add |-> add]
Call(name, bit) == Ref(name, bit, "rel", -SIZE_W)
Unit1(id, tool, defs) == [id |-> id, tool |-> tool, defs |-> defs]
Obj(u) == [archive |-> FALSE, units |-> <<u>>]
Ar(us) == [archive |-> TRUE, units |-> us]

\* The first unit: a function that refers to two names, code that is never
\* emitted and refers to a third, and definitions of some names in any order.
Start1(bit, x, y, more) == Unit1(1, "ncc",
    <<Def1("cs", "_start", TRUE, 11, <<Call(x, bit), Ref(y, bit + 19, "abs", 3)>>)>> \o more)

Own == {Def1("cs", "f", FALSE, 5, <<Ref("g", 2, "dead", 0)>>),
        Def1("ds", "d", FALSE, 6, <<Ref("f", 8, "abs", 0)>>),
        Def1("ds", "g", TRUE, 4, <<Ref("d", 0, "abs", 1)>>),
        Def1("bss", "z", TRUE, 5, <<>>)}
Orders(S) == UNION {{s \in [1 .. n -> S] : IsInjective(s)} : n \in 0 .. 3}

\* Archive members: each needs the one after it or the one before it, and
\* the last defines names the first unit may define too.
Member(id, name, len, refs) == Unit1(id, "ncc", <<Def1("cs", name, TRUE, len, refs)>>)
Lib == <<Member(11, "f", 9, <<Call("d", 7)>>),
         Unit1(12, "ncc", <<Def1("bss", "z", FALSE, 3, <<>>), Def1("ds", "d", TRUE, 4, <<Ref("z", 0, "abs", 0)>>)>>),
         Unit1(13, "asm", <<Def1("cs", "g", TRUE, 3, <<>>), Def1("ds", "u", FALSE, 3, <<>>)>>),
         Unit1(14, "ncc", <<Def1("bss", "z", TRUE, 9, <<>>), Def1("cs", "h", TRUE, 6, <<Call("f", 3)>>)>>)>>

Link(fs, strip, paged, data) == [files |-> fs, strip |-> strip, paged |-> paged, data |-> data]
Plainly(fs) == Link(fs, FALSE, FALSE, NoAddr)
Anyhow(fs)  == {Link(fs, x, y, a) : x, y \in BOOLEAN, a \in {NoAddr, 2048, 768}}

Main(len) == Unit1(1, "asm", <<Def1("cs", "_start", TRUE, len, <<>>)>>)
Data(len) == Unit1(2, "asm", <<Def1("ds", "e", TRUE, len, <<>>)>>)
Zero(len) == Unit1(3, "ncc", <<Def1("bss", "y", TRUE, len, <<>>)>>)
\* A segment of any length, empty ones too.
Lengths == {<<Obj(Main(k))>> : k \in 7 .. 9}
           \cup {<<Obj(Main(k)), Obj(Data(n))>> : k \in {5, 8}, n \in 5 .. 9}
           \cup {<<Obj(Main(k)), Obj(Zero(n))>> : k \in {5, 8}, n \in {0, 3}}
           \cup {<<Obj(Main(k)), Obj(Data(n)), Obj(Zero(3))>> : k \in {5, 8}, n \in {4, 7, 8}}
\* Archives and objects in any order, with names nobody or two define.
Needs(x) == Unit1(4, "ncc", <<Def1("cs", "p", FALSE, 5, <<Call(x, 1)>>),
                              Def1("cs", "f", TRUE, 4, <<>>)>>)
Files == {Obj(Start1(1, "f", "d", <<>>)), Obj(Needs("g")), Obj(Needs("q")), Ar(Lib)}

MCLinks ==
    {Plainly(<<Obj(Start1(bit, x, y, more)), Ar(Lib)>>) :
        bit \in {0, 3, 6}, x \in {"f", "h"}, y \in {"d", "z"}, more \in Orders(Own)}
    \cup UNION {Anyhow(fs) : fs \in Lengths \cup {<<Obj(Start1(5, "f", "z", <<>>)), Ar(Lib)>>}}
    \cup {Plainly(fs) : fs \in {s \in UNION {[1 .. n -> Files] : n \in 1 .. 4} :
              \A i, j \in DOMAIN s : s[i] = s[j] => i = j \/ s[i].archive}}
=============================================================================
