---------------------------- MODULE DecodeProofs ----------------------------
(***************************************************************************)
(* Proof that instruction fetch never reads outside the block of the       *)
(* current mapping, and that it implements the stream of bits, for any     *)
(* widths of bytes, words and lines of which a word is shorter than a line *)
(* (a line of one word does not implement it: WordIsNextBits).             *)
(***************************************************************************)
EXTENDS Decode, TLAPS

-----------------------------------------------------------------------------
(* Arithmetic.                                                             *)

LEMMA Division ==
    ASSUME NEW x \in Int, NEW d \in Nat \ {0}
    PROVE  /\ x = d * (x \div d) + (x % d)
           /\ x \div d \in Int /\ x % d \in 0 .. d - 1
OBVIOUS

\* A quotient and a remainder in range are the only ones.
LEMMA Quotient ==
    ASSUME NEW x \in Int, NEW d \in Nat \ {0}, NEW k \in Int, NEW e \in 0 .. d - 1, x = d * k + e
    PROVE  x \div d = k /\ x % d = e
<1> DEFINE q == x \div d
           r == x % d
<1>1. x = d * q + r /\ q \in Int /\ r \in 0 .. d - 1
  BY Division
<1> HIDE DEF q, r
<1>2. d * (k - q) = r - e
  BY <1>1
<1>3. CASE k - q >= 1
  <2>1. d * (k - q) >= d
    BY <1>1, <1>3
  <2> QED BY <1>1, <1>2, <2>1
<1>4. CASE k - q <= -1
  <2>1. d * (k - q) <= -d
    BY <1>1, <1>4
  <2> QED BY <1>1, <1>2, <2>1
<1>5. CASE k = q
  BY <1>1, <1>2, <1>5 DEF q, r
<1> QED BY <1>1, <1>3, <1>4, <1>5

LEMMA Widths ==
    /\ ByteBits \in Nat \ {0} /\ LineBytes \in Nat \ {0} /\ WordBits \in Nat \ {0}
    /\ MemSize \in Nat \ {0} /\ LineBits \in Nat \ {0} /\ LineBits = LineBytes * ByteBits
    /\ MemSize * ByteBits \in Nat \ {0}
    /\ \A n \in FieldSizes : n \in Nat /\ 0 < n /\ n <= WordBits
    /\ \A t \in Targets : t \in Int
<1>1. ByteBits \in Nat \ {0} /\ LineBytes \in Nat \ {0} /\ MemSize \in Nat \ {0}
  BY DecodeAssumption, WordsAssumption
<1>2. LineBytes * ByteBits \in Nat \ {0} /\ MemSize * ByteBits \in Nat \ {0}
  BY <1>1
<1> QED BY <1>1, <1>2, DecodeAssumption DEF LineBits

\* A mapping is whole lines and begins above 0.
LEMMA RegionMeans ==
    ASSUME NEW r \in Regions
    PROVE  /\ r.addr \in Nat /\ r.size \in Nat /\ 0 < r.addr /\ 0 < r.size
           /\ r.addr + r.size <= MemSize
           /\ r.addr % LineBytes = 0 /\ r.size % LineBytes = 0
BY DecodeAssumption, WordsAssumption DEF Words

\* Whole lines.
LEMMA Lines ==
    ASSUME NEW x \in Nat, NEW y \in Nat, x % LineBytes = 0, y % LineBytes = 0
    PROVE  /\ x < y => x + LineBytes <= y
           /\ (x + y) % LineBytes = 0 /\ (x + LineBytes) % LineBytes = 0
           /\ y <= x => (x - y) % LineBytes = 0
<1> DEFINE k == x \div LineBytes
           j == y \div LineBytes
<1>1. x = LineBytes * k /\ y = LineBytes * j /\ k \in Int /\ j \in Int
  <2>1. x = LineBytes * k + (x % LineBytes) /\ y = LineBytes * j + (y % LineBytes)
        /\ k \in Int /\ j \in Int
    BY Division, Widths
  <2> HIDE DEF k, j
  <2> QED BY <2>1, Widths
<1> HIDE DEF k, j
<1>2. /\ x + y = LineBytes * (k + j) + 0 /\ x - y = LineBytes * (k - j) + 0
      /\ x + LineBytes = LineBytes * (k + 1) + 0
  BY <1>1, Widths
<1>3. (x + y) % LineBytes = 0 /\ (x - y) % LineBytes = 0 /\ (x + LineBytes) % LineBytes = 0
  <2>1. 0 \in 0 .. LineBytes - 1 /\ k + j \in Int /\ k - j \in Int /\ k + 1 \in Int
        /\ x + y \in Int /\ x - y \in Int /\ x + LineBytes \in Int
    BY <1>1, Widths
  <2>2. LineBytes \in Nat \ {0}
    BY Widths
  <2>3. (x + y) % LineBytes = 0
    BY <1>2, <2>1, <2>2, Quotient
  <2>4. (x - y) % LineBytes = 0
    BY <1>2, <2>1, <2>2, Quotient
  <2>5. (x + LineBytes) % LineBytes = 0
    BY <1>2, <2>1, <2>2, Quotient
  <2> QED BY <2>3, <2>4, <2>5
<1>4. ASSUME x < y PROVE x + LineBytes <= y
  <2>1. CASE k >= j
    <3>1. LineBytes * (k - j) >= 0
      BY <1>1, <2>1, Widths
    <3>2. LineBytes * (k - j) = x - y
      BY <1>1, Widths
    <3> QED BY <1>4, <3>1, <3>2
  <2>2. CASE k + 1 <= j
    <3>1. LineBytes * (j - (k + 1)) >= 0
      BY <1>1, <2>2, Widths
    <3>2. LineBytes * (j - (k + 1)) = y - (x + LineBytes)
      BY <1>1, Widths
    <3> QED BY <1>1, <3>1, <3>2, Widths
  <2> QED BY <1>1, <2>1, <2>2
<1> QED BY <1>3, <1>4

-----------------------------------------------------------------------------
(* The inductive invariant.                                                *)

DInv == TypeOK /\ LineInside

\* The next line, if the code finds it mapped, is the next in memory and inside
\* the block; if not, the mapping ends here.
LEMMA NextLineMeans ==
    ASSUME DInv, Running
    PROVE  /\ NextLineMapped => /\ NextLine = iaddr + LineBytes
                                /\ iline + LineBytes + LineBytes <= imem.size
           /\ ~NextLineMapped => iline + LineBytes = imem.size
           /\ NextLine \in Words
<1>1. /\ imem.addr \in Nat /\ imem.size \in Nat /\ 0 < imem.addr
      /\ imem.addr + imem.size <= MemSize /\ imem.size % LineBytes = 0
  BY RegionMeans DEF DInv, TypeOK
<1>2. /\ iline \in Nat /\ iline % LineBytes = 0 /\ iline + LineBytes <= imem.size
      /\ iaddr = imem.addr + iline
  BY Widths DEF DInv, TypeOK, LineInside, Running
<1>3. iline + LineBytes \in Nat /\ (iline + LineBytes) % LineBytes = 0
      /\ LineBytes \in Nat \ {0} /\ MemSize \in Nat \ {0}
  BY <1>2, Lines, Widths
<1>4. CASE iaddr + LineBytes = MemSize
  <2>1. NextLine = 0
    BY <1>2, <1>3, <1>4 DEF NextLine, Word
  <2>2. Word(NextLine - imem.addr) = MemSize - imem.addr
    BY <1>1, <1>3, <2>1 DEF Word
  <2> QED BY <1>1, <1>2, <1>3, <1>4, <2>1, <2>2 DEF NextLineMapped, Words
<1>5. CASE iaddr + LineBytes < MemSize
  <2>1. NextLine = iaddr + LineBytes
    BY <1>1, <1>2, <1>3, <1>5 DEF NextLine, Word
  <2>2. Word(NextLine - imem.addr) = iline + LineBytes
    BY <1>1, <1>2, <1>3, <1>5, <2>1 DEF Word
  <2>3. iline + LineBytes < imem.size => iline + LineBytes + LineBytes <= imem.size
    BY <1>1, <1>3, Lines
  <2> QED BY <1>1, <1>2, <1>3, <1>5, <2>1, <2>2, <2>3 DEF NextLineMapped, Words
<1>6. iaddr + LineBytes <= MemSize /\ iaddr + LineBytes \in Int
  BY <1>1, <1>2, <1>3
<1> QED BY <1>3, <1>4, <1>5, <1>6

\* What an address is made of: a line and an offset into it.
LEMMA TargetMeans ==
    ASSUME NEW t \in Int
    PROVE  /\ LineOf(t) \in Words /\ LineOf(t) % LineBytes = 0
           /\ LineOf(t) + LineBytes <= MemSize
           /\ OffsetOf(t) \in 0 .. LineBits - 1
           /\ t % (MemSize * ByteBits) = LineOf(t) * ByteBits + OffsetOf(t)
<1> DEFINE q == t \div LineBits
           o == OffsetOf(t)
           x == q * LineBytes
           k == x \div MemSize
           l == LineOf(t)
<1>1. t = LineBits * q + o /\ q \in Int /\ o \in 0 .. LineBits - 1
  BY Division, Widths DEF OffsetOf
<1>2. x = MemSize * k + l /\ k \in Int /\ l \in 0 .. MemSize - 1
  <2>1. x \in Int
    BY <1>1, Widths
  <2>2. l = x % MemSize
    BY DEF LineOf
  <2> HIDE DEF x, l
  <2> QED BY <2>1, <2>2, Division, Widths
<1>3. x = q * LineBytes
  OBVIOUS
<1> HIDE DEF q, o, x, k, l
<1>4. PICK m \in Int : MemSize = LineBytes * m
  <2>1. MemSize = LineBytes * (MemSize \div LineBytes) + (MemSize % LineBytes)
        /\ MemSize \div LineBytes \in Int
    BY Division, Widths
  <2>2. MemSize % LineBytes = 0
    BY DecodeAssumption
  <2> DEFINE m == MemSize \div LineBytes
  <2>3. MemSize = LineBytes * m + 0 /\ m \in Int
    BY <2>1, <2>2
  <2> HIDE DEF m
  <2> QED BY <2>3, Widths
<1>5. l % LineBytes = 0
  <2>1. l = LineBytes * (q - m * k) + 0
    BY <1>1, <1>2, <1>3, <1>4, Widths
  <2>2. q - m * k \in Int /\ 0 \in 0 .. LineBytes - 1 /\ l \in Int
    BY <1>1, <1>2, <1>4, Widths
  <2> QED BY <2>1, <2>2, Quotient, Widths
<1>6. l + LineBytes <= MemSize
  <2>1. MemSize % LineBytes = 0 /\ l \in Nat /\ l < MemSize
    BY <1>2, Widths, DecodeAssumption
  <2> QED BY <1>5, <2>1, Lines, Widths
<1>7. t % (MemSize * ByteBits) = l * ByteBits + o
  <2>1. t = (MemSize * ByteBits) * k + (l * ByteBits + o)
    <3>1. LineBits * q = (LineBytes * q) * ByteBits
      BY <1>1, Widths
    <3>2. (LineBytes * q) * ByteBits = (MemSize * k + l) * ByteBits
      BY <1>1, <1>2, <1>3, Widths
    <3>3. (MemSize * k + l) * ByteBits = (MemSize * ByteBits) * k + l * ByteBits
      BY <1>2, Widths
    <3>4. l * ByteBits \in Int /\ (MemSize * ByteBits) * k \in Int
      BY <1>2, Widths
    <3> QED BY <1>1, <3>1, <3>2, <3>3, <3>4
  <2>2. l * ByteBits + o \in 0 .. MemSize * ByteBits - 1
    <3>1. (l + LineBytes) * ByteBits <= MemSize * ByteBits
      <4>1. (MemSize - (l + LineBytes)) * ByteBits >= 0
        BY <1>2, <1>6, Widths
      <4>2. (MemSize - (l + LineBytes)) * ByteBits = MemSize * ByteBits - (l + LineBytes) * ByteBits
        BY <1>2, Widths
      <4> QED BY <1>2, <4>1, <4>2, Widths
    <3>2. (l + LineBytes) * ByteBits = l * ByteBits + LineBits
      BY <1>2, Widths
    <3>3. l * ByteBits \in Nat
      BY <1>2, Widths
    <3> QED BY <1>1, <3>1, <3>2, <3>3, Widths
  <2> QED BY <1>2, <2>1, <2>2, Quotient, Widths
<1> QED BY <1>1, <1>2, <1>5, <1>6, <1>7 DEF Words, l, o

\* A line inside memory is made of bits of memory.
LEMMA LineInMemory ==
    ASSUME NEW a \in Nat, a + LineBytes <= MemSize, NEW i \in 0 .. LineBits - 1
    PROVE  a * ByteBits + i \in BitAddrs
<1>1. (MemSize - (a + LineBytes)) * ByteBits >= 0
  BY Widths
<1>2. (MemSize - (a + LineBytes)) * ByteBits = MemSize * ByteBits - (a * ByteBits + LineBits)
  BY Widths
<1>3. a * ByteBits \in Nat
  BY Widths
<1> QED BY <1>1, <1>2, <1>3, Widths DEF BitAddrs

LEMMA LineType ==
    ASSUME TypeOK, NEW x \in Nat, x + LineBytes <= imem.size
    PROVE  LineAt(x) \in [0 .. LineBits - 1 -> {0, 1}]
<1>1. imem.addr + x \in Nat /\ imem.addr + x + LineBytes <= MemSize
  BY RegionMeans, Widths DEF TypeOK
<1>2. ASSUME NEW i \in 0 .. LineBits - 1
      PROVE  image[(imem.addr + x) * ByteBits + i] \in {0, 1}
  <2>1. (imem.addr + x) * ByteBits + i \in BitAddrs
    BY <1>1, LineInMemory
  <2> QED BY <2>1 DEF TypeOK
<1> QED BY <1>2 DEF LineAt

WordType == [0 .. WordBits - 1 -> {0, 1}]

LEMMA ShiftType ==
    ASSUME NEW v \in [0 .. LineBits - 1 -> {0, 1}], NEW k \in Int
    PROVE  ShiftRight(v, k) \in WordType /\ ShiftLeft(v, k) \in WordType
<1> DEFINE c == k % LineBits
<1>1. c \in 0 .. LineBits - 1
  BY Division, Widths
<1> HIDE DEF c
<1>2. ASSUME NEW i \in 0 .. WordBits - 1
      PROVE  /\ (IF i + c < LineBits THEN v[i + c] ELSE 0) \in {0, 1}
             /\ (IF i >= c THEN v[i - c] ELSE 0) \in {0, 1}
  BY <1>1, Widths, DecodeAssumption
<1>3. /\ ShiftRight(v, k) = [i \in 0 .. WordBits - 1 |-> IF i + c < LineBits THEN v[i + c] ELSE 0]
      /\ ShiftLeft(v, k) = [i \in 0 .. WordBits - 1 |-> IF i >= c THEN v[i - c] ELSE 0]
  BY DEF ShiftRight, ShiftLeft, c
<1> QED BY <1>2, <1>3 DEF WordType

LEMMA RestType ==
    ASSUME DInv
    PROVE  Rest \in WordType
<1>1. TypeOK /\ iline \in Nat /\ iline + LineBytes <= imem.size /\ ioff \in Int
  BY Widths DEF DInv, TypeOK, LineInside
<1>2. LineAt(iline) \in [0 .. LineBits - 1 -> {0, 1}]
  BY <1>1, LineType
<1>3. ShiftRight(LineAt(iline), ioff) \in WordType
  BY <1>1, <1>2, ShiftType
<1> QED BY <1>3 DEF Rest, Word0, WordType

LEMMA OutType ==
    ASSUME NEW v \in WordType, NEW w \in WordType, NEW n \in Nat
    PROVE  Or(v, w) \in WordType /\ Low(v, n) \in WordType
BY DEF Or, Low, WordType

\* Aligning ends in the line, or just after it, wherever the line is.
LEMMA AlignMeans ==
    ASSUME NEW o \in 0 .. LineBits, NEW a \in Nat
    PROVE  /\ ((o + ByteBits - 1) \div ByteBits) * ByteBits \in 0 .. LineBits
           /\ ((a * ByteBits + o + ByteBits - 1) \div ByteBits) * ByteBits
              = a * ByteBits + ((o + ByteBits - 1) \div ByteBits) * ByteBits
<1> DEFINE q == (o + ByteBits - 1) \div ByteBits
           r == (o + ByteBits - 1) % ByteBits
<1>1. o + ByteBits - 1 = ByteBits * q + r /\ q \in Int /\ r \in 0 .. ByteBits - 1
  <2>1. o + ByteBits - 1 \in Int /\ ByteBits \in Nat \ {0}
    BY Widths
  <2> DEFINE y == o + ByteBits - 1
  <2>2. y \in Int
    BY <2>1
  <2> HIDE DEF y
  <2>3. y = ByteBits * (y \div ByteBits) + (y % ByteBits) /\ y \div ByteBits \in Int
        /\ y % ByteBits \in 0 .. ByteBits - 1
    BY <2>1, <2>2, Division
  <2> QED BY <2>3 DEF y
<1> HIDE DEF q, r
<1>2. q >= 0
  <2>1. CASE q <= -1
    <3>1. ByteBits * (-1 - q) >= 0
      BY <1>1, <2>1, Widths
    <3>2. ByteBits * (-1 - q) = -ByteBits - ByteBits * q
      BY <1>1, Widths
    <3> QED BY <1>1, <3>1, <3>2, Widths
  <2> QED BY <1>1, <2>1
<1>3. q <= LineBytes
  <2>1. CASE q >= LineBytes + 1
    <3>1. ByteBits * (q - (LineBytes + 1)) >= 0
      BY <1>1, <2>1, Widths
    <3>2. ByteBits * (q - (LineBytes + 1)) = ByteBits * q - (LineBits + ByteBits)
      BY <1>1, Widths
    <3> QED BY <1>1, <3>1, <3>2, Widths
  <2> QED BY <1>1, <2>1, Widths
<1>4. q * ByteBits \in 0 .. LineBits
  <2>1. q * ByteBits >= 0 /\ (LineBytes - q) * ByteBits >= 0
    BY <1>1, <1>2, <1>3, Widths
  <2>2. (LineBytes - q) * ByteBits = LineBits - q * ByteBits
    BY <1>1, Widths
  <2> QED BY <1>1, <2>1, <2>2, Widths
<1>5. (a * ByteBits + o + ByteBits - 1) \div ByteBits = a + q
  <2>1. a * ByteBits + o + ByteBits - 1 = ByteBits * (a + q) + r
    BY <1>1, Widths
  <2>2. a * ByteBits + o + ByteBits - 1 \in Int /\ a + q \in Int
    BY <1>1, Widths
  <2> QED BY <1>1, <2>1, <2>2, Quotient, Widths
<1>6. (a + q) * ByteBits = a * ByteBits + q * ByteBits
  BY <1>1, Widths
<1> QED BY <1>4, <1>5, <1>6 DEF q

-----------------------------------------------------------------------------
(* The steps preserve the invariant.                                       *)

LEMMA InitInside == Init => DInv
<1> SUFFICES ASSUME Init PROVE DInv
  OBVIOUS
<1>1. /\ imem.addr \in Nat /\ imem.size \in Nat /\ 0 < imem.size
      /\ imem.addr + imem.size <= MemSize /\ imem.size % LineBytes = 0
  BY RegionMeans DEF Init
<1>2. 0 % LineBytes = 0
  <2>1. 0 = LineBytes * 0 + 0 /\ 0 \in 0 .. LineBytes - 1
    BY Widths
  <2> QED BY <2>1, Quotient, Widths
<1>3. LineBytes <= imem.size
  <2>1. 0 + LineBytes <= imem.size
    BY <1>1, <1>2, Lines
  <2> QED BY <2>1, Widths
<1>4. LineInside
  BY <1>1, <1>2, <1>3, Widths DEF Init, LineInside
<1>5. TypeOK
  BY <1>1, Widths DEF Init, TypeOK, Word0, Words
<1> QED BY <1>4, <1>5 DEF DInv

LEMMA GotoInside ==
    ASSUME DInv, NEW t \in Targets, Goto(t)
    PROVE  DInv'
<1>1. t \in Int
  BY Widths
<1>2. /\ iaddr' \in Words /\ iaddr' % LineBytes = 0 /\ ioff' \in 0 .. LineBits
  BY <1>1, TargetMeans, Widths DEF Goto
<1>3. /\ imem' \in Regions /\ imem'.addr <= iaddr'
      /\ iaddr' + LineBytes <= imem'.addr + imem'.size /\ iline' = iaddr' - imem'.addr
  BY DEF Goto, Holding
<1>4. /\ imem'.addr \in Nat /\ imem'.size \in Nat /\ imem'.addr % LineBytes = 0
      /\ imem'.addr + imem'.size <= MemSize
  BY <1>3, RegionMeans
<1>5. iline' % LineBytes = 0
  BY <1>2, <1>3, <1>4, Lines, SMTT(30) DEF Words
<1>6. LineInside'
  BY <1>2, <1>3, <1>4, <1>5, Widths DEF LineInside, Words
<1>7. iline' \in 0 .. MemSize - 1
  BY <1>2, <1>3, <1>4, Widths DEF Words
<1>8. TypeOK'
  BY <1>2, <1>3, <1>7 DEF TypeOK, DInv, Goto
<1> QED BY <1>6, <1>8 DEF DInv

LEMMA FetchInside ==
    ASSUME DInv, NEW n \in FieldSizes, FetchInLine(n) \/ FetchAcross(n) \/ FetchFault(n)
    PROVE  DInv'
<1>1. /\ n \in Nat /\ 0 < n /\ n <= WordBits /\ WordBits <= LineBits
      /\ ioff \in 0 .. LineBits /\ Rest \in WordType
  BY Widths, RestType, DecodeAssumption DEF DInv, TypeOK
<1>2. CASE FetchInLine(n)
  <2>1. out' \in WordType
    BY <1>1, <1>2, OutType DEF FetchInLine
  <2>2. ioff' \in 0 .. LineBits
    BY <1>1, <1>2, Widths DEF FetchInLine, Crosses
  <2> QED BY <1>2, <2>1, <2>2 DEF FetchInLine, DInv, TypeOK, LineInside, Running, WordType
<1>3. CASE FetchAcross(n)
  <2>1. /\ NextLine = iaddr + LineBytes /\ iline + LineBytes + LineBytes <= imem.size
        /\ NextLine \in Words
    BY <1>3, NextLineMeans DEF FetchAcross
  <2>2. /\ iline \in Nat /\ iline % LineBytes = 0 /\ iaddr = imem.addr + iline
        /\ imem.addr \in Nat /\ imem.size \in Nat /\ imem.addr + imem.size <= MemSize
    BY <1>3, RegionMeans DEF FetchAcross, DInv, TypeOK, LineInside
  <2>3. (iline + LineBytes) % LineBytes = 0 /\ iline + LineBytes \in Nat
    BY <2>2, Lines, Widths
  <2>4. LineAt(iline + LineBytes) \in [0 .. LineBits - 1 -> {0, 1}]
    BY <2>1, <2>3, LineType DEF DInv
  <2>5. out' \in WordType
    <3>1. LineBits - ioff \in Int
      BY <1>1, Widths
    <3>2. ShiftLeft(LineAt(iline + LineBytes), LineBits - ioff) \in WordType
      BY <2>4, <3>1, ShiftType
    <3>3. Or(Rest, ShiftLeft(LineAt(iline + LineBytes), LineBits - ioff)) \in WordType
      BY <1>1, <3>2, OutType
    <3>4. out' = Low(Or(Rest, ShiftLeft(LineAt(iline + LineBytes), LineBits - ioff)), n)
      BY <1>3 DEF FetchAcross, LineAt
    <3> QED BY <1>1, <3>3, <3>4, OutType
  <2>6. ioff' \in 0 .. LineBits
    BY <1>1, <1>3, Widths DEF FetchAcross, Crosses
  <2>7. iline' = iline + LineBytes /\ iaddr' = iaddr + LineBytes /\ imem' = imem
    BY <1>3, <2>1 DEF FetchAcross
  <2>8. LineInside'
    BY <2>1, <2>2, <2>3, <2>7, Widths DEF LineInside
  <2>9. TypeOK'
    <3>1. iline' \in 0 .. MemSize - 1
      BY <2>1, <2>2, <2>7, Widths
    <3> QED BY <1>3, <2>1, <2>5, <2>6, <3>1 DEF FetchAcross, DInv, TypeOK, WordType
  <2> QED BY <2>8, <2>9 DEF DInv
<1>4. CASE FetchFault(n)
  <2>1. NextLine \in Words
    BY <1>4, NextLineMeans DEF FetchFault
  <2> QED BY <1>4, <2>1 DEF FetchFault, DInv, TypeOK, LineInside, Running
<1> QED BY <1>2, <1>3, <1>4

LEMMA StoreInside ==
    ASSUME DInv, NEW x \in Words, NEW p \in Patterns, Store(x, p)
    PROVE  DInv'
<1>1. ASSUME NEW b \in BitAddrs
      PROVE  (IF b \div ByteBits = x THEN p[b % ByteBits] ELSE image[b]) \in {0, 1}
  <2>1. b % ByteBits \in 0 .. ByteBits - 1
    BY Division, Widths DEF BitAddrs
  <2>2. p \in [0 .. ByteBits - 1 -> {0, 1}] /\ image \in [BitAddrs -> {0, 1}]
    BY DecodeAssumption DEF DInv, TypeOK
  <2> QED BY <2>1, <2>2
<1>2. image' \in [BitAddrs -> {0, 1}]
  BY <1>1 DEF Store
<1> QED BY <1>2 DEF Store, DInv, TypeOK, LineInside, Running

LEMMA NextInside == DInv /\ [Next]_vars => DInv'
<1> SUFFICES ASSUME DInv, [Next]_vars PROVE DInv'
  OBVIOUS
<1>1. CASE \E n \in FieldSizes : FetchInLine(n) \/ FetchAcross(n) \/ FetchFault(n)
  BY <1>1, FetchInside
<1>2. CASE Align
  <2>1. ioff \in 0 .. LineBits /\ 0 \in Nat
    BY DEF DInv, TypeOK
  <2>2. ioff' \in 0 .. LineBits
    BY <1>2, <2>1, AlignMeans DEF Align
  <2> QED BY <1>2, <2>2 DEF Align, DInv, TypeOK, LineInside, Running
<1>3. ASSUME NEW t \in Targets, Goto(t) PROVE DInv'
  BY <1>3, GotoInside
<1>4. ASSUME NEW t \in Targets, GotoFault(t) PROVE DInv'
  <2>1. /\ iaddr' \in Words /\ ioff' \in 0 .. LineBits
    BY <1>4, TargetMeans, Widths DEF GotoFault
  <2> QED BY <1>4, <2>1 DEF GotoFault, DInv, TypeOK, LineInside, Running
<1>5. CASE \E x \in Words, p \in Patterns : Store(x, p)
  BY <1>5, StoreInside
<1>6. CASE UNCHANGED vars
  BY <1>6 DEF vars, DInv, TypeOK, LineInside, Running
<1> QED BY <1>1, <1>2, <1>3, <1>4, <1>5, <1>6 DEF Next, Exited

\* Types, and the line the processor reads stays inside the block.
THEOREM FetchInvariant == Spec => []DInv
<1> QED BY InitInside, NextInside, PTL DEF Spec

\* iline never reads past the block of the current mapping: decode_fetch's test
\* on iaddr, which is all it has, keeps the host pointer inside it.
THEOREM LineStaysInside == Spec => []LineInside
<1>1. DInv => LineInside
  BY DEF DInv
<1> QED BY <1>1, FetchInvariant, PTL

-----------------------------------------------------------------------------
(* Fetching implements the stream of bits.                                 *)

LongLine == WordBits < LineBits

Pos == iaddr * ByteBits + ioff

\* Where the state of a running program stands.
LEMMA Place ==
    ASSUME DInv, Running
    PROVE  /\ imem \in Regions /\ imem.addr \in Nat /\ imem.size \in Nat
           /\ iline \in Nat /\ iaddr \in Nat /\ ioff \in 0 .. LineBits
           /\ iaddr = imem.addr + iline /\ iline + LineBytes <= imem.size
           /\ imem.addr + imem.size <= MemSize
           /\ image \in [BitAddrs -> {0, 1}] /\ Rest \in WordType
BY RegionMeans, RestType DEF DInv, TypeOK, LineInside, Words

\* What is left of the line are the bits after the program counter, then zeros.
LEMMA RestMeans ==
    ASSUME DInv, Running, NEW i \in 0 .. WordBits - 1
    PROVE  Rest[i] = IF ioff + i < LineBits THEN image[Pos + i] ELSE 0
<1> USE Place, Widths
<1>1. CASE ioff = LineBits
  BY <1>1 DEF Rest, Word0
<1>2. CASE ioff # LineBits
  <2>1. ioff % LineBits = ioff
    BY <1>2
  <2>2. Rest[i] = IF i + ioff < LineBits THEN LineAt(iline)[i + ioff] ELSE 0
    BY <1>2, <2>1 DEF Rest, ShiftRight
  <2>3. CASE i + ioff < LineBits
    <3>1. i + ioff \in 0 .. LineBits - 1
      BY <2>3
    <3>2. LineAt(iline)[i + ioff] = image[iaddr * ByteBits + (i + ioff)]
      BY <3>1 DEF LineAt
    <3>3. iaddr * ByteBits \in Int
      OBVIOUS
    <3>4. iaddr * ByteBits + (i + ioff) = Pos + i
      BY <3>3 DEF Pos
    <3> QED BY <2>2, <2>3, <3>2, <3>4
  <2> QED BY <2>2, <2>3
<1> QED BY <1>1, <1>2

\* The next line, shifted, holds the bits from the end of this one on.
LEMMA NextMeans ==
    ASSUME LongLine, DInv, Running, NEW n \in FieldSizes, Crosses(n), NEW i \in 0 .. n - 1
    PROVE  ShiftLeft(LineAt(iline + LineBytes), LineBits - ioff)[i]
           = IF ioff + i < LineBits THEN 0 ELSE image[Pos + i]
<1> USE Place, Widths
<1> DEFINE c == LineBits - ioff
<1>1. c \in 0 .. LineBits - 1 /\ n \in Nat /\ n <= WordBits /\ i \in 0 .. WordBits - 1
  BY DEF Crosses, LongLine
<1>2. c % LineBits = c
  BY <1>1
<1>3. ShiftLeft(LineAt(iline + LineBytes), c)[i]
      = IF i >= c THEN LineAt(iline + LineBytes)[i - c] ELSE 0
  BY <1>1, <1>2 DEF ShiftLeft
<1>4. CASE ioff + i < LineBits
  BY <1>3, <1>4
<1>5. CASE ioff + i >= LineBits
  <2>1. i - c \in 0 .. LineBits - 1
    BY <1>1, <1>5 DEF LongLine
  <2>2. LineAt(iline + LineBytes)[i - c]
        = image[(imem.addr + (iline + LineBytes)) * ByteBits + (i - c)]
    BY <2>1 DEF LineAt
  <2>3. (imem.addr + (iline + LineBytes)) * ByteBits = iaddr * ByteBits + LineBits
    OBVIOUS
  <2>4. iaddr * ByteBits \in Int
    OBVIOUS
  <2>5. iaddr * ByteBits + LineBits + (i - c) = Pos + i
    BY <2>4 DEF Pos
  <2> QED BY <1>1, <1>3, <1>5, <2>2, <2>3, <2>5
<1> QED BY <1>1, <1>4, <1>5

\* The bits a fetch takes.
Taken(n) == [i \in 0 .. WordBits - 1 |-> IF i < n THEN image[Pos + i] ELSE 0]

LEMMA InLineTakes ==
    ASSUME DInv, Running, NEW n \in FieldSizes, ~Crosses(n)
    PROVE  Low(Rest, n) = Taken(n)
<1>1. ASSUME NEW i \in 0 .. WordBits - 1, i < n PROVE Rest[i] = image[Pos + i]
  BY <1>1, RestMeans, Place, Widths DEF Crosses
<1> QED BY <1>1 DEF Low, Taken

LEMMA AcrossTakes ==
    ASSUME LongLine, DInv, Running, NEW n \in FieldSizes, Crosses(n)
    PROVE  Low(Or(Rest, ShiftLeft(LineAt(iline + LineBytes), LineBits - ioff)), n) = Taken(n)
<1> DEFINE w == ShiftLeft(LineAt(iline + LineBytes), LineBits - ioff)
<1>1. ASSUME NEW i \in 0 .. WordBits - 1, i < n PROVE Or(Rest, w)[i] = image[Pos + i]
  <2>1. i \in 0 .. n - 1
    BY <1>1, Widths
  <2>2. w[i] = IF ioff + i < LineBits THEN 0 ELSE image[Pos + i]
    BY <2>1, NextMeans
  <2>3. Rest[i] = IF ioff + i < LineBits THEN image[Pos + i] ELSE 0
    BY RestMeans
  <2>4. Rest[i] \in {0, 1}
    BY Place DEF WordType
  <2>5. Or(Rest, w)[i] = IF Rest[i] = 1 THEN 1 ELSE w[i]
    BY DEF Or
  <2> HIDE DEF w
  <2> QED BY <2>2, <2>3, <2>4, <2>5
<1> HIDE DEF w
<1>2. Low(Or(Rest, w), n) = Taken(n)
  BY <1>1 DEF Low, Taken
<1> QED BY <1>2 DEF w

LEMMA FetchMaps ==
    ASSUME LongLine, DInv, NEW n \in FieldSizes, FetchInLine(n) \/ FetchAcross(n)
    PROVE  BS!Fetch(n)
<1>1. Running
  BY DEF FetchInLine, FetchAcross
<1>2. /\ imem.addr \in Nat /\ imem.size \in Nat /\ iline \in Nat /\ iaddr \in Nat
      /\ ioff \in 0 .. LineBits /\ iaddr = imem.addr + iline
      /\ iline + LineBytes <= imem.size /\ n \in Nat /\ n <= WordBits
      /\ iaddr * ByteBits \in Nat
  BY <1>1, Place, Widths
<1>3. ASSUME NEW z \in Nat, iline + z <= imem.size
      PROVE  iaddr * ByteBits + z * ByteBits <= BS!BitsEnd(imem)
  <2>1. (imem.size - (iline + z)) * ByteBits >= 0
    BY <1>2, <1>3, Widths
  <2>2. (imem.size - (iline + z)) * ByteBits
        = (imem.addr + imem.size) * ByteBits - (iaddr * ByteBits + z * ByteBits)
    BY <1>2, Widths
  <2> QED BY <1>2, <2>1, <2>2, Widths DEF BS!BitsEnd
<1>4. CASE FetchInLine(n)
  <2>1. iaddr * ByteBits + LineBits <= BS!BitsEnd(imem)
    BY <1>2, <1>3, Widths
  <2>2. BS!BitsEnd(imem) \in Int
    BY <1>2, Widths DEF BS!BitsEnd
  <2>3. Pos + n < BS!BitsEnd(imem)
    BY <1>2, <1>4, <2>1, <2>2, Widths DEF Pos, FetchInLine, Crosses
  <2>4. out' = Taken(n)
    BY <1>1, <1>4, InLineTakes DEF FetchInLine
  <2>5. Pos' = Pos + n
    BY <1>2, <1>4 DEF Pos, FetchInLine
  <2> QED BY <1>1, <1>4, <2>3, <2>4, <2>5 DEF BS!Fetch, BS!Running, Running, FetchInLine, Taken, Pos
<1>5. CASE FetchAcross(n)
  <2>1. NextLine = iaddr + LineBytes /\ iline + (LineBytes + LineBytes) <= imem.size
    BY <1>1, <1>2, <1>5, NextLineMeans, Widths DEF FetchAcross
  <2>2. iaddr * ByteBits + (LineBits + LineBits) <= BS!BitsEnd(imem)
    <3>1. (LineBytes + LineBytes) * ByteBits = LineBits + LineBits
      BY Widths
    <3>2. LineBytes + LineBytes \in Nat
      BY Widths
    <3> QED BY <1>3, <2>1, <3>1, <3>2
  <2>3. BS!BitsEnd(imem) \in Int
    BY <1>2, Widths DEF BS!BitsEnd
  <2>4. Pos + n < BS!BitsEnd(imem)
    BY <1>2, <2>2, <2>3, Widths DEF Pos, LongLine
  <2>5. out' = Taken(n)
    <3>1. out' = Low(Or(Rest, ShiftLeft(LineAt(iline + LineBytes), LineBits - ioff)), n)
      BY <1>5 DEF FetchAcross, LineAt
    <3> QED BY <1>1, <1>5, <3>1, AcrossTakes DEF FetchAcross
  <2>6. Pos' = Pos + n
    <3>1. (iaddr + LineBytes) * ByteBits = iaddr * ByteBits + LineBits
      BY <1>2, Widths
    <3>2. Pos' = (iaddr + LineBytes) * ByteBits + (ioff + n - LineBits)
      BY <1>5, <2>1 DEF Pos, FetchAcross
    <3> QED BY <1>2, <3>1, <3>2, Widths DEF Pos
  <2> QED BY <1>1, <1>5, <2>4, <2>5, <2>6 DEF BS!Fetch, BS!Running, Running, FetchAcross, Taken, Pos
<1> QED BY <1>4, <1>5

LEMMA FetchFaultMaps ==
    ASSUME DInv, NEW n \in FieldSizes, FetchFault(n)
    PROVE  BS!FetchFault(n)
<1>1. /\ Running /\ Crosses(n) /\ iline + LineBytes = imem.size /\ NextLine \in Words
  BY NextLineMeans DEF FetchFault
<1>2. /\ imem.addr \in Nat /\ iline \in Nat /\ iaddr \in Nat /\ ioff \in 0 .. LineBits
      /\ iaddr = imem.addr + iline /\ n \in Nat /\ iaddr * ByteBits \in Nat
  BY <1>1, Place, Widths
<1>3. BS!BitsEnd(imem) = iaddr * ByteBits + LineBits
  <2>1. imem.addr + imem.size = iaddr + LineBytes
    BY <1>1, <1>2, Widths
  <2>2. (iaddr + LineBytes) * ByteBits = iaddr * ByteBits + LineBits
    BY <1>2, Widths
  <2> QED BY <2>1, <2>2 DEF BS!BitsEnd
<1>4. Pos + n >= BS!BitsEnd(imem)
  BY <1>1, <1>2, <1>3, Widths DEF Pos, Crosses
<1>5. Pos' \in Nat
  <2>1. iaddr' * ByteBits \in Nat /\ ioff' \in Nat
    BY <1>1, <1>2, Widths DEF FetchFault, Words
  <2> QED BY <2>1 DEF Pos
<1> QED BY <1>1, <1>4, <1>5 DEF BS!FetchFault, BS!Running, Running, FetchFault, Pos

LEMMA AlignMaps ==
    ASSUME DInv, Align
    PROVE  BS!Align
<1>1. Running /\ iaddr \in Nat /\ ioff \in 0 .. LineBits
  BY Place DEF Align
<1>2. ((iaddr * ByteBits + ioff + ByteBits - 1) \div ByteBits) * ByteBits
      = iaddr * ByteBits + ((ioff + ByteBits - 1) \div ByteBits) * ByteBits
  BY <1>1, AlignMeans
<1>3. iaddr' = iaddr /\ ioff' = ((ioff + ByteBits - 1) \div ByteBits) * ByteBits
  BY DEF Align
<1>4. Pos' = ((Pos + ByteBits - 1) \div ByteBits) * ByteBits
  BY <1>2, <1>3 DEF Pos
<1> QED BY <1>1, <1>4 DEF BS!Align, BS!Running, Running, Align, Pos

\* The byte of a bit address lies in the line of that address.
LEMMA ByteOf ==
    ASSUME NEW l \in Nat, NEW o \in 0 .. LineBits - 1
    PROVE  \E k \in 0 .. LineBytes - 1 : (l * ByteBits + o) \div ByteBits = l + k
<1> DEFINE q == o \div ByteBits
           r == o % ByteBits
<1>1. o = ByteBits * q + r /\ q \in Int /\ r \in 0 .. ByteBits - 1
  <2>1. o \in Int /\ ByteBits \in Nat \ {0}
    BY Widths
  <2> QED BY <2>1, Division
<1> HIDE DEF q, r
<1>2. q >= 0
  <2>1. CASE q <= -1
    <3>1. ByteBits * (-1 - q) >= 0
      BY <1>1, <2>1, Widths
    <3>2. ByteBits * (-1 - q) = -ByteBits - ByteBits * q
      BY <1>1, Widths
    <3> QED BY <1>1, <3>1, <3>2, Widths
  <2> QED BY <1>1, <2>1
<1>3. q < LineBytes
  <2>1. CASE q >= LineBytes
    <3>1. ByteBits * (q - LineBytes) >= 0
      BY <1>1, <2>1, Widths
    <3>2. ByteBits * (q - LineBytes) = ByteBits * q - LineBits
      BY <1>1, Widths
    <3> QED BY <1>1, <3>1, <3>2, Widths
  <2> QED BY <1>1, <2>1, Widths
<1>4. (l * ByteBits + o) \div ByteBits = l + q
  <2>1. l * ByteBits + o = ByteBits * (l + q) + r
    BY <1>1, Widths
  <2>2. l * ByteBits + o \in Int /\ l + q \in Int
    BY <1>1, Widths
  <2> QED BY <1>1, <2>1, <2>2, Quotient, Widths
<1> QED BY <1>1, <1>2, <1>3, <1>4, Widths

\* A mapping that has a byte of a line has the line.
LEMMA ByteMeansLine ==
    ASSUME NEW r \in Regions, NEW l \in Nat, l % LineBytes = 0,
           NEW k \in 0 .. LineBytes - 1, BS!HasByte(r, l + k)
    PROVE  r \in Holding(l)
<1>1. /\ r.addr \in Nat /\ r.size \in Nat /\ r.addr + r.size \in Nat
      /\ r.addr % LineBytes = 0 /\ r.size % LineBytes = 0
  BY RegionMeans
<1>2. (r.addr + r.size) % LineBytes = 0
  BY <1>1, Lines
<1>3. r.addr <= l + k /\ l + k < r.addr + r.size
  BY DEF BS!HasByte
<1>4. l < r.addr => l + LineBytes <= r.addr
  BY <1>1, Lines
<1>5. l < r.addr + r.size => l + LineBytes <= r.addr + r.size
  BY <1>1, <1>2, Lines
<1> QED BY <1>1, <1>3, <1>4, <1>5, Widths DEF Holding

LEMMA GotoMaps ==
    ASSUME DInv, NEW t \in Targets, Goto(t)
    PROVE  BS!Goto(t)
<1>1. /\ t \in Int /\ LineOf(t) \in Nat /\ OffsetOf(t) \in 0 .. LineBits - 1
      /\ t % (MemSize * ByteBits) = LineOf(t) * ByteBits + OffsetOf(t)
  BY TargetMeans, Widths DEF Words
<1>2. Pos' = t % (MemSize * ByteBits)
  BY <1>1 DEF Goto, Pos
<1>3. PICK k \in 0 .. LineBytes - 1 : Pos' \div ByteBits = LineOf(t) + k
  BY <1>1, <1>2, ByteOf
<1>4. imem' \in Regions /\ BS!HasByte(imem', LineOf(t) + k)
  <2>1. /\ imem' \in Regions /\ imem'.addr <= LineOf(t)
        /\ LineOf(t) + LineBytes <= imem'.addr + imem'.size
    BY DEF Goto, Holding
  <2> QED BY <1>1, <2>1, RegionMeans, Widths DEF BS!HasByte
<1> QED BY <1>2, <1>3, <1>4 DEF BS!Goto, BS!Running, Running, Goto, Pos

LEMMA GotoFaultMaps ==
    ASSUME DInv, NEW t \in Targets, GotoFault(t)
    PROVE  BS!GotoFault(t)
<1>1. /\ t \in Int /\ LineOf(t) \in Nat /\ OffsetOf(t) \in 0 .. LineBits - 1
      /\ LineOf(t) % LineBytes = 0
      /\ t % (MemSize * ByteBits) = LineOf(t) * ByteBits + OffsetOf(t)
  BY TargetMeans, Widths DEF Words
<1>2. PICK k \in 0 .. LineBytes - 1 :
          (t % (MemSize * ByteBits)) \div ByteBits = LineOf(t) + k
  BY <1>1, ByteOf
<1>3. \A r \in Regions : ~BS!HasByte(r, (t % (MemSize * ByteBits)) \div ByteBits)
  BY <1>1, <1>2, ByteMeansLine DEF GotoFault
<1>4. Pos' \in Nat
  <2>1. iaddr' * ByteBits \in Nat /\ ioff' \in Nat
    BY <1>1, Widths DEF GotoFault
  <2> QED BY <2>1 DEF Pos
<1> QED BY <1>3, <1>4 DEF BS!GotoFault, BS!Running, Running, GotoFault, Pos

LEMMA StoreMaps ==
    ASSUME NEW x \in Words, NEW p \in Patterns, Store(x, p)
    PROVE  BS!Store(x, p)
<1>1. Pos' = Pos
  BY DEF Store, Pos
<1> QED BY <1>1 DEF BS!Store, BS!Running, BS!HasByte, BS!BitAddrs, BitAddrs, Running, Store, Pos

LEMMA InitMaps == Init => BS!Init
<1> SUFFICES ASSUME Init PROVE BS!Init
  OBVIOUS
<1>1. iaddr * ByteBits + ioff = imem.addr * ByteBits
  BY RegionMeans, Widths DEF Init
<1> QED BY <1>1 DEF Init, BS!Init, BS!BitAddrs, BitAddrs, BS!Word0, Word0

LEMMA StepMaps ==
    ASSUME LongLine, DInv, [Next]_vars
    PROVE  [BS!Next]_BS!vars
<1>1. ASSUME NEW n \in FieldSizes, FetchInLine(n) \/ FetchAcross(n) \/ FetchFault(n)
      PROVE  BS!Next
  BY <1>1, FetchMaps, FetchFaultMaps DEF BS!Next
<1>2. CASE Align
  BY <1>2, AlignMaps DEF BS!Next
<1>3. ASSUME NEW t \in Targets, Goto(t) \/ GotoFault(t) PROVE BS!Next
  BY <1>3, GotoMaps, GotoFaultMaps DEF BS!Next
<1>4. ASSUME NEW x \in Words, NEW p \in Patterns, Store(x, p) PROVE BS!Next
  <2>1. BS!Store(x, p)
    BY <1>4, StoreMaps
  <2> QED BY <2>1 DEF BS!Next, BS!Words, Words
<1>5. CASE UNCHANGED vars
  BY <1>5 DEF vars, BS!vars
<1> QED BY <1>1, <1>2, <1>3, <1>4, <1>5 DEF Next, Exited

LEMMA StepsMap == LongLine => (DInv /\ [Next]_vars => [BS!Next]_BS!vars)
BY StepMaps

\* When a word is shorter than a line, fetching, aligning and jumping by lines
\* is the stream of bits: the same bits, faults where the mapping ends, and no
\* trace of a line's end.  A line of one word is the case that fails.
THEOREM FetchIsAStream == ASSUME LongLine PROVE Spec => ImplementsBitStream
<1>1. DInv /\ [Next]_vars => [BS!Next]_BS!vars
  BY StepsMap
<1> QED BY <1>1, InitMaps, FetchInvariant, PTL DEF Spec, ImplementsBitStream, BS!Spec
=============================================================================
