------------------------------ MODULE TypesProofs ------------------------------
(***************************************************************************)
(* The C types.  The layouts that complete_struct computes, for every set of  *)
(* tags and scalars: what is recorded of a struct stays right, no struct      *)
(* contains itself, and a definition never changes (CTypes).  And what the     *)
(* checks of assignments make of types: const objects stay as they are and     *)
(* pointers lead where their types allow (ConstFlow).                         *)
(***************************************************************************)
EXTENDS CTypes, ConstFlow, SequenceTheorems, WellFoundedInduction, TLAPS

--------------------------------------------------------------------------------
(* Numbers.                                                                  *)

LEMMA Minimal ==
    \A R, T : /\ IsWellFoundedOn(R, Nat)
              /\ T \subseteq Nat /\ T # {}
              => \E x \in T : \A y \in T : ~(<<y, x>> \in R)
<1> TAKE R, T
<1> HAVE IsWellFoundedOn(R, Nat) /\ T \subseteq Nat /\ T # {}
<1> QED BY WFMin

\* A set of natural numbers that is not empty has a least element.
LEMMA Least ==
    ASSUME NEW T \in SUBSET Nat, T # {}
    PROVE  \E x \in T : \A y \in T : x <= y
<1>1. \E R : IsWellFoundedOn(R, Nat) /\ \A x, y \in Nat : x < y => <<x, y>> \in R
  <2>1. IsWellFoundedOn(OpToRel(<, Nat), Nat)
    BY NatLessThanWellFounded
  <2>2. \A x, y \in Nat : x < y => <<x, y>> \in OpToRel(<, Nat)
    BY DEF OpToRel
  <2> QED BY <2>1, <2>2
<1>2. PICK R : IsWellFoundedOn(R, Nat) /\ \A x, y \in Nat : x < y => <<x, y>> \in R
  BY <1>1
<1>3. PICK x \in T : \A y \in T : ~(<<y, x>> \in R)
  BY <1>2, Minimal
<1>4. \A y \in T : y \in Nat /\ x \in Nat
  OBVIOUS
<1>5. \A y \in T : ~(y < x)
  BY <1>2, <1>3, <1>4, Zenon
<1>6. \A y, z \in Nat : ~(y < z) => z <= y
  OBVIOUS
<1> QED BY <1>4, <1>5, <1>6, Zenon

LEMMA RoundUpFacts ==
    ASSUME NEW v \in Nat, NEW u \in Nat \ {0}
    PROVE  /\ RoundUp(v, u) \in Nat /\ v <= RoundUp(v, u)
           /\ RoundUp(v, u) % u = 0
<1> DEFINE q == (v + u - 1) \div u
<1>1. /\ q \in Nat
      /\ q * u <= v + u - 1 /\ v + u - 1 < q * u + u
  OBVIOUS
<1> HIDE DEF q
<1>2. q * u \in Nat /\ (q * u) % u = 0
  BY <1>1
<1>3. RoundUp(v, u) = q * u
  BY DEF RoundUp, q
<1> QED BY <1>1, <1>2, <1>3

LEMMA RoundUpOne == ASSUME NEW v \in Nat PROVE RoundUp(v, 1) = v
BY DEF RoundUp

--------------------------------------------------------------------------------
(* Ends is what its recursion says.                                          *)

LEMMA EndsExist ==
    ASSUME NEW size, NEW unit, NEW n \in Nat
    PROVE  \E e : e = [i \in 0 .. n |->
                         IF i = 0 THEN 0 ELSE RoundUp(e[i - 1], unit[i]) + size[i]]
<1> DEFINE Good(k) ==
             \E e : e = [i \in 0 .. k |->
                           IF i = 0 THEN 0 ELSE RoundUp(e[i - 1], unit[i]) + size[i]]
           Bad == {k \in Nat : ~Good(k)}
<1>1. Good(0)
  <2> DEFINE e == [i \in 0 .. 0 |-> 0]
  <2>1. e = [i \in 0 .. 0 |->
               IF i = 0 THEN 0 ELSE RoundUp(e[i - 1], unit[i]) + size[i]]
    OBVIOUS
  <2> QED BY <2>1
<1>2. ASSUME NEW k \in Nat, Good(k) PROVE Good(k + 1)
  <2>1. PICK e : e = [i \in 0 .. k |->
                        IF i = 0 THEN 0 ELSE RoundUp(e[i - 1], unit[i]) + size[i]]
    BY <1>2
  <2> DEFINE last == RoundUp(e[k], unit[k + 1]) + size[k + 1]
             f == [i \in 0 .. k + 1 |-> IF i <= k THEN e[i] ELSE last]
  <2> HIDE DEF last
  <2>2. \A i \in 0 .. k : f[i] = e[i]
    OBVIOUS
  <2>3. ASSUME NEW i \in 0 .. k + 1
        PROVE  f[i] = IF i = 0 THEN 0 ELSE RoundUp(f[i - 1], unit[i]) + size[i]
    <3>1. CASE i = 0
      BY <2>1, <2>2, <3>1
    <3>2. CASE i # 0 /\ i <= k
      <4>1. i - 1 \in 0 .. k /\ i \in 0 .. k
        BY <3>2
      <4>2. e[i] = RoundUp(e[i - 1], unit[i]) + size[i]
        BY <2>1, <3>2, <4>1
      <4> HIDE DEF f
      <4> QED BY <2>2, <3>2, <4>1, <4>2
    <3>3. CASE i = k + 1
      <4>1. f[i] = last /\ i - 1 = k /\ i # 0
        BY <3>3
      <4> HIDE DEF f
      <4> QED BY <2>2, <3>3, <4>1 DEF last
    <3> QED BY <3>1, <3>2, <3>3
  <2>4. f = [i \in 0 .. k + 1 |->
               IF i = 0 THEN 0 ELSE RoundUp(f[i - 1], unit[i]) + size[i]]
    <3>1. f = [i \in 0 .. k + 1 |-> f[i]]
      OBVIOUS
    <3> HIDE DEF f
    <3> QED BY <2>3, <3>1
  <2> QED BY <2>4
<1> HIDE DEF Good
<1>3. ASSUME Bad # {} PROVE FALSE
  <2>1. PICK k \in Bad : \A y \in Bad : k <= y
    BY <1>3, Least
  <2>2. k # 0 /\ k - 1 \in Nat
    BY <1>1
  <2>3. Good(k - 1)
    BY <2>1, <2>2
  <2>4. Good(k - 1 + 1)
    BY <1>2, <2>2, <2>3
  <2> QED BY <2>2, <2>4
<1>4. Good(n)
  BY <1>3
<1> QED BY <1>4 DEF Good

LEMMA EndsDef ==
    ASSUME NEW size \in Seq(Nat), NEW unit
    PROVE  Ends(size, unit) =
             [i \in 0 .. Len(size) |->
                IF i = 0 THEN 0
                ELSE RoundUp(Ends(size, unit)[i - 1], unit[i]) + size[i]]
<1>1. Len(size) \in Nat
  OBVIOUS
<1>2. \E e : e = [i \in 0 .. Len(size) |->
                    IF i = 0 THEN 0 ELSE RoundUp(e[i - 1], unit[i]) + size[i]]
  BY <1>1, EndsExist
<1> QED BY <1>2, Zenon DEF Ends

\* Sizes and units of the members of a body.
Units == Nat \ {0}

LEMMA EndsType ==
    ASSUME NEW size \in Seq(Nat), NEW unit \in Seq(Units), Len(unit) = Len(size)
    PROVE  /\ \A i \in 0 .. Len(size) : Ends(size, unit)[i] \in Nat
           /\ \A i \in 1 .. Len(size) :
                 Ends(size, unit)[i] = RoundUp(Ends(size, unit)[i - 1], unit[i]) + size[i]
<1> DEFINE e == Ends(size, unit)
           n == Len(size)
           Bad == {i \in Nat : i <= n /\ e[i] \notin Nat}
<1>1. e = [i \in 0 .. n |-> IF i = 0 THEN 0 ELSE RoundUp(e[i - 1], unit[i]) + size[i]]
  BY EndsDef
<1>2. n \in Nat /\ \A i \in 1 .. n : size[i] \in Nat /\ unit[i] \in Nat \ {0}
  BY DEF Units
<1> HIDE DEF e, n
<1>3. e[0] = 0 /\ \A i \in 1 .. n : e[i] = RoundUp(e[i - 1], unit[i]) + size[i]
  BY <1>1, <1>2
<1>4. ASSUME Bad # {} PROVE FALSE
  <2>1. PICK k \in Bad : \A y \in Bad : k <= y
    BY <1>4, Least
  <2>2. k \in 1 .. n /\ k - 1 \in Nat /\ k - 1 <= n
    BY <1>2, <1>3
  <2>3. e[k - 1] \in Nat
    BY <2>1, <2>2
  <2>4. RoundUp(e[k - 1], unit[k]) \in Nat
    BY <1>2, <2>2, <2>3, RoundUpFacts
  <2>5. e[k] \in Nat
    BY <1>2, <1>3, <2>2, <2>4
  <2> QED BY <2>5
<1> QED BY <1>2, <1>3, <1>4 DEF e, n

\* A member ends where the next may begin, or before.
LEMMA EndsGrow ==
    ASSUME NEW size \in Seq(Nat), NEW unit \in Seq(Units), Len(unit) = Len(size),
           NEW j \in 0 .. Len(size), NEW i \in 0 .. j
    PROVE  Ends(size, unit)[i] <= Ends(size, unit)[j]
<1> DEFINE e == Ends(size, unit)
           n == Len(size)
           Bad == {k \in Nat : k <= n /\ i <= k /\ ~(e[i] <= e[k])}
<1>1. n \in Nat /\ \A k \in 1 .. n : size[k] \in Nat /\ unit[k] \in Nat \ {0}
  BY DEF Units
<1>2. /\ \A k \in 0 .. n : e[k] \in Nat
      /\ \A k \in 1 .. n : e[k] = RoundUp(e[k - 1], unit[k]) + size[k]
  BY EndsType
<1>3. j \in 0 .. n /\ i \in 0 .. j
  OBVIOUS
<1> HIDE DEF e, n
<1>4. \A k \in 1 .. n : e[k - 1] <= e[k]
  <2> TAKE k \in 1 .. n
  <2>1. k - 1 \in 0 .. n
    BY <1>1
  <2>2. e[k - 1] <= RoundUp(e[k - 1], unit[k]) /\ RoundUp(e[k - 1], unit[k]) \in Nat
    BY <1>1, <1>2, <2>1, RoundUpFacts
  <2> QED BY <1>1, <1>2, <2>1, <2>2
<1>5. ASSUME Bad # {} PROVE FALSE
  <2>1. PICK k \in Bad : \A y \in Bad : k <= y
    BY <1>5, Least
  <2>2. k # i
    BY <1>1, <1>2, <1>3
  <2>3. k - 1 \in Nat /\ k - 1 <= n /\ i <= k - 1 /\ k \in 1 .. n
    BY <1>1, <1>3, <2>2
  <2>4. e[i] <= e[k - 1]
    BY <1>1, <2>1, <2>3
  <2>5. e[k - 1] <= e[k]
    BY <1>4, <2>3
  <2>6. e[i] \in Nat /\ e[k - 1] \in Nat /\ e[k] \in Nat
    BY <1>1, <1>2, <1>3, <2>3
  <2> QED BY <2>4, <2>5, <2>6
<1> QED BY <1>1, <1>3, <1>5 DEF e, n

LEMMA LargestOf ==
    \A b, n \in Nat : \A g, S :
       /\ \A i \in 1 .. n : g[i] \in Nat /\ g[i] \in S
       /\ b \in S /\ \A x \in S : x = b \/ \E i \in 1 .. n : x = g[i]
       => /\ Largest(S) \in S /\ Largest(S) \in Nat
          /\ \A x \in S : x <= Largest(S)
<1> TAKE b, n \in Nat
<1> TAKE g, S
<1> HAVE /\ \A i \in 1 .. n : g[i] \in Nat /\ g[i] \in S
         /\ b \in S /\ \A x \in S : x = b \/ \E i \in 1 .. n : x = g[i]
<1> DEFINE Upto(k) == {b} \cup {g[i] : i \in 1 .. k}
           Has(k) == \E m \in Upto(k) : \A x \in Upto(k) : x <= m
           Bad == {k \in Nat : k <= n /\ ~Has(k)}
<1>1. Has(0)
  OBVIOUS
<1>2. ASSUME NEW k \in Nat, k + 1 <= n, Has(k) PROVE Has(k + 1)
  <2>1. Upto(k + 1) = Upto(k) \cup {g[k + 1]}
    <3>1. 1 .. k + 1 = 1 .. k \cup {k + 1}
      OBVIOUS
    <3> QED BY <3>1
  <2>2. g[k + 1] \in Nat /\ Upto(k) \subseteq Nat
    BY <1>2
  <2>3. PICK m \in Upto(k) : \A x \in Upto(k) : x <= m
    BY <1>2
  <2> HIDE DEF Upto
  <2>4. CASE g[k + 1] <= m
    BY <2>1, <2>2, <2>3, <2>4
  <2>5. CASE ~(g[k + 1] <= m)
    <3>1. \A x \in Upto(k + 1) : x <= g[k + 1]
      BY <2>1, <2>2, <2>3, <2>5
    <3> QED BY <2>1, <3>1
  <2> QED BY <2>4, <2>5
<1> HIDE DEF Has
<1>3. ASSUME Bad # {} PROVE FALSE
  <2>1. PICK k \in Bad : \A y \in Bad : k <= y
    BY <1>3, Least
  <2>2. k # 0 /\ k - 1 \in Nat /\ k - 1 + 1 = k
    BY <1>1
  <2>3. Has(k - 1)
    BY <2>1, <2>2
  <2>4. Has(k)
    BY <1>2, <2>2, <2>3
  <2> QED BY <2>4
<1>4. Has(n)
  BY <1>3
<1>5. \E m \in S : \A x \in S : x <= m
  <2>1. S = Upto(n)
    OBVIOUS
  <2> QED BY <1>4, <2>1 DEF Has
<1>6. S \subseteq Nat
  OBVIOUS
<1>7. Largest(S) \in S /\ \A x \in S : x <= Largest(S)
  BY <1>5, Zenon DEF Largest
<1> QED BY <1>6, <1>7

--------------------------------------------------------------------------------
(* One layout: members inside, aligned, and apart unless it is a union's.    *)

LEMMA StructPlaced ==
    ASSUME NEW t, t \notin UnionTags,
           NEW size \in Seq(Nat), NEW unit \in Seq(Units), Len(unit) = Len(size)
    PROVE  /\ Extent(t, size, unit) \in Nat
           /\ \A i \in 1 .. Len(size) :
                 /\ Start(t, size, unit, i) \in Nat
                 /\ Start(t, size, unit, i) % unit[i] = 0
                 /\ Start(t, size, unit, i) + size[i] <= Extent(t, size, unit)
           /\ \A i, j \in 1 .. Len(size) : i < j =>
                 Start(t, size, unit, i) + size[i] <= Start(t, size, unit, j)
<1> DEFINE e == Ends(size, unit)
           n == Len(size)
           at(i) == Start(t, size, unit, i)
<1>1. n \in Nat /\ \A i \in 1 .. n : size[i] \in Nat /\ unit[i] \in Nat \ {0}
  BY DEF Units
<1>2. /\ \A i \in 0 .. n : e[i] \in Nat
      /\ \A i \in 1 .. n : e[i] = RoundUp(e[i - 1], unit[i]) + size[i]
  BY EndsType
<1>3. \A j \in 0 .. n : \A i \in 0 .. j : e[i] <= e[j]
  BY EndsGrow
<1>4. Extent(t, size, unit) = e[n] /\ \A i \in 1 .. n : at(i) = RoundUp(e[i - 1], unit[i])
  BY DEF Extent, Start
<1> HIDE DEF e, n, at
<1>5. ASSUME NEW i \in 1 .. n
      PROVE  /\ at(i) \in Nat /\ at(i) % unit[i] = 0 /\ at(i) + size[i] = e[i]
             /\ e[i - 1] <= at(i)
  <2>1. i - 1 \in 0 .. n
    BY <1>1
  <2>2. e[i - 1] \in Nat /\ unit[i] \in Nat \ {0} /\ size[i] \in Nat
    BY <1>1, <1>2, <2>1
  <2> DEFINE r == RoundUp(e[i - 1], unit[i])
  <2>3. r \in Nat /\ e[i - 1] <= r /\ r % unit[i] = 0
    BY <2>2, RoundUpFacts
  <2>4. at(i) = r /\ e[i] = r + size[i]
    BY <1>2, <1>4
  <2> HIDE DEF r
  <2> QED BY <2>3, <2>4
<1>6. \A i \in 1 .. n : at(i) + size[i] <= e[n]
  <2> TAKE i \in 1 .. n
  <2>1. n \in 0 .. n /\ i \in 0 .. n
    BY <1>1
  <2>2. e[i] <= e[n]
    BY <1>3, <2>1
  <2> QED BY <1>5, <2>2
<1>7. \A i, j \in 1 .. n : i < j => at(i) + size[i] <= at(j)
  <2> TAKE i, j \in 1 .. n
  <2> HAVE i < j
  <2>1. j - 1 \in 0 .. n /\ i \in 0 .. j - 1 /\ i \in 0 .. n
    BY <1>1
  <2>2. e[i] <= e[j - 1]
    BY <1>3, <2>1
  <2>3. e[i] \in Nat /\ e[j - 1] \in Nat
    BY <1>2, <2>1
  <2>4. at(i) + size[i] = e[i] /\ e[j - 1] <= at(j) /\ at(j) \in Nat
    BY <1>5
  <2> QED BY <2>2, <2>3, <2>4
<1>8. e[n] \in Nat
  BY <1>1, <1>2
<1> QED BY <1>4, <1>5, <1>6, <1>7, <1>8 DEF n, at

LEMMA UnionPlaced ==
    ASSUME NEW t \in UnionTags,
           NEW size \in Seq(Nat), NEW unit \in Seq(Units), Len(unit) = Len(size)
    PROVE  /\ Extent(t, size, unit) \in Nat
           /\ \A i \in 1 .. Len(size) :
                 /\ Start(t, size, unit, i) = 0 /\ 0 % unit[i] = 0
                 /\ size[i] <= Extent(t, size, unit)
<1> DEFINE S == {0} \cup {size[i] : i \in 1 .. Len(size)}
<1>1. /\ Len(size) \in Nat /\ DOMAIN size = 1 .. Len(size)
      /\ \A i \in 1 .. Len(size) : size[i] \in Nat /\ unit[i] \in Nat \ {0}
  BY DEF Units
<1>2. Extent(t, size, unit) = Largest(S)
  BY <1>1 DEF Extent
<1>3. \A i \in 1 .. Len(size) : size[i] \in S
  OBVIOUS
<1>4. Largest(S) \in Nat /\ \A x \in S : x <= Largest(S)
  <2>1. /\ 0 \in S /\ \A i \in 1 .. Len(size) : size[i] \in S
        /\ \A x \in S : x = 0 \/ \E i \in 1 .. Len(size) : x = size[i]
    OBVIOUS
  <2> DEFINE n == Len(size)
  <2>2. n \in Nat /\ 0 \in Nat /\ \A i \in 1 .. n : size[i] \in Nat /\ size[i] \in S
    BY <1>1, <2>1
  <2>3. /\ 0 \in S /\ \A x \in S : x = 0 \/ \E i \in 1 .. n : x = size[i]
    BY <2>1
  <2> HIDE DEF S, n
  <2>4. \A g, S_ :
           /\ \A i \in 1 .. n : g[i] \in Nat /\ g[i] \in S_
           /\ 0 \in S_ /\ \A x \in S_ : x = 0 \/ \E i \in 1 .. n : x = g[i]
           => /\ Largest(S_) \in S_ /\ Largest(S_) \in Nat
              /\ \A x \in S_ : x <= Largest(S_)
    BY <2>2, LargestOf
  <2> QED BY <2>2, <2>3, <2>4, Zenon
<1>5. \A i \in 1 .. Len(size) : Start(t, size, unit, i) = 0 /\ 0 % unit[i] = 0
  BY <1>1 DEF Start
<1> QED BY <1>2, <1>3, <1>4, <1>5

LEMMA Placed ==
    ASSUME NEW t,
           NEW size \in Seq(Nat), NEW unit \in Seq(Units), Len(unit) = Len(size)
    PROVE  /\ Extent(t, size, unit) \in Nat
           /\ \A i \in 1 .. Len(size) :
                 /\ Start(t, size, unit, i) \in Nat
                 /\ Start(t, size, unit, i) % unit[i] = 0
                 /\ Start(t, size, unit, i) + size[i] <= Extent(t, size, unit)
           /\ t \notin UnionTags => \A i, j \in 1 .. Len(size) : i < j =>
                 Start(t, size, unit, i) + size[i] <= Start(t, size, unit, j)
<1>1. CASE t \notin UnionTags
  BY <1>1, StructPlaced
<1>2. CASE t \in UnionTags
  <2>1. \A i \in 1 .. Len(size) : size[i] \in Nat
    OBVIOUS
  <2> QED BY <1>2, <2>1, UnionPlaced
<1> QED BY <1>1, <1>2

--------------------------------------------------------------------------------
(* Types and their sizes.                                                    *)

Aligned == \A t \in Tags : defs[t].align \in Alignments

LEMMA AlignmentsPositive ==
    /\ Alignments \subseteq Nat \ {0} /\ 1 \in Alignments
    /\ \A a, b \in Alignments : a <= b => b % a = 0
BY TypesAssumption, AlignmentAssumption DEF Alignments

LEMMA Product == \A a, b \in Nat : a * b \in Nat
OBVIOUS

LEMMA SizesType ==
    ASSUME defs \in [Tags -> Struct], NEW ty \in Type
    PROVE  /\ Cells(ty) \in Nat /\ Bytes(ty) \in Nat
           /\ Aligned => Align(ty) \in Alignments
<1>1. ty.count \in Nat /\ ty.base \in Scalars \cup Tags
  BY TypesAssumption DEF Type, Bases
<1>2. \A t \in Tags : defs[t].cells \in Nat /\ defs[t].bytes \in Nat
  BY DEF Struct
<1>3. /\ Of(ty, [s \in Scalars |-> 1], 1, "cells") \in Nat
      /\ Of(ty, Size, PtrBytes, "bytes") \in Nat
  BY <1>1, <1>2, TypesAssumption DEF Of
<1>4. Aligned => Align(ty) \in Alignments
  BY <1>1, TypesAssumption DEF Of, Align, Aligned, Alignments
<1> QED BY <1>1, <1>3, <1>4, Product DEF Cells, Bytes

\* What a body that is laid out now gets, whatever its members are.
Laid(t, d, fields) ==
    /\ d \in Struct /\ d.state = "complete" /\ d.align \in Alignments
    /\ Len(d.members) = Len(fields)
    /\ d.bytes % d.align = 0
    /\ \A i \in 1 .. Len(fields) :
          /\ d.members[i].type = fields[i]
          /\ d.members[i].cell + Cells(fields[i]) <= d.cells
          /\ d.members[i].byte + Bytes(fields[i]) <= d.bytes
          /\ d.members[i].byte % Align(fields[i]) = 0
          /\ d.align % Align(fields[i]) = 0
    /\ t \notin UnionTags =>
          \A i, j \in 1 .. Len(fields) : i < j =>
             /\ d.members[i].cell + Cells(fields[i]) <= d.members[j].cell
             /\ d.members[i].byte + Bytes(fields[i]) <= d.members[j].byte

LEMMA LayoutLaid ==
    ASSUME defs \in [Tags -> Struct], Aligned, NEW t \in Tags, NEW fields \in Seq(Type)
    PROVE  Laid(t, Layout(t, fields), fields)
<1> DEFINE n == Len(fields)
           cells == [i \in 1 .. n |-> Cells(fields[i])]
           bytes == [i \in 1 .. n |-> Bytes(fields[i])]
           unit == [i \in 1 .. n |-> Align(fields[i])]
           one == [i \in 1 .. n |-> 1]
           units == {1} \cup {unit[i] : i \in 1 .. n}
           align == Largest(units)
           d == Layout(t, fields)
<1>1. n \in Nat /\ \A i \in 1 .. n : fields[i] \in Type
  OBVIOUS
<1>2. \A i \in 1 .. n : Cells(fields[i]) \in Nat /\ Bytes(fields[i]) \in Nat
  BY <1>1, SizesType
<1>3. \A i \in 1 .. n : Align(fields[i]) \in Alignments /\ Align(fields[i]) \in Nat \ {0}
  BY <1>1, SizesType, AlignmentsPositive
<1>4. d = [state |-> "complete",
           members |-> [i \in 1 .. n |-> [type |-> fields[i], cell |-> Start(t, cells, one, i),
                                          byte |-> Start(t, bytes, unit, i)]],
           cells |-> Extent(t, cells, one),
           bytes |-> RoundUp(Extent(t, bytes, unit), align),
           align |-> align]
  BY DEF Layout
<1> HIDE DEF n, d
<1>5. cells \in Seq(Nat) /\ one \in Seq(Units) /\ Len(cells) = n /\ Len(one) = n
  <2>1. cells \in [1 .. n -> Nat] /\ one \in [1 .. n -> Units]
    BY <1>2 DEF Units
  <2> HIDE DEF cells, one
  <2> QED BY <1>1, <2>1
<1>6. bytes \in Seq(Nat) /\ unit \in Seq(Units) /\ Len(bytes) = n /\ Len(unit) = n
  <2>1. bytes \in [1 .. n -> Nat] /\ unit \in [1 .. n -> Units]
    BY <1>2, <1>3 DEF Units
  <2> HIDE DEF bytes, unit
  <2> QED BY <1>1, <2>1
<1>7. /\ align \in units /\ align \in Nat
      /\ \A i \in 1 .. n : unit[i] <= align
  <2>1. 1 \in Nat /\ \A i \in 1 .. n : unit[i] \in Nat /\ unit[i] \in units
    BY <1>3
  <2>2. 1 \in units /\ \A x \in units : x = 1 \/ \E i \in 1 .. n : x = unit[i]
    OBVIOUS
  <2> HIDE DEF units, unit
  <2>3. \A g, S :
           /\ \A i \in 1 .. n : g[i] \in Nat /\ g[i] \in S
           /\ 1 \in S /\ \A x \in S : x = 1 \/ \E i \in 1 .. n : x = g[i]
           => /\ Largest(S) \in S /\ Largest(S) \in Nat
              /\ \A x \in S : x <= Largest(S)
    BY <1>1, <2>1, LargestOf
  <2>4. /\ align \in units /\ align \in Nat
        /\ \A x \in units : x <= align
    BY <2>1, <2>2, <2>3, Zenon
  <2> QED BY <2>1, <2>4
<1>8. /\ align \in Alignments /\ align \in Nat \ {0}
      /\ \A i \in 1 .. n : align % Align(fields[i]) = 0
  <2>1. units \subseteq Alignments
    BY <1>3, AlignmentsPositive
  <2>2. align \in Alignments
    BY <1>7, <2>1
  <2>3. \A i \in 1 .. n : Align(fields[i]) <= align
    BY <1>7
  <2> HIDE DEF align
  <2> QED BY <1>3, <2>2, <2>3, AlignmentsPositive
<1> DEFINE c(i) == Start(t, cells, one, i)
           b(i) == Start(t, bytes, unit, i)
           C == Extent(t, cells, one)
           B == Extent(t, bytes, unit)
<1>9. /\ C \in Nat
      /\ \A i \in 1 .. n : c(i) \in Nat /\ c(i) + Cells(fields[i]) <= C
      /\ t \notin UnionTags =>
            \A i, j \in 1 .. n : i < j => c(i) + Cells(fields[i]) <= c(j)
  BY <1>5, Placed
<1>10. /\ B \in Nat
       /\ \A i \in 1 .. n : /\ b(i) \in Nat /\ b(i) + Bytes(fields[i]) <= B
                              /\ b(i) % Align(fields[i]) = 0
       /\ t \notin UnionTags =>
             \A i, j \in 1 .. n : i < j => b(i) + Bytes(fields[i]) <= b(j)
  BY <1>6, Placed
<1>11. RoundUp(B, align) \in Nat /\ B <= RoundUp(B, align) /\ RoundUp(B, align) % align = 0
  BY <1>8, <1>10, RoundUpFacts
<1>12. /\ d.state = "complete" /\ d.align = align /\ d.cells = C
       /\ d.bytes = RoundUp(B, align)
       /\ d.members = [i \in 1 .. n |-> [type |-> fields[i], cell |-> c(i), byte |-> b(i)]]
  BY <1>4
<1> HIDE DEF c, b, C, B, align
<1>13. /\ d.members \in Seq(Member) /\ Len(d.members) = n
       /\ \A i \in 1 .. n : /\ d.members[i].type = fields[i]
                              /\ d.members[i].cell = c(i) /\ d.members[i].byte = b(i)
  <2>0. \A i \in 1 .. n : [type |-> fields[i], cell |-> c(i), byte |-> b(i)] \in Member
    BY <1>1, <1>9, <1>10 DEF Member
  <2>1. d.members \in [1 .. n -> Member]
    BY <1>12, <2>0
  <2> QED BY <1>1, <1>12, <2>1
<1>14. d \in Struct
  <2>1. d = [state |-> d.state, members |-> d.members, cells |-> d.cells,
             bytes |-> d.bytes, align |-> d.align]
    BY <1>4
  <2> QED BY <1>8, <1>9, <1>11, <1>12, <1>13, <2>1 DEF Struct
<1>15. \A i \in 1 .. n : b(i) + Bytes(fields[i]) <= RoundUp(B, align)
  BY <1>2, <1>10, <1>11
<1> QED BY <1>8, <1>9, <1>10, <1>11, <1>12, <1>13, <1>14, <1>15 DEF Laid, n, d

--------------------------------------------------------------------------------
(* The inductive invariant.                                                  *)

\* Members of a complete struct have sizes, that is, complete types.
MembersSized ==
    \A t \in Tags : Defined(t) =>
        \A i \in 1 .. Len(defs[t].members) : Sized(defs[t].members[i].type)

IInv == TypeOK /\ LayoutSound /\ MembersSized /\ Aligned /\ NoSelfContainment

\* What a step may do to the table of tags: define tags, each from a body
\* whose members are sized, and enter others.
Grows ==
    /\ defs' \in [Tags -> Struct]
    /\ \A t \in Tags : Defined(t) => defs'[t] = defs[t]
    /\ \A t \in Tags : ~Defined(t)' => defs'[t].align \in Alignments
    /\ \A t \in Tags : Defined(t)' /\ ~Defined(t) =>
          \E fields \in Seq(Type) :
             /\ \A i \in 1 .. Len(fields) : Sized(fields[i])
             /\ Laid(t, defs'[t], fields)

\* What the table D of tags says of a type: Sized, Cells, Bytes and Align.
SizedIn(D, ty) ==
    ty.ptr \/ ty.base \in Scalars \/ (~ty.stale /\ D[ty.base].state = "complete")
OfIn(D, ty, scalar, pointer, field) ==
    CASE ty.ptr -> pointer
      [] ~ty.ptr /\ ty.base \in Scalars -> scalar[ty.base]
      [] OTHER -> D[ty.base][field]
CellsIn(D, ty) == ty.count * OfIn(D, ty, [s \in Scalars |-> 1], 1, "cells")
BytesIn(D, ty) == ty.count * OfIn(D, ty, Size, PtrBytes, "bytes")
AlignIn(D, ty) == OfIn(D, ty, Size, PtrBytes, "align")

LEMMA SaidNow ==
    ASSUME NEW ty
    PROVE  /\ Sized(ty) <=> SizedIn(defs, ty)
           /\ Cells(ty) = CellsIn(defs, ty) /\ Bytes(ty) = BytesIn(defs, ty)
           /\ Align(ty) = AlignIn(defs, ty)
BY DEF Sized, Defined, SizedIn, Cells, CellsIn, Bytes, BytesIn, Align, AlignIn, Of, OfIn

\* Sizes that are known do not change.
LEMMA SizesKept ==
    ASSUME Grows, NEW ty \in Type, Sized(ty)
    PROVE  /\ SizedIn(defs', ty)
           /\ CellsIn(defs', ty) = Cells(ty) /\ BytesIn(defs', ty) = Bytes(ty)
           /\ AlignIn(defs', ty) = Align(ty)
<1>1. ty.base \in Scalars \cup Tags
  BY DEF Type, Bases
<1>2. CASE ty.ptr
  BY <1>2 DEF SizedIn, Cells, Bytes, Align, Of, CellsIn, BytesIn, AlignIn, OfIn
<1>3. CASE ~ty.ptr /\ ty.base \in Scalars
  BY <1>3 DEF SizedIn, Cells, Bytes, Align, Of, CellsIn, BytesIn, AlignIn, OfIn
<1>4. CASE ~ty.ptr /\ ty.base \notin Scalars
  <2>1. ty.base \in Tags /\ ~ty.stale /\ Defined(ty.base)
    BY <1>1, <1>4 DEF Sized
  <2>2. defs'[ty.base] = defs[ty.base]
    BY <2>1 DEF Grows
  <2> QED BY <1>4, <2>1, <2>2
             DEF SizedIn, Defined, Cells, Bytes, Align, Of, CellsIn, BytesIn, AlignIn, OfIn
<1> QED BY <1>2, <1>3, <1>4

LEMMA MembersTyped ==
    ASSUME NEW D \in [Tags -> Struct], NEW t \in Tags
    PROVE  \A i \in 1 .. Len(D[t].members) : D[t].members[i].type \in Type
<1>1. D[t] \in Struct
  OBVIOUS
<1>2. D[t].members \in Seq(Member)
  BY <1>1 DEF Struct
<1> DEFINE m == D[t].members
<1> HIDE DEF m
<1>3. \A i \in 1 .. Len(m) : m[i] \in Member
  BY <1>2 DEF m
<1>4. \A i \in 1 .. Len(m) : m[i].type \in Type
  BY <1>3 DEF Member
<1> QED BY <1>4 DEF m

\* The members of a tag that is defined now: those it had, or those of the
\* body that was laid out.
LEMMA GrowsMembers ==
    ASSUME TypeOK, MembersSized, Grows, NEW t \in Tags, defs'[t].state = "complete",
           NEW i \in 1 .. Len(defs'[t].members)
    PROVE  defs'[t].members[i].type \in Type /\ Sized(defs'[t].members[i].type)
<1>1. CASE Defined(t)
  <2>1. defs'[t] = defs[t]
    BY <1>1 DEF Grows
  <2> QED BY <1>1, <2>1, MembersTyped DEF TypeOK, MembersSized
<1>2. CASE ~Defined(t)
  <2>1. PICK fields \in Seq(Type) :
           /\ \A k \in 1 .. Len(fields) : Sized(fields[k])
           /\ Laid(t, defs'[t], fields)
    BY <1>2 DEF Grows, Defined
  <2>2. i \in 1 .. Len(fields) /\ defs'[t].members[i].type = fields[i]
    BY <2>1 DEF Laid
  <2> QED BY <2>1, <2>2
<1> QED BY <1>1, <1>2

LEMMA GrowsMembersSized ==
    ASSUME TypeOK, MembersSized, Grows
    PROVE  MembersSized'
<1>1. ASSUME NEW t \in Tags, defs'[t].state = "complete",
             NEW i \in 1 .. Len(defs'[t].members)
      PROVE  SizedIn(defs', defs'[t].members[i].type)
  <2>1. defs'[t].members[i].type \in Type /\ Sized(defs'[t].members[i].type)
    BY <1>1, GrowsMembers
  <2> QED BY <2>1, SizesKept
<1> QED BY <1>1, Zenon DEF MembersSized, Sized, Defined, SizedIn

\* LayoutSound for one tag of the table D.
SoundIn(D, t) ==
    LET d == D[t]
        m == d.members
    IN /\ d.bytes % d.align = 0
       /\ \A i \in 1 .. Len(m) :
             /\ m[i].cell + CellsIn(D, m[i].type) <= d.cells
             /\ m[i].byte + BytesIn(D, m[i].type) <= d.bytes
             /\ m[i].byte % AlignIn(D, m[i].type) = 0
             /\ d.align % AlignIn(D, m[i].type) = 0
       /\ t \notin UnionTags =>
             \A i, j \in 1 .. Len(m) : i < j =>
                /\ m[i].cell + CellsIn(D, m[i].type) <= m[j].cell
                /\ m[i].byte + BytesIn(D, m[i].type) <= m[j].byte

LEMMA SoundMeans ==
    /\ LayoutSound <=> \A t \in Tags : Defined(t) => SoundIn(defs, t)
    /\ LayoutSound' <=> \A t \in Tags : defs'[t].state = "complete" => SoundIn(defs', t)
BY Zenon DEF LayoutSound, SoundIn, Defined, Cells, CellsIn, Bytes, BytesIn, Align, AlignIn, Of, OfIn

LEMMA GrowsSound ==
    ASSUME TypeOK, MembersSized, LayoutSound, Grows
    PROVE  LayoutSound'
<1>1. ASSUME NEW t \in Tags, defs'[t].state = "complete"
      PROVE  SoundIn(defs', t)
  <2> DEFINE d == defs'[t]
             m == d.members
  <2>1. \A i \in 1 .. Len(m) :
           /\ CellsIn(defs', m[i].type) = CellsIn(defs, m[i].type)
           /\ BytesIn(defs', m[i].type) = BytesIn(defs, m[i].type)
           /\ AlignIn(defs', m[i].type) = AlignIn(defs, m[i].type)
    <3> TAKE i \in 1 .. Len(m)
    <3>1. m[i].type \in Type /\ Sized(m[i].type)
      BY <1>1, GrowsMembers
    <3> QED BY <3>1, SizesKept, SaidNow
  <2>2. CASE Defined(t)
    <3>1. d = defs[t]
      BY <2>2 DEF Grows
    <3>2. SoundIn(defs, t)
      BY <2>2, SoundMeans
    <3> HIDE DEF d
    <3> QED BY <2>1, <3>1, <3>2 DEF SoundIn, d
  <2>3. CASE ~Defined(t)
    <3>1. PICK fields \in Seq(Type) : Laid(t, d, fields)
      BY <1>1, <2>3 DEF Grows, Defined
    <3>2. Len(m) = Len(fields) /\ \A i \in 1 .. Len(m) : m[i].type = fields[i]
      BY <3>1 DEF Laid
    <3>3. \A i \in 1 .. Len(m) :
             /\ CellsIn(defs', m[i].type) = Cells(fields[i])
             /\ BytesIn(defs', m[i].type) = Bytes(fields[i])
             /\ AlignIn(defs', m[i].type) = Align(fields[i])
      BY <2>1, <3>2, SaidNow
    <3> HIDE DEF d
    <3> QED BY <3>1, <3>2, <3>3 DEF Laid, SoundIn, d
  <2> QED BY <2>2, <2>3
<1> QED BY <1>1, SoundMeans

LEMMA GrowsAligned ==
    ASSUME Aligned, Grows
    PROVE  Aligned'
<1>1. ASSUME NEW t \in Tags PROVE defs'[t].align \in Alignments
  <2>1. CASE Defined(t)
    BY <2>1 DEF Grows, Aligned
  <2>2. CASE ~Defined(t) /\ defs'[t].state = "complete"
    BY <2>2 DEF Grows, Defined, Laid
  <2>3. CASE defs'[t].state # "complete"
    BY <2>3 DEF Grows, Defined
  <2> QED BY <2>1, <2>2, <2>3
<1> QED BY <1>1 DEF Aligned, Alignments

\* Whatever a struct contains was defined before it.
LEMMA GrowsUncontained ==
    ASSUME TypeOK, MembersSized, NoSelfContainment, Grows
    PROVE  NoSelfContainment'
<1> DEFINE In(D, t, u) ==
             /\ D[t].state = "complete"
             /\ \E i \in 1 .. Len(D[t].members) :
                   D[t].members[i].type.base = u /\ ~D[t].members[i].type.ptr
<1>1. ASSUME NEW t \in Tags, NEW u \in Tags, In(defs', t, u) PROVE Defined(u)
  <2>1. PICK i \in 1 .. Len(defs'[t].members) :
           defs'[t].members[i].type.base = u /\ ~defs'[t].members[i].type.ptr
    BY <1>1
  <2>2. Sized(defs'[t].members[i].type)
    BY <1>1, GrowsMembers
  <2>3. u \notin Scalars
    BY TypesAssumption
  <2> QED BY <2>1, <2>2, <2>3 DEF Sized
<1>2. ASSUME NEW t \in Tags, Defined(t), NEW u \in Tags, In(defs', t, u)
      PROVE  Contains(t, u)
  <2>1. defs'[t] = defs[t]
    BY <1>2 DEF Grows
  <2> QED BY <1>2, <2>1 DEF Contains
<1>3. NoSelfContainment' <=>
        \A group \in (SUBSET Tags) \ {{}} : \E t \in group : \A u \in group : ~In(defs', t, u)
  BY Zenon DEF NoSelfContainment, Contains, Defined
<1> HIDE DEF In
<1>4. ASSUME NEW group \in (SUBSET Tags) \ {{}}
      PROVE  \E t \in group : \A u \in group : ~In(defs', t, u)
  <2> DEFINE old == {t \in group : Defined(t)}
  <2>1. CASE old = {}
    <3>1. PICK t : t \in group
      BY <1>4
    <3>2. \A u \in group : ~Defined(u)
      BY <2>1
    <3> QED BY <1>1, <3>1, <3>2
  <2>2. CASE old # {}
    <3>1. old \in (SUBSET Tags) \ {{}}
      BY <2>2
    <3>2. PICK t \in old : \A u \in old : ~Contains(t, u)
      BY <3>1, Zenon DEF NoSelfContainment
    <3>3. ASSUME NEW u \in group, In(defs', t, u) PROVE FALSE
      <4>1. t \in Tags /\ u \in Tags /\ Defined(t) /\ u \in old
        BY <1>1, <3>3
      <4> QED BY <1>2, <3>2, <3>3, <4>1
    <3> QED BY <3>2, <3>3
  <2> QED BY <2>1, <2>2
<1> QED BY <1>3, <1>4

--------------------------------------------------------------------------------
(* Each action.                                                              *)

Body == [tag : Tags, fields : Seq(Type)]
KnownIn(D, ty) == ty.base \in Tags => D[ty.base].state # "absent"
BodyKnown(D, o) ==
    /\ D[o.tag].state # "absent"
    /\ \A k \in 1 .. Len(o.fields) : KnownIn(D, o.fields[k])

\* No tag is forgotten.
Kept == \A t \in Tags : defs[t].state # "absent" => defs'[t].state # "absent"

LEMMA TypeMeans ==
    /\ TypeOK <=> /\ defs \in [Tags -> Struct] /\ open \in Seq(Body) /\ objects \in Seq(Type)
                  /\ \A i \in 1 .. Len(open) : BodyKnown(defs, open[i])
                  /\ \A i \in 1 .. Len(objects) : KnownIn(defs, objects[i])
                  /\ status \in {"parse", "error"}
    /\ TypeOK' <=> /\ defs' \in [Tags -> Struct] /\ open' \in Seq(Body) /\ objects' \in Seq(Type)
                   /\ \A i \in 1 .. Len(open') : BodyKnown(defs', open'[i])
                   /\ \A i \in 1 .. Len(objects') : KnownIn(defs', objects'[i])
                   /\ status' \in {"parse", "error"}
BY Zenon DEF TypeOK, Body, BodyKnown, KnownIn, Known

LEMMA KeptKnown ==
    ASSUME Kept
    PROVE  /\ \A ty \in Type : KnownIn(defs, ty) => KnownIn(defs', ty)
           /\ \A o \in Body : BodyKnown(defs, o) => BodyKnown(defs', o)
<1>1. \A ty : KnownIn(defs, ty) => KnownIn(defs', ty)
  BY DEF Kept, KnownIn
<1>2. ASSUME NEW o \in Body, BodyKnown(defs, o) PROVE BodyKnown(defs', o)
  <2>1. o.tag \in Tags
    BY DEF Body
  <2> QED BY <1>1, <1>2, <2>1 DEF BodyKnown, Kept
<1> QED BY <1>1, <1>2

\* A name with a type: a member of the innermost body, or an object.
LEMMA UseTyped ==
    ASSUME TypeOK, Kept, defs' \in [Tags -> Struct],
           NEW rest \in Seq(Body), \A i \in 1 .. Len(rest) : BodyKnown(defs, rest[i]),
           NEW ty \in Type, KnownIn(defs', ty), NEW d, Use(ty, rest, d)
    PROVE  TypeOK'
<1>1. /\ \A i \in 1 .. Len(rest) : rest[i] \in Body /\ BodyKnown(defs', rest[i])
      /\ \A i \in 1 .. Len(objects) : objects[i] \in Type /\ KnownIn(defs', objects[i])
  <2>1. /\ \A i \in 1 .. Len(rest) : rest[i] \in Body
        /\ \A i \in 1 .. Len(objects) : objects[i] \in Type /\ KnownIn(defs, objects[i])
    BY TypeMeans
  <2> QED BY <2>1, KeptKnown
<1>2. objects \in Seq(Type) /\ status \in {"parse", "error"}
  BY DEF TypeOK
<1>3. CASE rest # <<>>
  <2> DEFINE l == Len(rest)
             o == [rest[l] EXCEPT !.fields = Append(@, ty)]
  <2>1. l \in 1 .. Len(rest) /\ l \in Nat
    BY <1>3
  <2>2. open' = [rest EXCEPT ![l] = o] /\ UNCHANGED <<objects, status>>
    BY <1>3, <2>1 DEF Use
  <2>3. rest[l] \in Body /\ BodyKnown(defs', rest[l])
    BY <1>1, <2>1
  <2>4. o \in Body /\ BodyKnown(defs', o)
    <3>1. rest[l].tag \in Tags /\ rest[l].fields \in Seq(Type)
      BY <2>3 DEF Body
    <3>2. o = [tag |-> rest[l].tag, fields |-> Append(rest[l].fields, ty)]
      <4>1. \A r \in Body : \A x : [r EXCEPT !.fields = x] = [tag |-> r.tag, fields |-> x]
        BY DEF Body
      <4> QED BY <2>3, <4>1, Zenon
    <3> DEFINE f == rest[l].fields
               g == Append(f, ty)
    <3>3. g \in Seq(Type) /\ \A k \in 1 .. Len(g) : (k \in 1 .. Len(f) /\ g[k] = f[k]) \/ g[k] = ty
      BY <3>1
    <3>4. o.tag = rest[l].tag /\ o.fields = g
      BY <3>2
    <3> HIDE DEF o, g
    <3>5. o \in Body
      BY <3>1, <3>2, <3>3, <3>4 DEF Body, g
    <3> QED BY <2>3, <3>3, <3>4, <3>5 DEF BodyKnown
  <2> HIDE DEF l, o
  <2>5. open' \in Seq(Body) /\ Len(open') = Len(rest)
    BY <2>1, <2>2, <2>4
  <2>6. \A i \in 1 .. Len(open') : BodyKnown(defs', open'[i])
    BY <1>1, <2>1, <2>2, <2>4, <2>5
  <2> QED BY <1>1, <1>2, <2>2, <2>5, <2>6, TypeMeans
<1>4. CASE rest = <<>>
  <2>1. open' = rest /\ objects' = Append(objects, ty) /\ status' = status
    BY <1>4 DEF Use
  <2>2. objects' \in Seq(Type)
    BY <1>2, <2>1
  <2>3. \A i \in 1 .. Len(objects') :
           (i \in 1 .. Len(objects) /\ objects'[i] = objects[i]) \/ objects'[i] = ty
    BY <1>2, <2>1
  <2>4. \A i \in 1 .. Len(objects') : KnownIn(defs', objects'[i])
    BY <1>1, <2>3
  <2> QED BY <1>1, <1>2, <2>1, <2>2, <2>4, TypeMeans
<1> QED BY <1>3, <1>4

LEMMA MentionedGrows ==
    ASSUME TypeOK, Aligned, NEW b \in Bases, defs' = Mentioned(b)
    PROVE  Grows /\ Kept /\ (b \in Tags => defs'[b].state # "absent")
<1>1. CASE b \in Tags /\ defs[b].state = "absent"
  <2>1. defs' = [defs EXCEPT ![b] = [defs[b] EXCEPT !.state = "incomplete"]]
    BY <1>1 DEF Mentioned
  <2>2. defs \in [Tags -> Struct] /\ defs[b] \in Struct
    BY <1>1 DEF TypeOK
  <2> DEFINE e == [defs[b] EXCEPT !.state = "incomplete"]
  <2>3. e \in Struct /\ e.state = "incomplete" /\ e.align = defs[b].align
    BY <2>2 DEF Struct
  <2> HIDE DEF e
  <2>4. /\ defs' \in [Tags -> Struct] /\ defs'[b] = e
        /\ \A t \in Tags : t # b => defs'[t] = defs[t]
    BY <1>1, <2>1, <2>2, <2>3 DEF e
  <2>5. ASSUME NEW t \in Tags
        PROVE  /\ Defined(t) => defs'[t] = defs[t]
               /\ defs'[t].align \in Alignments
               /\ defs'[t].state = "complete" => Defined(t)
    BY <1>1, <2>3, <2>4 DEF Defined, Aligned
  <2>6. Grows
    BY <2>4, <2>5 DEF Grows, Defined
  <2> QED BY <2>3, <2>4, <2>6 DEF Kept
<1>2. CASE ~(b \in Tags /\ defs[b].state = "absent")
  <2>1. defs' = defs
    BY <1>2 DEF Mentioned
  <2> QED BY <1>2, <2>1 DEF Grows, Kept, Defined, Aligned, TypeOK
<1> QED BY <1>1, <1>2

LEMMA ClosedGrows ==
    ASSUME TypeOK, Aligned, open # <<>>, ~Refused,
           defs' = [defs EXCEPT ![Innermost.tag] = Layout(Innermost.tag, Innermost.fields)]
    PROVE  /\ Grows /\ Kept
           /\ Innermost.tag \in Tags /\ defs'[Innermost.tag].state # "absent"
<1> DEFINE t == Innermost.tag
           f == Innermost.fields
           d == Layout(t, f)
<1>1. t \in Tags /\ f \in Seq(Type)
  <2>1. Innermost \in Body
    BY TypeMeans DEF Innermost
  <2> QED BY <2>1 DEF Body
<1>2. defs \in [Tags -> Struct] /\ Laid(t, d, f)
  BY <1>1, LayoutLaid DEF TypeOK
<1>3. ~Defined(t) /\ \A i \in 1 .. Len(f) : Sized(f[i])
  BY DEF Refused, Redefines
<1>4. d \in Struct /\ d.state = "complete"
  BY <1>2 DEF Laid
<1> HIDE DEF t, f, d
<1>5. /\ defs' \in [Tags -> Struct] /\ defs'[t] = d
      /\ \A u \in Tags : u # t => defs'[u] = defs[u]
  BY <1>1, <1>2, <1>4 DEF t, f, d
<1>6. \A u \in Tags : defs'[u].state = "complete" /\ ~Defined(u) => u = t
  BY <1>5 DEF Defined
<1>7. \A u \in Tags : defs'[u].state # "complete" => defs'[u].align \in Alignments
  BY <1>4, <1>5 DEF Aligned
<1>8. \A u \in Tags : Defined(u) => defs'[u] = defs[u]
  BY <1>3, <1>5
<1>9. Grows
  BY <1>1, <1>2, <1>3, <1>5, <1>6, <1>7, <1>8 DEF Grows, Defined
<1> QED BY <1>1, <1>4, <1>5, <1>9 DEF Kept, t

\* What a step that is not refused must show: the table grows, nothing is
\* forgotten, and what it leaves is typed.
LEMMA GrowsKeeps == IInv /\ Grows /\ TypeOK' => IInv'
BY GrowsSound, GrowsMembersSized, GrowsAligned, GrowsUncontained DEF IInv

LEMMA SameKeeps ==
    ASSUME IInv, UNCHANGED <<defs, open, objects>>, status' \in {"parse", "error"}
    PROVE  IInv'
<1>1. Grows
  <2>1. defs' = defs /\ defs \in [Tags -> Struct] /\ Aligned
    BY DEF IInv, TypeOK
  <2> QED BY <2>1 DEF Grows, Defined, Aligned
<1>2. TypeOK'
  BY TypeMeans DEF IInv
<1> QED BY <1>1, <1>2, GrowsKeeps

LEMMA DeclareKeeps ==
    ASSUME IInv, NEW b \in Bases, NEW quals \in BOOLEAN, NEW ptr \in BOOLEAN,
           NEW n \in Counts, Declare(b, quals, ptr, n)
    PROVE  IInv'
<1> DEFINE ty == Declared(b, quals, ptr, n)
<1>1. CASE Error
  BY <1>1, SameKeeps DEF Error
<1>2. CASE Use(ty, open, Mentioned(b))
  <2>1. defs' = Mentioned(b)
    BY <1>2, Zenon DEF Use
  <2>2. Grows /\ Kept /\ (b \in Tags => defs'[b].state # "absent")
    BY <2>1, MentionedGrows DEF IInv
  <2>3. ty \in Type /\ KnownIn(defs', ty)
    BY <2>2 DEF Declared, Type, KnownIn
  <2>4. /\ open \in Seq(Body) /\ \A i \in 1 .. Len(open) : BodyKnown(defs, open[i])
        /\ defs' \in [Tags -> Struct]
    BY <2>2, TypeMeans DEF IInv, Grows
  <2> HIDE DEF ty
  <2>5. TypeOK'
    BY <1>2, <2>2, <2>3, <2>4, UseTyped DEF IInv
  <2> QED BY <2>2, <2>5, GrowsKeeps
<1> QED BY <1>1, <1>2, Zenon DEF Declare

LEMMA ForwardKeeps ==
    ASSUME IInv, NEW t \in Tags, Forward(t)
    PROVE  IInv'
<1>1. Grows /\ Kept /\ defs' \in [Tags -> Struct]
  BY MentionedGrows DEF Forward, IInv, Bases, Grows
<1>2. UNCHANGED <<open, objects, status>>
  BY DEF Forward
<1>3. TypeOK'
  <2>1. /\ \A i \in 1 .. Len(open) : open[i] \in Body /\ BodyKnown(defs, open[i])
        /\ \A i \in 1 .. Len(objects) : objects[i] \in Type /\ KnownIn(defs, objects[i])
        /\ open \in Seq(Body) /\ objects \in Seq(Type) /\ status \in {"parse", "error"}
    BY TypeMeans DEF IInv
  <2> QED BY <1>1, <1>2, <2>1, KeptKnown, TypeMeans
<1> QED BY <1>1, <1>3, GrowsKeeps

LEMMA OpenBodyKeeps ==
    ASSUME IInv, NEW t \in Tags, OpenBody(t)
    PROVE  IInv'
<1>1. CASE Defined(t)
  BY <1>1, SameKeeps DEF Error, OpenBody
<1>2. CASE ~Defined(t)
  <2> DEFINE o == [tag |-> t, fields |-> <<>>]
  <2>1. /\ defs' = Mentioned(t) /\ open' = Append(open, o)
        /\ UNCHANGED <<objects, status>>
    BY <1>2 DEF OpenBody
  <2>2. Grows /\ Kept /\ defs' \in [Tags -> Struct] /\ defs'[t].state # "absent"
    BY <2>1, MentionedGrows DEF IInv, Bases, Grows
  <2>3. /\ \A i \in 1 .. Len(open) : open[i] \in Body /\ BodyKnown(defs, open[i])
        /\ \A i \in 1 .. Len(objects) : objects[i] \in Type /\ KnownIn(defs, objects[i])
        /\ open \in Seq(Body) /\ objects \in Seq(Type) /\ status \in {"parse", "error"}
    BY TypeMeans DEF IInv
  <2>4. o \in Body /\ BodyKnown(defs', o)
    BY <2>2 DEF Body, BodyKnown
  <2> HIDE DEF o
  <2>5. /\ open' \in Seq(Body)
        /\ \A i \in 1 .. Len(open') :
              (i \in 1 .. Len(open) /\ open'[i] = open[i]) \/ open'[i] = o
    BY <2>1, <2>3, <2>4
  <2>6. \A i \in 1 .. Len(open') : BodyKnown(defs', open'[i])
    BY <2>2, <2>3, <2>4, <2>5, KeptKnown
  <2>7. TypeOK'
    BY <2>1, <2>2, <2>3, <2>5, <2>6, KeptKnown, TypeMeans
  <2> QED BY <2>2, <2>7, GrowsKeeps
<1> QED BY <1>1, <1>2

LEMMA CloseBodyKeeps ==
    ASSUME IInv, NEW ptr \in BOOLEAN, NEW n \in Counts, CloseBody(ptr, n)
    PROVE  IInv'
<1> DEFINE t == Innermost.tag
           rest == SubSeq(open, 1, Len(open) - 1)
           d == [defs EXCEPT ![t] = Layout(t, Innermost.fields)]
           ty == [base |-> t, stale |-> FALSE, ptr |-> ptr, count |-> n]
<1>1. CASE Refused
  BY <1>1, SameKeeps DEF Error, CloseBody
<1>2. CASE ~Refused
  <2>1. open # <<>> /\ (Use(ty, rest, d) \/
           (rest = <<>> /\ defs' = d /\ open' = rest /\ UNCHANGED <<objects, status>>))
    BY <1>2, Zenon DEF CloseBody
  <2>2. defs' = d
    BY <2>1, Zenon DEF Use
  <2>3. Grows /\ Kept /\ t \in Tags /\ defs'[t].state # "absent"
    BY <1>2, <2>1, <2>2, ClosedGrows DEF IInv
  <2>4. defs' \in [Tags -> Struct]
    BY <2>3 DEF Grows
  <2>5. /\ open \in Seq(Body) /\ \A i \in 1 .. Len(open) : BodyKnown(defs, open[i])
        /\ objects \in Seq(Type) /\ status \in {"parse", "error"}
        /\ \A i \in 1 .. Len(objects) : objects[i] \in Type /\ KnownIn(defs, objects[i])
    BY TypeMeans DEF IInv
  <2>6. ty \in Type /\ KnownIn(defs', ty)
    BY <2>3 DEF Type, KnownIn, Bases
  <2> HIDE DEF t, d, ty
  <2>7. /\ rest \in Seq(Body)
        /\ \A i \in 1 .. Len(rest) : BodyKnown(defs, rest[i])
    BY <2>1, <2>5
  <2> HIDE DEF rest
  <2>8. CASE Use(ty, rest, d)
    <3>1. TypeOK'
      BY <2>3, <2>4, <2>6, <2>7, <2>8, UseTyped DEF IInv
    <3> QED BY <2>3, <3>1, GrowsKeeps
  <2>9. CASE rest = <<>> /\ open' = rest /\ UNCHANGED <<objects, status>>
    <3>1. TypeOK'
      <4>1. /\ \A i \in 1 .. Len(objects') : KnownIn(defs', objects'[i])
            /\ \A i \in 1 .. Len(open') : BodyKnown(defs', open'[i])
        BY <2>3, <2>5, <2>9, KeptKnown
      <4> QED BY <2>4, <2>5, <2>7, <2>9, <4>1, TypeMeans
    <3> QED BY <2>3, <3>1, GrowsKeeps
  <2> QED BY <2>1, <2>8, <2>9
<1> QED BY <1>1, <1>2

--------------------------------------------------------------------------------
(* Theorems.                                                                 *)

LEMMA Initially == Init => IInv
<1> SUFFICES ASSUME Init PROVE IInv
  OBVIOUS
<1>1. /\ defs = [t \in Tags |-> New] /\ open = <<>> /\ objects = <<>> /\ status = "parse"
  BY DEF Init
<1>2. New \in Struct /\ New.state = "absent" /\ New.align = 1
  BY DEF New, Struct
<1>3. \A t \in Tags : ~Defined(t) /\ defs[t].align = 1
  BY <1>1, <1>2 DEF Defined
<1>4. TypeOK
  BY <1>1, <1>2 DEF TypeOK
<1>5. LayoutSound /\ MembersSized /\ Aligned
  BY <1>3, AlignmentsPositive DEF LayoutSound, MembersSized, Aligned
<1>6. NoSelfContainment
  <2> SUFFICES ASSUME NEW group \in (SUBSET Tags) \ {{}}
               PROVE  \E t \in group : \A u \in group : ~Contains(t, u)
    BY DEF NoSelfContainment
  <2>1. group # {} /\ group \subseteq Tags
    OBVIOUS
  <2>2. \A t, u \in group : ~Contains(t, u)
    BY <1>3, <2>1 DEF Contains
  <2> QED BY <2>1, <2>2
<1> QED BY <1>4, <1>5, <1>6 DEF IInv

LEMMA Step == IInv /\ [Next]_vars => IInv'
<1> SUFFICES ASSUME IInv, [Next]_vars PROVE IInv'
  OBVIOUS
<1>1. ASSUME NEW b \in Bases, NEW quals \in BOOLEAN, NEW ptr \in BOOLEAN, NEW n \in Counts,
             Declare(b, quals, ptr, n)
      PROVE  IInv'
  BY <1>1, DeclareKeeps
<1>2. ASSUME NEW t \in Tags, Forward(t) PROVE IInv'
  BY <1>2, ForwardKeeps
<1>3. ASSUME NEW t \in Tags, OpenBody(t) PROVE IInv'
  BY <1>3, OpenBodyKeeps
<1>4. ASSUME NEW ptr \in BOOLEAN, NEW n \in Counts, CloseBody(ptr, n) PROVE IInv'
  BY <1>4, CloseBodyKeeps
<1>5. CASE UNCHANGED vars
  <2>1. status' \in {"parse", "error"}
    BY <1>5 DEF vars, IInv, TypeOK
  <2> QED BY <1>5, <2>1, SameKeeps DEF vars
<1> QED BY <1>1, <1>2, <1>3, <1>4, <1>5, Zenon DEF Next

LEMMA Inductive == Spec => []IInv
BY Initially, Step, PTL DEF Spec

\* Every tag in use, in a body being parsed, a member or an object, is in the
\* table of tags, and the table holds well-formed structs (_parse_struct).
THEOREM TagsKnown == Spec => []TypeOK
<1>1. IInv => TypeOK
  BY DEF IInv
<1> QED BY Inductive, <1>1, PTL

\* The offsets complete_struct recorded stay right for the sizes the members
\* have at any later time: inside the struct, aligned, one after the other.
THEOREM LayoutsSound == Spec => []LayoutSound
<1>1. IInv => LayoutSound
  BY DEF IInv
<1> QED BY Inductive, <1>1, PTL

\* However tags are mentioned, nested and defined, containment among structs
\* has no cycle (_need_complete on the members of a body).
THEOREM NoStructContainsItself == Spec => []NoSelfContainment
<1>1. IInv => NoSelfContainment
  BY DEF IInv
<1> QED BY Inductive, <1>1, PTL

\* A complete definition is permanent, also when its tag is defined again
\* inside its own body (the test of st.complete in complete_struct).
THEOREM DefinitionsStay == Spec => DefinitionsPermanent
<1>1. ASSUME IInv, [Next]_vars
      PROVE  [\A t \in Tags : Defined(t) => defs'[t] = defs[t]]_vars
  <2>1. ASSUME NEW b \in Bases, defs' = Mentioned(b)
        PROVE  \A t \in Tags : Defined(t) => defs'[t] = defs[t]
    BY <1>1, <2>1, MentionedGrows DEF IInv, Grows
  <2>2. CASE defs' = defs
    BY <2>2
  <2>3. ASSUME NEW b \in Bases, NEW quals \in BOOLEAN, NEW ptr \in BOOLEAN,
               NEW n \in Counts, Declare(b, quals, ptr, n)
        PROVE  defs' = Mentioned(b) \/ defs' = defs
    BY <2>3, Zenon DEF Declare, Use, Error
  <2>4. ASSUME NEW t \in Tags, Forward(t) \/ OpenBody(t)
        PROVE  t \in Bases /\ (defs' = Mentioned(t) \/ defs' = defs)
    BY <2>4 DEF Forward, OpenBody, Error, Bases
  <2>5. ASSUME NEW ptr \in BOOLEAN, NEW n \in Counts, CloseBody(ptr, n), ~(defs' = defs)
        PROVE  \A t \in Tags : Defined(t) => defs'[t] = defs[t]
    <3>1. /\ open # <<>> /\ ~Refused
          /\ defs' = [defs EXCEPT ![Innermost.tag] = Layout(Innermost.tag, Innermost.fields)]
      BY <2>5, Zenon DEF CloseBody, Use, Error
    <3> QED BY <1>1, <3>1, ClosedGrows DEF IInv, Grows
  <2>6. CASE UNCHANGED vars
    BY <2>6
  <2>7. CASE Next
    <3>1. ASSUME NEW ptr \in BOOLEAN, NEW n \in Counts, CloseBody(ptr, n)
          PROVE  \A t \in Tags : Defined(t) => defs'[t] = defs[t]
      BY <2>2, <2>5, <3>1
    <3>2. ASSUME NEW t \in Tags, Forward(t) \/ OpenBody(t)
          PROVE  \A u \in Tags : Defined(u) => defs'[u] = defs[u]
      BY <2>1, <2>2, <2>4, <3>2
    <3>3. ASSUME NEW b \in Bases, NEW quals \in BOOLEAN, NEW ptr \in BOOLEAN,
                 NEW n \in Counts, Declare(b, quals, ptr, n)
          PROVE  \A t \in Tags : Defined(t) => defs'[t] = defs[t]
      BY <2>1, <2>2, <2>3, <3>3
    <3> QED BY <2>7, <3>1, <3>2, <3>3, Zenon DEF Next
  <2> QED BY <1>1, <2>6, <2>7
<1> QED BY Inductive, <1>1, PTL DEF Spec, DefinitionsPermanent

--------------------------------------------------------------------------------
FlowTypeOK ==
    /\ mem \in [ScalarCells -> Values]
    /\ dst # NoLval => dst \in Lvals
    /\ src # NoLval => src \in Lvals
    /\ laundered \in BOOLEAN

LvalsSound ==
    /\ dst # NoLval => Sound(dst.obj, dst.type)
    /\ src # NoLval => dst # NoLval /\ Sound(src.obj, src.type)
    /\ dst # NoLval => ~laundered

FlowInv == FlowTypeOK /\ LvalsSound /\ PointersTyped /\ ConstKept
--------------------------------------------------------------------------------
LEMMA MoreThanOne == \A n \in Nat : n > 1 => n # 1 /\ n - 1 \in Nat /\ n - 1 # 0
OBVIOUS

LEMMA TypeFacts ==
    ASSUME NEW t \in Types
    PROVE  /\ t.base \in BaseTypes /\ t.array \in BOOLEAN
           /\ t.quals \in Seq(BOOLEAN) /\ Len(t.quals) \in Nat /\ Len(t.quals) >= 1
           /\ t.quals[1] \in BOOLEAN
<1>1. t.base \in BaseTypes /\ t.array \in BOOLEAN /\ t.quals \in Seq(BOOLEAN) /\ t.quals # <<>>
  BY DEF Types
<1> QED BY <1>1

LEMMA SameType ==
    ASSUME NEW t \in Types, NEW r \in Types,
           t.base = r.base, t.quals = r.quals, t.array = r.array
    PROVE  t = r
BY DEF Types

LEMMA TailFacts ==
    ASSUME NEW s \in Seq(BOOLEAN), Len(s) > 1
    PROVE  /\ Tail(s) \in Seq(BOOLEAN) \ {<<>>}
           /\ Len(Tail(s)) = Len(s) - 1
<1>1. s # <<>> /\ Len(s) \in Nat
  BY EmptySeq, LenProperties
<1>2. Tail(s) \in Seq(BOOLEAN) /\ Len(Tail(s)) = Len(s) - 1
  BY <1>1, HeadTailProperties
<1>3. Len(Tail(s)) \in Nat /\ Len(Tail(s)) # 0
  BY <1>1, <1>2, MoreThanOne, Zenon
<1>4. Tail(s) # <<>>
  <2>1. Len(<<>>) = 0
    BY EmptySeq
  <2>2. Tail(s) = <<>> => Len(Tail(s)) = Len(<<>>)
    OBVIOUS
  <2> QED BY <1>3, <2>1, <2>2, Zenon
<1> QED BY <1>2, <1>4

\* What TargetOf, PointerTo and WithQuals make of the parts of a type.
LEMMA TargetFacts ==
    ASSUME NEW t \in Types, IsPointer(t) \/ t.array
    PROVE  /\ TargetOf(t) \in Types
           /\ TargetOf(t).base = t.base /\ TargetOf(t).array = FALSE
           /\ TargetOf(t).quals = IF t.array THEN t.quals ELSE Tail(t.quals)
<1>1. CASE t.array
  BY <1>1 DEF TargetOf, Types
<1>2. CASE ~t.array
  <2>1. Len(t.quals) > 1 /\ t.quals \in Seq(BOOLEAN) /\ Len(t.quals) \in Nat
    BY <1>2, TypeFacts DEF IsPointer
  <2>3. Tail(t.quals) \in Seq(BOOLEAN) \ {<<>>}
    BY <2>1, TailFacts
  <2>4. TargetOf(t) = [t EXCEPT !.quals = Tail(t.quals)]
    BY <1>2 DEF TargetOf
  <2> QED BY <1>2, <2>3, <2>4 DEF Types
<1> QED BY <1>1, <1>2

LEMMA PointerFacts ==
    ASSUME NEW t \in Types, ~t.array
    PROVE  /\ PointerTo(t) \in Types /\ IsPointer(PointerTo(t))
           /\ TargetOf(PointerTo(t)) = t
           /\ Tail(PointerTo(t).quals) = t.quals
<1> DEFINE s == t.quals
           p == <<FALSE>> \o s
<1>1. s \in Seq(BOOLEAN) /\ Len(s) \in Nat /\ Len(s) >= 1
  BY TypeFacts
<1>2. p \in Seq(BOOLEAN) /\ Len(p) = Len(s) + 1
  BY <1>1
<1>3. Tail(p) = s
  BY <1>1, <1>2
<1>4. p # <<>>
  BY <1>1, <1>2
<1>5. PointerTo(t) = [t EXCEPT !.quals = p]
  BY DEF PointerTo
<1> HIDE DEF p
<1>6. /\ PointerTo(t) \in Types /\ PointerTo(t).quals = p
      /\ PointerTo(t).base = t.base /\ PointerTo(t).array = t.array
  BY <1>2, <1>4, <1>5 DEF Types
<1>7. IsPointer(PointerTo(t))
  BY <1>1, <1>2, <1>6 DEF IsPointer
<1>8. TargetOf(PointerTo(t)) = t
  <2>1. /\ TargetOf(PointerTo(t)) \in Types /\ TargetOf(PointerTo(t)).base = t.base
        /\ TargetOf(PointerTo(t)).array = t.array
        /\ TargetOf(PointerTo(t)).quals = t.quals
    <3>1. PointerTo(t).array = FALSE /\ t.array = FALSE
      BY <1>6, TypeFacts
    <3> QED BY <1>3, <1>6, <1>7, <3>1, TargetFacts
  <2> QED BY <2>1, SameType
<1> QED BY <1>3, <1>6, <1>7, <1>8

LEMMA QualFacts ==
    ASSUME NEW t \in Types, NEW const \in BOOLEAN
    PROVE  /\ WithQuals(t, const) \in Types
           /\ WithQuals(t, const).base = t.base /\ WithQuals(t, const).array = t.array
           /\ Len(WithQuals(t, const).quals) = Len(t.quals)
           /\ Tail(WithQuals(t, const).quals) = Tail(t.quals)
           /\ WithQuals(t, const).quals[1] = (const \/ t.quals[1])
<1>1. /\ t.quals \in Seq(BOOLEAN) /\ Len(t.quals) \in Nat /\ Len(t.quals) >= 1
      /\ t.quals[1] \in BOOLEAN
  BY TypeFacts
<1>2. CASE const
  <2> DEFINE q == [t.quals EXCEPT ![1] = TRUE]
  <2>1. q \in Seq(BOOLEAN) /\ Len(q) = Len(t.quals) /\ q[1] = TRUE
    BY <1>1
  <2>3. q # <<>>
    BY <1>1, <2>1
  <2>2. Tail(q) = Tail(t.quals)
    <3>1. \A i \in 1 .. Len(q) : i # 1 => q[i] = t.quals[i]
      BY <1>1, <2>1
    <3> HIDE DEF q
    <3>2. t.quals # <<>>
      BY <1>1
    <3>3. /\ Tail(q) \in Seq(BOOLEAN) /\ Len(Tail(q)) = Len(q) - 1
          /\ \A i \in 1 .. Len(Tail(q)) : Tail(q)[i] = q[i + 1]
      BY <2>1, <2>3, HeadTailProperties
    <3>4. /\ Tail(t.quals) \in Seq(BOOLEAN) /\ Len(Tail(t.quals)) = Len(t.quals) - 1
          /\ \A i \in 1 .. Len(Tail(t.quals)) : Tail(t.quals)[i] = t.quals[i + 1]
      BY <1>1, <3>2, HeadTailProperties
    <3>5. \A i \in 1 .. Len(Tail(q)) : Tail(q)[i] = Tail(t.quals)[i]
      BY <1>1, <2>1, <3>1, <3>3, <3>4
    <3> QED BY <2>1, <3>3, <3>4, <3>5, SeqEqual
  <2>4. WithQuals(t, const) = [t EXCEPT !.quals = q]
    BY <1>2 DEF WithQuals
  <2> HIDE DEF q
  <2>5. /\ WithQuals(t, const) \in Types /\ WithQuals(t, const).quals = q
        /\ WithQuals(t, const).base = t.base /\ WithQuals(t, const).array = t.array
    BY <2>1, <2>3, <2>4 DEF Types
  <2> QED BY <1>2, <2>1, <2>2, <2>5
<1>3. CASE ~const
  BY <1>1, <1>3 DEF WithQuals
<1> QED BY <1>2, <1>3
--------------------------------------------------------------------------------
\* An object may be used at its own type.
LEMMA OwnTypeSound ==
    ASSUME NEW o \in Objects
    PROVE  DeclaredType[o] \in Types /\ Sound(o, DeclaredType[o])
BY LayoutAssumption DEF Sound, Compatible

LEMMA FieldSound ==
    ASSUME NEW o \in Objects, NEW t \in Types, IsStruct(t), Sound(o, t),
           NEW l \in FieldsOf(o, t)
    PROVE  l \in Lvals /\ Sound(l.obj, l.type)
<1>1. PICK m \in Members[t.base] :
         l = [obj |-> Field[o][m], type |-> WithQuals(MemberType[t.base][m], IsConst(t))]
  BY DEF FieldsOf, MemberOf
<1>2. DeclaredType[o] \in Types /\ t.base = DeclaredType[o].base /\ IsStruct(DeclaredType[o])
  BY OwnTypeSound, TypeFacts DEF IsStruct, Sound, Compatible
<1>3. IsConst(t) \in BOOLEAN /\ IsConst(DeclaredType[o]) \in BOOLEAN
  BY <1>2, TypeFacts DEF IsConst
<1>4. MemberType[t.base][m] \in Types
  BY TypeAssumption DEF IsStruct
<1>5. IsConst(DeclaredType[o]) => IsConst(t)
  BY DEF Sound, Compatible, IsConst
<1>6. /\ Field[o][m] \in Objects
      /\ DeclaredType[Field[o][m]] = WithQuals(MemberType[t.base][m], IsConst(DeclaredType[o]))
  BY <1>2, LayoutAssumption
<1> DEFINE asked == WithQuals(MemberType[t.base][m], IsConst(t))
           own == WithQuals(MemberType[t.base][m], IsConst(DeclaredType[o]))
<1>7. /\ asked \in Types /\ asked.base = own.base /\ asked.array = own.array
      /\ Len(asked.quals) = Len(own.quals) /\ Tail(asked.quals) = Tail(own.quals)
      /\ own.quals[1] => asked.quals[1]
  BY <1>3, <1>4, <1>5, QualFacts
<1> HIDE DEF asked, own
<1>8. l.obj = Field[o][m] /\ l.type = asked /\ l = [obj |-> Field[o][m], type |-> asked]
  BY <1>1 DEF asked
<1>9. DeclaredType[l.obj] = own
  BY <1>6, <1>8 DEF own
<1> QED BY <1>6, <1>7, <1>8, <1>9 DEF Lvals, Sound, Compatible

\* A pointer read through an lvalue holds what the static type says.
LEMMA PointerSound ==
    ASSUME FlowInv, ~laundered, NEW l \in Lvals, Sound(l.obj, l.type), IsPointer(l.type)
    PROVE  /\ l.obj \in ScalarCells /\ IsPointer(DeclaredType[l.obj])
           /\ TargetOf(l.type) \in Types /\ TargetOf(l.type) = TargetOf(DeclaredType[l.obj])
           /\ Holds(l.obj, mem[l.obj])
<1>1. l.obj \in Objects /\ l.type \in Types /\ DeclaredType[l.obj] \in Types
  BY OwnTypeSound DEF Lvals
<1>2. IsPointer(DeclaredType[l.obj])
  BY <1>1, TypeFacts DEF Sound, Compatible, IsPointer
<1>3. l.obj \in ScalarCells
  <2>1. ~DeclaredType[l.obj].array /\ ~IsStruct(DeclaredType[l.obj])
    <3>1. ~DeclaredType[l.obj].array /\ Len(DeclaredType[l.obj].quals) > 1
      BY <1>2 DEF IsPointer
    <3>2. Len(DeclaredType[l.obj].quals) \in Nat
      BY <1>1, TypeFacts
    <3>3. Len(DeclaredType[l.obj].quals) # 1
      BY <3>1, <3>2, MoreThanOne, Zenon
    <3> QED BY <3>1, <3>3 DEF IsStruct
  <2> QED BY <1>1, <2>1 DEF ScalarCells
<1>4. TargetOf(l.type) = TargetOf(DeclaredType[l.obj])
  <2>1. /\ l.type.base = DeclaredType[l.obj].base /\ ~l.type.array /\ ~DeclaredType[l.obj].array
        /\ Tail(l.type.quals) = Tail(DeclaredType[l.obj].quals)
    BY <1>2 DEF Sound, Compatible, IsPointer
  <2>2. /\ TargetOf(l.type) \in Types /\ TargetOf(l.type).base = l.type.base
        /\ TargetOf(l.type).array = FALSE
        /\ TargetOf(l.type).quals = Tail(l.type.quals)
    BY <1>1, <2>1, TargetFacts
  <2>3. /\ TargetOf(DeclaredType[l.obj]) \in Types
        /\ TargetOf(DeclaredType[l.obj]).base = DeclaredType[l.obj].base
        /\ TargetOf(DeclaredType[l.obj]).array = FALSE
        /\ TargetOf(DeclaredType[l.obj]).quals = Tail(DeclaredType[l.obj].quals)
    BY <1>1, <1>2, <2>1, TargetFacts
  <2> QED BY <2>1, <2>2, <2>3, SameType
<1>5. TargetOf(l.type) \in Types
  BY <1>1, TargetFacts
<1> QED BY <1>2, <1>3, <1>4, <1>5 DEF FlowInv, PointersTyped

LEMMA NearSound ==
    ASSUME NEW v \in Objects, NEW t \in Types, Sound(v, t), NEW e \in Near(v)
    PROVE  e \in Objects /\ Sound(e, t)
<1>1. CASE e = v
  BY <1>1
<1>2. CASE e # v
  <2>1. PICK a \in Objects : DeclaredType[a].array /\ v \in Elements[a] /\ e \in Elements[a]
    BY <1>2 DEF Near
  <2>2. e \in Objects /\ DeclaredType[e] = DeclaredType[v]
    BY <2>1, LayoutAssumption
  <2> QED BY <2>2 DEF Sound
<1> QED BY <1>1, <1>2

\* Every step of a path keeps the static type right for the object reached.
LEMMA StepSound ==
    ASSUME FlowInv, ~laundered, NEW l \in Lvals, Sound(l.obj, l.type), NEW k \in Steps(l)
    PROVE  k \in Lvals /\ Sound(k.obj, k.type)
<1>1. l.obj \in Objects /\ l.type \in Types /\ DeclaredType[l.obj] \in Types
  BY OwnTypeSound DEF Lvals
<1>2. CASE k \in Indexed(l) /\ l.type.array
  <2>1. PICK e \in Elements[l.obj] : k = [obj |-> e, type |-> TargetOf(l.type)]
    BY <1>2 DEF Indexed
  <2>2. DeclaredType[l.obj].array = l.type.array
    BY DEF Sound, Compatible
  <2>3. e \in Objects /\ DeclaredType[e] = TargetOf(DeclaredType[l.obj])
    BY <1>1, <1>2, <2>2, LayoutAssumption
  <2>4. /\ TargetOf(l.type) \in Types /\ TargetOf(l.type).base = l.type.base
        /\ TargetOf(l.type).array = FALSE /\ TargetOf(l.type).quals = l.type.quals
    BY <1>1, <1>2, TargetFacts
  <2>5. /\ DeclaredType[e].base = DeclaredType[l.obj].base
        /\ DeclaredType[e].array = FALSE /\ DeclaredType[e].quals = DeclaredType[l.obj].quals
    BY <1>1, <1>2, <2>2, <2>3, TargetFacts
  <2>6. Sound(e, TargetOf(l.type))
    BY <2>4, <2>5 DEF Sound, Compatible
  <2> QED BY <2>1, <2>3, <2>4, <2>6 DEF Lvals
<1>3. CASE k \in Indexed(l) /\ ~l.type.array
  <2>1. IsPointer(l.type) /\ ~IsFunction(TargetOf(l.type))
    BY <1>3 DEF Indexed
  <2>2. PICK e \in Pointed(l.obj) : k = [obj |-> e, type |-> TargetOf(l.type)]
    BY <1>3, <2>1 DEF Indexed
  <2>3. mem[l.obj] \in Objects /\ e \in Near(mem[l.obj])
    BY <2>2 DEF Pointed
  <2>4. Sound(mem[l.obj], TargetOf(l.type))
    BY <2>1, <2>3, PointerSound, OwnTypeSound, StartAssumption DEF Holds
  <2>5. e \in Objects /\ Sound(e, TargetOf(l.type))
    BY <2>1, <2>3, <2>4, NearSound, PointerSound
  <2> QED BY <2>1, <2>2, <2>5, PointerSound DEF Lvals
<1>4. CASE k \in Dotted(l)
  BY <1>1, <1>4, FieldSound DEF Dotted
<1>5. CASE k \in Arrowed(l)
  <2>1. /\ IsPointer(l.type) /\ IsStruct(TargetOf(l.type)) /\ mem[l.obj] \in Objects
        /\ k \in FieldsOf(mem[l.obj], TargetOf(l.type))
    BY <1>5 DEF Arrowed
  <2>2. Sound(mem[l.obj], TargetOf(l.type)) /\ TargetOf(l.type) \in Types
    BY <2>1, PointerSound, StartAssumption DEF Holds
  <2> QED BY <2>1, <2>2, FieldSound
<1> QED BY <1>2, <1>3, <1>4, <1>5 DEF Steps
--------------------------------------------------------------------------------
LEMMA InitSafe == FlowInit => FlowInv
<1> SUFFICES ASSUME FlowInit PROVE FlowInv
  OBVIOUS
<1>1. FlowTypeOK /\ LvalsSound
  BY StartAssumption DEF FlowInit, FlowTypeOK, LvalsSound
<1>2. PointersTyped /\ ConstKept
  BY StartAssumption DEF FlowInit, PointersTyped, ConstKept
<1> QED BY <1>1, <1>2 DEF FlowInv

\* Naming an object and walking on: memory stays.
LEMMA NameLeftSafe ==
    ASSUME FlowInv, NameLeft
    PROVE  FlowInv'
<1>1. PICK x \in Roots : dst' = [obj |-> x, type |-> DeclaredType[x]]
  BY DEF NameLeft
<1>2. x \in Objects /\ dst' \in Lvals /\ Sound(dst'.obj, dst'.type)
  BY <1>1, LayoutAssumption, OwnTypeSound DEF Lvals
<1>3. UNCHANGED <<mem, src, laundered>> /\ ~laundered /\ dst = NoLval
  BY DEF NameLeft, Idle
<1>4. src = NoLval
  BY <1>3 DEF FlowInv, LvalsSound
<1>5. PointersTyped' /\ ConstKept'
  BY <1>3 DEF FlowInv, PointersTyped, ConstKept, Holds
<1>6. FlowTypeOK' /\ LvalsSound'
  BY <1>2, <1>3, <1>4 DEF FlowInv, FlowTypeOK, LvalsSound, Sound
<1> QED BY <1>5, <1>6 DEF FlowInv

LEMMA WalkLeftSafe ==
    ASSUME FlowInv, WalkLeft
    PROVE  FlowInv'
<1>1. /\ dst # NoLval /\ src = NoLval /\ dst' \in Steps(dst)
      /\ UNCHANGED <<mem, src, laundered>>
  BY DEF WalkLeft
<1>2. dst \in Lvals /\ Sound(dst.obj, dst.type) /\ ~laundered
  BY <1>1 DEF FlowInv, FlowTypeOK, LvalsSound
<1>3. dst' \in Lvals /\ Sound(dst'.obj, dst'.type)
  BY <1>1, <1>2, StepSound
<1>4. PointersTyped' /\ ConstKept'
  BY <1>1 DEF FlowInv, PointersTyped, ConstKept, Holds
<1>5. FlowTypeOK' /\ LvalsSound'
  BY <1>1, <1>2, <1>3 DEF FlowInv, FlowTypeOK, LvalsSound, Sound
<1> QED BY <1>4, <1>5 DEF FlowInv

LEMMA NameRightSafe ==
    ASSUME FlowInv, NameRight
    PROVE  FlowInv'
<1>1. PICK x \in Roots : src' = [obj |-> x, type |-> DeclaredType[x]]
  BY DEF NameRight
<1>2. x \in Objects /\ src' \in Lvals /\ Sound(src'.obj, src'.type)
  BY <1>1, LayoutAssumption, OwnTypeSound DEF Lvals
<1>3. dst # NoLval /\ UNCHANGED <<mem, dst, laundered>>
  BY DEF NameRight
<1>4. PointersTyped' /\ ConstKept'
  BY <1>3 DEF FlowInv, PointersTyped, ConstKept, Holds
<1>5. FlowTypeOK' /\ LvalsSound'
  BY <1>2, <1>3 DEF FlowInv, FlowTypeOK, LvalsSound, Sound
<1> QED BY <1>4, <1>5 DEF FlowInv

LEMMA WalkRightSafe ==
    ASSUME FlowInv, WalkRight
    PROVE  FlowInv'
<1>1. src # NoLval /\ src' \in Steps(src) /\ UNCHANGED <<mem, dst, laundered>>
  BY DEF WalkRight
<1>2. src \in Lvals /\ Sound(src.obj, src.type) /\ dst # NoLval /\ ~laundered
  BY <1>1 DEF FlowInv, FlowTypeOK, LvalsSound
<1>3. src' \in Lvals /\ Sound(src'.obj, src'.type)
  BY <1>1, <1>2, StepSound
<1>4. PointersTyped' /\ ConstKept'
  BY <1>1 DEF FlowInv, PointersTyped, ConstKept, Holds
<1>5. FlowTypeOK' /\ LvalsSound'
  BY <1>1, <1>2, <1>3 DEF FlowInv, FlowTypeOK, LvalsSound, Sound
<1> QED BY <1>4, <1>5 DEF FlowInv
--------------------------------------------------------------------------------
\* What may be assigned through a sound lvalue: its cell is not const, and a
\* value the cell holds keeps memory as it should be.
LEMMA AssignableCell ==
    ASSUME FlowInv, dst # NoLval, Assignable(dst.type)
    PROVE  /\ dst \in Lvals /\ Sound(dst.obj, dst.type) /\ ~laundered
           /\ dst.obj \in ScalarCells /\ ~IsConst(DeclaredType[dst.obj])
           /\ IsPointer(dst.type) <=> IsPointer(DeclaredType[dst.obj])
<1>1. dst \in Lvals /\ Sound(dst.obj, dst.type) /\ ~laundered
  BY DEF FlowInv, FlowTypeOK, LvalsSound
<1>2. /\ dst.obj \in Objects /\ dst.type.array = DeclaredType[dst.obj].array
      /\ dst.type.base = DeclaredType[dst.obj].base
      /\ Len(dst.type.quals) = Len(DeclaredType[dst.obj].quals)
      /\ DeclaredType[dst.obj].quals[1] => dst.type.quals[1]
  BY <1>1 DEF Lvals, Sound, Compatible
<1>3. dst.obj \in ScalarCells
  BY <1>2 DEF ScalarCells, Assignable, IsStruct
<1> QED BY <1>1, <1>2, <1>3 DEF Assignable, IsConst, IsPointer

LEMMA StoreSafe ==
    ASSUME FlowInv, dst # NoLval, Assignable(dst.type),
           NEW v \in Values, Store(v), laundered' \in BOOLEAN,
           ~laundered' => Holds(dst.obj, v)
    PROVE  FlowInv'
<1>1. /\ dst.obj \in ScalarCells /\ ~IsConst(DeclaredType[dst.obj]) /\ ~laundered
  BY AssignableCell
<1>2. mem' = [mem EXCEPT ![dst.obj] = v] /\ dst' = NoLval /\ src' = NoLval
  BY DEF Store, Done
<1>3. mem \in [ScalarCells -> Values]
  BY DEF FlowInv, FlowTypeOK
<1>4. FlowTypeOK' /\ LvalsSound'
  BY <1>2, <1>3 DEF FlowTypeOK, LvalsSound
<1>5. \A c \in ScalarCells : mem'[c] = IF c = dst.obj THEN v ELSE mem[c]
  BY <1>1, <1>2, <1>3
<1>6. PointersTyped'
  <2> SUFFICES ASSUME ~laundered', NEW c \in ScalarCells PROVE Holds(c, mem'[c])
    BY DEF PointersTyped, Holds
  <2>1. CASE c = dst.obj
    BY <1>5, <2>1
  <2>2. CASE c # dst.obj
    BY <1>1, <1>5, <2>2 DEF FlowInv, PointersTyped
  <2> QED BY <2>1, <2>2
<1>7. ConstKept'
  BY <1>1, <1>5 DEF FlowInv, ConstKept
<1> QED BY <1>4, <1>6, <1>7 DEF FlowInv

LEMMA AssignNumberSafe ==
    ASSUME FlowInv, AssignNumber
    PROVE  FlowInv'
<1>1. PICK v \in Numbers : (IsPointer(dst.type) => v = Zero) /\ Store(v)
  BY DEF AssignNumber
<1>2. dst # NoLval /\ Assignable(dst.type) /\ laundered' = laundered
  BY DEF AssignNumber
<1>3. Holds(dst.obj, v)
  BY <1>1, <1>2, AssignableCell DEF Holds
<1>4. v \in Values /\ laundered' \in BOOLEAN
  BY <1>2 DEF Values, FlowInv, FlowTypeOK
<1> QED BY <1>1, <1>2, <1>3, <1>4, StoreSafe

LEMMA AssignComputedSafe ==
    ASSUME FlowInv, AssignComputed
    PROVE  FlowInv'
<1>1. PICK v \in Values : Store(v)
  BY DEF AssignComputed
<1>2. dst # NoLval /\ Assignable(dst.type) /\ laundered' = TRUE
  BY DEF AssignComputed
<1> QED BY <1>1, <1>2, StoreSafe

\* _check_assign: whatever the right-hand side's type says of a value, the
\* left-hand side's says, unless qualifiers below the first level differ.
LEMMA CheckedTarget ==
    ASSUME NEW l \in Types, NEW r \in Types, IsPointer(l), IsPointer(r),
           Checked(l, r), ~Launders(l, r),
           NEW o \in Objects, Sound(o, TargetOf(r))
    PROVE  Sound(o, TargetOf(l))
<1>1. /\ Tail(Tail(l.quals)) = Tail(Tail(r.quals))
      /\ Compatible(TargetOf(l), TargetOf(r))
      /\ IsConst(TargetOf(r)) => IsConst(TargetOf(l))
  BY DEF Checked, Launders
<1>2. ~l.array /\ ~r.array
  BY DEF IsPointer
<1>3. /\ TargetOf(l).quals = Tail(l.quals) /\ TargetOf(l).array = FALSE
      /\ TargetOf(r).quals = Tail(r.quals) /\ TargetOf(r).array = FALSE
  BY <1>2, TargetFacts
<1>4. Tail(TargetOf(l).quals) = Tail(TargetOf(r).quals)
  BY <1>1, <1>3
<1>5. TargetOf(r).quals[1] => TargetOf(l).quals[1]
  BY <1>1, <1>3 DEF IsConst
<1> QED BY <1>1, <1>4, <1>5 DEF Sound, Compatible

LEMMA FunctionTarget ==
    ASSUME NEW l \in Types, NEW r \in Types, IsPointer(l), IsPointer(r),
           Checked(l, r), IsFunction(TargetOf(r))
    PROVE  IsFunction(TargetOf(l))
BY DEF Checked, Compatible, IsFunction

\* A cell holds what its lvalue's static type lets it hold.
LEMMA HeldThrough ==
    ASSUME FlowInv, dst # NoLval, Assignable(dst.type), IsPointer(dst.type),
           NEW v,
           \/ v = Zero
           \/ v \in Objects /\ Sound(v, TargetOf(dst.type))
           \/ v \in Functions /\ IsFunction(TargetOf(dst.type))
    PROVE  Holds(dst.obj, v)
<1>1. IsPointer(DeclaredType[dst.obj]) /\ TargetOf(dst.type) = TargetOf(DeclaredType[dst.obj])
  BY AssignableCell, PointerSound
<1> QED BY <1>1 DEF Holds

LEMMA AssignAddressSafe ==
    ASSUME FlowInv, AssignAddress
    PROVE  FlowInv'
<1> DEFINE r == PointerTo(src.type)
<1>1. /\ src # NoLval /\ Assignable(dst.type) /\ ~src.type.array /\ Checked(dst.type, r)
      /\ Store(src.obj) /\ laundered' = Launders(dst.type, r)
  BY DEF AssignAddress
<1>2. /\ dst # NoLval /\ dst \in Lvals /\ src \in Lvals /\ Sound(src.obj, src.type)
  BY <1>1 DEF FlowInv, FlowTypeOK, LvalsSound
<1>3. dst.type \in Types /\ src.type \in Types /\ src.obj \in Objects
  BY <1>2 DEF Lvals
<1>4. r \in Types /\ IsPointer(r) /\ TargetOf(r) = src.type
  BY <1>1, <1>3, PointerFacts
<1> HIDE DEF r
<1>5. IsPointer(dst.type)
  BY <1>1, <1>4 DEF Checked
<1>6. ~laundered' => Holds(dst.obj, src.obj)
  <2> SUFFICES ASSUME ~laundered' PROVE Holds(dst.obj, src.obj)
    OBVIOUS
  <2>1. Sound(src.obj, TargetOf(r))
    BY <1>2, <1>4
  <2>2. ~Launders(dst.type, r)
    BY <1>1
  <2>3. Sound(src.obj, TargetOf(dst.type))
    BY <1>1, <1>3, <1>4, <1>5, <2>1, <2>2, CheckedTarget
  <2> QED BY <1>1, <1>2, <1>3, <1>5, <2>3, HeldThrough
<1>7. src.obj \in Values /\ laundered' \in BOOLEAN
  BY <1>1, <1>3 DEF Values, Launders
<1> QED BY <1>1, <1>2, <1>6, <1>7, StoreSafe

LEMMA AssignLoadSafe ==
    ASSUME FlowInv, AssignLoad
    PROVE  FlowInv'
<1> DEFINE r == LoadType(src)
<1>1. /\ src # NoLval /\ Assignable(dst.type) /\ ~IsStruct(src.type) /\ Checked(dst.type, r)
      /\ laundered' = Launders(dst.type, r)
  BY DEF AssignLoad
<1>2. /\ dst # NoLval /\ dst \in Lvals /\ src \in Lvals /\ Sound(src.obj, src.type)
      /\ ~laundered
  BY <1>1 DEF FlowInv, FlowTypeOK, LvalsSound
<1>3. /\ dst.type \in Types /\ src.type \in Types /\ src.obj \in Objects
      /\ DeclaredType[src.obj] \in Types
  BY <1>2, OwnTypeSound DEF Lvals
<1>4. laundered' \in BOOLEAN
  BY <1>1 DEF Launders
<1>5. CASE ~IsPointer(dst.type)
  <2>1. PICK v \in Numbers : Store(v)
    BY <1>5 DEF AssignLoad
  <2>2. v \in Values /\ Holds(dst.obj, v)
    BY <1>1, <1>2, <1>5, AssignableCell DEF Values, Holds
  <2> QED BY <1>1, <1>2, <1>4, <2>1, <2>2, StoreSafe
<1>6. CASE IsPointer(dst.type)
  <2>1. PICK v \in Loaded(src) : Store(v)
    BY <1>6 DEF AssignLoad
  <2>2. IsPointer(r)
    BY <1>1, <1>6 DEF Checked
  <2>3. CASE src.type.array
    <3>1. TargetOf(src.type) \in Types /\ TargetOf(src.type).array = FALSE
      BY <1>3, <2>3, TargetFacts
    <3>2. r \in Types /\ TargetOf(r) = TargetOf(src.type)
      BY <2>3, <3>1, PointerFacts DEF LoadType
    <3>3. v \in Elements[src.obj]
      BY <2>1, <2>3 DEF Loaded
    <3>4. [obj |-> v, type |-> TargetOf(src.type)] \in Steps(src)
      BY <2>3, <3>3 DEF Steps, Indexed
    <3>5. v \in Objects /\ Sound(v, TargetOf(src.type))
      BY <1>2, <3>4, StepSound DEF Lvals
    <3>6. ~laundered' => Holds(dst.obj, v)
      <4> HIDE DEF r
      <4> SUFFICES ASSUME ~laundered' PROVE Holds(dst.obj, v)
        OBVIOUS
      <4>1. ~Launders(dst.type, r)
        BY <1>1
      <4>2. Sound(v, TargetOf(dst.type))
        BY <1>1, <1>3, <1>6, <2>2, <3>2, <3>5, <4>1, CheckedTarget
      <4> QED BY <1>1, <1>2, <1>6, <3>5, <4>2, HeldThrough
    <3>7. v \in Values
      BY <3>5 DEF Values
    <3> QED BY <1>1, <1>2, <1>4, <2>1, <3>6, <3>7, StoreSafe
  <2>4. CASE ~src.type.array
    <3>1. r = src.type /\ v = mem[src.obj] /\ IsPointer(src.type)
      BY <2>1, <2>2, <2>4 DEF LoadType, Loaded
    <3>2. /\ src.obj \in ScalarCells /\ IsPointer(DeclaredType[src.obj])
          /\ TargetOf(src.type) = TargetOf(DeclaredType[src.obj])
          /\ Holds(src.obj, v)
      BY <1>2, <3>1, PointerSound
    <3>3. v \in Values
      BY <3>1, <3>2 DEF FlowInv, FlowTypeOK
    <3>4. \/ v = Zero
          \/ v \in Objects /\ Sound(v, TargetOf(src.type))
          \/ v \in Functions /\ IsFunction(TargetOf(src.type))
      BY <3>2 DEF Holds
    <3>5. ~laundered' => Holds(dst.obj, v)
      <4> SUFFICES ASSUME ~laundered' PROVE Holds(dst.obj, v)
        OBVIOUS
      <4>1. Checked(dst.type, src.type) /\ ~Launders(dst.type, src.type)
        BY <1>1, <3>1
      <4>2. v \in Objects /\ Sound(v, TargetOf(src.type)) => Sound(v, TargetOf(dst.type))
        BY <1>3, <1>6, <3>1, <4>1, CheckedTarget
      <4>3. IsFunction(TargetOf(src.type)) => IsFunction(TargetOf(dst.type))
        BY <1>3, <1>6, <3>1, <4>1, FunctionTarget
      <4>4. \/ v = Zero
            \/ v \in Objects /\ Sound(v, TargetOf(dst.type))
            \/ v \in Functions /\ IsFunction(TargetOf(dst.type))
        BY <3>4, <4>2, <4>3
      <4> QED BY <1>1, <1>2, <1>6, <4>4, HeldThrough
    <3> QED BY <1>1, <1>2, <1>4, <2>1, <3>3, <3>5, StoreSafe
  <2> QED BY <2>3, <2>4
<1> QED BY <1>5, <1>6

LEMMA AssignFunctionSafe ==
    ASSUME FlowInv, AssignFunction
    PROVE  FlowInv'
<1>1. PICK f \in Functions : Store(f)
  BY DEF AssignFunction
<1>2. /\ dst # NoLval /\ Assignable(dst.type) /\ Checked(dst.type, FunctionPointer)
      /\ laundered' = laundered
  BY DEF AssignFunction
<1>3. dst.type \in Types
  BY <1>2, AssignableCell DEF Lvals
<1>4. IsPointer(FunctionPointer)
  BY DEF IsPointer, FunctionPointer
<1>5. IsFunction(TargetOf(FunctionPointer))
  BY DEF IsFunction, FunctionPointer, TargetOf
<1>6. FunctionPointer \in Types
  <2>1. <<FALSE, FALSE>> \in Seq(BOOLEAN) /\ <<FALSE, FALSE>> # <<>>
    OBVIOUS
  <2> QED BY <2>1, TypeAssumption DEF FunctionPointer, Types
<1>7. IsPointer(dst.type)
  BY <1>2, <1>4 DEF Checked
<1>8. IsFunction(TargetOf(dst.type))
  BY <1>2, <1>3, <1>4, <1>5, <1>6, <1>7, FunctionTarget
<1>9. Holds(dst.obj, f)
  BY <1>2, <1>7, <1>8, HeldThrough
<1>10. f \in Values /\ laundered' \in BOOLEAN
  BY <1>2 DEF Values, FlowInv, FlowTypeOK
<1> QED BY <1>1, <1>2, <1>9, <1>10, StoreSafe
--------------------------------------------------------------------------------
\* The cell of another struct like c holds what c may hold.
LEMMA TwinHolds ==
    ASSUME NEW c \in ScalarCells, NEW k \in ScalarCells, NEW v,
           DeclaredType[c].base = DeclaredType[k].base,
           Tail(DeclaredType[c].quals) = Tail(DeclaredType[k].quals),
           Holds(k, v)
    PROVE  Holds(c, v)
<1> DEFINE t == DeclaredType[c]
           r == DeclaredType[k]
<1>1. t \in Types /\ r \in Types /\ t.array = FALSE /\ r.array = FALSE
  <2>1. t \in Types /\ r \in Types /\ ~t.array /\ ~r.array
    BY OwnTypeSound DEF ScalarCells
  <2> QED BY <2>1, TypeFacts
<1>2. /\ Len(Tail(t.quals)) = Len(t.quals) - 1 /\ Len(t.quals) \in Nat
      /\ Len(Tail(r.quals)) = Len(r.quals) - 1 /\ Len(r.quals) \in Nat
  <2>1. /\ t.quals \in Seq(BOOLEAN) /\ t.quals # <<>>
        /\ r.quals \in Seq(BOOLEAN) /\ r.quals # <<>>
    BY <1>1 DEF Types
  <2> QED BY <2>1, HeadTailProperties, LenProperties
<1>3. Len(t.quals) = Len(r.quals)
  <2>1. \A i, j \in Nat : i - 1 = j - 1 => i = j
    OBVIOUS
  <2>2. Len(t.quals) - 1 = Len(r.quals) - 1
    BY <1>2
  <2> QED BY <1>2, <2>1, <2>2, Zenon
<1>4. IsPointer(t) <=> IsPointer(r)
  BY <1>1, <1>3 DEF IsPointer
<1>5. IsPointer(t) => TargetOf(t) = TargetOf(r)
  <2> SUFFICES ASSUME IsPointer(t) PROVE TargetOf(t) = TargetOf(r)
    OBVIOUS
  <2>1. /\ TargetOf(t) \in Types /\ TargetOf(t).base = t.base
        /\ TargetOf(t).array = FALSE /\ TargetOf(t).quals = Tail(t.quals)
    BY <1>1, TargetFacts
  <2>2. /\ TargetOf(r) \in Types /\ TargetOf(r).base = r.base
        /\ TargetOf(r).array = FALSE /\ TargetOf(r).quals = Tail(r.quals)
    BY <1>1, <1>4, TargetFacts
  <2> QED BY <2>1, <2>2, SameType
<1> QED BY <1>4, <1>5 DEF Holds

LEMMA CopyStructSafe ==
    ASSUME FlowInv, CopyStruct
    PROVE  FlowInv'
<1> DEFINE d == dst.obj
           s == src.obj
<1>1. /\ src # NoLval /\ IsStruct(dst.type) /\ ~IsConst(dst.type)
      /\ ~HasConstMember(dst.type.base)
      /\ IsStruct(src.type) /\ src.type.base = dst.type.base
      /\ laundered' = HidesConst(dst.type.base) /\ dst' = NoLval /\ src' = NoLval
  BY DEF CopyStruct, Done
<1>2. /\ dst # NoLval /\ dst \in Lvals /\ Sound(d, dst.type)
      /\ src \in Lvals /\ Sound(s, src.type) /\ ~laundered
      /\ mem \in [ScalarCells -> Values]
  BY <1>1 DEF FlowInv, FlowTypeOK, LvalsSound
<1>3. /\ d \in Objects /\ IsStruct(DeclaredType[d]) /\ DeclaredType[d].base = dst.type.base
      /\ s \in Objects /\ IsStruct(DeclaredType[s]) /\ DeclaredType[s].base = dst.type.base
  BY <1>1, <1>2 DEF Lvals, Sound, Compatible, IsStruct
<1>4. ~IsConst(DeclaredType[d])
  BY <1>1, <1>2 DEF Sound, Compatible, IsConst
<1>5. \A c \in Leaves[d] :
         /\ c \in ScalarCells /\ Twin(d, s, c) \in ScalarCells
         /\ DeclaredType[c].base = DeclaredType[Twin(d, s, c)].base
         /\ Tail(DeclaredType[c].quals) = Tail(DeclaredType[Twin(d, s, c)].quals)
         /\ DeclaredType[c].quals[1] =>
               \E n \in Nested[dst.type.base] : \E m \in Members[n] : MemberType[n][m].quals[1]
  BY <1>3, <1>4, CopyAssumption
<1>6. \A c \in ScalarCells :
         mem'[c] = IF c \in Leaves[d] THEN mem[Twin(d, s, c)] ELSE mem[c]
  BY DEF CopyStruct
<1>7. FlowTypeOK' /\ LvalsSound'
  <2>1. mem' = [c \in ScalarCells |-> IF c \in Leaves[d] THEN mem[Twin(d, s, c)] ELSE mem[c]]
    BY DEF CopyStruct
  <2>2. mem' \in [ScalarCells -> Values]
    BY <1>2, <1>5, <2>1
  <2> QED BY <1>1, <2>2 DEF FlowTypeOK, LvalsSound, HidesConst
<1>8. PointersTyped'
  <2> SUFFICES ASSUME NEW c \in ScalarCells PROVE Holds(c, mem'[c])
    BY DEF PointersTyped, Holds
  <2>1. CASE c \in Leaves[d]
    <3>1. Twin(d, s, c) \in ScalarCells /\ mem'[c] = mem[Twin(d, s, c)]
      BY <1>5, <1>6, <2>1
    <3>2. Holds(Twin(d, s, c), mem[Twin(d, s, c)])
      BY <1>2, <3>1 DEF FlowInv, PointersTyped
    <3> QED BY <1>5, <2>1, <3>1, <3>2, TwinHolds
  <2>2. CASE c \notin Leaves[d]
    BY <1>2, <1>6, <2>2 DEF FlowInv, PointersTyped
  <2> QED BY <2>1, <2>2
<1>9. ConstKept'
  <2> SUFFICES ASSUME ~laundered', NEW c \in ScalarCells, IsConst(DeclaredType[c])
               PROVE  mem'[c] = Initial[c]
    BY DEF ConstKept
  <2>1. c \notin Leaves[d]
    <3> SUFFICES ASSUME c \in Leaves[d] PROVE FALSE
      OBVIOUS
    <3>0. PICK n \in Nested[dst.type.base] :
             \E m \in Members[n] : MemberType[n][m].quals[1]
      BY <1>5 DEF IsConst
    <3>1. PICK m \in Members[n] : MemberType[n][m].quals[1]
      BY <3>0
    <3>2. ~MemberType[n][m].array
      BY <1>1, <3>1 DEF HidesConst
    <3>3. HasConstMember(dst.type.base)
      BY <3>1, <3>2 DEF HasConstMember, IsConst
    <3> QED BY <1>1, <3>3
  <2> QED BY <1>2, <1>6, <2>1 DEF FlowInv, ConstKept
<1> QED BY <1>7, <1>8, <1>9 DEF FlowInv

LEMMA NextSafe == FlowInv /\ [FlowNext]_flowVars => FlowInv'
<1> SUFFICES ASSUME FlowInv, [FlowNext]_flowVars PROVE FlowInv'
  OBVIOUS
<1>1. CASE UNCHANGED flowVars
  BY <1>1 DEF flowVars, FlowInv, FlowTypeOK, LvalsSound, PointersTyped, ConstKept, Holds, Sound
<1> QED BY <1>1, NameLeftSafe, WalkLeftSafe, NameRightSafe, WalkRightSafe,
           AssignNumberSafe, AssignComputedSafe, AssignLoadSafe, AssignAddressSafe,
           AssignFunctionSafe, CopyStructSafe DEF FlowNext

\* The statements keep what the checks know of the objects and of the lvalues
\* under evaluation (FlowInv).
THEOREM Invariance == FlowSpec => []FlowInv
BY InitSafe, NextSafe, PTL DEF FlowSpec

\* PointersTyped: while the checks see every statement, a pointer leads only to
\* objects that its declared type may be used for.
THEOREM PointerTyping == FlowSpec => []PointersTyped
<1>1. FlowInv => PointersTyped
  BY DEF FlowInv
<1> QED BY <1>1, Invariance, PTL

\* ConstKept: while the checks see every statement, const objects keep the
\* value they were initialised with.
THEOREM ConstSafety == FlowSpec => []ConstKept
<1>1. FlowInv => ConstKept
  BY DEF FlowInv
<1> QED BY <1>1, Invariance, PTL

================================================================================
