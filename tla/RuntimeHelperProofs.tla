-------------------------- MODULE RuntimeHelperProofs --------------------------
(***************************************************************************)
(* The helper functions of the generated program: num_cast and the integer   *)
(* operators (NumCast), and the arrays (ArrayHeap).                          *)
(***************************************************************************)
EXTENDS NumCast, ArrayHeap, WellFoundedInduction, TLAPS

(***************************************************************************)
(* For types no wider than the mantissa of a double, every typed object      *)
(* holds values of its type and every store is C's conversion, whatever the  *)
(* set of doubles is.  That the types are narrow is a hypothesis of the      *)
(* theorems: for the 64-bit types both properties fail.                      *)
(***************************************************************************)

LEMMA Remainder ==
    ASSUME NEW a \in Nat, NEW m \in Nat, m > 0
    PROVE  /\ a % m \in 0 .. m - 1
           /\ a \div m \in Nat
           /\ a - (a % m) = m * (a \div m)
<1>1. a % m \in 0 .. m - 1
  OBVIOUS
<1>2. a \div m \in Nat
  OBVIOUS
<1>3. a - (a % m) = m * (a \div m)
  BY SMTT(60)
<1> QED BY <1>1, <1>2, <1>3

LEMMA MultipleIsZeroModulo ==
    ASSUME NEW k \in Int, NEW m \in Nat, m > 0
    PROVE  (m * k) % m = 0
OBVIOUS

LEMMA Nears ==
    ASSUME NEW n \in -Exact .. Exact
    PROVE  Nearest(Whole, n) = n
BY DoublesAssumption DEF Nearest

\* The remainder of an integer, lifted and lowered, is in the range of the type
\* and differs from the integer by a multiple of the modulus.
LEMMA ConversionWraps ==
    ASSUME NEW n \in Int, NEW t \in Integral, Narrow
    PROVE  LET m == Modulus[t]
               v == Lower(Lift(FMod(n, m), m), m, t)
           IN  v \in Integers(t) /\ \E k \in Int : v - n = m * k
<1> DEFINE m == Modulus[t]
           r == FMod(n, m)
           s == Lift(r, m)
           v == Lower(s, m, t)
<1>1. m \in Nat /\ m > 0 /\ m % 2 = 0 /\ m <= Exact /\ Exact \in Nat
  BY TypesAssumption, DoublesAssumption DEF Narrow
<1>2. r \in -(m - 1) .. m - 1 /\ \E k \in Int : r - n = m * k
  <2>1. CASE n >= 0
    <3>0. n \in Nat /\ r = n % m
      BY <2>1 DEF FMod
    <3> HIDE DEF m, r
    <3>1. PICK q \in Nat : n - (n % m) = m * q
      BY <1>1, <3>0, Remainder
    <3>2. n % m \in 0 .. m - 1
      BY <1>1, <3>0, Remainder
    <3>3. r - n = m * (-q)
      BY <1>1, <3>0, <3>1, <3>2
    <3>4. r \in -(m - 1) .. m - 1 /\ -q \in Int
      BY <1>1, <3>0, <3>2
    <3> QED BY <3>3, <3>4
  <2>2. CASE n < 0
    <3> DEFINE a == -n
    <3>1. a \in Nat
      BY <2>2
    <3>2. r = -(a % m)
      BY <2>2 DEF FMod
    <3> HIDE DEF m, r, a
    <3>3. PICK q \in Nat : a - (a % m) = m * q
      BY <1>1, <3>1, Remainder
    <3>4. a % m \in 0 .. m - 1
      BY <1>1, <3>1, Remainder
    <3>5. r - n = m * q
      BY <1>1, <3>1, <3>2, <3>3, <3>4 DEF a
    <3> QED BY <3>2, <3>4, <3>5, <1>1
  <2>3. n >= 0 \/ n < 0
    OBVIOUS
  <2> HIDE DEF m, r
  <2> QED BY <2>1, <2>2, <2>3
<1> HIDE DEF m, r
<1>3. s \in 0 .. m - 1 /\ \E k \in Int : s - n = m * k
  <2>1. PICK k \in Int : r - n = m * k
    BY <1>2
  <2>2. CASE r < 0
    <3>1. r + m \in 0 .. m - 1 /\ r + m \in -Exact .. Exact
      BY <1>1, <1>2, <2>2
    <3>2. s = r + m
      BY <3>1, <2>2, Nears DEF Lift
    <3>3. s - n = m * (k + 1)
      BY <3>2, <2>1, <1>1, <1>2
    <3> QED BY <3>1, <3>2, <3>3
  <2>3. CASE r >= 0
    <3>1. s = r
      BY <2>3, <1>1, <1>2 DEF Lift
    <3> HIDE DEF s
    <3> QED BY <3>1, <2>1, <2>3, <1>2, <1>1
  <2>4. r < 0 \/ r >= 0
    BY <1>1, <1>2
  <2> HIDE DEF s
  <2> QED BY <2>2, <2>3, <2>4
<1> HIDE DEF s
<1>4. PICK k \in Int : s - n = m * k
  BY <1>3
<1>5. PICK h \in Nat : m = 2 * h /\ m \div 2 = h
  BY <1>1
<1>6. CASE t \in Signed /\ 2 * s >= m
  <2>1. s - m \in -h .. h - 1 /\ s - m \in -Exact .. Exact
    BY <1>1, <1>3, <1>5, <1>6
  <2>2. v = s - m
    BY <1>6, <2>1, Nears DEF Lower
  <2>3. v - n = m * (k - 1)
    BY <2>2, <1>4, <1>1, <1>3
  <2>4. v \in Integers(t)
    BY <2>1, <2>2, <1>5, <1>6 DEF Integers, Lowest, m
  <2> QED BY <2>3, <2>4 DEF m, r, s
<1>7. CASE ~(t \in Signed /\ 2 * s >= m)
  <2>1. v = s
    BY <1>7 DEF Lower
  <2>2. s \in Integers(t)
    BY <1>1, <1>3, <1>5, <1>7 DEF Integers, Lowest, m
  <2> QED BY <2>1, <2>2, <1>4 DEF m, r, s
<1> QED BY <1>6, <1>7
\* trunc removes the fraction.
LEMMA TruncIsIntegerPart ==
    ASSUME NEW d \in Int
    PROVE  /\ Trunc(d) \in -Magnitude(d) .. Magnitude(d)
           /\ IntegerPart(Trunc(d), d)
<1>1. Unit \in Nat /\ Unit > 0
  BY DoublesAssumption
<1>2. CASE d >= 0
  <2>1. PICK q \in Nat : q = d \div Unit /\ d - (d % Unit) = Unit * q
    BY <1>1, <1>2, Remainder
  <2>2. d % Unit \in 0 .. Unit - 1
    BY <1>1, <1>2, Remainder
  <2>3. Trunc(d) = q
    BY <1>2, <2>1 DEF Trunc
  <2>4. q * Unit = d - (d % Unit) /\ q <= q * Unit /\ q * Unit >= 0
    BY <1>1, <2>1
  <2> QED BY <1>1, <1>2, <2>1, <2>2, <2>3, <2>4 DEF IntegerPart, Magnitude
<1>3. CASE d < 0
  <2> DEFINE a == -d
  <2>0. a \in Nat /\ a > 0
    BY <1>3
  <2>1. PICK q \in Nat : q = a \div Unit /\ a - (a % Unit) = Unit * q
    BY <1>1, <2>0, Remainder
  <2>2. a % Unit \in 0 .. Unit - 1
    BY <1>1, <2>0, Remainder
  <2>3. Trunc(d) = -q
    BY <1>3, <2>1 DEF Trunc
  <2>4. (-q) * Unit = -(a - (a % Unit)) /\ q <= q * Unit /\ (-q) * Unit <= 0
    BY <1>1, <2>1
  <2>5. (-q) * Unit \in Int /\ -q \in Int
    BY <1>1
  <2> HIDE DEF a
  <2>6. d = -a
    BY DEF a
  <2>7. Magnitude(d) = a /\ Magnitude((-q) * Unit) = a - (a % Unit)
    BY <2>0, <2>2, <2>4, <2>5, <2>6 DEF Magnitude
  <2>8. Magnitude(d - (-q) * Unit) = a % Unit
    BY <2>0, <2>2, <2>4, <2>5, <2>6 DEF Magnitude
  <2>9. q <= a
    BY <1>1, <2>0, <2>2, <2>4
  <2> QED BY <1>1, <2>0, <2>2, <2>3, <2>5, <2>7, <2>8, <2>9 DEF IntegerPart
<1> QED BY <1>2, <1>3

--------------------------------------------------------------------------------
(* The invariant of the typed cells.                                        *)

CInv == top \in Top /\ cells \in [Objects -> Top] /\ TypedCells

\* A nonempty set of naturals has a least element.
LEMMA Least ==
    ASSUME NEW D \in SUBSET Nat, D # {}
    PROVE  \E x \in D : \A y \in D : x <= y
<1> DEFINE R == OpToRel(<, Nat)
<1>1. IsWellFoundedOn(R, Nat)
  BY NatLessThanWellFounded
<1>2. \A x, y \in Nat : y < x => <<y, x>> \in R
  BY DEF OpToRel
<1> HIDE DEF R
<1>3. PICK x \in D : \A y \in D : ~ (<<y, x>> \in R)
  BY <1>1, WFMin
<1>4. \A y \in D : ~(y < x)
  BY <1>2, <1>3
<1> QED BY <1>4

LEMMA NearestIn ==
    ASSUME NEW S \in SUBSET Int, S # {}, NEW u \in Int
    PROVE  Nearest(S, u) \in S
<1> DEFINE D == {Magnitude(d - u) : d \in S}
<1>1. D \in SUBSET Nat /\ D # {}
  <2>1. \A d \in S : Magnitude(d - u) \in Nat
    BY DEF Magnitude
  <2> QED BY <2>1
<1>2. PICK x \in D : \A y \in D : x <= y
  BY <1>1, Least
<1>3. \E d \in S : \A e \in S : Magnitude(d - u) <= Magnitude(e - u)
  BY <1>2
<1> QED BY <1>3 DEF Nearest

LEMMA ValuesAreDoubles == ASSUME NEW t \in Types, Narrow PROVE Values(t) \subseteq Top
<1>1. {0, Unit} \subseteq Top /\ Floats \cup {NonFinite} \subseteq Top
  BY DoublesAssumption DEF Top
<1>2. ASSUME t \in Integral PROVE \A n \in Integers(t) : n * Unit \in Top
  <2>1. Modulus[t] \in Nat /\ Modulus[t] > 0 /\ Modulus[t] % 2 = 0 /\ Modulus[t] <= Exact
    BY <1>2, TypesAssumption DEF Narrow
  <2>2. Integers(t) \subseteq -Exact .. Exact
    BY <2>1, DoublesAssumption DEF Integers, Lowest
  <2> QED BY <2>2, DoublesAssumption DEF Top
<1> QED BY <1>1, <1>2, TypesAssumption DEF Values, Types

\* A conversion that is not refused gives a value of its type.
LEMMA CastGivesValue ==
    ASSUME NEW d \in Top, NEW t \in Types, Narrow, ~Refused(d, t)
    PROVE  NumCast(d, t) \in Values(t)
<1>1. CASE t = "double"
  BY <1>1, TypesAssumption DEF NumCast, Values
<1>2. CASE t = "bool"
  BY <1>2, TypesAssumption DEF NumCast, Values
<1>3. CASE t = "float"
  <2>1. Floats \in SUBSET Int /\ Floats # {}
    BY DoublesAssumption
  <2>2. d # NonFinite => d \in Int
    BY DoublesAssumption DEF Top
  <2>3. d # NonFinite => Nearest(Floats, d) \in Floats
    BY <2>1, <2>2, NearestIn
  <2> QED BY <1>3, <2>3 DEF NumCast, Values
<1>4. CASE t \in Integral
  <2>1. t \notin {"float", "double", "bool"}
    BY <1>4, TypesAssumption
  <2>2. d \in Int
    BY <1>4, DoublesAssumption DEF Refused, Top
  <2>3. Trunc(d) \in Int
    BY <2>2, TruncIsIntegerPart DEF Magnitude
  <2>4. ToIntegral(d, t) \in Integers(t)
    BY <1>4, <2>3, ConversionWraps DEF ToIntegral
  <2>5. NumCast(d, t) = ToIntegral(d, t) * Unit
    BY <2>1 DEF NumCast
  <2>6. Values(t) = {n * Unit : n \in Integers(t)}
    BY <2>1 DEF Values
  <2> QED BY <2>4, <2>5, <2>6
<1> QED BY <1>1, <1>2, <1>3, <1>4 DEF Types

LEMMA CellsStayTyped ==
    ASSUME Narrow
    PROVE  /\ Init => CInv
           /\ CInv /\ [Next]_vars => CInv'
<1>1. ASSUME Init PROVE CInv
  <2>1. \A t \in Integral : 0 \in Integers(t)
    BY TypesAssumption DEF Integers, Lowest
  <2>2. \A t \in Integral : 0 \in {n * Unit : n \in Integers(t)}
    BY <2>1, DoublesAssumption
  <2>3. \A t \in Types : 0 \in Values(t)
    BY <2>2, DoublesAssumption DEF Values, Types, Top
  <2> QED BY <1>1, <2>3, TypesAssumption, DoublesAssumption DEF Init, CInv, TypedCells, Top
<1>2. ASSUME CInv, [Next]_vars PROVE CInv'
  <2> USE <1>2 DEF CInv
  <2>1. CASE Literal
    BY <2>1, TypesAssumption DEF Literal, Top, TypedCells
  <2>2. ASSUME NEW o \in Objects, Load(o) PROVE CInv'
    BY <2>2 DEF Load, TypedCells
  <2>3. ASSUME NEW o \in Objects, Add(o) PROVE CInv'
    <3>1. Sum(top, cells[o]) \in Top
      <4>1. CASE NonFinite \in {top, cells[o]}
        BY <4>1 DEF Sum, Top
      <4>2. CASE NonFinite \notin {top, cells[o]}
        <5>1. top \in Int /\ cells[o] \in Int
          BY <4>2, DoublesAssumption DEF Top
        <5>2. Nearest(Doubles, top + cells[o]) \in Doubles
          BY <5>1, NearestIn, DoublesAssumption
        <5> QED BY <4>2, <5>2 DEF Sum, Top
      <4> QED BY <4>1, <4>2
    <3>2. top' \in Top
      BY <2>3, <3>1 DEF Add, Top
    <3> QED BY <2>3, <3>2 DEF Add, TypedCells
  <2>4. ASSUME NEW o \in Objects, Store(o) PROVE CInv'
    <3>1. CASE Refused(top, TypeOf[o])
      BY <2>4, <3>1 DEF Store, Fail, TypedCells
    <3>2. CASE ~Refused(top, TypeOf[o])
      <4>1. TypeOf[o] \in Types
        BY TypesAssumption
      <4>2. NumCast(top, TypeOf[o]) \in Values(TypeOf[o])
        BY <3>2, <4>1, CastGivesValue
      <4>3. NumCast(top, TypeOf[o]) \in Top
        BY <4>1, <4>2, ValuesAreDoubles
      <4>4. cells' = [cells EXCEPT ![o] = NumCast(top, TypeOf[o])] /\ top' = top
        BY <2>4, <3>2 DEF Store
      <4> QED BY <4>2, <4>3, <4>4 DEF TypedCells
    <3> QED BY <3>1, <3>2
  <2>5. ASSUME NEW t \in Types, Cast(t) PROVE CInv'
    <3>1. CASE Refused(top, t)
      BY <2>5, <3>1 DEF Cast, Fail, TypedCells
    <3>2. CASE ~Refused(top, t)
      <4>1. NumCast(top, t) \in Top
        BY <3>2, CastGivesValue, ValuesAreDoubles
      <4> QED BY <2>5, <3>2, <4>1 DEF Cast, TypedCells
    <3> QED BY <3>1, <3>2
  <2>6. \A n \in Ints : n * Unit \in Top
    BY IntsAssumption, DoublesAssumption DEF Top
  <2>7. ASSUME NEW o \in Objects, NEW op \in Operations, Integer(op, o) PROVE CInv'
    <3>1. CASE Fail
      BY <3>1 DEF Fail, TypedCells
    <3>2. CASE ~Fail
      <4>1. PICK a, b : \E n \in Results(op, a, b) : top' = n * Unit
        BY <2>7, <3>2 DEF Integer
      <4>2. PICK n \in Ints : top' = n * Unit
        BY <4>1 DEF Results
      <4>3. UNCHANGED cells
        BY <2>7, <3>2 DEF Integer
      <4> QED BY <2>6, <4>2, <4>3 DEF TypedCells
    <3> QED BY <3>1, <3>2
  <2>8. CASE Complement
    <3>1. PICK n \in Ints : top' = n * Unit
      BY <2>8 DEF Complement
    <3> QED BY <2>6, <2>8, <3>1 DEF Complement, TypedCells
  <2>9. CASE UNCHANGED vars
    BY <2>9 DEF vars, TypedCells
  <2> QED BY <2>1, <2>2, <2>3, <2>4, <2>5, <2>7, <2>8, <2>9 DEF Next
<1> QED BY <1>1, <1>2

\* Objects whose types are no wider than the mantissa only ever hold values of
\* their types (num_cast in every store).
THEOREM NarrowCellsAreTyped ==
    ASSUME Narrow PROVE Spec => []TypedCells
<1>1. Init => CInv
  BY CellsStayTyped
<1>2. CInv /\ [Next]_vars => CInv'
  BY CellsStayTyped
<1>3. CInv => TypedCells
  BY DEF CInv
<1> QED BY <1>1, <1>2, <1>3, PTL DEF Spec

\* Every store to such an integer object is C's conversion.
THEOREM NarrowStoresConvert ==
    ASSUME Narrow PROVE Spec => StoreConverts
<1> DEFINE Converts ==
        \A o \in Objects :
          Store(o) /\ status' = "run" /\ TypeOf[o] \in Integral =>
            \E n \in -Magnitude(top) .. Magnitude(top) :
               /\ IntegerPart(n, top)
               /\ \E v \in Integers(TypeOf[o]) :
                     cells'[o] = v * Unit /\ (v - n) % Modulus[TypeOf[o]] = 0
<1>1. ASSUME CInv,
             NEW o \in Objects, Store(o), status' = "run", TypeOf[o] \in Integral
      PROVE  \E n \in -Magnitude(top) .. Magnitude(top) :
               /\ IntegerPart(n, top)
               /\ \E v \in Integers(TypeOf[o]) :
                     cells'[o] = v * Unit /\ (v - n) % Modulus[TypeOf[o]] = 0
  <2> DEFINE t == TypeOf[o]
             n == Trunc(top)
             v == ToIntegral(top, t)
  <2>1. ~Refused(top, t)
    BY <1>1 DEF Store, Fail
  <2>2. top \in Int
    BY <1>1, <2>1, DoublesAssumption DEF Refused, Top, CInv
  <2>3. n \in -Magnitude(top) .. Magnitude(top) /\ IntegerPart(n, top) /\ n \in Int
    BY <2>2, TruncIsIntegerPart DEF Magnitude
  <2>4. v \in Integers(t) /\ \E k \in Int : v - n = Modulus[t] * k
    BY <1>1, <2>3, ConversionWraps DEF ToIntegral
  <2>5. (v - n) % Modulus[t] = 0
    BY <1>1, <2>4, MultipleIsZeroModulo, TypesAssumption
  <2>6. cells'[o] = v * Unit
    <3>1. t \notin {"float", "double", "bool"}
      BY <1>1, TypesAssumption
    <3>2. NumCast(top, t) = v * Unit
      BY <3>1 DEF NumCast
    <3> QED BY <1>1, <2>1, <3>2 DEF Store, CInv
  <2> QED BY <2>3, <2>4, <2>5, <2>6
<1>2. CInv /\ [Next]_vars => [Converts]_vars
  BY <1>1
<1>3. Init => CInv
  BY CellsStayTyped
<1>4. CInv /\ [Next]_vars => CInv'
  BY CellsStayTyped
<1> QED BY <1>2, <1>3, <1>4, PTL DEF Spec, StoreConverts
--------------------------------------------------------------------------------
(* The integer operators: every set of positions below IntBits is that of    *)
(* the ones of exactly one int, and of exactly one word.                     *)

\* Quotient and remainder are the only ones there are.
LEMMA Quotient ==
    ASSUME NEW a \in Int, NEW d \in Nat, d > 0, NEW q \in Int, NEW r \in 0 .. d - 1, a = d * q + r
    PROVE  a \div d = q /\ a % d = r
OBVIOUS

LEMMA Divided ==
    ASSUME NEW a \in Int, NEW d \in Nat, d > 0
    PROVE  a \div d \in Int /\ a % d \in 0 .. d - 1 /\ a = d * (a \div d) + (a % d)
OBVIOUS

\* The recursion of Power.
LEMMA PowerExists ==
    ASSUME NEW n \in Nat
    PROVE  \E e : e = [i \in 0 .. n |-> IF i = 0 THEN 1 ELSE 2 * e[i - 1]]
<1> DEFINE Good(k) == \E e : e = [i \in 0 .. k |-> IF i = 0 THEN 1 ELSE 2 * e[i - 1]]
           Bad == {k \in Nat : ~Good(k)}
<1>1. Good(0)
  <2> DEFINE e == [i \in 0 .. 0 |-> 1]
  <2>1. e = [i \in 0 .. 0 |-> IF i = 0 THEN 1 ELSE 2 * e[i - 1]]
    OBVIOUS
  <2> QED BY <2>1
<1>2. ASSUME NEW k \in Nat, Good(k) PROVE Good(k + 1)
  <2>1. PICK e : e = [i \in 0 .. k |-> IF i = 0 THEN 1 ELSE 2 * e[i - 1]]
    BY <1>2
  <2> DEFINE f == [i \in 0 .. k + 1 |-> IF i <= k THEN e[i] ELSE 2 * e[k]]
  <2>2. \A i \in 0 .. k + 1 : f[i] = IF i = 0 THEN 1 ELSE 2 * f[i - 1]
    BY <2>1
  <2>3. f = [i \in 0 .. k + 1 |-> f[i]]
    OBVIOUS
  <2> HIDE DEF f
  <2>4. f = [i \in 0 .. k + 1 |-> IF i = 0 THEN 1 ELSE 2 * f[i - 1]]
    BY <2>2, <2>3
  <2> QED BY <2>4
<1> HIDE DEF Good
<1>3. ASSUME Bad # {} PROVE FALSE
  <2>1. PICK k \in Bad : \A y \in Bad : k <= y
    BY <1>3, Least
  <2>2. k # 0 /\ k - 1 \in Nat
    BY <1>1
  <2>3. Good(k - 1)
    BY <2>1, <2>2
  <2>4. Good(k - 1 + 1)
    BY <1>2, <2>2, <2>3
  <2> QED BY <2>2, <2>4
<1>4. Good(n)
  BY <1>3
<1> QED BY <1>4 DEF Good

LEMMA PowerIs ==
    /\ Power[0] = 1
    /\ \A i \in 0 .. IntBits : Power[i] \in Nat /\ Power[i] > 0
    /\ \A i \in 1 .. IntBits : Power[i] = 2 * Power[i - 1]
<1> DEFINE Bad == {i \in Nat : i <= IntBits /\ ~(Power[i] \in Nat /\ Power[i] > 0)}
<1>0. IntBits \in Nat /\ IntBits > 0
  BY IntsAssumption
<1>1. \E e : e = [i \in 0 .. IntBits |-> IF i = 0 THEN 1 ELSE 2 * e[i - 1]]
  BY <1>0, PowerExists
<1>2. Power = [i \in 0 .. IntBits |-> IF i = 0 THEN 1 ELSE 2 * Power[i - 1]]
  BY <1>1, Zenon DEF Power
<1>3. Power[0] = 1 /\ \A i \in 1 .. IntBits : Power[i] = 2 * Power[i - 1]
  BY <1>0, <1>2
<1>4. ASSUME Bad # {} PROVE FALSE
  <2>1. PICK k \in Bad : \A y \in Bad : k <= y
    BY <1>4, Least
  <2>2. k \in 1 .. IntBits /\ k - 1 \in Nat /\ k - 1 <= IntBits
    BY <1>0, <1>3
  <2>3. Power[k - 1] \in Nat /\ Power[k - 1] > 0
    BY <2>1, <2>2
  <2> QED BY <1>3, <2>2, <2>3
<1> QED BY <1>0, <1>3, <1>4

\* A larger power of two is an even multiple of a smaller one.
LEMMA PowersDivide ==
    ASSUME NEW k \in 0 .. IntBits, NEW i \in 0 .. k - 1
    PROVE  \E c \in Nat : Power[k] = 2 * c * Power[i]
<1> DEFINE Good(n) == \E c \in Nat : Power[n] = 2 * c * Power[i]
           Bad == {n \in Nat : i < n /\ n <= k /\ ~Good(n)}
<1>0. IntBits \in Nat /\ k \in Nat /\ i \in Nat /\ i < k /\ k <= IntBits
  BY IntsAssumption
<1>1. Good(i + 1)
  <2>1. Power[i + 1] = 2 * 1 * Power[i]
    BY <1>0, PowerIs
  <2> QED BY <2>1
<1>2. ASSUME NEW n \in Nat, i < n, n < k, Good(n) PROVE Good(n + 1)
  <2>1. PICK c \in Nat : Power[n] = 2 * c * Power[i]
    BY <1>2
  <2>2. Power[n + 1] = 2 * Power[n] /\ Power[i] \in Nat
    BY <1>0, <1>2, PowerIs
  <2>3. Power[n + 1] = 2 * (2 * c) * Power[i]
    BY <2>1, <2>2
  <2>4. 2 * c \in Nat
    OBVIOUS
  <2> QED BY <2>3, <2>4
<1> HIDE DEF Good
<1>3. ASSUME Bad # {} PROVE FALSE
  <2>1. PICK n \in Bad : \A y \in Bad : n <= y
    BY <1>3, Least
  <2>2. n # i + 1 /\ n - 1 \in Nat /\ i < n - 1 /\ n - 1 < k
    BY <1>0, <1>1
  <2>3. Good(n - 1)
    BY <2>1, <2>2
  <2>4. Good(n - 1 + 1)
    BY <1>2, <2>2, <2>3
  <2> QED BY <2>2, <2>4
<1>4. Good(k)
  BY <1>0, <1>3
<1> QED BY <1>4 DEF Good

Bit(n, i) == (n \div Power[i]) % 2

LEMMA BitIs == ASSUME NEW n \in Int, NEW i \in 0 .. IntBits PROVE Bit(n, i) \in {0, 1}
<1>1. Power[i] \in Nat /\ Power[i] > 0
  BY PowerIs
<1>2. n \div Power[i] \in Int
  BY <1>1
<1> QED BY <1>2 DEF Bit

\* A bit does not depend on multiples of a higher power.
LEMMA BitBelow ==
    ASSUME NEW a \in Int, NEW q \in Int, NEW k \in 0 .. IntBits, NEW i \in 0 .. k - 1
    PROVE  Bit(a + Power[k] * q, i) = Bit(a, i)
<1> DEFINE d == Power[i]
           s == a \div d
           r == a % d
<1>0. i \in 0 .. IntBits
  BY IntsAssumption
<1>1. d \in Nat /\ d > 0
  BY <1>0, PowerIs
<1>2. PICK c \in Nat : Power[k] = 2 * c * d
  BY PowersDivide
<1> HIDE DEF d
<1>3. s \in Int /\ r \in 0 .. d - 1 /\ a = d * s + r
  BY <1>1, Divided
<1> HIDE DEF s, r
<1>4. s + 2 * (c * q) \in Int /\ a + Power[k] * q \in Int
  BY <1>1, <1>2, <1>3
<1>5. a + Power[k] * q = d * (s + 2 * (c * q)) + r
  BY <1>1, <1>2, <1>3
<1>6. (a + Power[k] * q) \div d = s + 2 * (c * q)
  BY <1>1, <1>3, <1>4, <1>5, Quotient
<1>7. (s + 2 * (c * q)) % 2 = s % 2
  BY <1>3
<1> QED BY <1>6, <1>7 DEF Bit, d, s

\* The highest of k + 1 bits.
LEMMA BitAbove ==
    ASSUME NEW k \in 0 .. IntBits - 1, NEW r \in 0 .. Power[k] - 1, NEW q \in {0, 1}
    PROVE  /\ Bit(r + Power[k] * q, k) = q
           /\ r + Power[k] * q \in 0 .. Power[k + 1] - 1
<1> DEFINE d == Power[k]
<1>1. d \in Nat /\ d > 0 /\ Power[k + 1] = 2 * d
  BY PowerIs, IntsAssumption
<1> HIDE DEF d
<1>2. q \in Int /\ r \in 0 .. d - 1 /\ r + d * q \in Int /\ r + d * q = d * q + r
  BY <1>1 DEF d
<1>3. (r + d * q) \div d = q
  BY <1>1, <1>2, Quotient
<1>4. q % 2 = q
  OBVIOUS
<1>5. r + d * q \in 0 .. 2 * d - 1
  BY <1>1, <1>2
<1> QED BY <1>1, <1>3, <1>4, <1>5 DEF Bit, d

LEMMA Split ==
    ASSUME NEW k \in 0 .. IntBits - 1, NEW a \in 0 .. Power[k + 1] - 1
    PROVE  \E r \in 0 .. Power[k] - 1, q \in {0, 1} : a = r + Power[k] * q
<1> DEFINE d == Power[k]
<1>1. d \in Nat /\ d > 0 /\ Power[k + 1] = 2 * d
  BY PowerIs, IntsAssumption
<1> HIDE DEF d
<1>2. CASE a < d
  <2>1. a \in 0 .. d - 1 /\ a = a + d * 0
    BY <1>1, <1>2
  <2> QED BY <2>1 DEF d
<1>3. CASE ~(a < d)
  <2>1. a - d \in 0 .. d - 1 /\ a = (a - d) + d * 1
    BY <1>1, <1>3
  <2> QED BY <2>1 DEF d
<1> QED BY <1>2, <1>3

SameBits(k, a, c) == \A i \in 0 .. k - 1 : Bit(a, i) = Bit(c, i)

\* Bits determine the number,
LEMMA BitsDetermine ==
    ASSUME NEW k \in 0 .. IntBits, NEW a \in 0 .. Power[k] - 1, NEW c \in 0 .. Power[k] - 1,
           SameBits(k, a, c)
    PROVE  a = c
<1> DEFINE Good(n) == \A x, y \in 0 .. Power[n] - 1 : SameBits(n, x, y) => x = y
           Bad == {n \in Nat : n <= IntBits /\ ~Good(n)}
<1>0. IntBits \in Nat /\ k \in Nat /\ k <= IntBits
  BY IntsAssumption
<1>1. Good(0)
  BY PowerIs
<1>2. ASSUME NEW n \in Nat, n < IntBits, Good(n) PROVE Good(n + 1)
  <2>0. n \in 0 .. IntBits - 1 /\ n \in 0 .. n + 1 - 1 /\ n \in 0 .. IntBits
    BY <1>0, <1>2
  <2>1. SUFFICES ASSUME NEW x \in 0 .. Power[n + 1] - 1, NEW y \in 0 .. Power[n + 1] - 1,
                        SameBits(n + 1, x, y)
                 PROVE  x = y
    BY DEF Good
  <2>2. PICK r \in 0 .. Power[n] - 1, q \in {0, 1} : x = r + Power[n] * q
    BY <2>0, Split
  <2>3. PICK s \in 0 .. Power[n] - 1, p \in {0, 1} : y = s + Power[n] * p
    BY <2>0, Split
  <2>4. Bit(x, n) = q /\ Bit(y, n) = p
    BY <2>0, <2>2, <2>3, BitAbove
  <2>5. q = p
    BY <2>0, <2>1, <2>4 DEF SameBits
  <2>6. SameBits(n, r, s)
    <3>1. SUFFICES ASSUME NEW i \in 0 .. n - 1 PROVE Bit(r, i) = Bit(s, i)
      BY DEF SameBits
    <3>2. r \in Int /\ s \in Int /\ q \in Int /\ p \in Int
      BY <2>0, PowerIs
    <3>3. Bit(x, i) = Bit(r, i) /\ Bit(y, i) = Bit(s, i)
      BY <2>0, <2>2, <2>3, <3>2, BitBelow
    <3>4. Bit(x, i) = Bit(y, i)
      BY <2>1 DEF SameBits
    <3> QED BY <3>3, <3>4
  <2>7. r = s
    BY <1>2, <2>6
  <2> QED BY <2>2, <2>3, <2>5, <2>7
<1> HIDE DEF Good
<1>3. ASSUME Bad # {} PROVE FALSE
  <2>1. PICK n \in Bad : \A y \in Bad : n <= y
    BY <1>3, Least
  <2>2. n # 0 /\ n - 1 \in Nat /\ n - 1 < IntBits
    BY <1>0, <1>1
  <2>3. Good(n - 1)
    BY <1>0, <2>1, <2>2
  <2>4. Good(n - 1 + 1)
    BY <1>2, <2>2, <2>3
  <2> QED BY <2>2, <2>4
<1>4. Good(k)
  BY <1>0, <1>3
<1> QED BY <1>4 DEF Good

\* and every set of positions is that of the ones of a number.
LEMMA BitsExist ==
    ASSUME NEW k \in 0 .. IntBits, NEW S
    PROVE  \E a \in 0 .. Power[k] - 1 : \A i \in 0 .. k - 1 : Bit(a, i) = 1 <=> i \in S
<1> DEFINE Good(n) == \E a \in 0 .. Power[n] - 1 : \A i \in 0 .. n - 1 : Bit(a, i) = 1 <=> i \in S
           Bad == {n \in Nat : n <= IntBits /\ ~Good(n)}
<1>0. IntBits \in Nat /\ k \in Nat /\ k <= IntBits
  BY IntsAssumption
<1>1. Good(0)
  <2>1. 0 \in 0 .. Power[0] - 1 /\ \A i \in 0 .. 0 - 1 : Bit(0, i) = 1 <=> i \in S
    BY PowerIs
  <2> QED BY <2>1
<1>2. ASSUME NEW n \in Nat, n < IntBits, Good(n) PROVE Good(n + 1)
  <2>0. n \in 0 .. IntBits - 1 /\ n \in 0 .. IntBits
    BY <1>0, <1>2
  <2>1. PICK r \in 0 .. Power[n] - 1 : \A i \in 0 .. n - 1 : Bit(r, i) = 1 <=> i \in S
    BY <1>2
  <2> DEFINE q == IF n \in S THEN 1 ELSE 0
             a == r + Power[n] * q
  <2>2. q \in {0, 1} /\ (q = 1 <=> n \in S)
    OBVIOUS
  <2> HIDE DEF q
  <2>3. Bit(a, n) = q /\ a \in 0 .. Power[n + 1] - 1
    BY <2>0, <2>2, BitAbove
  <2>4. r \in Int /\ q \in Int
    BY <2>0, <2>2, PowerIs
  <2>5. ASSUME NEW i \in 0 .. n - 1 PROVE Bit(a, i) = Bit(r, i)
    BY <2>0, <2>4, BitBelow
  <2> HIDE DEF a
  <2>6. ASSUME NEW i \in 0 .. n + 1 - 1 PROVE Bit(a, i) = 1 <=> i \in S
    <3>1. CASE i = n
      BY <2>2, <2>3, <3>1
    <3>2. CASE i # n
      <4>1. i \in 0 .. n - 1
        BY <3>2
      <4> QED BY <2>1, <2>5, <4>1
    <3> QED BY <3>1, <3>2
  <2> QED BY <2>3, <2>6
<1> HIDE DEF Good
<1>3. ASSUME Bad # {} PROVE FALSE
  <2>1. PICK n \in Bad : \A y \in Bad : n <= y
    BY <1>3, Least
  <2>2. n # 0 /\ n - 1 \in Nat /\ n - 1 < IntBits
    BY <1>0, <1>1
  <2>3. Good(n - 1)
    BY <1>0, <2>1, <2>2
  <2>4. Good(n - 1 + 1)
    BY <1>2, <2>2, <2>3
  <2> QED BY <2>2, <2>4
<1>4. Good(k)
  BY <1>0, <1>3
<1> QED BY <1>4 DEF Good

Words == 0 .. Power[IntBits] - 1
Half == Power[IntBits - 1]

LEMMA Sizes ==
    /\ Half \in Nat /\ Half > 0 /\ Power[IntBits] = 2 * Half /\ Power[IntBits] \in Nat
    /\ Ints = -Half .. Half - 1 /\ Words = 0 .. 2 * Half - 1
    /\ IntBits \in Nat /\ IntBits > 0 /\ IntBits \in 0 .. IntBits
<1>1. IntBits \in Nat /\ IntBits > 0 /\ IntBits - 1 \in 0 .. IntBits /\ IntBits \in 1 .. IntBits
  BY IntsAssumption
<1> QED BY <1>1, PowerIs DEF Half, Ints, Words

LEMMA OnesSame ==
    ASSUME NEW a \in Int, NEW q \in Int
    PROVE  Ones(a + Power[IntBits] * q) = Ones(a)
<1>1. \A i \in 0 .. IntBits - 1 : Bit(a + Power[IntBits] * q, i) = Bit(a, i)
  BY Sizes, BitBelow
<1> QED BY <1>1 DEF Ones, Bit

LEMMA WordIs ==
    ASSUME NEW a \in Int
    PROVE  /\ Word(a) \in Words /\ Ones(Word(a)) = Ones(a)
           /\ \E q \in Int : a = Word(a) + Power[IntBits] * q
<1> DEFINE q == a \div Power[IntBits]
<1>1. /\ Word(a) \in Words /\ Word(a) \in Int /\ q \in Int
      /\ a = Power[IntBits] * q + Word(a)
  BY Sizes, Divided DEF Word, Words
<1> HIDE DEF q
<1>2. a = Word(a) + Power[IntBits] * q
  BY <1>1, Sizes
<1>3. Ones(a) = Ones(Word(a))
  BY <1>1, <1>2, OnesSame
<1> QED BY <1>1, <1>2, <1>3

LEMMA OfWordIs ==
    ASSUME NEW w \in Words
    PROVE  /\ OfWord(w) \in Ints /\ Ones(OfWord(w)) = Ones(w)
           /\ \E q \in Int : OfWord(w) = w + Power[IntBits] * q
<1>1. w \in Int
  BY Sizes
<1>2. PICK q \in {0, -1} : OfWord(w) = w + Power[IntBits] * q
  <2>1. OfWord(w) = w \/ OfWord(w) = w - Power[IntBits]
    BY DEF OfWord
  <2>2. w + Power[IntBits] * 0 = w /\ w + Power[IntBits] * (-1) = w - Power[IntBits]
    BY <1>1, Sizes
  <2> QED BY <2>1, <2>2
<1>3. OfWord(w) \in Ints
  BY Sizes DEF OfWord
<1>4. q \in Int
  OBVIOUS
<1>5. Ones(OfWord(w)) = Ones(w)
  BY <1>1, <1>2, <1>4, OnesSame
<1> QED BY <1>2, <1>3, <1>4, <1>5

LEMMA IntsApart ==
    ASSUME NEW m \in Ints, NEW n \in Ints, NEW q \in Int, m = n + Power[IntBits] * q
    PROVE  m = n
<1> DEFINE W == Power[IntBits]
<1>1. W \in Nat /\ W > 0 /\ m \in Int /\ n \in Int /\ m - n < W /\ n - m < W
  BY Sizes
<1> HIDE DEF W
<1>2. m - n = W * q
  BY <1>1 DEF W
<1>3. ASSUME q >= 1 PROVE FALSE
  <2>1. W * q >= W
    BY <1>1, <1>3
  <2> QED BY <1>1, <1>2, <2>1
<1>4. ASSUME q <= -1 PROVE FALSE
  <2>1. W * q <= -W
    BY <1>1, <1>4
  <2> QED BY <1>1, <1>2, <2>1
<1>5. q = 0
  BY <1>3, <1>4
<1> QED BY <1>1, <1>2, <1>5

LEMMA WordsApart ==
    ASSUME NEW v \in Words, NEW w \in Words, Ones(v) = Ones(w)
    PROVE  v = w
<1>1. ASSUME NEW i \in 0 .. IntBits - 1 PROVE Bit(v, i) = Bit(w, i)
  <2>1. v \in Int /\ w \in Int /\ i \in 0 .. IntBits
    BY Sizes
  <2>2. Bit(v, i) \in {0, 1} /\ Bit(w, i) \in {0, 1}
    BY <2>1, BitIs
  <2>3. Bit(v, i) = 1 <=> Bit(w, i) = 1
    BY DEF Ones, Bit
  <2> QED BY <2>2, <2>3
<1>2. SameBits(IntBits, v, w)
  BY <1>1 DEF SameBits
<1>3. v \in 0 .. Power[IntBits] - 1 /\ w \in 0 .. Power[IntBits] - 1
  BY DEF Words
<1> QED BY <1>2, <1>3, Sizes, BitsDetermine

LEMMA OnesApart ==
    ASSUME NEW m \in Ints, NEW n \in Ints, Ones(m) = Ones(n)
    PROVE  m = n
<1>1. m \in Int /\ n \in Int
  BY Sizes
<1>2. Word(m) \in Words /\ Word(n) \in Words /\ Ones(Word(m)) = Ones(Word(n))
  BY <1>1, WordIs
<1>3. Word(m) = Word(n)
  BY <1>2, WordsApart
<1>4. PICK p \in Int : m = Word(m) + Power[IntBits] * p
  BY <1>1, WordIs
<1>5. PICK q \in Int : n = Word(n) + Power[IntBits] * q
  BY <1>1, WordIs
<1>6. p - q \in Int /\ m = n + Power[IntBits] * (p - q)
  <2>1. Word(n) \in Int /\ Power[IntBits] \in Int
    BY <1>2, Sizes
  <2> QED BY <1>1, <1>3, <1>4, <1>5, <2>1
<1> QED BY <1>6, IntsApart

\* Each set of positions is one int's, the one its word stands for.
LEMMA OneInt ==
    ASSUME NEW S \in SUBSET (0 .. IntBits - 1)
    PROVE  \E w \in Words :
              /\ Ones(w) = S /\ OfWord(w) \in Ints
              /\ {n \in Ints : Ones(n) = S} = {OfWord(w)}
<1>1. PICK w \in Words : \A i \in 0 .. IntBits - 1 : Bit(w, i) = 1 <=> i \in S
  BY Sizes, BitsExist DEF Words
<1>2. Ones(w) = S
  BY <1>1 DEF Ones, Bit
<1>3. OfWord(w) \in Ints /\ Ones(OfWord(w)) = S
  BY <1>2, OfWordIs
<1>4. ASSUME NEW n \in Ints, Ones(n) = S PROVE n = OfWord(w)
  BY <1>3, <1>4, OnesApart
<1> QED BY <1>2, <1>3, <1>4

LEMMA LeftShift ==
    ASSUME NEW a \in Int, NEW p \in Nat
    PROVE  LET m == OfWord((Word(a) * p) % Power[IntBits])
           IN  m \in Ints /\ {n \in Ints : (n - a * p) % Power[IntBits] = 0} = {m}
<1> DEFINE W == Power[IntBits]
           u == Word(a)
           v == u * p
           w == v % W
           m == OfWord(w)
<1>1. W \in Nat /\ W > 0
  BY Sizes
<1>2. u \in Int /\ \E q \in Int : a = u + W * q
  <2>1. u \in Words /\ \E q \in Int : a = u + W * q
    BY WordIs
  <2>2. Words \subseteq Int
    BY Sizes
  <2> QED BY <2>1, <2>2
<1>3. v \in Int
  BY <1>2
<1> HIDE DEF v
<1>4. w \in Words /\ v \div W \in Int /\ v = W * (v \div W) + w
  BY <1>1, <1>3, Divided, Sizes DEF Words
<1>5. m \in Ints /\ \E q \in Int : m = w + W * q
  BY <1>4, OfWordIs
<1> HIDE DEF w, m
<1>6. w \in Int /\ m \in Int
  BY <1>4, <1>5, Sizes
<1>7. PICK q \in Int : a = u + W * q
  BY <1>2
<1>8. PICK r \in Int : m = w + W * r
  BY <1>5
<1> HIDE DEF u
<1>9. PICK s \in Int : m = a * p + W * s
  <2> DEFINE x == v \div W
  <2>1. x \in Int
    BY <1>4
  <2>2. a * p = v + W * (q * p)
    BY <1>1, <1>2, <1>7 DEF v
  <2> HIDE DEF x, W
  <2>3. v = W * x + w
    BY <1>4 DEF x
  <2>4. q * p \in Int /\ r - x - q * p \in Int
    BY <2>1
  <2> DEFINE y == q * p
  <2>5. y \in Int /\ a * p = v + W * y
    BY <2>2, <2>4
  <2> HIDE DEF y
  <2>6. m = a * p + W * (r - x - y)
    BY <1>1, <1>3, <1>6, <1>8, <2>1, <2>3, <2>5
  <2>7. r - x - y \in Int
    BY <2>1, <2>5
  <2> QED BY <2>6, <2>7
<1> HIDE DEF W
<1> DEFINE g == a * p
<1>10. g \in Int
  OBVIOUS
<1>11. m = g + W * s
  BY <1>9
<1> HIDE DEF g
<1>12. (m - g) % W = 0
  <2>1. m - g = W * s + 0 /\ m - g \in Int
    BY <1>1, <1>6, <1>10, <1>11
  <2>2. 0 \in 0 .. W - 1
    BY <1>1
  <2> QED BY <1>1, <2>1, <2>2, Quotient
<1>13. ASSUME NEW n \in Ints, (n - g) % W = 0 PROVE n = m
  <2> DEFINE z == (n - g) \div W
  <2>1. n \in Int
    BY Sizes
  <2>2. z \in Int /\ n - g = W * z
    BY <1>1, <1>10, <1>13, <2>1, Divided
  <2> HIDE DEF z
  <2>3. n = m + W * (z - s) /\ z - s \in Int
    BY <1>1, <1>6, <1>10, <1>11, <2>1, <2>2
  <2> QED BY <1>5, <2>3, IntsApart DEF W
<1> QED BY <1>5, <1>12, <1>13 DEF m, w, v, u, g, W

LEMMA RightShift ==
    ASSUME NEW a \in Ints, NEW b \in 0 .. IntBits - 1
    PROVE  LET m == IF a >= 0 THEN a \div Power[b]
                    ELSE IF b = 0 THEN a ELSE -1 - ((-1 - a) \div Power[b])
           IN  m \in Ints /\ m = ShiftRight(a, b)
<1> DEFINE d == Power[b]
<1>1. a \in Int /\ b \in 0 .. IntBits /\ d \in Nat /\ d > 0 /\ (b = 0 => d = 1)
  BY Sizes, PowerIs
<1> HIDE DEF d
<1>2. CASE a >= 0
  <2> DEFINE s == a \div d
             r == a % d
  <2>1. s \in Int /\ r \in 0 .. d - 1 /\ a = d * s + r
    BY <1>1, Divided
  <2> HIDE DEF s, r
  <2>2. s >= 0 /\ s <= a
    BY <1>1, <1>2, <2>1
  <2>3. s \in Ints
    BY <2>1, <2>2, Sizes
  <2> QED BY <1>2, <2>3 DEF ShiftRight, s, d
<1>3. CASE ~(a >= 0)
  <2> DEFINE c == -1 - a
             s == c \div d
             r == c % d
  <2>1. c \in Nat
    BY <1>1, <1>3
  <2> HIDE DEF c
  <2>2. s \in Int /\ r \in 0 .. d - 1 /\ c = d * s + r
    BY <1>1, <2>1, Divided
  <2> HIDE DEF s, r
  <2>3. a = d * (-1 - s) + (d - 1 - r) /\ d - 1 - r \in 0 .. d - 1 /\ -1 - s \in Int
    BY <1>1, <2>2 DEF c
  <2>4. a \div d = -1 - s
    BY <1>1, <2>3, Quotient
  <2>5. s >= 0 /\ s <= c
    BY <1>1, <2>1, <2>2
  <2>6. -1 - s \in Ints
    BY <1>1, <2>2, <2>5, Sizes DEF c
  <2>7. b = 0 => s = c
    BY <1>1, <2>1, <2>2
  <2>8. b = 0 => a = -1 - s
    BY <1>1, <2>7 DEF c
  <2> QED BY <1>3, <2>4, <2>6, <2>8 DEF ShiftRight, s, d, c
<1> QED BY <1>2, <1>3

LEMMA RemainderIsInt ==
    ASSUME NEW a \in Ints, NEW b \in Ints, b # 0
    PROVE  FMod(a, Magnitude(b)) \in Ints
<1> DEFINE m == Magnitude(b)
<1>1. a \in Int /\ b \in Int /\ m \in Nat /\ m > 0
  BY Sizes DEF Magnitude
<1> HIDE DEF m
<1>2. ASSUME NEW c \in Nat PROVE c % m \in 0 .. c
  <2> DEFINE s == c \div m
             r == c % m
  <2>1. s \in Int /\ r \in 0 .. m - 1 /\ c = m * s + r
    BY <1>1, Divided
  <2> HIDE DEF s, r
  <2>2. s >= 0
    BY <1>1, <2>1
  <2>3. m * s >= 0
    BY <1>1, <2>1, <2>2
  <2>4. r \in 0 .. c
    BY <1>1, <2>1, <2>3
  <2> QED BY <2>4 DEF r
<1>3. CASE a < 0
  <2>1. (-a) % m \in 0 .. -a
    BY <1>1, <1>2, <1>3
  <2> QED BY <1>1, <1>3, <2>1, Sizes DEF FMod, m
<1>4. CASE ~(a < 0)
  <2>1. a % m \in 0 .. a
    BY <1>1, <1>2, <1>4
  <2> QED BY <1>1, <1>4, <2>1, Sizes DEF FMod, m
<1> QED BY <1>3, <1>4

\* What checked_i32 lets through has its integer part in the range of int.
LEMMA CheckedFits ==
    ASSUME NEW d \in Int, Checked(d)
    PROVE  Trunc(d) \in Ints
<1>1. PICK m \in Ints, n \in Ints : m * Unit <= d /\ d <= n * Unit
  BY DEF Checked
<1>2. Unit \in Nat /\ Unit > 0 /\ m \in Int /\ n \in Int
  BY DoublesAssumption, Sizes
<1>3. CASE d < 0
  <2> DEFINE c == -d
             s == c \div Unit
             r == c % Unit
  <2>1. c \in Nat /\ c \in Int /\ c <= (-m) * Unit
    BY <1>1, <1>2, <1>3
  <2> HIDE DEF c
  <2>2. s \in Int /\ r \in 0 .. Unit - 1 /\ c = Unit * s + r
    BY <1>2, <2>1, Divided
  <2> HIDE DEF s, r
  <2>3. s >= 0 /\ s <= -m
    BY <1>2, <2>1, <2>2
  <2>4. -s \in Ints
    BY <1>2, <2>2, <2>3, Sizes
  <2> QED BY <1>3, <2>4 DEF Trunc, s, c
<1>4. CASE ~(d < 0)
  <2> DEFINE s == d \div Unit
             r == d % Unit
  <2>2. s \in Int /\ r \in 0 .. Unit - 1 /\ d = Unit * s + r
    BY <1>2, Divided
  <2> HIDE DEF s, r
  <2>3. s >= 0 /\ s <= n
    BY <1>1, <1>2, <1>4, <2>2
  <2>4. s \in Ints
    BY <1>2, <2>2, <2>3, Sizes
  <2> QED BY <1>4, <2>4 DEF Trunc, s
<1> QED BY <1>3, <1>4

\* Where the tests of numlangc let an operation through, this one has neither
\* of its own tests, nor anything undefined, in its way.
LEMMA NothingStops ==
    ASSUME NEW op \in Operations \ {"IDIV"}, NEW a \in Ints, NEW b \in Ints, ~OtherRefuses(op, a, b)
    PROVE  /\ ~Stops(op, a, b)
           /\ Results(op, a, b) = {n \in Ints : Gives(op, a, b, n)}
           /\ op = "IMOD" => b # 0
           /\ op \in Shifts => b \in 0 .. IntBits - 1
<1>1. IntBits \in Nat /\ b \in Int
  BY Sizes
<1>2. op \in Divisions => b # 0 /\ ~Overflows(op, a, b)
  BY DEF OtherRefuses
<1>3. op \in Shifts => b \in 0 .. IntBits - 1
  BY DEF OtherRefuses
<1>4. op \in Shifts => b \in 0 .. 2 * IntBits - 1 /\ ~(b >= IntBits)
  BY <1>1, <1>3
<1>5. ~Refuses(op, b) /\ ~Overflows(op, a, b) /\ ~ShiftsOut(op, b)
  BY <1>2, <1>4 DEF Refuses, Overflows, ShiftsOut
<1> QED BY <1>2, <1>3, <1>5 DEF Stops, Results, Divisions

LEMMA OperationsAgree ==
    ASSUME NEW op \in Operations \ {"IDIV"}, NEW a \in Ints, NEW b \in Ints, ~OtherRefuses(op, a, b)
    PROVE  \E n \in Ints : OtherGives(op, a, b, n) /\ Results(op, a, b) = {n}
<1>0. Results(op, a, b) = {n \in Ints : Gives(op, a, b, n)}
  BY NothingStops
<1>1. a \in Int /\ b \in Int
  BY Sizes
<1>2. Ones(Word(a)) = Ones(a) /\ Ones(Word(b)) = Ones(b)
  BY <1>1, WordIs
<1>3. Ones(a) \in SUBSET (0 .. IntBits - 1) /\ Ones(b) \in SUBSET (0 .. IntBits - 1)
  BY DEF Ones
<1>4. op \in {"BAND", "BOR", "BXOR", "BSHL", "BSHR", "IMOD"}
  BY DEF Operations, Divisions, Shifts
<1>5. ASSUME NEW S \in SUBSET (0 .. IntBits - 1),
             \A n : Gives(op, a, b, n) <=> Ones(n) = S,
             \A w \in Words : Ones(w) = S => OtherGives(op, a, b, OfWord(w))
      PROVE  \E n \in Ints : OtherGives(op, a, b, n) /\ Results(op, a, b) = {n}
  <2>1. PICK w \in Words : /\ Ones(w) = S /\ OfWord(w) \in Ints
                           /\ {n \in Ints : Ones(n) = S} = {OfWord(w)}
    BY OneInt
  <2>2. Results(op, a, b) = {n \in Ints : Ones(n) = S}
    BY <1>0, <1>5
  <2> QED BY <1>5, <2>1, <2>2
<1>6. CASE op = "BAND"
  <2>1. \A n : Gives(op, a, b, n) <=> Ones(n) = Ones(a) \cap Ones(b)
    BY <1>6 DEF Gives
  <2>2. \A w \in Words : Ones(w) = Ones(a) \cap Ones(b) => OtherGives(op, a, b, OfWord(w))
    BY <1>2, <1>6 DEF OtherGives, Words
  <2>3. Ones(a) \cap Ones(b) \in SUBSET (0 .. IntBits - 1)
    BY <1>3
  <2> QED BY <1>5, <2>1, <2>2, <2>3
<1>7. CASE op = "BOR"
  <2>1. \A n : Gives(op, a, b, n) <=> Ones(n) = Ones(a) \cup Ones(b)
    BY <1>7 DEF Gives
  <2>2. \A w \in Words : Ones(w) = Ones(a) \cup Ones(b) => OtherGives(op, a, b, OfWord(w))
    BY <1>2, <1>7 DEF OtherGives, Words
  <2>3. Ones(a) \cup Ones(b) \in SUBSET (0 .. IntBits - 1)
    BY <1>3
  <2> QED BY <1>5, <2>1, <2>2, <2>3
<1>8. CASE op = "BXOR"
  <2> DEFINE S == (Ones(a) \cup Ones(b)) \ (Ones(a) \cap Ones(b))
  <2>1. \A n : Gives(op, a, b, n) <=> Ones(n) = S
    BY <1>8 DEF Gives
  <2>2. S = (Ones(a) \ Ones(b)) \cup (Ones(b) \ Ones(a))
    OBVIOUS
  <2>3. \A w \in Words : Ones(w) = (Ones(a) \ Ones(b)) \cup (Ones(b) \ Ones(a)) =>
           OtherGives(op, a, b, OfWord(w))
    BY <1>2, <1>8 DEF OtherGives, Words
  <2>4. S \in SUBSET (0 .. IntBits - 1)
    BY <1>3
  <2> HIDE DEF S
  <2> QED BY <1>5, <2>1, <2>2, <2>3, <2>4
<1>9. CASE op = "BSHL"
  <2> DEFINE p == Power[b]
             m == OfWord((Word(a) * p) % Power[IntBits])
  <2>1. p \in Nat
    BY <1>9, NothingStops, PowerIs, Sizes DEF Shifts
  <2>2. m \in Ints /\ {n \in Ints : (n - a * p) % Power[IntBits] = 0} = {m}
    BY <1>1, <2>1, LeftShift
  <2>3. \A n : Gives(op, a, b, n) <=> (n - a * p) % Power[IntBits] = 0
    BY <1>9 DEF Gives
  <2>4. OtherGives(op, a, b, m)
    BY <1>9 DEF OtherGives
  <2> HIDE DEF m, p
  <2> QED BY <1>0, <2>2, <2>3, <2>4
<1>10. CASE op = "BSHR"
  <2> DEFINE m == IF a >= 0 THEN a \div Power[b]
                  ELSE IF b = 0 THEN a ELSE -1 - ((-1 - a) \div Power[b])
  <2>1. b \in 0 .. IntBits - 1
    BY <1>10, NothingStops DEF Shifts
  <2>2. m \in Ints /\ m = ShiftRight(a, b)
    BY <2>1, RightShift
  <2>3. \A n : Gives(op, a, b, n) <=> n = ShiftRight(a, b)
    BY <1>10 DEF Gives
  <2>4. OtherGives(op, a, b, m)
    BY <1>10 DEF OtherGives
  <2> HIDE DEF m
  <2> QED BY <1>0, <2>2, <2>3, <2>4
<1>11. CASE op = "IMOD"
  <2> DEFINE m == FMod(a, Magnitude(b))
  <2>1. m \in Ints
    BY <1>11, NothingStops, RemainderIsInt
  <2>2. \A n : Gives(op, a, b, n) <=> n = m
    BY <1>11 DEF Gives
  <2>3. OtherGives(op, a, b, m)
    BY <1>11 DEF OtherGives
  <2> HIDE DEF m
  <2> QED BY <1>0, <2>1, <2>2, <2>3
<1> QED BY <1>4, <1>6, <1>7, <1>8, <1>9, <1>10, <1>11

\* Doubles are numbers, whatever the types.
Amounts == Int \cup {NonFinite}
Numeric == top \in Amounts /\ cells \in [Objects -> Amounts]

LEMMA CastNumber ==
    ASSUME NEW d \in Amounts, NEW t \in Types, ~Refused(d, t)
    PROVE  NumCast(d, t) \in Amounts
<1>1. CASE t \in {"double", "bool"}
  BY <1>1, DoublesAssumption DEF NumCast, Amounts
<1>2. CASE t = "float"
  <2>1. Floats \in SUBSET Int /\ Floats # {}
    BY DoublesAssumption
  <2>2. d # NonFinite => Nearest(Floats, d) \in Floats
    BY <2>1, NearestIn DEF Amounts
  <2> QED BY <1>2, <2>1, <2>2 DEF NumCast, Amounts
<1>3. CASE t \in Integral
  <2> DEFINE m == Modulus[t]
             n == Trunc(d)
             r == FMod(n, m)
             s == Lift(r, m)
  <2>1. t \notin {"float", "double", "bool"} /\ m \in Nat /\ m > 0
    BY <1>3, TypesAssumption
  <2>2. d \in Int /\ Unit \in Nat /\ Unit > 0
    BY <1>3, DoublesAssumption DEF Refused, Amounts
  <2>3. Whole \in SUBSET Int /\ Whole # {}
    BY DoublesAssumption
  <2> HIDE DEF m
  <2>4. n \in Int
    BY <2>2 DEF Trunc
  <2> HIDE DEF n
  <2>5. r \in Int
    BY <2>1, <2>4 DEF FMod
  <2> HIDE DEF r
  <2>6. s \in Int
    <3>1. Nearest(Whole, r + m) \in Whole
      BY <2>1, <2>3, <2>5, NearestIn
    <3> QED BY <2>3, <2>5, <3>1 DEF Lift
  <2> HIDE DEF s
  <2>7. Lower(s, m, t) \in Int
    <3>1. Nearest(Whole, s - m) \in Whole
      BY <2>1, <2>3, <2>6, NearestIn
    <3> QED BY <2>3, <2>6, <3>1 DEF Lower
  <2>8. ToIntegral(d, t) \in Int
    BY <2>7 DEF ToIntegral, s, r, n, m
  <2> QED BY <2>1, <2>2, <2>8 DEF NumCast, Amounts
<1> QED BY <1>1, <1>2, <1>3 DEF Types

LEMMA StaysNumeric ==
    /\ Init => Numeric
    /\ Numeric /\ [Next]_vars => Numeric'
<1>0. Doubles \subseteq Amounts /\ Doubles \in SUBSET Int /\ Doubles # {} /\ Unit \in Nat
  BY DoublesAssumption DEF Amounts
<1>1. Init => Numeric
  BY DEF Init, Numeric, Amounts
<1>2. ASSUME Numeric, [Next]_vars PROVE Numeric'
  <2> USE <1>2 DEF Numeric
  <2>1. CASE Literal
    BY <1>0, <2>1, TypesAssumption DEF Literal
  <2>2. ASSUME NEW o \in Objects, Load(o) PROVE Numeric'
    BY <2>2 DEF Load
  <2>3. ASSUME NEW o \in Objects, Add(o) PROVE Numeric'
    <3>1. Sum(top, cells[o]) \in Amounts
      <4>1. CASE NonFinite \in {top, cells[o]}
        BY <4>1 DEF Sum, Amounts
      <4>2. CASE NonFinite \notin {top, cells[o]}
        <5>1. top \in Int /\ cells[o] \in Int
          BY <4>2 DEF Amounts
        <5>2. Nearest(Doubles, top + cells[o]) \in Doubles
          BY <1>0, <5>1, NearestIn
        <5> QED BY <1>0, <4>2, <5>2 DEF Sum
      <4> QED BY <4>1, <4>2
    <3> QED BY <2>3, <3>1 DEF Add, Amounts
  <2>4. ASSUME NEW o \in Objects, Store(o) PROVE Numeric'
    <3>1. CASE Refused(top, TypeOf[o])
      BY <2>4, <3>1 DEF Store, Fail
    <3>2. CASE ~Refused(top, TypeOf[o])
      <4>1. NumCast(top, TypeOf[o]) \in Amounts
        BY <3>2, CastNumber, TypesAssumption
      <4> QED BY <2>4, <3>2, <4>1 DEF Store
    <3> QED BY <3>1, <3>2
  <2>5. ASSUME NEW t \in Types, Cast(t) PROVE Numeric'
    <3>1. CASE Refused(top, t)
      BY <2>5, <3>1 DEF Cast, Fail
    <3>2. CASE ~Refused(top, t)
      <4>1. NumCast(top, t) \in Amounts
        BY <3>2, CastNumber
      <4> QED BY <2>5, <3>2, <4>1 DEF Cast
    <3> QED BY <3>1, <3>2
  <2>6. \A n \in Ints : n * Unit \in Amounts
    BY <1>0, Sizes DEF Amounts
  <2>7. ASSUME NEW o \in Objects, NEW op \in Operations, Integer(op, o) PROVE Numeric'
    <3>1. CASE Fail
      BY <3>1 DEF Fail
    <3>2. CASE ~Fail
      <4>1. PICK a, b : \E n \in Results(op, a, b) : top' = n * Unit
        BY <2>7, <3>2 DEF Integer
      <4>2. PICK n \in Ints : top' = n * Unit
        BY <4>1 DEF Results
      <4>3. UNCHANGED cells
        BY <2>7, <3>2 DEF Integer
      <4> QED BY <2>6, <4>2, <4>3
    <3> QED BY <3>1, <3>2
  <2>8. CASE Complement
    BY <2>6, <2>8 DEF Complement
  <2>9. CASE UNCHANGED vars
    BY <2>9 DEF vars
  <2> QED BY <2>1, <2>2, <2>3, <2>4, <2>5, <2>7, <2>8, <2>9 DEF Next
<1> QED BY <1>1, <1>2

\* Operators on integers: where the program of numlangc computes a value, this
\* one computes it too, whatever the width of int and the set of doubles.
THEOREM IntegersAgree == Spec => []CompilersAgree
<1>1. Numeric => CompilersAgree
  <2>1. SUFFICES ASSUME Numeric, NEW op \in Operations \ {"IDIV"}, NEW o \in Objects,
                        Checked(top), Checked(cells[o]),
                        ~OtherRefuses(op, Trunc(top), Trunc(cells[o]))
                 PROVE  /\ ~Stops(op, Trunc(top), Trunc(cells[o]))
                        /\ \E n \in Ints :
                              /\ OtherGives(op, Trunc(top), Trunc(cells[o]), n)
                              /\ Results(op, Trunc(top), Trunc(cells[o])) = {n}
    BY DEF CompilersAgree
  <2>2. top \in Int /\ cells[o] \in Int
    BY <2>1 DEF Numeric, Amounts, Checked
  <2>3. Trunc(top) \in Ints /\ Trunc(cells[o]) \in Ints
    BY <2>1, <2>2, CheckedFits
  <2> QED BY <2>1, <2>3, NothingStops, OperationsAgree
<1>2. Init => Numeric
  BY StaysNumeric
<1>3. Numeric /\ [Next]_vars => Numeric'
  BY StaysNumeric
<1> QED BY <1>1, <1>2, <1>3, PTL DEF Spec

--------------------------------------------------------------------------------
(***************************************************************************)
(* The array operations for any number of ids, any stack, sizes and blocks,  *)
(* whatever (int) makes of a double: TypeOK and HeapSound together are         *)
(* inductive, and under them every step is a step of ArrayStore.               *)
(***************************************************************************)

IInv == TypeOK /\ HeapSound

LEMMA IntOfValue ==
    ASSUME NEW v \in Value, NEW k \in Truncated(v)
    PROVE  k \in Int
BY ArrayAssumption DEF Truncated, Value

LEMMA StackOps ==
    ASSUME TypeOK
    PROVE  /\ \A n \in 0 .. Len(stack) :
                 /\ Popped(n) \in Seq(Value) /\ Len(Popped(n)) = Len(stack) - n
                 /\ Popped(n) \in Seq(Value) /\ Len(Popped(n)) <= StackSize
           /\ \A k \in 0 .. Len(stack) - 1 : Item(k) \in Value
<1>1. Len(stack) \in Nat /\ stack \in Seq(Value) /\ StackSize \in Nat /\ Len(stack) <= StackSize
  BY ArrayAssumption DEF TypeOK
<1>2. ASSUME NEW n \in 0 .. Len(stack)
      PROVE  Popped(n) \in Seq(Value) /\ Len(Popped(n)) = Len(stack) - n
  BY <1>1, <1>2 DEF Popped
<1>3. ASSUME NEW k \in 0 .. Len(stack) - 1
      PROVE  Item(k) \in Value
  BY <1>1, <1>3 DEF Item
<1> QED BY <1>1, <1>2, <1>3

\* While the program runs, what passes arr_slot is an element of its own block.
LEMMA SlotInBlock ==
    ASSUME IInv, ~failed, NEW id \in Int, NEW i \in Int, InSlot(id, i)
    PROVE  /\ id \in Ids /\ arrays[id] \in Blocks
           /\ i \in DOMAIN heap[arrays[id]]
           /\ heap[arrays[id]][i] \in Value
<1>1. id \in Ids /\ arr_len[id] \in Nat /\ i \in 0 .. arr_len[id] - 1
  BY DEF IInv, TypeOK, InSlot
<1>2. i \in IF arrays[id] = Null THEN {} ELSE DOMAIN heap[arrays[id]]
  BY <1>1 DEF IInv, HeapSound
<1>3. arrays[id] # Null /\ i \in DOMAIN heap[arrays[id]]
  BY <1>2
<1>4. arrays[id] \in Blocks
  BY <1>1, <1>3 DEF IInv, TypeOK
<1> QED BY <1>1, <1>3, <1>4 DEF IInv, TypeOK
--------------------------------------------------------------------------------
LEMMA SoundKept ==
    ASSUME IInv, UNCHANGED <<arrays, arr_len, live, failed>>,
           \A b \in Blocks : DOMAIN heap'[b] = DOMAIN heap[b]
    PROVE  HeapSound'
<1> SUFFICES ASSUME ~failed' PROVE HeapSound'
  BY DEF HeapSound
<1>1. /\ ~failed /\ arrays \in [Ids -> Blocks \cup {Null}]
      /\ arrays' = arrays /\ arr_len' = arr_len /\ live' = live
  BY DEF IInv, TypeOK
<1>2. {arrays'[id] : id \in Ids} = {arrays[id] : id \in Ids}
  BY <1>1
<1>3. live' = {arrays'[id] : id \in Ids} \ {Null}
  BY <1>1, <1>2 DEF IInv, HeapSound
<1>4. ASSUME NEW id \in Ids
      PROVE  /\ 0 .. arr_len'[id] - 1 \subseteq
                   IF arrays'[id] = Null THEN {} ELSE DOMAIN heap'[arrays'[id]]
             /\ \A other \in Ids \ {id} :
                   arrays'[id] = arrays'[other] => arrays'[id] = Null
  <2>1. arrays[id] # Null => DOMAIN heap'[arrays[id]] = DOMAIN heap[arrays[id]]
    BY <1>1
  <2> QED BY <1>1, <2>1 DEF IInv, HeapSound
<1> QED BY <1>3, <1>4 DEF HeapSound

LEMMA InitSafe == HeapInit => IInv
<1> SUFFICES ASSUME HeapInit PROVE IInv
  OBVIOUS
<1>1. TypeOK
  <2>1. ASSUME NEW b \in Blocks
        PROVE  heap[b] \in [DOMAIN heap[b] -> Value]
    <3>1. heap[b] = [i \in 0 .. 0 |-> 0]
      BY DEF HeapInit
    <3> QED BY <3>1 DEF Value
  <2>2. heap = [b \in Blocks |-> heap[b]]
    BY DEF HeapInit
  <2>3. /\ arrays \in [Ids -> Blocks \cup {Null}] /\ arr_len \in [Ids -> Nat]
        /\ live \subseteq Blocks /\ failed \in BOOLEAN
    BY DEF HeapInit
  <2>4. stack \in Seq(Value) /\ Len(stack) = 0
    BY DEF HeapInit
  <2>5. Len(stack) <= StackSize
    BY <2>4, ArrayAssumption
  <2> QED BY <2>1, <2>2, <2>3, <2>4, <2>5 DEF TypeOK
<1>2. HeapSound
  BY DEF HeapInit, HeapSound, Ids
<1> QED BY <1>1, <1>2 DEF IInv

LEMMA FailSafe ==
    ASSUME IInv, ArrFail
    PROVE  IInv'
BY DEF ArrFail, storage, IInv, TypeOK, HeapSound

LEMMA StackSafe ==
    ASSUME IInv, ~failed, stack' \in Seq(Value), Len(stack') <= StackSize,
           UNCHANGED <<storage, failed>>
    PROVE  IInv'
<1>1. TypeOK'
  BY DEF storage, IInv, TypeOK
<1>2. HeapSound'
  BY SoundKept DEF storage
<1> QED BY <1>1, <1>2 DEF IInv

LEMMA PushSafe ==
    ASSUME IInv, Push
    PROVE  IInv'
<1>1. CASE ArrFail
  BY <1>1, FailSafe
<1>2. CASE \E x \in Numbers : Room /\ stack' = Append(stack, x) /\ UNCHANGED <<storage, failed>>
  <2>1. PICK x \in Numbers : Room /\ stack' = Append(stack, x) /\ UNCHANGED <<storage, failed>>
    BY <1>2
  <2>2. stack' \in Seq(Value) /\ Len(stack') <= StackSize
    BY <2>1, ArrayAssumption DEF Room, IInv, TypeOK
  <2> QED BY <2>1, <2>2, StackSafe DEF Push
<1> QED BY <1>1, <1>2 DEF Push

LEMMA PopSafe ==
    ASSUME IInv, Pop
    PROVE  IInv'
<1>1. CASE ArrFail
  BY <1>1, FailSafe
<1>2. CASE stack # <<>> /\ stack' = Popped(1) /\ UNCHANGED <<storage, failed>>
  <2>1. 1 \in 0 .. Len(stack)
    BY <1>2 DEF IInv, TypeOK
  <2>2. stack' \in Seq(Value) /\ Len(stack') <= StackSize
    BY <1>2, <2>1, StackOps DEF IInv
  <2> QED BY <1>2, <2>2, StackSafe DEF Pop
<1> QED BY <1>1, <1>2 DEF Pop

\* The old block is given back before the new one is chosen: the new one is
\* in use by no other id.
LEMMA AllocateSafe ==
    ASSUME IInv, ~failed, 2 \in 0 .. Len(stack),
           NEW id \in Ids, NEW n \in Nat, Allocate(id, n)
    PROVE  IInv'
<1> DEFINE rest == Freed(arrays[id])
<1>0. arr_len' \in [Ids -> Nat] \/ UNCHANGED arr_len
  BY DEF Allocate, IInv, TypeOK
<1>1. CASE failed'
  <2>1. /\ arrays' = [arrays EXCEPT ![id] = Null] /\ live' = rest
        /\ failed' = TRUE /\ UNCHANGED <<stack, arr_len, heap>>
    BY <1>1 DEF Allocate
  <2>2. TypeOK'
    BY <2>1 DEF IInv, TypeOK, Freed
  <2> QED BY <2>1, <2>2 DEF IInv, HeapSound
<1>2. CASE ~failed'
  <2>1. PICK b \in Blocks \ rest :
           /\ arrays' = [arrays EXCEPT ![id] = b]
           /\ arr_len' = [arr_len EXCEPT ![id] = n]
           /\ live' = rest \cup {b}
           /\ heap' = [heap EXCEPT ![b] = Cleared(b, Size(n))]
           /\ stack' = Popped(2)
           /\ UNCHANGED failed
    BY <1>2 DEF Allocate
  <2>2. Size(n) \in Nat /\ 0 .. n - 1 \subseteq 0 .. Size(n) - 1
    BY DEF Size
  <2>3. heap'[b] = Cleared(b, Size(n)) /\ \A c \in Blocks \ {b} : heap'[c] = heap[c]
    BY <2>1 DEF IInv, TypeOK
  <2>4. DOMAIN heap'[b] = 0 .. Size(n) - 1 /\ heap'[b] \in [DOMAIN heap'[b] -> Value]
    BY <2>2, <2>3 DEF Cleared, Value
  <2>5. TypeOK'
    <3>1. stack' \in Seq(Value) /\ Len(stack') <= StackSize
      BY <2>1, StackOps DEF IInv
    <3>2. arrays' \in [Ids -> Blocks \cup {Null}] /\ arr_len' \in [Ids -> Nat]
      BY <2>1 DEF IInv, TypeOK
    <3>3. live' \subseteq Blocks /\ failed' \in BOOLEAN
      BY <2>1 DEF IInv, TypeOK, Freed
    <3>4. heap' = [c \in Blocks |-> heap'[c]]
      BY <2>1 DEF IInv, TypeOK
    <3>5. \A c \in Blocks : heap'[c] \in [DOMAIN heap'[c] -> Value]
      BY <2>3, <2>4 DEF IInv, TypeOK
    <3> QED BY <3>1, <3>2, <3>3, <3>4, <3>5 DEF TypeOK
  <2>6. arrays'[id] = b /\ \A o \in Ids \ {id} : arrays'[o] = arrays[o]
    BY <2>1 DEF IInv, TypeOK
  <2>7. b \in Blocks /\ b # Null
    BY <2>1, ArrayAssumption
  <2>8. \A o \in Ids \ {id} : arrays[o] # b
    BY <2>1, <2>7 DEF IInv, HeapSound, Freed
  <2>9. live' = {arrays'[o] : o \in Ids} \ {Null}
    <3>1. live = {arrays[o] : o \in Ids} \ {Null}
      BY DEF IInv, HeapSound
    <3>2. rest = {arrays[o] : o \in Ids \ {id}} \ {Null}
      BY <3>1 DEF Freed, IInv, HeapSound
    <3>3. {arrays'[o] : o \in Ids} = {arrays[o] : o \in Ids \ {id}} \cup {b}
      BY <2>6
    <3> QED BY <2>1, <2>7, <3>2, <3>3
  <2>10. ASSUME NEW o \in Ids
         PROVE  0 .. arr_len'[o] - 1 \subseteq
                   IF arrays'[o] = Null THEN {} ELSE DOMAIN heap'[arrays'[o]]
    <3>1. CASE o = id
      <4>1. arr_len'[o] = n
        BY <2>1, <3>1 DEF IInv, TypeOK
      <4> QED BY <4>1, <3>1, <2>2, <2>4, <2>6, <2>7
    <3>2. CASE o # id
      <4>1. arr_len'[o] = arr_len[o] /\ arrays'[o] = arrays[o]
        BY <2>1, <2>6, <3>2 DEF IInv, TypeOK
      <4>2. arrays[o] # Null => heap'[arrays[o]] = heap[arrays[o]]
        BY <2>3, <2>8, <3>2 DEF IInv, TypeOK
      <4> QED BY <4>1, <4>2 DEF IInv, HeapSound
    <3> QED BY <3>1, <3>2
  <2>11. ASSUME NEW o \in Ids, NEW other \in Ids \ {o}, arrays'[o] = arrays'[other]
         PROVE  arrays'[o] = Null
    BY <2>6, <2>8, <2>11 DEF IInv, HeapSound
  <2> QED BY <2>5, <2>9, <2>10, <2>11 DEF IInv, HeapSound
<1> QED BY <1>1, <1>2

LEMMA ArrNewSafe ==
    ASSUME IInv, ArrNew
    PROVE  IInv'
<1>1. CASE ArrFail
  BY <1>1, FailSafe
<1>2. CASE ~ArrFail
  <2>1. Len(stack) \in Nat /\ Len(stack) >= 2
    BY <1>2 DEF ArrNew, IInv, TypeOK
  <2>2. PICK id \in Truncated(Item(1)), n \in Truncated(Item(0)) :
           id \in Ids /\ n >= 0 /\ Allocate(id, n)
    BY <1>2, <2>1 DEF ArrNew
  <2>3. Item(0) \in Value
    BY <2>1, StackOps DEF IInv
  <2>4. n \in Nat
    BY <2>2, <2>3, IntOfValue
  <2> QED BY <2>1, <2>2, <2>4, AllocateSafe DEF ArrNew
<1> QED BY <1>1, <1>2

LEMMA ArrSetSafe ==
    ASSUME IInv, ArrSet
    PROVE  IInv'
<1>1. CASE ArrFail
  BY <1>1, FailSafe
<1>2. CASE ~ArrFail
  <2>1. Len(stack) \in Nat /\ Len(stack) >= 3
    BY <1>2 DEF ArrSet, IInv, TypeOK
  <2>2. PICK id \in Truncated(Item(2)), i \in Truncated(Item(1)) :
           /\ InSlot(id, i)
           /\ heap' = [heap EXCEPT ![arrays[id]] = [@ EXCEPT ![i] = Item(0)]]
           /\ stack' = Popped(3)
           /\ UNCHANGED <<arrays, arr_len, live, failed>>
    BY <1>2, <2>1 DEF ArrSet
  <2>3. Item(0) \in Value /\ Item(1) \in Value /\ Item(2) \in Value
    BY <2>1, StackOps DEF IInv
  <2>4. id \in Int /\ i \in Int
    BY <2>2, <2>3, IntOfValue
  <2>5. arrays[id] \in Blocks
    BY <2>2, <2>4, SlotInBlock DEF ArrSet
  <2>6. \A c \in Blocks : DOMAIN heap'[c] = DOMAIN heap[c]
    BY <2>2, <2>5 DEF IInv, TypeOK
  <2>7. TypeOK'
    <3>1. stack' \in Seq(Value) /\ Len(stack') <= StackSize
      BY <2>1, <2>2, StackOps DEF IInv
    <3>2. heap' = [c \in Blocks |-> heap'[c]]
      BY <2>2 DEF IInv, TypeOK
    <3>3. ASSUME NEW c \in Blocks
          PROVE  heap'[c] \in [DOMAIN heap'[c] -> Value]
      <4>1. CASE c = arrays[id]
        <5>1. heap'[c] = [heap[c] EXCEPT ![i] = Item(0)]
          BY <2>2, <4>1 DEF IInv, TypeOK
        <5>2. heap[c] \in [DOMAIN heap[c] -> Value]
          BY DEF IInv, TypeOK
        <5> QED BY <5>1, <5>2, <2>3
      <4>2. CASE c # arrays[id]
        BY <2>2, <4>2 DEF IInv, TypeOK
      <4> QED BY <4>1, <4>2
    <3> QED BY <2>2, <3>1, <3>2, <3>3 DEF IInv, TypeOK
  <2>8. HeapSound'
    BY <2>2, <2>6, SoundKept
  <2> QED BY <2>7, <2>8 DEF IInv
<1> QED BY <1>1, <1>2

LEMMA ArrGetSafe ==
    ASSUME IInv, ArrGet
    PROVE  IInv'
<1>1. CASE ArrFail
  BY <1>1, FailSafe
<1>2. CASE ~ArrFail
  <2>1. Len(stack) \in Nat /\ Len(stack) >= 2
    BY <1>2 DEF ArrGet, IInv, TypeOK
  <2>2. PICK id \in Truncated(Item(1)), i \in Truncated(Item(0)) :
           /\ InSlot(id, i)
           /\ stack' = Append(Popped(2), heap[arrays[id]][i])
           /\ UNCHANGED <<storage, failed>>
    BY <1>2, <2>1 DEF ArrGet
  <2>3. Item(0) \in Value /\ Item(1) \in Value
    BY <2>1, StackOps DEF IInv
  <2>4. heap[arrays[id]][i] \in Value
    BY <2>2, <2>3, IntOfValue, SlotInBlock DEF ArrGet
  <2>5. Popped(2) \in Seq(Value) /\ Len(Popped(2)) = Len(stack) - 2
    BY <2>1, StackOps DEF IInv
  <2>6. stack' \in Seq(Value) /\ Len(stack') <= StackSize
    BY <2>1, <2>2, <2>4, <2>5, ArrayAssumption DEF IInv, TypeOK
  <2> QED BY <2>2, <2>6, StackSafe DEF ArrGet
<1> QED BY <1>1, <1>2

LEMMA NextSafe == IInv /\ [HeapNext]_heapVars => IInv'
<1> SUFFICES ASSUME IInv, [HeapNext]_heapVars PROVE IInv'
  OBVIOUS
<1>1. CASE UNCHANGED heapVars
  <2>1. TypeOK'
    BY <1>1 DEF heapVars, IInv, TypeOK
  <2>2. HeapSound'
    BY <1>1, SoundKept DEF heapVars
  <2> QED BY <2>1, <2>2 DEF IInv
<1> QED BY <1>1, PushSafe, PopSafe, ArrNewSafe, ArrSetSafe, ArrGetSafe DEF HeapNext

\* The arrays keep HeapSound and the shape of their blocks (IInv).
THEOREM Invariance == HeapSpec => []IInv
BY InitSafe, NextSafe, PTL DEF HeapSpec

\* TypeOK: the stack stays within its bounds, lengths are never negative.
THEOREM TypeSafety == HeapSpec => []TypeOK
<1>1. IInv => TypeOK
  BY DEF IInv
<1> QED BY <1>1, Invariance, PTL

\* HeapSound: each id has a block of its own, at least as long as arr_len says.
THEOREM HeapSafety == HeapSpec => []HeapSound
<1>1. IInv => HeapSound
  BY DEF IInv
<1> QED BY <1>1, Invariance, PTL
--------------------------------------------------------------------------------
\* What an id's elements are after a step, from its block and its length.
LEMMA ElementsOf ==
    ASSUME IInv', ~failed'
    PROVE  Elements' = [id \in Ids |-> [i \in 0 .. arr_len'[id] - 1 |-> heap'[arrays'[id]][i]]]
BY DEF Elements, Element

LEMMA ElementsNow ==
    ASSUME ~failed
    PROVE  Elements = [id \in Ids |-> [i \in 0 .. arr_len[id] - 1 |-> heap[arrays[id]][i]]]
BY DEF Elements, Element

LEMMA ElementsFailed ==
    ASSUME failed'
    PROVE  Elements' = Abstract!NoArrays
BY DEF Elements, Abstract!NoArrays, Abstract!Zeroes, Abstract!Ids, Ids

LEMMA ElementsKept ==
    ASSUME UNCHANGED <<storage, failed>>
    PROVE  Elements' = Elements
BY DEF storage, Elements, Element

\* The operators of the abstract module are the same functions of the stack.
LEMMA SameOperators ==
    /\ Abstract!Ids = Ids
    /\ \A v : Abstract!ToInt(v) = Truncated(v)
    /\ \A n : Abstract!Popped(n) = Popped(n)
    /\ \A k : Abstract!Item(k) = Item(k)
BY DEF Abstract!Ids, Ids, Abstract!ToInt, Truncated, Abstract!Other, Other,
       Abstract!Popped, Popped, Abstract!Item, Item

LEMMA InitRefines == HeapInit => Abstract!SInit
<1> SUFFICES ASSUME HeapInit PROVE Abstract!SInit
  OBVIOUS
<1>1. ASSUME NEW id \in Ids
      PROVE  [i \in 0 .. (IF failed THEN 0 ELSE arr_len[id]) - 1 |-> Element(id, i)]
               = Abstract!Zeroes(0)
  <2>1. (IF failed THEN 0 ELSE arr_len[id]) = 0
    BY DEF HeapInit
  <2> QED BY <2>1 DEF Abstract!Zeroes
<1>2. Elements = Abstract!NoArrays
  BY <1>1 DEF Elements, Abstract!NoArrays, Abstract!Ids, Ids
<1> QED BY <1>2 DEF HeapInit, Abstract!SInit

LEMMA FailRefines ==
    ASSUME ~failed, ArrFail
    PROVE  Abstract!SNext
<1>1. failed' = TRUE /\ UNCHANGED stack
  BY DEF ArrFail
<1>2. Elements' = Abstract!NoArrays
  BY <1>1, ElementsFailed
<1> QED BY <1>1, <1>2 DEF Abstract!SNext, Abstract!Stop

LEMMA PushRefines ==
    ASSUME IInv, Push
    PROVE  Abstract!SNext
<1>1. CASE ArrFail
  BY <1>1, FailRefines DEF Push
<1>2. CASE \E x \in Numbers : Room /\ stack' = Append(stack, x) /\ UNCHANGED <<storage, failed>>
  <2>1. Elements' = Elements
    BY <1>2, ElementsKept
  <2> QED BY <1>2, <2>1 DEF Push, Room, Abstract!SNext, Abstract!Push
<1> QED BY <1>1, <1>2 DEF Push

LEMMA PopRefines ==
    ASSUME IInv, Pop
    PROVE  Abstract!SNext
<1>1. CASE ArrFail
  BY <1>1, FailRefines DEF Pop
<1>2. CASE stack # <<>> /\ stack' = Popped(1) /\ UNCHANGED <<storage, failed>>
  <2>1. Elements' = Elements
    BY <1>2, ElementsKept
  <2> QED BY <1>2, <2>1, SameOperators DEF Pop, Abstract!SNext, Abstract!Pop
<1> QED BY <1>1, <1>2 DEF Pop

\* ARR_NEW gives the id zeroes and leaves every other id what it had.
LEMMA AllocateRefines ==
    ASSUME IInv, IInv', ~failed, Len(stack) \in Nat, Len(stack) >= 2,
           NEW id \in Truncated(Item(1)), NEW n \in Truncated(Item(0)),
           id \in Ids, n \in Nat, Allocate(id, n)
    PROVE  Abstract!SNext
<1> DEFINE rest == Freed(arrays[id])
<1>1. CASE failed'
  <2>1. UNCHANGED stack /\ failed' = TRUE
    BY <1>1 DEF Allocate
  <2>2. Elements' = Abstract!NoArrays
    BY <1>1, ElementsFailed
  <2> QED BY <2>1, <2>2 DEF Abstract!SNext, Abstract!Stop
<1>2. CASE ~failed'
  <2>1. PICK b \in Blocks \ rest :
           /\ arrays' = [arrays EXCEPT ![id] = b]
           /\ arr_len' = [arr_len EXCEPT ![id] = n]
           /\ heap' = [heap EXCEPT ![b] = Cleared(b, Size(n))]
           /\ stack' = Popped(2)
           /\ UNCHANGED failed
    BY <1>2 DEF Allocate
  <2>2. /\ arrays'[id] = b /\ arr_len'[id] = n
        /\ \A o \in Ids \ {id} : arrays'[o] = arrays[o] /\ arr_len'[o] = arr_len[o]
    BY <2>1 DEF IInv, TypeOK
  <2>3. heap'[b] = Cleared(b, Size(n)) /\ \A c \in Blocks \ {b} : heap'[c] = heap[c]
    BY <2>1 DEF IInv, TypeOK
  <2>4. \A i \in 0 .. n - 1 : heap'[b][i] = 0
    BY <2>3 DEF Cleared, Size
  <2>5. ASSUME NEW o \in Ids \ {id}, NEW i \in 0 .. arr_len[o] - 1
        PROVE  heap'[arrays[o]][i] = heap[arrays[o]][i]
    <3>1. arrays[o] # Null
      BY <2>5 DEF IInv, HeapSound
    <3>2. arrays[o] \in live /\ arrays[o] # arrays[id] /\ arrays[o] \in Blocks
      BY <3>1 DEF IInv, TypeOK, HeapSound
    <3>3. arrays[o] # b
      BY <2>1, <3>2 DEF Freed
    <3> QED BY <2>3, <3>2, <3>3
  <2>6. Elements' = [o \in Ids |-> IF o = id THEN Abstract!Zeroes(n) ELSE Elements[o]]
    <3>1. ASSUME NEW o \in Ids
          PROVE  [i \in 0 .. arr_len'[o] - 1 |-> heap'[arrays'[o]][i]]
                   = IF o = id THEN Abstract!Zeroes(n) ELSE Elements[o]
      <4>1. CASE o = id
        BY <4>1, <2>2, <2>4 DEF Abstract!Zeroes
      <4>2. CASE o # id
        <5>1. Elements[o] = [i \in 0 .. arr_len[o] - 1 |-> heap[arrays[o]][i]]
          BY ElementsNow
        <5> QED BY <4>2, <5>1, <2>2, <2>5
      <4> QED BY <4>1, <4>2
    <3>2. Elements' = [o \in Ids |-> [i \in 0 .. arr_len'[o] - 1 |-> heap'[arrays'[o]][i]]]
      BY <1>2, ElementsOf
    <3> QED BY <3>1, <3>2
  <2>7. Elements' = [Elements EXCEPT ![id] = Abstract!Zeroes(n)]
    <3>1. DOMAIN Elements = Ids /\ Elements = [o \in Ids |-> Elements[o]]
      BY DEF Elements
    <3> QED BY <2>6, <3>1
  <2>8. \E k \in Abstract!ToInt(Abstract!Item(1)), m \in Abstract!ToInt(Abstract!Item(0)) :
           /\ k \in Abstract!Ids /\ m >= 0
           /\ Elements' = [Elements EXCEPT ![k] = Abstract!Zeroes(m)]
    <3>1. id \in Abstract!ToInt(Abstract!Item(1)) /\ n \in Abstract!ToInt(Abstract!Item(0))
      BY SameOperators
    <3>2. id \in Abstract!Ids /\ n >= 0
      BY SameOperators
    <3> QED BY <2>7, <3>1, <3>2
  <2>9. Abstract!New
    BY <2>1, <2>8, SameOperators DEF Abstract!New
  <2> QED BY <2>9 DEF Abstract!SNext
<1> QED BY <1>1, <1>2

LEMMA ArrNewRefines ==
    ASSUME IInv, IInv', ArrNew
    PROVE  Abstract!SNext
<1>1. CASE ArrFail
  BY <1>1, FailRefines DEF ArrNew
<1>2. CASE ~ArrFail
  <2>1. Len(stack) \in Nat /\ Len(stack) >= 2
    BY <1>2 DEF ArrNew, IInv, TypeOK
  <2>2. PICK id \in Truncated(Item(1)), n \in Truncated(Item(0)) :
           id \in Ids /\ n >= 0 /\ Allocate(id, n)
    BY <1>2, <2>1 DEF ArrNew
  <2>3. Item(0) \in Value
    BY <2>1, StackOps DEF IInv
  <2>4. n \in Nat
    BY <2>2, <2>3, IntOfValue
  <2> QED BY <2>1, <2>2, <2>4, AllocateRefines DEF ArrNew
<1> QED BY <1>1, <1>2

LEMMA ArrSetRefines ==
    ASSUME IInv, IInv', ArrSet
    PROVE  Abstract!SNext
<1>1. CASE ArrFail
  BY <1>1, FailRefines DEF ArrSet
<1>2. CASE ~ArrFail
  <2>1. Len(stack) \in Nat /\ Len(stack) >= 3
    BY <1>2 DEF ArrSet, IInv, TypeOK
  <2>2. PICK id \in Truncated(Item(2)), i \in Truncated(Item(1)) :
           /\ InSlot(id, i)
           /\ heap' = [heap EXCEPT ![arrays[id]] = [@ EXCEPT ![i] = Item(0)]]
           /\ stack' = Popped(3)
           /\ UNCHANGED <<arrays, arr_len, live, failed>>
    BY <1>2, <2>1 DEF ArrSet
  <2>3. Item(1) \in Value /\ Item(2) \in Value
    BY <2>1, StackOps DEF IInv
  <2>4. id \in Int /\ i \in Int
    BY <2>2, <2>3, IntOfValue
  <2>5. ~failed /\ ~failed'
    BY <2>2 DEF ArrSet
  <2>6. id \in Ids /\ arrays[id] \in Blocks /\ i \in DOMAIN heap[arrays[id]]
    BY <2>2, <2>4, <2>5, SlotInBlock
  <2>7. i \in 0 .. arr_len[id] - 1
    BY <2>2, <2>4, <2>6 DEF InSlot, IInv, TypeOK
  <2>8. /\ heap'[arrays[id]] = [heap[arrays[id]] EXCEPT ![i] = Item(0)]
        /\ \A c \in Blocks \ {arrays[id]} : heap'[c] = heap[c]
    BY <2>2, <2>6 DEF IInv, TypeOK
  <2>9. Elements[id] = [k \in 0 .. arr_len[id] - 1 |-> heap[arrays[id]][k]]
    BY <2>5, <2>6, ElementsNow
  <2>10. Elements' = [o \in Ids |-> IF o = id THEN [Elements[id] EXCEPT ![i] = Item(0)]
                                              ELSE Elements[o]]
    <3>1. ASSUME NEW o \in Ids
          PROVE  [k \in 0 .. arr_len'[o] - 1 |-> heap'[arrays'[o]][k]]
                   = IF o = id THEN [Elements[id] EXCEPT ![i] = Item(0)] ELSE Elements[o]
      <4>1. CASE o = id
        <5>1. \A k \in 0 .. arr_len[id] - 1 :
                 /\ k \in DOMAIN heap[arrays[id]]
                 /\ heap'[arrays[id]][k] = IF k = i THEN Item(0) ELSE heap[arrays[id]][k]
          BY <2>5, <2>6, <2>8 DEF IInv, HeapSound
        <5>2. [Elements[id] EXCEPT ![i] = Item(0)]
                = [k \in 0 .. arr_len[id] - 1 |->
                      IF k = i THEN Item(0) ELSE heap[arrays[id]][k]]
          BY <2>7, <2>9
        <5> QED BY <4>1, <5>1, <5>2, <2>2
      <4>2. CASE o # id
        <5>1. Elements[o] = [k \in 0 .. arr_len[o] - 1 |-> heap[arrays[o]][k]]
          BY <2>5, ElementsNow
        <5>2. ASSUME NEW k \in 0 .. arr_len[o] - 1
              PROVE  heap'[arrays[o]][k] = heap[arrays[o]][k]
          <6>1. arrays[o] # Null
            BY <2>5, <5>2 DEF IInv, HeapSound
          <6>2. arrays[o] # arrays[id] /\ arrays[o] \in Blocks
            BY <2>5, <2>6, <4>2, <6>1 DEF IInv, TypeOK, HeapSound
          <6> QED BY <2>8, <6>2
        <5> QED BY <2>2, <4>2, <5>1, <5>2
      <4> QED BY <4>1, <4>2
    <3>2. Elements' = [o \in Ids |-> [k \in 0 .. arr_len'[o] - 1 |-> heap'[arrays'[o]][k]]]
      BY <2>5, ElementsOf
    <3> QED BY <3>1, <3>2
  <2>11. Elements' = [Elements EXCEPT ![id] = [@ EXCEPT ![i] = Item(0)]]
    <3>1. DOMAIN Elements = Ids /\ Elements = [o \in Ids |-> Elements[o]]
      BY DEF Elements
    <3> QED BY <2>6, <2>10, <3>1
  <2>12. i \in DOMAIN Elements[id]
    BY <2>7, <2>9
  <2>13. Abstract!Set
    BY <2>1, <2>2, <2>6, <2>11, <2>12, SameOperators DEF Abstract!Set
  <2> QED BY <2>5, <2>13 DEF Abstract!SNext
<1> QED BY <1>1, <1>2

LEMMA ArrGetRefines ==
    ASSUME IInv, ArrGet
    PROVE  Abstract!SNext
<1>1. CASE ArrFail
  BY <1>1, FailRefines DEF ArrGet
<1>2. CASE ~ArrFail
  <2>1. Len(stack) \in Nat /\ Len(stack) >= 2
    BY <1>2 DEF ArrGet, IInv, TypeOK
  <2>2. PICK id \in Truncated(Item(1)), i \in Truncated(Item(0)) :
           /\ InSlot(id, i)
           /\ stack' = Append(Popped(2), heap[arrays[id]][i])
           /\ UNCHANGED <<storage, failed>>
    BY <1>2, <2>1 DEF ArrGet
  <2>3. Item(0) \in Value /\ Item(1) \in Value
    BY <2>1, StackOps DEF IInv
  <2>4. id \in Int /\ i \in Int
    BY <2>2, <2>3, IntOfValue
  <2>5. ~failed
    BY DEF ArrGet
  <2>6. id \in Ids
    BY <2>2, <2>4, <2>5, SlotInBlock
  <2>7. i \in 0 .. arr_len[id] - 1
    BY <2>2, <2>4, <2>6 DEF InSlot, IInv, TypeOK
  <2>8. Elements[id] = [k \in 0 .. arr_len[id] - 1 |-> heap[arrays[id]][k]]
    BY <2>5, <2>6, ElementsNow
  <2>9. i \in DOMAIN Elements[id] /\ Elements[id][i] = heap[arrays[id]][i]
    BY <2>7, <2>8
  <2>10. Elements' = Elements
    BY <2>2, ElementsKept
  <2>11. Abstract!Get
    BY <2>1, <2>2, <2>6, <2>9, <2>10, SameOperators DEF Abstract!Get
  <2> QED BY <2>5, <2>11 DEF Abstract!SNext
<1> QED BY <1>1, <1>2

LEMMA NextRefines == IInv /\ IInv' /\ [HeapNext]_heapVars => [Abstract!SNext]_(Abstract!svars)
<1> SUFFICES ASSUME IInv, IInv', [HeapNext]_heapVars PROVE [Abstract!SNext]_(Abstract!svars)
  OBVIOUS
<1>1. CASE UNCHANGED heapVars
  <2>1. UNCHANGED stack /\ UNCHANGED failed /\ UNCHANGED <<storage, failed>>
    BY <1>1 DEF heapVars, storage
  <2>2. Elements' = Elements
    BY <2>1, ElementsKept
  <2> QED BY <2>1, <2>2 DEF Abstract!svars
<1> QED BY <1>1, PushRefines, PopRefines, ArrNewRefines, ArrSetRefines, ArrGetRefines DEF HeapNext

\* ImplementsArrays: with blocks that are freed and allocated again, each id is
\* still an array of its own, zero when new, that keeps what was stored last.
THEOREM Refinement == HeapSpec => ImplementsArrays
BY InitRefines, Invariance, NextRefines, PTL DEF HeapSpec, ImplementsArrays, Abstract!SSpec
================================================================================
