-------------------------------- MODULE NumCast --------------------------------
(***************************************************************************)
(* Stores and conversions: what num_cast of the generated C makes of a       *)
(* double, what therefore stands in the cells of typed objects, and what the *)
(* operations on integers make of doubles, in the C of both compilers.  A     *)
(* double is the integer number of units 1/Unit it is worth, Doubles is the  *)
(* finite doubles, and an arithmetic result is rounded to the nearest one,   *)
(* so the model has the double's loss of precision at its own scale.         *)
(***************************************************************************)
EXTENDS Integers

CONSTANTS
    Unit,       \* units in 1.0
    Doubles,    \* finite doubles, in units
    Whole,      \* the integers that are doubles
    Exact,      \* every integer of at most this magnitude is one (2^53)
    Floats,     \* the doubles that are floats
    NonFinite,  \* infinities and NaN
    Integral,   \* integer types, codes 0 .. 9
    Modulus,    \* 2^width of each integer type
    Signed,     \* the signed ones among them
    IntBits,    \* width of C's int
    Objects,    \* scalar objects
    TypeOf,     \* their types, integer types, "float", "double" or "bool"
    Literals    \* the numbers of the program

Types == Integral \cup {"float", "double", "bool"}
Top == Doubles \cup {NonFinite}

\* Powers of two.
Power[n \in 0 .. IntBits] == IF n = 0 THEN 1 ELSE 2 * Power[n - 1]

Ints == -Power[IntBits - 1] .. Power[IntBits - 1] - 1

ASSUME DoublesAssumption ==
    /\ Unit \in Nat \ {0} /\ Exact \in Nat
    /\ Doubles \subseteq Int /\ Floats \subseteq Doubles
    /\ {0, Unit} \subseteq Floats
    /\ Whole \subseteq Int /\ -Exact .. Exact \subseteq Whole
    /\ \A n \in Whole : n * Unit \in Doubles
    /\ NonFinite \notin Doubles
ASSUME TypesAssumption ==
    /\ Integral \cap {"float", "double", "bool"} = {}
    /\ Modulus \in [Integral -> Nat]
    /\ \A t \in Integral : Modulus[t] > 0 /\ Modulus[t] % 2 = 0
    /\ Signed \subseteq Integral
    /\ TypeOf \in [Objects -> Types]
    /\ Literals \subseteq Doubles
ASSUME IntsAssumption == IntBits \in Nat \ {0} /\ Ints \subseteq -Exact .. Exact

VARIABLES
    top,      \* the operand under work, the top of the stack
    cells,    \* the cell of each object
    status    \* "run" or "failed"

vars == <<top, cells, status>>

Magnitude(n) == IF n < 0 THEN -n ELSE n

\* The double of set S nearest to u; how ties are broken does not matter here.
Nearest(S, u) ==
    IF u \in S
    THEN u
    ELSE CHOOSE d \in S : \A e \in S : Magnitude(d - u) <= Magnitude(e - u)

\* trunc gives an integer and fmod the sign of its first operand, both exactly.
\* (FloorInstead and NoLift, marked "defect", are variants the properties are
\* checked against.)
FloorInstead(d) == d \div Unit   \* defect: floor for trunc
Trunc(d) == IF d < 0 THEN -((-d) \div Unit) ELSE d \div Unit

FMod(a, m) == IF a < 0 THEN -((-a) % m) ELSE a % m

NoLift(r, m) == r   \* defect: the line is missing

\* if (r < 0.0) r += m;
Lift(r, m) == IF r < 0 THEN Nearest(Whole, r + m) ELSE r

\* if (is_signed[code] && r >= m / 2.0) r -= m;
Lower(r, m, t) == IF t \in Signed /\ 2 * r >= m THEN Nearest(Whole, r - m) ELSE r

ToIntegral(d, t) ==
    LET m == Modulus[t] IN Lower(Lift(FMod(Trunc(d), m), m), m, t)

\* num_cast of a finite value, or of any value to the last three types.
NumCast(d, t) ==
    CASE t = "double" -> d
      [] t = "bool" -> IF d = 0 THEN 0 ELSE Unit
      [] t = "float" -> IF d = NonFinite THEN d ELSE Nearest(Floats, d)
      [] OTHER -> ToIntegral(d, t) * Unit

Refused(d, t) == t \in Integral /\ d = NonFinite

Sum(a, b) ==
    IF NonFinite \in {a, b} THEN NonFinite ELSE Nearest(Doubles, a + b)

Fail == status' = "failed" /\ UNCHANGED <<top, cells>>

Literal ==
    /\ status = "run"
    /\ top' \in Literals
    /\ UNCHANGED <<cells, status>>

Load(o) ==
    /\ status = "run"
    /\ top' = cells[o]
    /\ UNCHANGED <<cells, status>>

\* Arithmetic on the operand: a sum may also overflow.
Add(o) ==
    /\ status = "run"
    /\ top' \in {Sum(top, cells[o]), NonFinite}
    /\ UNCHANGED <<cells, status>>

\* :N
Cast(t) ==
    /\ status = "run"
    /\ IF Refused(top, t)
       THEN Fail
       ELSE top' = NumCast(top, t) /\ UNCHANGED <<cells, status>>

\* The end of a declaration or assignment: _conversion picks the cast.
Store(o) ==
    /\ status = "run"
    /\ IF Refused(top, TypeOf[o])
       THEN Fail
       ELSE /\ cells' = [cells EXCEPT ![o] = NumCast(top, TypeOf[o])]
            /\ UNCHANGED <<top, status>>

--------------------------------------------------------------------------------
(* Operations on integers: IMOD, IDIV and the bitwise ones.                  *)

Divisions == {"IMOD", "IDIV"}
Shifts == {"BSHL", "BSHR"}
Operations == Divisions \cup Shifts \cup {"BAND", "BOR", "BXOR"}

\* (int)pop(): undefined when the value is out of range.  Conversions of the
\* processors then give the least int, or the nearest one and 0 for a NaN.
Edges == {n \in Ints : n = 0 \/ n - 1 \notin Ints \/ n + 1 \notin Ints}
ToInt(d) == IF d # NonFinite /\ Trunc(d) \in Ints THEN {Trunc(d)} ELSE Edges

\* The positions of the ones in two's complement.
Ones(n) == {i \in 0 .. IntBits - 1 : (n \div Power[i]) % 2 = 1}

LogicalShift(a, b) == (a % Power[IntBits]) \div Power[b]   \* defect: of an unsigned operand
ShiftRight(a, b) == a \div Power[b]

\* The tests in front of the operation; counts may be up to 63.
Refuses(op, b) ==
    \/ op \in Divisions /\ b = 0
    \/ op \in Shifts /\ b \notin 0 .. 2 * IntBits - 1

\* Undefined: the first may stop the program.
Overflows(op, a, b) == op \in Divisions /\ b = -1 /\ -a \notin Ints
ShiftsOut(op, b) == op \in Shifts /\ b >= IntBits

\* n is a op b in C.  gcc and clang let a left shift lose bits.
Gives(op, a, b, n) ==
    CASE op = "BAND" -> Ones(n) = Ones(a) \cap Ones(b)
      [] op = "BOR" -> Ones(n) = Ones(a) \cup Ones(b)
      [] op = "BXOR" -> Ones(n) = (Ones(a) \cup Ones(b)) \ (Ones(a) \cap Ones(b))
      [] op = "BSHL" -> (n - a * Power[b]) % Power[IntBits] = 0
      [] op = "BSHR" -> n = ShiftRight(a, b)
      [] op = "IMOD" -> n = FMod(a, Magnitude(b))
      [] op = "IDIV" -> n * b = a - FMod(a, Magnitude(b))

Stops(op, a, b) == Refuses(op, b) \/ Overflows(op, a, b)
Results(op, a, b) ==
    IF Refuses(op, b) THEN {}
    ELSE {n \in Ints : Overflows(op, a, b) \/ ShiftsOut(op, b) \/ Gives(op, a, b, n)}

\* An operation on the operand and the value of an object on top of it.
Integer(op, o) ==
    /\ status = "run"
    /\ \E a \in ToInt(top), b \in ToInt(cells[o]) :
         \/ Stops(op, a, b) /\ Fail
         \/ /\ \E n \in Results(op, a, b) : top' = n * Unit
            /\ UNCHANGED <<cells, status>>

\* BNOT
Complement ==
    /\ status = "run"
    /\ \E a \in ToInt(top), n \in Ints :
         top' = n * Unit /\ Ones(n) = (0 .. IntBits - 1) \ Ones(a)
    /\ UNCHANGED <<cells, status>>

\* The C of the other compiler, numlangc: checked_i32, the tests of each
\* operation, and bits_to_i32 of unsigned words.
Checked(d) == d # NonFinite /\ \E m, n \in Ints : m * Unit <= d /\ d <= n * Unit
OtherRefuses(op, a, b) ==
    \/ op \in Divisions /\ (b = 0 \/ Overflows(op, a, b))
    \/ op \in Shifts /\ b \notin 0 .. IntBits - 1
Word(n) == n % Power[IntBits]
OfWord(w) == IF w \in Ints THEN w ELSE w - Power[IntBits]

OtherGives(op, a, b, n) ==
    LET Of(S) == \E w \in 0 .. Power[IntBits] - 1 : n = OfWord(w) /\ Ones(w) = S IN
    CASE op = "BAND" -> Of(Ones(Word(a)) \cap Ones(Word(b)))
      [] op = "BOR" -> Of(Ones(Word(a)) \cup Ones(Word(b)))
      [] op = "BXOR" -> Of((Ones(Word(a)) \ Ones(Word(b))) \cup (Ones(Word(b)) \ Ones(Word(a))))
      [] op = "BSHL" -> n = OfWord((Word(a) * Power[b]) % Power[IntBits])
      [] op = "BSHR" -> n = IF a >= 0 THEN a \div Power[b]
                            ELSE IF b = 0 THEN a ELSE -1 - ((-1 - a) \div Power[b])
      [] op = "IMOD" -> n = FMod(a, Magnitude(b))

--------------------------------------------------------------------------------

Init ==
    /\ top = 0
    /\ cells = [o \in Objects |-> 0]
    /\ status = "run"

Next ==
    \/ Literal
    \/ \E o \in Objects :
         \/ Load(o) \/ Add(o) \/ Store(o)
         \/ \E op \in Operations : Integer(op, o)
    \/ Complement
    \/ \E t \in Types : Cast(t)

Spec == Init /\ [][Next]_vars

--------------------------------------------------------------------------------

\* The values of a C type.
Lowest(t) == IF t \in Signed THEN -(Modulus[t] \div 2) ELSE 0
Integers(t) == Lowest(t) .. Lowest(t) + Modulus[t] - 1
Values(t) ==
    CASE t = "double" -> Top
      [] t = "float" -> Floats \cup {NonFinite}
      [] t = "bool" -> {0, Unit}
      [] OTHER -> {n * Unit : n \in Integers(t)}

\* An object only ever holds values of its declared type, however the value
\* that was stored in it came about (num_cast in every store).
TypedCells == \A o \in Objects : cells[o] \in Values(TypeOf[o])

\* A store to an integer object is C's conversion: the stored value differs
\* from the integer part of the operand, the operand without its fraction, by
\* a multiple of the modulus of the type.
IntegerPart(n, d) ==
    /\ Magnitude(n * Unit) <= Magnitude(d)
    /\ Magnitude(d - n * Unit) < Unit

StoreConverts ==
    [][ \A o \in Objects :
          Store(o) /\ status' = "run" /\ TypeOf[o] \in Integral =>
            \E n \in -Magnitude(top) .. Magnitude(top) :
               /\ IntegerPart(n, top)
               /\ \E v \in Integers(TypeOf[o]) :
                     cells'[o] = v * Unit /\ (v - n) % Modulus[TypeOf[o]] = 0 ]_vars

\* Where the program that numlangc makes of the same operation computes a value,
\* this one computes it too: words and signed ints, truncation before or after
\* the tests, and the two right shifts come to the same.  (numlangc has no IDIV.)
CompilersAgree ==
    \A op \in Operations \ {"IDIV"}, o \in Objects :
        Checked(top) /\ Checked(cells[o]) =>
            LET a == Trunc(top)
                b == Trunc(cells[o])
            IN  \/ OtherRefuses(op, a, b)
                \/ /\ ~Stops(op, a, b)
                   /\ \E n \in Ints : OtherGives(op, a, b, n) /\ Results(op, a, b) = {n}

\* Types whose modulus the double holds exactly.
Narrow == \A t \in Integral : Modulus[t] <= Exact
================================================================================
