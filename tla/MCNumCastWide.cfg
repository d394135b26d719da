CONSTANTS
    Unit = 2
    Bits = 8
    FloatBits = 4
    Largest = 64
    Doubles <- MCDoubles
    Whole <- MCWhole
    Exact = 8
    IntBits = 3
    Floats <- MCFloats
    NonFinite = NonFinite
    Integral = {"schar", "ulong"}
    Modulus <- MCModulus
    Signed = {"schar"}
    Objects = {"c", "u"}
    TypeOf <- MCWideTypeOf
    Literals <- MCLiterals
SPECIFICATION Spec
INVARIANTS TypedCells
CHECK_DEADLOCK FALSE
