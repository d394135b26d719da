CONSTANTS
    Unit = 2
    Bits = 16
    FloatBits = 4
    Largest = 18
    Doubles <- MCDoubles
    Whole <- MCWhole
    Exact = 8
    IntBits = 3
    Floats <- MCFloats
    NonFinite = NonFinite
    Integral = {"schar", "uchar"}
    Modulus <- MCModulus
    Signed = {"schar"}
    Objects = {"c", "u", "f"}
    TypeOf <- MCTypeOf
    Literals <- MCLiterals
SPECIFICATION Spec
INVARIANTS TypedCells CompilersAgree
PROPERTIES StoreConverts
CHECK_DEADLOCK FALSE
