------------------------------- MODULE MCNumCast -------------------------------
\* Doubles with a mantissa of Bits bits and a resolution of one half.
EXTENDS NumCast, Sequences

CONSTANTS Bits, FloatBits, Largest

\* Powers of two, up to the scales used here.
Pow == <<1, 2, 4, 8, 16, 32, 64, 128, 256>>
Finite(bits) ==
    {n \in -Largest .. Largest :
        \E e \in 1 .. Len(Pow) : Magnitude(n) < bits * Pow[e] /\ n % Pow[e] = 0}
MCDoubles == Finite(Bits)
MCWhole == {d \div Unit : d \in {e \in MCDoubles : e % Unit = 0}}
MCFloats == Finite(FloatBits)
MCTypeOf == [c |-> "schar", u |-> "uchar", f |-> "float"]
MCWideTypeOf == [c |-> "schar", u |-> "ulong"]
MCModulus == [t \in Integral |-> IF t \in {"long", "ulong"} THEN 32 ELSE 4]
MCLiterals == {-12, -2, 1, 7, Largest}
================================================================================
