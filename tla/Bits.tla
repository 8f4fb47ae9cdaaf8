-------------------------------- MODULE Bits --------------------------------
(***************************************************************************)
(* lab1/bits.c: the bit puzzles, each a straight line of C operators on    *)
(* 32-bit words.  A word is the set of the positions of its one bits, so   *)
(* that &, | and ^ are operations on sets and no number is larger than     *)
(* the checker's; shift counts and exponents, which are small, are         *)
(* numbers.  The machine is the one bits.c assumes: two's complement, and  *)
(* right shifts that copy the sign.                                        *)
(***************************************************************************)
EXTENDS Powers, Integers, FiniteSetsExt

CONSTANTS Words,          \* the words the integer puzzles are called with
          Floats          \* those the floating point ones are called with

MSB == 31
Positions == 0 .. MSB

ASSUME WordsAssumption == Words \cup Floats \subseteq SUBSET Positions

VARIABLES call, result     \* the last call, with its arguments, and its value

bitsVars == <<call, result>>

---------------------------------------------------------------------------
(* C's operators *)

Zero == {}
One == {0}
Not(x) == Positions \ x
And(x, y) == x \cap y
Or(x, y) == x \cup y
Xor(x, y) == (x \ y) \cup (y \ x)
Bang(x) == IF x = Zero THEN One ELSE Zero

Shl(x, k) == {p \in Positions : p - k \in x}
Sar(x, k) == {p \in Positions : Min({p + k, MSB}) \in x}

\* There is a carry into p when two ones meet below it and nothing stops the
\* carry in between.
Carry(x, y, p) == \E q \in 0 .. p - 1 : q \in x \cap y /\ q + 1 .. p - 1 \subseteq x \cup y
Add(x, y) == Xor(Xor(x, y), {p \in Positions : Carry(x, y, p)})
Sub(x, y) == Add(x, Add(Not(y), One))            \* x + (~y + 1)

\* Numbers below 2^31 as words, and back.
Lit(n) == {p \in 0 .. MSB - 1 : (n \div Pow2[p]) % 2 = 1}
Val(x) == MapThenSumSet(LAMBDA p : Pow2[p], x)

---------------------------------------------------------------------------
(* The integer puzzles *)

evenBits == LET secondMask == Or(Lit(85), Shl(Lit(85), 8))
            IN Or(secondMask, Shl(secondMask, 16))

isEqual(x, y) == Bang(Xor(x, y))

byteSwap(x, n, m) ==
    LET valXOR == Xor(And(Sar(x, 8 * m), Lit(255)), And(Sar(x, 8 * n), Lit(255)))
    IN Xor(Xor(x, Shl(valXOR, 8 * m)), Shl(valXOR, 8 * n))

\* A shift by the width of a word is undefined in C: both shifts by valM are
\* one machine instruction, which either takes the count modulo 32 or does
\* not.
ShlBy(x, k, modulo) == Shl(x, IF modulo THEN k % 32 ELSE k)

\* Mutant: no mask against the copies of the sign.
rotateUnmasked(x, n, modulo) == Or(ShlBy(x, 32 - n, modulo), Sar(x, n))

rotateRight(x, n, modulo) ==
    LET valM == 32 - n
        leftMask == Not(ShlBy(Not(Zero), valM, modulo))
    IN Or(ShlBy(x, valM, modulo), And(Sar(x, n), leftMask))

tmax == Not(Shl(One, 31))

logicalNeg(x) == Add(Sar(Or(Add(x, tmax), x), 31), One)

sign(x) == Or(Bang(Bang(x)), Sar(x, 31))

\* The sign bit of (x ^ y) & (x ^ (x - y)): the subtraction has overflowed.
SubOverflow(x, y) == Sar(And(Xor(x, y), Xor(x, Sub(x, y))), 31)

\* Mutant: the sign of the difference only.
isGreaterNoOverflow(x, y) == LET valZ == Sub(x, y) IN Bang(Bang(And(valZ, Not(Sar(valZ, 31)))))

isGreater(x, y) == LET valZ == Sub(x, y)
                       valResult == And(valZ, Not(Sar(valZ, 31)))
                   IN Xor(Bang(Bang(valResult)), And(SubOverflow(x, y), One))

\* Mutant: operands of one sign are not told from the others.
subOKBySign(x, y) == Bang(Sar(Xor(x, Sub(x, y)), 31))

subOK(x, y) == Bang(SubOverflow(x, y))

satAdd(x, y) ==
    LET valZ == Add(x, y)
        overflowMask == Sar(And(Not(Xor(x, y)), Xor(x, valZ)), 31)
        valMinMax == Xor(Sar(valZ, 31), Shl(One, 31))
    IN Add(And(valMinMax, overflowMask), And(valZ, Not(overflowMask)))

\* Halve the part in which the highest one may be: 2^k, or 0, bits further up.
HalfWithTop(x, mask, k) == IF And(x, mask) # Zero THEN k ELSE 0

\* Mutant: the sign bit is cleared instead.
WithoutSign(x) == And(x, tmax)

\* "x = ~x if x is neg and x = x if x is pos"
PsuedoAbs(x) == Xor(x, Sar(x, 31))

howManyBits(x) ==
    LET psuedoAbsX == PsuedoAbs(x)
        isSixteenSet == HalfWithTop(psuedoAbsX, Shl(Not(Zero), 16), 16)
        below16 == Sar(psuedoAbsX, isSixteenSet)
        isEightSet == HalfWithTop(below16, Shl(Not(Zero), 8), 8)
        below8 == Sar(below16, isEightSet)
        isFourSet == HalfWithTop(below8, Lit(240), 4)
        below4 == Sar(below8, isFourSet)
        isTwoSet == HalfWithTop(below4, Lit(12), 2)
        below2 == Sar(below4, isTwoSet)
        isOneSet == HalfWithTop(below2, Lit(2), 1)
    IN Lit(isOneSet + isTwoSet + isFourSet + isEightSet + isSixteenSet
           + Val(Sar(below2, isOneSet)) + 1)

---------------------------------------------------------------------------
(* The floating point puzzles *)

ExponentOf(uf) == Val(Sar(And(uf, tmax), 23))
FractionOf(uf) == And(uf, Lit(8388607))

\* Mutant: half goes up.
HalfRoundedUp(uf) == Add(Sar(And(uf, tmax), 1), And(uf, One))

\* Exponent 0 or 1: the result has exponent 0 (or 1 again, by the carry).
ResultZeroExp(uf) == Add(Sar(And(uf, tmax), 1), IF And(uf, Lit(3)) = Lit(3) THEN One ELSE Zero)

float_half(uf) ==
    LET valExp == ExponentOf(uf)
        valMSBUF == And(uf, Not(tmax))
    IN IF valExp <= 1 THEN Or(ResultZeroExp(uf), valMSBUF)
       ELSE IF valExp = 255 THEN uf
       ELSE Or(valMSBUF, Or(Shl(Lit(valExp - 1), 23), FractionOf(uf)))

\* Mutant: infinity is the first number out of range.
TooLargeIfInfinite(valAbsUF) == Val(valAbsUF) >= \h7F800000

TooLarge(valAbsUF) == Val(valAbsUF) > \h4F000000

float_f2i(uf) ==
    LET valAbsUF == And(uf, tmax)
        valFrac == Or(FractionOf(uf), Lit(8388608))
        valExp == ExponentOf(uf)
        shifted == IF valExp > 149 THEN Shl(valFrac, valExp - 150) ELSE Sar(valFrac, 150 - valExp)
    IN IF Val(valAbsUF) < \h3F000001 THEN Zero
       ELSE IF TooLarge(valAbsUF) THEN {MSB}
       ELSE IF MSB \in uf THEN Sub(Zero, shifted) ELSE shifted

---------------------------------------------------------------------------
(* Calls: one at a time, none of which leaves anything behind *)

NoCall == [fn |-> "none"]

BitsInit == call = NoCall /\ result = Zero

Returns(c, r) == call = NoCall /\ call' = c /\ result' = r

Constants == \/ Returns([fn |-> "evenBits"], evenBits)
             \/ Returns([fn |-> "tmax"], tmax)

OneWord == \E x \in Words :
    \/ Returns([fn |-> "logicalNeg", x |-> x], logicalNeg(x))
    \/ Returns([fn |-> "sign", x |-> x], sign(x))
    \/ Returns([fn |-> "howManyBits", x |-> x], howManyBits(x))
    \/ \E n, m \in 0 .. 3 :
          Returns([fn |-> "byteSwap", x |-> x, n |-> n, m |-> m], byteSwap(x, n, m))
    \/ \E n \in 0 .. 31, modulo \in BOOLEAN :
          Returns([fn |-> "rotateRight", x |-> x, n |-> n], rotateRight(x, n, modulo))

TwoWords == \E x, y \in Words :
    \/ Returns([fn |-> "isEqual", x |-> x, y |-> y], isEqual(x, y))
    \/ Returns([fn |-> "isGreater", x |-> x, y |-> y], isGreater(x, y))
    \/ Returns([fn |-> "subOK", x |-> x, y |-> y], subOK(x, y))
    \/ Returns([fn |-> "satAdd", x |-> x, y |-> y], satAdd(x, y))

FloatingPoint == \E uf \in Floats :
    \/ Returns([fn |-> "float_half", x |-> uf], float_half(uf))
    \/ Returns([fn |-> "float_f2i", x |-> uf], float_f2i(uf))

\* The caller takes the value and is free to call again.
Done == call # NoCall /\ call' = NoCall /\ result' = Zero

BitsNext == Constants \/ OneWord \/ TwoWords \/ FloatingPoint \/ Done

BitsSpec == BitsInit /\ [][BitsNext]_bitsVars

---------------------------------------------------------------------------
(* What the comments over the functions ask of them.  A word is read here as *)
(* a number of two digits to the base 2^16, the first with the sign, and     *)
(* arithmetic is done on those.                                              *)

Base == 65536
Low(x) == Val(x \cap 0 .. 15)
High(x) == Val({p - 16 : p \in x \cap 16 .. 30}) - (IF MSB \in x THEN Base \div 2 ELSE 0)
Digits(high, low) == <<high + low \div Base, low % Base>>
InRange(digits) == digits[1] \in -(Base \div 2) .. Base \div 2 - 1
Less(x, y) == High(x) < High(y) \/ (High(x) = High(y) /\ Low(x) < Low(y))
TruthOf(holds) == IF holds THEN One ELSE Zero

\* Comparisons are those of the numbers, also where x - y overflows
\* ("if x > y  then return 1, else return 0", bits.c:263).
ComparesRight ==
    /\ call.fn = "isGreater" => result = TruthOf(Less(call.y, call.x))
    /\ call.fn = "isEqual" => result = TruthOf(call.x = call.y)
    /\ call.fn = "logicalNeg" => result = TruthOf(call.x = Zero)
    /\ call.fn = "sign" => result = IF Less(call.x, Zero) THEN Positions ELSE TruthOf(call.x # Zero)

\* subOK and satAdd see an overflow when the number is out of range, and only
\* then; satAdd then gives the end of the range it is beyond (bits.c:294-318).
OverflowSeen ==
    /\ call.fn = "subOK" =>
         result = TruthOf(InRange(Digits(High(call.x) - High(call.y), Low(call.x) - Low(call.y))))
    /\ call.fn = "satAdd" =>
         LET sum == Digits(High(call.x) + High(call.y), Low(call.x) + Low(call.y))
         IN IF InRange(sum) THEN <<High(result), Low(result)>> = sum
            ELSE result = IF sum[1] > 0 THEN Positions \ {MSB} ELSE {MSB}

Byte(x, n) == {p - 8 * n : p \in x \cap 8 * n .. 8 * n + 7}

\* Every bit goes where it should, with a byte swapped with itself, a rotation
\* by 0 (a shift by 32, whatever the machine makes of it) and a sign bit that
\* must not be copied among the cases.
BitsMoved ==
    /\ call.fn = "byteSwap" =>
         \A k \in 0 .. 3 : Byte(result, k) = Byte(call.x, IF k = call.n THEN call.m
                                                          ELSE IF k = call.m THEN call.n ELSE k)
    /\ call.fn = "rotateRight" => result = {(p - call.n) % 32 : p \in call.x}
    /\ call.fn = "evenBits" => result = {p \in Positions : p % 2 = 0}
    /\ call.fn = "tmax" => \A x \in Words : ~Less(result, x)

\* "the minimum number of bits required to represent x in two's complement"
\* (bits.c:348): the bits from there up are all copies of the sign.
FewestBits ==
    call.fn = "howManyBits" =>
        Val(result) = Min({n \in 1 .. 32 : n - 1 .. MSB \subseteq call.x \/ (n - 1 .. MSB) \cap call.x = {}})

\* A float that is a number is sig * 2^(scale - 150).
Significand(uf) == Val(FractionOf(uf)) + (IF ExponentOf(uf) = 0 THEN 0 ELSE 8388608)
Scale(uf) == Max({ExponentOf(uf), 1})

\* float_half is half of a number, exactly where there is such a float, which
\* only the smallest lack; there it is a nearest one, and with two the one
\* with an even significand.  Infinities and NaNs stay (bits.c:415-420).
HalvesToEven ==
    call.fn = "float_half" =>
        LET up == Scale(call.x) - Scale(result)
            error == 2 * Significand(result) - Significand(call.x) * Pow2[up]
        IN IF ExponentOf(call.x) = 255 THEN result = call.x
           ELSE /\ MSB \in result <=> MSB \in call.x
                /\ up \in {0, 1} /\ error \in -1 .. 1
                /\ error # 0 => Scale(call.x) = 1 /\ Significand(result) % 2 = 0

\* float_f2i drops the fraction, also of negative numbers, and "anything out
\* of range (including NaN and infinity) should return 0x80000000u"
\* (bits.c:478-479).
TruncatesToZero ==
    call.fn = "float_f2i" =>
        LET e == ExponentOf(call.x)
            whole == IF e < 126 THEN 0
                     ELSE IF e < 150 THEN Significand(call.x) \div Pow2[150 - e]
                     ELSE Significand(call.x) * Pow2[e - 150]
            magnitude == IF MSB \in result THEN Val(Not(result)) + 1 ELSE Val(result)
        IN IF e >= 158 THEN result = {MSB}
           ELSE magnitude = whole /\ (MSB \in result <=> MSB \in call.x /\ whole # 0)

\* What is asked of the puzzles that add, subtract and compare integers,
NumbersRight == ComparesRight /\ OverflowSeen

\* and of the two on floats.
FloatsRight == HalvesToEven /\ TruncatesToZero

=============================================================================
