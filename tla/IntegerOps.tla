----------------------------- MODULE IntegerOps -----------------------------
(***************************************************************************)
(* The integers of Scheme, src/microcode/artutl.c: an integer is a fixnum  *)
(* when it fits and a bignum when it does not, and every operation chooses *)
(* between the arithmetic of longs and that of module Bignum.  The state   *)
(* is two integers n and m, the primitive op that was applied to them last *)
(* and what it returned; the result becomes the next n.                    *)
(***************************************************************************)
EXTENDS Bignum

(* A machine also has the bits of a fixnum without its sign, 57 or 25, the *)
(* operands tried on it, n in n1..n2 and m in m1..m2, and the families of  *)
(* primitives that are called there.                                       *)
FIXNUM_LENGTH == machine.fixnum
Calls(family) == family \in machine.families

ASSUME FixnumAssumption ==
  \A k \in Machines :
    /\ k.fixnum \in 1..(k.digit - 1)
    /\ {k.n1, k.n2, k.m1, k.m2} \subseteq Int
    /\ k.families \subseteq {"arithmetic", "comparison", "division", "bitwise",
                                     "counts", "shifts", "streams", "doubles", "words"}

VARIABLES n, m, op, out

vars == <<machine, n, m, op, out>>

OperandN(k) == k \in machine.n1..machine.n2

(***************************************************************************)
(* Fixnums and bignums.                                                    *)
(***************************************************************************)

SMALLEST_FIXNUM == -(2^FIXNUM_LENGTH)
BIGGEST_FIXNUM == 2^FIXNUM_LENGTH - 1
LONG_TO_FIXNUM_P(k) == k \in SMALLEST_FIXNUM..BIGGEST_FIXNUM
Fix(k) == [fixnum |-> k]
(* LONG_TO_FIXNUM keeps the bits that fit. *)
LONG_TO_FIXNUM(k) == Fix(((k - SMALLEST_FIXNUM) % 2^(FIXNUM_LENGTH + 1)) + SMALLEST_FIXNUM)
FIXNUM_P(x) == "fixnum" \in DOMAIN x

FIXNUM_TO_BIGNUM(x) == long_to_bignum(x.fixnum)
AsBignum(x) == IF FIXNUM_P(x) THEN FIXNUM_TO_BIGNUM(x) ELSE x

long_to_integer(k) == IF LONG_TO_FIXNUM_P(k) THEN Fix(k) ELSE long_to_bignum(k)
SHARP_F == BIGNUM_OUT_OF_BAND

bignum_to_integer(x) ==
  IF x \in {AssertionFails, BIGNUM_OUT_OF_BAND} THEN x
  ELSE IF bignum_fits_in_word_p(x, FIXNUM_LENGTH + 1, TRUE) THEN LONG_TO_FIXNUM(bignum_to_long(x))
  ELSE x

(* Operations that compute with longs when both operands are fixnums. *)
Dispatch(x, y, WithLongs(_, _), WithBignums(_, _)) ==
  IF FIXNUM_P(x) /\ FIXNUM_P(y) THEN WithLongs(x.fixnum, y.fixnum)
  ELSE WithBignums(AsBignum(x), AsBignum(y))

(***************************************************************************)
(* Arithmetic.                                                             *)
(***************************************************************************)

integer_negate_unnormalized(x) ==  \* mutant: a bignum stays a bignum
  IF FIXNUM_P(x) THEN long_to_integer(-x.fixnum) ELSE bignum_negate(x)
integer_negate(x) ==
  IF FIXNUM_P(x) THEN long_to_integer(-x.fixnum) ELSE bignum_to_integer(bignum_negate(x))

integer_add(x, y) ==
  Dispatch(x, y, LAMBDA a, b : long_to_integer(Long(a + b)),
                 LAMBDA a, b : bignum_to_integer(bignum_add(a, b)))

integer_subtract(x, y) ==
  Dispatch(x, y, LAMBDA a, b : long_to_integer(Long(a - b)),
                 LAMBDA a, b : bignum_to_integer(bignum_subtract(a, b)))

(* The product of two fixnums by half words, #F when it is not a fixnum. *)
Mul(a, b) ==
  LET half == 2^((D + 2) \div 2)
      aa == IF a < 0 THEN -a ELSE a
      bb == IF b < 0 THEN -b ELSE b
      lo == (aa % half) * (bb % half)
      middle == (aa % half) * (bb \div half) + (aa \div half) * (bb % half)
      c == lo + middle * half
  IN IF \/ aa \div half > 0 /\ bb \div half > 0
        \/ lo >= 2^FIXNUM_LENGTH
        \/ middle * half >= 2^FIXNUM_LENGTH  \* middle >= MAX_MIDDLE
        \/ ~LONG_TO_FIXNUM_P(c)
     THEN SHARP_F
     ELSE Fix(IF (a < 0) = (b < 0) THEN c ELSE -c)

integer_multiply(x, y) ==
  LET Slow(a, b) == bignum_to_integer(bignum_multiply(a, b))
  IN Dispatch(x, y, LAMBDA a, b : IF Mul(a, b) # SHARP_F THEN Mul(a, b)
                                  ELSE Slow(long_to_bignum(a), long_to_bignum(b)),
                    Slow)

(* C's / and % of magnitudes, with the signs put back. *)
Abs(k) == IF k < 0 THEN -k ELSE k
LongQuotient(a, b) == IF (a < 0) = (b < 0) THEN Abs(a) \div Abs(b) ELSE -(Abs(a) \div Abs(b))
LongRemainder(a, b) == IF a < 0 THEN -(Abs(a) % Abs(b)) ELSE a % Abs(b)

integer_quotient(x, y) ==
  Dispatch(x, y, LAMBDA a, b : IF b = 0 THEN SHARP_F ELSE long_to_integer(LongQuotient(a, b)),
                 LAMBDA a, b : bignum_to_integer(bignum_quotient(a, b)))

integer_remainder(x, y) ==
  Dispatch(x, y, LAMBDA a, b : IF b = 0 THEN SHARP_F ELSE long_to_integer(LongRemainder(a, b)),
                 LAMBDA a, b : bignum_to_integer(bignum_remainder(a, b)))

BothIntegers(s) ==
  IF s = BIGNUM_OUT_OF_BAND THEN SHARP_F
  ELSE [q |-> bignum_to_integer(s.q), r |-> bignum_to_integer(s.r)]

integer_divide(x, y) ==
  Dispatch(x, y,
    LAMBDA a, b : IF b = 0 THEN SHARP_F
                  ELSE [q |-> long_to_integer(LongQuotient(a, b)),
                        r |-> LONG_TO_FIXNUM(LongRemainder(a, b))],
    LAMBDA a, b : BothIntegers(bignum_divide(a, b)))

integer_equal_p(x, y) == Dispatch(x, y, LAMBDA a, b : a = b, bignum_equal_p)
integer_less_p(x, y) ==
  Dispatch(x, y, LAMBDA a, b : a < b, LAMBDA a, b : bignum_compare(a, b) = -1)
integer_sign(x) ==
  IF FIXNUM_P(x) THEN IF x.fixnum = 0 THEN 0 ELSE IF x.fixnum < 0 THEN -1 ELSE 1
  ELSE bignum_test(x)

(***************************************************************************)
(* Bits: lengths, counts, bitwise operations, shifts.                      *)
(***************************************************************************)

Complement(k) == -1 - k

integer_length_in_bits(x) ==
  IF FIXNUM_P(x) THEN LengthInBits(Abs(x.fixnum)) ELSE bignum_length_in_bits(x)
integer_length(x) ==
  IF FIXNUM_P(x) THEN LengthInBits(IF x.fixnum < 0 THEN Complement(x.fixnum) ELSE x.fixnum)
  ELSE bignum_integer_length(x)
(* A negative fixnum is looked at as the unsigned long with its bits. *)
integer_first_set_bit(x) ==
  LET w == x.fixnum % (4 * RADIX)
  IN IF ~FIXNUM_P(x) THEN bignum_first_set_bit(x)
     ELSE IF w = 0 THEN -1 ELSE LengthInBits((w ^^ (w - 1)) \div 2)
integer_bit_count(x) ==
  IF FIXNUM_P(x) THEN BitCount(IF x.fixnum < 0 THEN Complement(x.fixnum) ELSE x.fixnum)
  ELSE bignum_bit_count(x)

(* A bitwise operation of C on two longs. *)
LongBitwise(o, a, b) ==
  LET ua == a % (4 * RADIX)
      ub == b % (4 * RADIX)
  IN CASE o = "nor" -> Complement(Long(BITWISE("ior", ua, ub)))
       [] o = "eqv" -> Complement(Long(BITWISE("xor", ua, ub)))
       [] o = "nand" -> Complement(Long(BITWISE("and", ua, ub)))
       [] o = "orc2" -> Complement(Long(BITWISE("andc1", ua, ub)))
       [] o = "orc1" -> Complement(Long(BITWISE("andc2", ua, ub)))
       [] OTHER -> Long(BITWISE(o, ua, ub))

integer_hamming_distance(x, y) ==
  Dispatch(x, y, LAMBDA a, b : IF LongBitwise("xor", a, b) < 0 THEN -1
                               ELSE BitCount(LongBitwise("xor", a, b)),
                 bignum_hamming_distance)

integer_bitwise_not(x) ==
  IF FIXNUM_P(x) THEN LONG_TO_FIXNUM(Complement(x.fixnum)) ELSE bignum_bitwise_not(x)

integer_bitwise(o, x, y) ==
  Dispatch(x, y, LAMBDA a, b : LONG_TO_FIXNUM(LongBitwise(o, a, b)),
                 LAMBDA a, b : bignum_to_integer(bignum_bitwise(o, a, b)))

integer_nonnegative_one_bits(size, position) ==
  IF size = 0 THEN Fix(0)
  ELSE IF size + position <= FIXNUM_LENGTH THEN Fix((2^size - 1) * 2^position)
  ELSE bignum_nonnegative_one_bits(size, position)

integer_negative_zero_bits(size, position) ==
  IF size = 0 THEN Fix(-1)
  ELSE IF size + position <= FIXNUM_LENGTH
  THEN LONG_TO_FIXNUM(Complement((2^size - 1) * 2^position))
  ELSE bignum_negative_zero_bits(size, position)

(* The test that a fixnum shifted left is still one. *)
StaysFixnumLoose(k, places) ==  \* mutant: the length of the magnitude plus one
  places + LengthInBits(IF k < 0 THEN Complement(k) ELSE k) <= FIXNUM_LENGTH + 1
StaysFixnum(k, places) ==
  places + LengthInBits(IF k < 0 THEN Complement(k) ELSE k) <= FIXNUM_LENGTH

integer_shift_left(x, places) ==
  LET k == x.fixnum
  IN IF places = 0 THEN x
     ELSE IF ~FIXNUM_P(x) THEN bignum_shift_left(x, places)
     ELSE IF k = 0 THEN Fix(0)
     ELSE IF StaysFixnum(k, places) THEN LONG_TO_FIXNUM(k * 2^places)
     ELSE IF k < 0 THEN bignum_negate(unsigned_long_to_shifted_bignum(-k, places, FALSE))
     ELSE unsigned_long_to_shifted_bignum(k, places, FALSE)

(* C's k >> places.  It is undefined from the length of a word on: the     *)
(* machine shifts by the count modulo that length, or shifts all bits out. *)
WORD_LENGTH == D + 2
ShiftedRight(k, places) ==
  IF places < WORD_LENGTH THEN {k \div 2^places} ELSE {k \div 2^(places % WORD_LENGTH), 0}

(* The integers that may be returned. *)
integer_shift_right(x, places) ==
  LET k == x.fixnum
  IN IF places = 0 THEN {x}
     ELSE IF ~FIXNUM_P(x) THEN {bignum_to_integer(bignum_shift_right(x, places))}
     ELSE IF k < 0 THEN {LONG_TO_FIXNUM(Complement(s)) : s \in ShiftedRight(Complement(k), places)}
     ELSE {LONG_TO_FIXNUM(s) : s \in ShiftedRight(k, places)}

(* A bignum is more places than any integer has; the result is 0, for a    *)
(* negative integer too.                                                   *)
INTEGER_SHIFT_RIGHT(x, places) ==
  IF FIXNUM_P(places) THEN integer_shift_right(x, places.fixnum) ELSE {Fix(0)}

(***************************************************************************)
(* Words, doubles and digit streams.                                       *)
(***************************************************************************)

integer_to_long_p(x) == FIXNUM_P(x) \/ bignum_fits_in_word_p(x, D + 2, TRUE)
integer_to_long(x) == IF FIXNUM_P(x) THEN x.fixnum ELSE bignum_to_long(x)
integer_to_ulong_p_signed(x) ==  \* mutant: one bit is kept for a sign
  IF FIXNUM_P(x) THEN x.fixnum >= 0 ELSE bignum_fits_in_word_p(x, D + 2, TRUE)
integer_to_ulong_p(x) ==
  IF FIXNUM_P(x) THEN x.fixnum >= 0 ELSE bignum_fits_in_word_p(x, D + 2, FALSE)

(* The double closest to k, the even one of two. *)
RoundToDouble(k) ==
  LET length == LengthInBits(Abs(k))
      unit == IF length <= MANT THEN 1 ELSE 2^(length - MANT)
      q == Abs(k) \div unit
      rest == 2 * (Abs(k) % unit)
      rounded == IF rest > unit \/ (rest = unit /\ q % 2 = 1) THEN (q + 1) * unit ELSE q * unit
  IN IF k < 0 THEN -rounded ELSE rounded

integer_to_double(x) == IF FIXNUM_P(x) THEN RoundToDouble(x.fixnum) ELSE bignum_to_double(x)

(* s * 2^e truncated. *)
Truncated(s, e) ==
  LET t == IF e >= 0 THEN Abs(s) * 2^e ELSE Abs(s) \div 2^(-e)
  IN IF s < 0 THEN -t ELSE t

(* SMALLEST_FIXNUM - 1 is converted to a double, and rounded, when the     *)
(* fixnums are longer than the significand.                                *)
DOUBLE_TO_FIXNUM_P(s, e) ==
  LET scale == IF e < 0 THEN 2^(-e) ELSE 1
      x == IF e < 0 THEN s ELSE s * 2^e
  IN x > RoundToDouble(SMALLEST_FIXNUM - 1) * scale /\ x < RoundToDouble(BIGGEST_FIXNUM + 1) * scale

double_to_integer(s, e) ==
  IF DOUBLE_TO_FIXNUM_P(s, e) THEN LONG_TO_FIXNUM(Truncated(s, e)) ELSE double_to_bignum(s, e)

(* LISTIFY-BIGNUM and LIST->INTEGER. *)
list_to_integer(stream, radix, neg) == bignum_to_integer(digit_stream_to_bignum(stream, radix, neg))

(***************************************************************************)
(* The primitives.  m is the second operand, or the number of places.      *)
(***************************************************************************)

Value(x) ==
  IF FIXNUM_P(x) THEN x.fixnum
  ELSE LET magnitude == Down(LAMBDA a, i : a * RADIX + x.d[i], 0, 1, Len(x.d))
       IN IF x.neg THEN -magnitude ELSE magnitude

Returns(o, result) ==
  /\ op = "none"
  /\ op' = o
  /\ out' = result
  /\ UNCHANGED <<machine, n, m>>

Arithmetic ==
  /\ Calls("arithmetic")
  /\ \/ Returns("add", integer_add(n, m))
     \/ Returns("subtract", integer_subtract(n, m))
     \/ Returns("multiply", integer_multiply(n, m))
     \/ Returns("negate", integer_negate(n))

Comparison ==
  /\ Calls("comparison")
  /\ Returns("compare", [equal |-> integer_equal_p(n, m), less |-> integer_less_p(n, m),
                         sign |-> integer_sign(n)])

Division ==
  /\ Calls("division")
  /\ \/ Returns("quotient", integer_quotient(n, m))
     \/ Returns("remainder", integer_remainder(n, m))
     \/ Returns("divide", integer_divide(n, m))

Bitwise ==
  /\ Calls("bitwise")
  /\ \/ Returns("not", integer_bitwise_not(n))
     \/ \E o \in BITWISE_OPS : Returns(o, integer_bitwise(o, n, m))
     \/ Returns("hamming", integer_hamming_distance(n, m))

Counts ==
  /\ Calls("counts")
  /\ Returns("counts", [bits |-> integer_length_in_bits(n), length |-> integer_length(n),
                        first |-> integer_first_set_bit(n), count |-> integer_bit_count(n)])

Shifts ==
  /\ Calls("shifts")
  /\ Value(m) >= 0
  /\ \/ Returns("shift-left", integer_shift_left(n, Value(m)))
     \/ \E result \in INTEGER_SHIFT_RIGHT(n, m) : Returns("shift-right", result)
     \/ /\ Value(n) \in 0..machine.m2
        /\ \/ Returns("one-bits", integer_nonnegative_one_bits(Value(m), Value(n)))
           \/ Returns("zero-bits", integer_negative_zero_bits(Value(m), Value(n)))

(* A bignum is written out in a radix and read in again. *)
Streams ==
  /\ Calls("streams")
  /\ ~FIXNUM_P(n)
  /\ \E radix \in 2..(ROOT - 1) :
        LET stream == bignum_to_digit_stream(n, radix)
        IN Returns("streams", [radix |-> radix, stream |-> stream,
                               read |-> list_to_integer(stream, radix, n.neg)])

Doubles ==
  /\ Calls("doubles")
  /\ \/ Returns("to-double", integer_to_double(n))
     \/ /\ Abs(Value(n)) < 2^MANT
        /\ Returns("from-double", double_to_integer(Value(n), Value(m)))

Words ==
  /\ Calls("words")
  /\ Returns("words", [long |-> integer_to_long_p(n), value |-> integer_to_long(n),
                       ulong |-> integer_to_ulong_p(n)])

(* The result is an operand of the next primitive, unless it is out of bounds. *)
NextOperand ==
  /\ op # "none"
  /\ op' = "none"
  /\ out' = SHARP_F
  /\ n' = IF /\ op \in {"add", "subtract", "multiply", "negate", "quotient", "not",
                        "remainder", "shift-left", "shift-right"} \cup BITWISE_OPS
             /\ out \notin {SHARP_F, AssertionFails}
             /\ OperandN(Value(out))
          THEN out ELSE n
  /\ UNCHANGED <<machine, m>>

Init ==
  /\ machine \in Machines
  /\ n \in {long_to_integer(k) : k \in machine.n1..machine.n2}
  /\ m \in {long_to_integer(k) : k \in machine.m1..machine.m2}
  /\ op = "none"
  /\ out = SHARP_F

Next == \/ Arithmetic \/ Comparison \/ Division \/ Bitwise \/ Counts
        \/ Shifts \/ Streams \/ Doubles \/ Words \/ NextOperand

Spec == Init /\ [][Next]_vars

(***************************************************************************)
(* Properties.  N and M are the integers that n and m stand for.           *)
(***************************************************************************)

N == Value(n)
M == Value(m)

CanonicalInteger(x) ==
  IF FIXNUM_P(x) THEN LONG_TO_FIXNUM_P(x.fixnum)
  ELSE /\ DOMAIN x = {"neg", "d"}
       /\ \A i \in DOMAIN x.d : x.d[i] \in 0..(RADIX - 1)
       /\ x.d # <<>> /\ x.d[Len(x.d)] # 0
       /\ ~LONG_TO_FIXNUM_P(Value(x))

(* Every integer that a primitive returns is a fixnum if it fits in one,   *)
(* and otherwise a bignum without leading zeroes, all of whose digits are  *)
(* in range; no assertion of bignum.c fails on the way (bignum_trim,       *)
(* bignum_to_integer and the primitives that do without them).  The one    *)
(* exception: where the significand is not longer than a fixnum, the lower *)
(* limit of DOUBLE_TO_FIXNUM_P is rounded to the smallest fixnum, and the  *)
(* double of that value becomes a bignum.                                  *)
AlwaysCanonical ==
  /\ CanonicalInteger(n) /\ CanonicalInteger(m)
  /\ op \in {"add", "subtract", "multiply", "negate", "not", "shift-left", "shift-right",
             "one-bits", "zero-bits"} \cup BITWISE_OPS => CanonicalInteger(out)
  /\ op = "from-double" =>
       \/ CanonicalInteger(out)
       \/ FIXNUM_LENGTH >= MANT /\ out = long_to_bignum(SMALLEST_FIXNUM)
  /\ op \in {"quotient", "remainder"} /\ M # 0 => CanonicalInteger(out)
  /\ op = "divide" /\ M # 0 => CanonicalInteger(out.q) /\ CanonicalInteger(out.r)

(* Sums, differences and products are those of the integers, whatever      *)
(* carries and borrows run through the digits and half digits              *)
(* (bignum_add_unsigned, bignum_subtract_unsigned, bignum_multiply_unsigned, *)
(* Mul), and no intermediate value overflows a long.                       *)
ArithmeticExact ==
  /\ op = "add" => Value(out) = N + M
  /\ op = "subtract" => Value(out) = N - M
  /\ op = "multiply" => Value(out) = N * M
  /\ op = "negate" => Value(out) = -N

(* integer_equal_p, integer_less_p and the sign agree with the order of    *)
(* the integers, for fixnums, bignums and mixtures of both.                *)
ComparisonExact ==
  op = "compare" =>
    /\ out.equal = (N = M)
    /\ out.less = (N < M)
    /\ out.sign = (IF N = 0 THEN 0 ELSE IF N < 0 THEN -1 ELSE 1)

Truncates(q, r) == N = q * M + r /\ Abs(r) < Abs(M) /\ (r # 0 => (r < 0) = (N < 0))

(* Quotient and remainder truncate: n = q m + r, |r| < |m|, r has the sign *)
(* of n; the three primitives agree, and division by zero returns #F.      *)
(* What has to be right is the guess of a quotient digit, its correction   *)
(* and the adding back (bignum_divide_unsigned_normalized,                 *)
(* bignum_divide_subtract, bignum_digit_divide).                           *)
DivisionExact ==
  /\ op \in {"quotient", "remainder", "divide"} /\ M = 0 => out = SHARP_F
  /\ op = "quotient" /\ M # 0 => Truncates(Value(out), N - Value(out) * M)
  /\ op = "remainder" /\ M # 0 => Truncates(LongQuotient(N, M), Value(out))
  /\ op = "divide" /\ M # 0 => Truncates(Value(out.q), Value(out.r))

(* The bit of k in place i, and the integer whose bits are Bits(i) for     *)
(* i < width and Bits(width) from there on.                                *)
Bit(k, i) == (k \div 2^i) % 2
FromBits(Bits(_), width) ==
  Up(LAMBDA a, i : a + Bits(i) * 2^i, 0, 0, width - 1) - Bits(width) * 2^width

(* A length at which every operand is sign alone. *)
Width == LengthInBits(Abs(N)) + LengthInBits(Abs(M)) + 1

TruthTable(o, a, b) ==
  CASE o = "and" -> a * b
    [] o = "ior" -> a + b - a * b
    [] o = "xor" -> (a + b) % 2
    [] o = "andc2" -> a * (1 - b)
    [] o = "andc1" -> b * (1 - a)
    [] o = "nor" -> (1 - a) * (1 - b)
    [] o = "eqv" -> (1 + a + b) % 2
    [] o = "orc2" -> 1 - b * (1 - a)
    [] o = "orc1" -> 1 - a * (1 - b)
    [] o = "nand" -> 1 - a * b

(* The bitwise operations treat an integer as an infinite two's complement *)
(* sequence of bits, although bignums have a sign and a magnitude          *)
(* (DEFINE_BITWISE and its table of truth tables).                         *)
BitwiseExact ==
  /\ op = "not" => Value(out) = -1 - N
  /\ op \in BITWISE_OPS =>
       Value(out) = FromBits(LAMBDA i : TruthTable(op, Bit(N, i), Bit(M, i)), Width)
  /\ op = "hamming" =>
       out = IF (N < 0) # (M < 0) THEN -1
             ELSE Up(LAMBDA c, i : c + ((Bit(N, i) + Bit(M, i)) % 2), 0, 0, Width)

(* The lengths and counts of bits are those of the two's complement value, *)
(* of the magnitude for integer_length_in_bits, and the first set bit is   *)
(* that of the value: the same for n and -n.                               *)
CountsExact ==
  op = "counts" =>
    LET sign == Bit(N, Width)
    IN /\ out.bits = Max({0} \cup {i + 1 : i \in {j \in 0..Width : Bit(Abs(N), j) = 1}})
       /\ out.length = Max({0} \cup {i + 1 : i \in {j \in 0..Width : Bit(N, j) # sign}})
       /\ out.count = Up(LAMBDA c, i : c + (IF Bit(N, i) # sign THEN 1 ELSE 0), 0, 0, Width)
       /\ out.first = IF N = 0 THEN -1 ELSE Min({i \in 0..Width : Bit(N, i) = 1})

(* Shifting left multiplies by a power of two, shifting right divides by   *)
(* it and rounds down, for negative integers too, across fixnums and       *)
(* bignums (bignum_shift_right complements, shifts and complements); but a *)
(* fixnum shifted right by the length of a word or more may be anything    *)
(* that C's >> gives, and any integer shifted right by a bignum is 0.      *)
ShiftsExact ==
  /\ op = "shift-left" => Value(out) = N * 2^M
  /\ op = "shift-right" /\ FIXNUM_P(m) /\ (FIXNUM_P(n) => M < WORD_LENGTH) =>
       Value(out) = N \div 2^M
  /\ op = "one-bits" => Value(out) = (2^M - 1) * 2^N
  /\ op = "zero-bits" => Value(out) = -1 - (2^M - 1) * 2^N

(* The digits written out are those of the number, without leading zeroes, *)
(* and reading them in again gives the number: the space that              *)
(* digit_stream_to_bignum allocates is always enough.                      *)
StreamsExact ==
  op = "streams" =>
    /\ out.stream # <<>> /\ out.stream[1] # 0
    /\ \A i \in DOMAIN out.stream : out.stream[i] \in 0..(out.radix - 1)
    /\ Up(LAMBDA a, i : a * out.radix + out.stream[i], 0, 1, Len(out.stream)) = Abs(N)
    /\ out.read = n

(* The bits of the magnitude of n below the first MANT are dropped. *)
Chopped ==
  LET unit == 2^(LengthInBits(Abs(N)) - MANT)
  IN IF N < 0 THEN -(Abs(N) - (Abs(N) % unit)) ELSE N - (N % unit)

(* Where a digit is longer than the significand (64 bits): the first digit *)
(* has just the bits of the significand, and the guard bit is looked for   *)
(* in it instead of in the next one.                                       *)
GuardMissed == ~FIXNUM_P(n) /\ D > MANT /\ Len(n.d) > 1 /\ LengthInBits(n.d[Len(n.d)]) = MANT

(* Where it is not (32 bits): n is half way between two doubles, its guard *)
(* bit is the first bit of the last digit and the even double is below, so *)
(* that the function returns before it scales the value by that digit.     *)
LeftUnscaled ==
  /\ ~FIXNUM_P(n) /\ D <= MANT /\ LengthInBits(Abs(N)) = MANT + D
  /\ 2 * (Abs(N) % RADIX) = RADIX /\ (Abs(N) \div RADIX) % 2 = 0

(* The double of an integer is the closest one, the even one of two, as    *)
(* the comment in bignum_to_double says, for every position of the guard   *)
(* bit in the digits, but in the two cases above: in the first the integer *)
(* is truncated, in the second it is too small by the factor RADIX.        *)
ToDoubleExact ==
  op = "to-double" =>
    out = IF GuardMissed THEN Chopped
          ELSE IF LeftUnscaled THEN RoundToDouble(N) \div RADIX
          ELSE RoundToDouble(N)

(* The integer of a double is its integral part (double_to_bignum). *)
FromDoubleExact == op = "from-double" => Value(out) = Truncated(N, M)

(* The integers that fit in a long are accepted, and converted to          *)
(* themselves; the unsigned longs are told exactly.  Below the smallest    *)
(* long -2 * RADIX there are RADIX - 1 more integers with the same first   *)
(* digit that are accepted too (bignum_fits_in_word_p), and no others.     *)
WordsExact ==
  op = "words" =>
    /\ out.long = (N \in (1 - 3 * RADIX)..(2 * RADIX - 1))
    /\ N \in (-2 * RADIX)..(2 * RADIX - 1) => out.value = N
    /\ out.ulong = (N \in 0..(4 * RADIX - 1))

(* Sums, products, comparisons, bitwise operations, counts and shifts are  *)
(* those of the integers, whichever of fixnums and bignums the operands    *)
(* are and the code of artutl.c and bignum.c dispatches to.                *)
OperationsExact ==
  ArithmeticExact /\ ComparisonExact /\ BitwiseExact /\ CountsExact /\ ShiftsExact

(* Conversions to and from machine words, digits and doubles keep the      *)
(* value or round it to the closest double, but in the cases named above.  *)
ConversionsExact == WordsExact /\ StreamsExact /\ ToDoubleExact /\ FromDoubleExact
====
