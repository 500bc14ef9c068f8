------------------------------- MODULE Bignum -------------------------------
(***************************************************************************)
(* The arithmetic of arbitrary precision integers, src/microcode/bignum.c. *)
(* A bignum is a sign and a sequence of digits, the least significant one  *)
(* first (the C index i is the index i + 1 here).  Every digit is D bits   *)
(* long, two bits shorter than the C long that holds it, and products are  *)
(* put together from halves of digits: Long is the value a sum or product  *)
(* has in a long, so that a result that overflows is wrong here as well.   *)
(***************************************************************************)
EXTENDS Integers, Sequences, SequencesExt, Bitwise

CONSTANT
  Machines   \* the machines, records of sizes: [digit, mant, ...]

ASSUME DigitAssumption ==
  \A k \in Machines : /\ k.digit \in Nat /\ k.digit >= 2
                            /\ k.digit % 2 = 0
                            /\ k.mant \in Nat \ {0}

VARIABLE machine   \* the machine, chosen at the start

\* BIGNUM_DIGIT_LENGTH: 62 or 30 in the code; and DBL_MANT_DIG: the bits of the
\* significand of a double, 53.
D == machine.digit
MANT == machine.mant

RADIX == 2^D
ROOT == 2^(D \div 2)

(* The value of x in a signed word of D + 2 bits. *)
Long(x) == ((x + 2 * RADIX) % (4 * RADIX)) - 2 * RADIX

HD_LOW(x) == x % ROOT
HD_HIGH(x) == x \div ROOT
HD_CONS(high, low) == Long(high * ROOT + low)

BITS_TO_DIGITS(n) == (n + D - 1) \div D

(* The value that an operation returns when one of its assertions fails. *)
AssertionFails == [failed |-> TRUE]

(* #F, what a division by zero returns. *)
BIGNUM_OUT_OF_BAND == [out_of_band |-> TRUE]

Bn(neg, d) == [neg |-> neg, d |-> d]
BIGNUM_ZERO == Bn(FALSE, <<>>)
BIGNUM_ONE(neg) == Bn(neg, <<1>>)
Zero(x) == x.d = <<>>

Zeroes(n) == [i \in 1..n |-> 0]
Digit(d, i) == IF i \in DOMAIN d THEN d[i] ELSE 0

(* One pass over the indices lo..hi upwards, or hi..lo downwards. *)
RECURSIVE Up(_, _, _, _), Down(_, _, _, _)
Up(Step(_, _), acc, lo, hi) ==
  IF lo > hi THEN acc ELSE Up(Step, Step(acc, lo), lo + 1, hi)
Down(Step(_, _), acc, lo, hi) ==
  IF lo > hi THEN acc ELSE Down(Step, Step(acc, hi), lo, hi - 1)

(* ulong_length_in_bits and ulong_bit_count of bits.h. *)
RECURSIVE LengthInBits(_), BitCount(_)
LengthInBits(x) == IF x = 0 THEN 0 ELSE 1 + LengthInBits(x \div 2)
BitCount(x) == IF x = 0 THEN 0 ELSE (x % 2) + BitCount(x \div 2)

(* Leading zeroes are dropped; a result without digits loses its sign. *)
bignum_trim(x) ==
  LET nonzero == {i \in DOMAIN x.d : x.d[i] # 0}
      length == Max(nonzero \cup {0})
  IN IF length = Len(x.d) THEN x
     ELSE Bn(length # 0 /\ x.neg, SubSeq(x.d, 1, length))

bignum_new_sign(x, neg) == Bn(neg, x.d)
bignum_digit_to_bignum(digit, neg) ==
  IF digit = 0 THEN BIGNUM_ZERO ELSE Bn(neg, <<digit>>)

(***************************************************************************)
(* Comparison: -1, 0 and 1 for less, equal and greater.                    *)
(***************************************************************************)

bignum_compare_unsigned(x, y) ==
  LET differ == {i \in DOMAIN x : x[i] # y[i]}
  IN IF Len(x) # Len(y) THEN IF Len(x) < Len(y) THEN -1 ELSE 1
     ELSE IF differ = {} THEN 0
     ELSE IF x[Max(differ)] < y[Max(differ)] THEN -1 ELSE 1

bignum_test(x) == IF Zero(x) THEN 0 ELSE IF x.neg THEN -1 ELSE 1

CompareMagnitudes(x, y) ==  \* mutant: negative operands are not exchanged
  IF Zero(x) THEN -bignum_test(y)
  ELSE IF Zero(y) \/ x.neg # y.neg THEN bignum_test(x)
  ELSE bignum_compare_unsigned(x.d, y.d)

bignum_compare(x, y) ==
  IF Zero(x) THEN -bignum_test(y)
  ELSE IF Zero(y) THEN bignum_test(x)
  ELSE IF x.neg # y.neg THEN bignum_test(x)
  ELSE IF x.neg THEN bignum_compare_unsigned(y.d, x.d)
  ELSE bignum_compare_unsigned(x.d, y.d)

bignum_equal_p(x, y) ==
  IF Zero(x) THEN Zero(y) ELSE ~Zero(y) /\ x.neg = y.neg /\ x.d = y.d

(***************************************************************************)
(* Addition and subtraction of magnitudes, with a carry or a borrow that   *)
(* runs into the digits the shorter operand does not have.                 *)
(***************************************************************************)

bignum_add_unsigned(x, y, neg) ==
  LET a == IF Len(y) > Len(x) THEN y ELSE x
      b == IF Len(y) > Len(x) THEN x ELSE y
      Step(acc, i) ==
        LET sum == Long(a[i] + Digit(b, i) + acc.carry)
        IN IF sum < RADIX THEN [r |-> Append(acc.r, sum), carry |-> 0]
           ELSE [r |-> Append(acc.r, sum - RADIX), carry |-> 1]
      end == Up(Step, [r |-> <<>>, carry |-> 0], 1, Len(a))
  IN Bn(neg, IF end.carry # 0 THEN Append(end.r, 1) ELSE end.r)

(* One step of the loops that subtract: the digit and the borrow. *)
Borrow(diff) ==
  IF diff < 0 THEN [digit |-> diff + RADIX, borrow |-> 1]
  ELSE [digit |-> diff, borrow |-> 0]

bignum_subtract_unsigned(x, y) ==
  LET order == bignum_compare_unsigned(x, y)
      a == IF order = -1 THEN y ELSE x
      b == IF order = -1 THEN x ELSE y
      Step(acc, i) ==
        LET s == Borrow(Long(a[i] - Digit(b, i) - acc.borrow))
        IN [r |-> Append(acc.r, s.digit), borrow |-> s.borrow]
      end == Up(Step, [r |-> <<>>, borrow |-> 0], 1, Len(a))
  IN IF order = 0 THEN BIGNUM_ZERO
     ELSE IF end.borrow # 0 THEN AssertionFails
     ELSE bignum_trim(Bn(order = -1, end.r))

bignum_add(x, y) ==
  IF Zero(x) THEN y
  ELSE IF Zero(y) THEN x
  ELSE IF x.neg = y.neg THEN bignum_add_unsigned(x.d, y.d, x.neg)
  ELSE IF x.neg THEN bignum_subtract_unsigned(y.d, x.d)
  ELSE bignum_subtract_unsigned(x.d, y.d)

bignum_subtract(x, y) ==
  IF Zero(y) THEN x
  ELSE IF Zero(x) THEN bignum_new_sign(y, ~y.neg)
  ELSE IF x.neg # y.neg THEN bignum_add_unsigned(x.d, y.d, x.neg)
  ELSE IF x.neg THEN bignum_subtract_unsigned(y.d, x.d)
  ELSE bignum_subtract_unsigned(x.d, y.d)

bignum_negate(x) == IF Zero(x) THEN x ELSE bignum_new_sign(x, ~x.neg)

(***************************************************************************)
(* Multiplication, by halves of digits.  product_high and carry share a    *)
(* variable in the C code.                                                 *)
(***************************************************************************)

(* r + x * y + carry: the digit that stays and the carry to the next one. *)
DigitProductLosesCarry(r, x, y, carry) ==  \* mutant: the high half of carry is dropped
  LET low == Long(r + HD_LOW(x) * HD_LOW(y) + HD_LOW(carry))
      high == Long(HD_HIGH(x) * HD_LOW(y) + HD_LOW(x) * HD_HIGH(y) + HD_HIGH(low))
  IN [digit |-> HD_CONS(HD_LOW(high), HD_LOW(low)),
      carry |-> Long(HD_HIGH(x) * HD_HIGH(y) + HD_HIGH(high))]
DigitProduct(r, x, y, carry) ==
  LET low == Long(r + HD_LOW(x) * HD_LOW(y) + HD_LOW(carry))
      high == Long(HD_HIGH(x) * HD_LOW(y) + HD_LOW(x) * HD_HIGH(y)
                   + HD_HIGH(low) + HD_HIGH(carry))
  IN [digit |-> HD_CONS(HD_LOW(high), HD_LOW(low)),
      carry |-> Long(HD_HIGH(x) * HD_HIGH(y) + HD_HIGH(high))]

bignum_multiply_unsigned(x, y, neg) ==
  LET a == IF Len(y) > Len(x) THEN y ELSE x
      b == IF Len(y) > Len(x) THEN x ELSE y
      Row(r, i) ==
        LET Step(acc, j) ==
              LET p == DigitProduct(acc.r[i + j - 1], a[i], b[j], acc.carry)
              IN [r |-> [acc.r EXCEPT ![i + j - 1] = p.digit], carry |-> p.carry]
            end == Up(Step, [r |-> r, carry |-> 0], 1, Len(b))
        IN [end.r EXCEPT ![i + Len(b)] = @ + end.carry]
  IN bignum_trim(Bn(neg, Up(Row, Zeroes(Len(a) + Len(b)), 1, Len(a))))

(* The digits of d times factor, in the space d has; a carry that does not *)
(* fit is a failing assertion, here a result without digits.               *)
bignum_destructive_scale_up(d, factor) ==
  LET Step(acc, i) ==
        LET low == Long(factor * HD_LOW(d[i]) + HD_LOW(acc.carry))
            high == Long(factor * HD_HIGH(d[i]) + HD_HIGH(low) + HD_HIGH(acc.carry))
        IN [d |-> Append(acc.d, HD_CONS(HD_LOW(high), HD_LOW(low))),
            carry |-> HD_HIGH(high)]
      end == Up(Step, [d |-> <<>>, carry |-> 0], 1, Len(d))
  IN IF factor > 1 /\ factor < ROOT /\ end.carry = 0 THEN end.d ELSE <<>>

bignum_multiply_unsigned_small_factor(x, digit, neg) ==
  bignum_trim(Bn(neg, bignum_destructive_scale_up(Append(x, 0), digit)))

bignum_multiply(x, y) ==
  LET neg == x.neg # y.neg
  IN IF Zero(x) \/ Zero(y) THEN BIGNUM_ZERO
     ELSE IF x.d = <<1>> THEN bignum_new_sign(y, neg)
     ELSE IF Len(x.d) = 1 /\ x.d[1] < ROOT
          THEN bignum_multiply_unsigned_small_factor(y.d, x.d[1], neg)
     ELSE IF y.d = <<1>> THEN bignum_new_sign(x, neg)
     ELSE IF Len(y.d) = 1 /\ y.d[1] < ROOT
          THEN bignum_multiply_unsigned_small_factor(x.d, y.d[1], neg)
     ELSE bignum_multiply_unsigned(x.d, y.d, neg)

(***************************************************************************)
(* Division of two digits by one: bignum_digit_divide, long division in    *)
(* radix ROOT.  u is four half digits, the most significant one first; v   *)
(* is normalized, its top bit set, and uh < v.                             *)
(***************************************************************************)

(* Subtract guess times v from three half digits of u; add v back when     *)
(* guess was one too large.                                                *)
bignum_digit_divide_subtract(v1, v2, guess, u) ==
  LET Mulsub(vn, un, carry) ==
        LET product == Long(vn * guess + carry)
            diff == un - HD_LOW(product)
        IN IF diff < 0 THEN [u |-> diff + ROOT, carry |-> HD_HIGH(product) + 1]
           ELSE [u |-> diff, carry |-> HD_HIGH(product)]
      Add(vn, un, carry) ==
        LET sum == vn + un + carry
        IN IF sum < ROOT THEN [u |-> sum, carry |-> 0] ELSE [u |-> sum - ROOT, carry |-> 1]
      low == Mulsub(v2, u[3], 0)
      high == Mulsub(v1, u[2], low.carry)
      top == u[1] - high.carry
      low2 == Add(v2, low.u, 0)
      high2 == Add(v1, high.u, low2.carry)
  IN IF high.carry = 0 THEN [u |-> <<u[1], high.u, low.u>>, q |-> guess]
     ELSE IF top >= 0 THEN [u |-> <<top, high.u, low.u>>, q |-> guess]
     ELSE [u |-> <<top + RADIX + high2.carry, high2.u, low2.u>>, q |-> guess - 1]

RECURSIVE BDD_GUESS(_, _, _, _)
BDD_GUESS(guess, comparand, v1, v2) ==
  IF guess * v2 > comparand
  THEN LET next == Long(comparand + v1 * ROOT)
       IN IF next >= RADIX THEN guess - 1 ELSE BDD_GUESS(guess - 1, next, v1, v2)
  ELSE guess

BDD_STEP(u, v1, v2) ==
  LET uj_uj1 == HD_CONS(u[1], u[2])
      guess == IF u[1] # v1 THEN BDD_GUESS(uj_uj1 \div v1, HD_CONS(uj_uj1 % v1, u[3]), v1, v2)
               ELSE BDD_GUESS(ROOT - 1, HD_CONS(u[2] + v1, u[3]), v1, v2)
  IN bignum_digit_divide_subtract(v1, v2, guess, u)

bignum_digit_divide(uh, ul, v) ==
  LET v1 == HD_HIGH(v)
      v2 == HD_LOW(v)
      Both(s1, s2) == [q |-> HD_CONS(s1.q, s2.q), r |-> HD_CONS(s2.u[2], s2.u[3])]
      Second(s1) == Both(s1, BDD_STEP(<<s1.u[2], s1.u[3], HD_LOW(ul)>>, v1, v2))
  IN IF uh = 0 /\ ul < v THEN [q |-> 0, r |-> ul]
     ELSE IF uh = 0 /\ ul = v THEN [q |-> 1, r |-> 0]
     ELSE Second(BDD_STEP(<<HD_HIGH(uh), HD_LOW(uh), HD_HIGH(ul)>>, v1, v2))

(***************************************************************************)
(* Division by a magnitude of several digits (Knuth's algorithm D).        *)
(***************************************************************************)

(* The digits of source shifted left, in length digits. *)
bignum_destructive_normalization(source, length, shift) ==
  LET right == 2^(D - shift)
      carry(i) == IF i = 0 THEN 0 ELSE source[i] \div right
  IN [i \in 1..length |->
        (IF i <= Len(source) THEN (source[i] % right) * 2^shift ELSE 0) + carry(i - 1)]

bignum_destructive_unnormalization(d, shift) ==
  [i \in DOMAIN d |-> (d[i] \div 2^shift) + (Digit(d, i + 1) % 2^shift) * 2^(D - shift)]

(* The product of two digits, high and low digit. *)
DoubleProduct(x, y) ==
  LET low == Long(HD_LOW(x) * HD_LOW(y))
      mid == Long(HD_LOW(x) * HD_HIGH(y) + HD_HIGH(x) * HD_LOW(y) + HD_HIGH(low))
  IN [h |-> Long(HD_HIGH(x) * HD_HIGH(y) + HD_HIGH(mid)), l |-> HD_CONS(HD_LOW(mid), HD_LOW(low))]

(* Lower the guess until guess * v2 is at most the comparand ch, cl. *)
RECURSIVE LowerGuess(_, _, _, _, _)
LowerGuess(guess, ch, cl, v1, v2) ==
  LET p == DoubleProduct(v2, guess)
  IN IF ch > p.h \/ (ch = p.h /\ cl >= p.l) THEN guess
     ELSE IF ch + v1 >= RADIX THEN guess - 1
     ELSE LowerGuess(guess - 1, ch + v1, cl, v1, v2)

(* The carry out of the subtraction, with the top digit of u: u is negative. *)
NeverTooLarge(top, carry) == FALSE  \* mutant: no adding back
GuessTooLarge(top, carry) == carry # 0 /\ top - carry < 0

(* Subtract guess * v from the digits of u from start on; u negative means *)
(* that the guess was one too large, and v is added back.                  *)
bignum_divide_subtract(v, guess, u, start) ==
  LET Mulsub(acc, i) ==
        LET k == start + i - 1
            p == DigitProduct(0, v[i], guess, acc.carry)
            s == Borrow(acc.u[k] - p.digit)
        IN [u |-> [acc.u EXCEPT ![k] = s.digit], carry |-> p.carry + s.borrow]
      sub == Up(Mulsub, [u |-> u, carry |-> 0], 1, Len(v))
      end == start + Len(v)
      Add(acc, i) ==
        LET k == start + i - 1
            sum == v[i] + acc.u[k] + acc.carry
        IN IF sum < RADIX THEN [u |-> [acc.u EXCEPT ![k] = sum], carry |-> 0]
           ELSE [u |-> [acc.u EXCEPT ![k] = sum - RADIX], carry |-> 1]
      back == Up(Add, [u |-> [sub.u EXCEPT ![end] = @ - sub.carry + RADIX], carry |-> 0], 1, Len(v))
  IN IF guess = 0 THEN [u |-> u, q |-> 0]
     ELSE IF GuessTooLarge(sub.u[end], sub.carry)
     THEN [u |-> [back.u EXCEPT ![end] = IF @ + back.carry < RADIX THEN @ + back.carry
                                         ELSE @ + back.carry - RADIX],
           q |-> guess - 1]
     ELSE [u |-> [sub.u EXCEPT ![end] = @ - sub.carry], q |-> guess]

bignum_divide_unsigned_normalized(u0, v) ==
  LET v1 == v[Len(v)]
      v2 == v[Len(v) - 1]
      Lowered(u, j, d) == LowerGuess(d.q, d.r, u[j - 2], v1, v2)
      Guess(u, j) ==
        IF u[j] # v1 THEN Lowered(u, j, bignum_digit_divide(u[j], u[j - 1], v1))
        ELSE Lowered(u, j, [q |-> RADIX - 1, r |-> u[j - 1] + v1])
      Found(s, q) == [u |-> s.u, q |-> <<s.q>> \o q]
      Step(acc, j) ==
        Found(bignum_divide_subtract(v, Guess(acc.u, j), acc.u, j - Len(v)), acc.q)
  IN Down(Step, [u |-> u0, q |-> <<>>], Len(v) + 1, Len(u0))

(* The number of places a digit is shifted to have its top bit set. *)
Shift(digit) == D - LengthInBits(digit)

bignum_divide_unsigned_large_denominator(n, d, q_neg, r_neg) ==
  LET shift == Shift(d[Len(d)])
      Normalized(x, length) ==
        IF shift = 0 THEN x ELSE bignum_destructive_normalization(x, length, shift)
      Unnormalized(u) == IF shift = 0 THEN u ELSE bignum_destructive_unnormalization(u, shift)
      Result(s) == [q |-> bignum_trim(Bn(q_neg, s.q)),
                    r |-> bignum_trim(Bn(r_neg, Unnormalized(s.u)))]
  IN Result(bignum_divide_unsigned_normalized(
              Normalized(IF shift = 0 THEN Append(n, 0) ELSE n, Len(n) + 1),
              Normalized(d, Len(d))))

bignum_divide_unsigned_medium_denominator(n, digit, q_neg, r_neg) ==
  LET shift == Shift(digit)
      v == digit * 2^shift
      u == IF shift = 0 THEN n ELSE bignum_destructive_normalization(n, Len(n) + 1, shift)
      Found(s, q) == [q |-> <<s.q>> \o q, r |-> s.r]
      Step(acc, j) == Found(bignum_digit_divide(acc.r, u[j], v), acc.q)
      Result(end) == [q |-> bignum_trim(Bn(q_neg, end.q)),
                      r |-> bignum_digit_to_bignum(end.r \div 2^shift, r_neg)]
  IN Result(Down(Step, [q |-> <<>>, r |-> 0], 1, Len(u)))

(* Division by less than ROOT, half a digit at a time. *)
bignum_destructive_scale_down(d, denominator) ==
  LET Step(acc, i) ==
        LET high == HD_CONS(acc.r, HD_HIGH(d[i]))
            low == HD_CONS(high % denominator, HD_LOW(d[i]))
        IN [d |-> <<HD_CONS(high \div denominator, low \div denominator)>> \o acc.d,
            r |-> low % denominator]
  IN Down(Step, [d |-> <<>>, r |-> 0], 1, Len(d))

bignum_divide_unsigned_small_denominator(n, digit, q_neg, r_neg) ==
  LET s == bignum_destructive_scale_down(n, digit)
  IN [q |-> bignum_trim(Bn(q_neg, s.d)), r |-> bignum_digit_to_bignum(s.r, r_neg)]

bignum_remainder_unsigned_small_denominator(n, digit, neg) ==
  LET Step(r, i) == HD_CONS(HD_CONS(r, HD_HIGH(n[i])) % digit, HD_LOW(n[i])) % digit
  IN bignum_digit_to_bignum(Down(Step, 0, 1, Len(n)), neg)

(* The cases that bignum_divide, bignum_quotient and bignum_remainder have *)
(* in common, when the magnitude of n is the greater one.                  *)
DivideUnsigned(n, d, q_neg, r_neg) ==
  IF Len(d) > 1 THEN bignum_divide_unsigned_large_denominator(n, d, q_neg, r_neg)
  ELSE IF d[1] = 1 THEN [q |-> Bn(q_neg, n), r |-> BIGNUM_ZERO]
  ELSE IF d[1] < ROOT THEN bignum_divide_unsigned_small_denominator(n, d[1], q_neg, r_neg)
  ELSE bignum_divide_unsigned_medium_denominator(n, d[1], q_neg, r_neg)

bignum_divide(n, d) ==
  LET order == bignum_compare_unsigned(n.d, d.d)
      q_neg == n.neg # d.neg
  IN IF Zero(d) THEN BIGNUM_OUT_OF_BAND
     ELSE IF Zero(n) THEN [q |-> n, r |-> n]
     ELSE IF order = 0 THEN [q |-> BIGNUM_ONE(q_neg), r |-> BIGNUM_ZERO]
     ELSE IF order = -1 THEN [q |-> BIGNUM_ZERO, r |-> n]
     ELSE DivideUnsigned(n.d, d.d, q_neg, n.neg)

bignum_quotient(n, d) ==
  IF Zero(d) THEN BIGNUM_OUT_OF_BAND ELSE bignum_divide(n, d).q

bignum_remainder(n, d) ==
  LET order == bignum_compare_unsigned(n.d, d.d)
      digit == d.d[1]
  IN IF Zero(d) THEN BIGNUM_OUT_OF_BAND
     ELSE IF Zero(n) \/ order = -1 THEN n
     ELSE IF order = 0 THEN BIGNUM_ZERO
     ELSE IF Len(d.d) = 1 /\ (digit & (digit - 1)) = 0
     THEN bignum_digit_to_bignum((digit - 1) & n.d[1], n.neg)
     ELSE IF Len(d.d) = 1 /\ digit < ROOT
     THEN bignum_remainder_unsigned_small_denominator(n.d, digit, n.neg)
     ELSE DivideUnsigned(n.d, d.d, FALSE, n.neg).r

(***************************************************************************)
(* Bitwise operations on two's complement values, from the magnitudes.     *)
(* The unsigned operations are named for their truth tables; nor, eqv and  *)
(* nand are the complements of ior, xor and and.                           *)
(***************************************************************************)

bignum_bitwise_not(x) == bignum_subtract(BIGNUM_ONE(TRUE), x)

BITWISE(op, x, y) ==
  CASE op = "and" -> x & y
    [] op = "andc2" -> x - (x & y)
    [] op = "andc1" -> y - (x & y)
    [] op = "xor" -> x ^^ y
    [] op = "ior" -> x | y

SwappedUnsigned(op, x, y) ==  \* mutant: the longer operand comes first, andc1 and andc2 are not exchanged
  LET a == IF Len(x.d) < Len(y.d) THEN y ELSE x
      b == IF Len(x.d) < Len(y.d) THEN x ELSE y
  IN bignum_trim(Bn(FALSE, [i \in 1..Len(a.d) |-> BITWISE(op, a.d[i], Digit(b.d, i))]))
bitwise_unsigned(op, x, y) ==
  bignum_trim(Bn(FALSE, [i \in 1..(IF Len(x.d) < Len(y.d) THEN Len(y.d) ELSE Len(x.d)) |->
                           BITWISE(op, Digit(x.d, i), Digit(y.d, i))]))

(* The truth tables of X0, Y0, PP, PN, NP and NN of DEFINE_BITWISE.        *)
(* "-" stands for zero, "~" for the complement of the operand that is not  *)
(* zero, "1" for BIGNUM_ONE (1).                                           *)
BitwiseTable(op) ==
  CASE op = "and"   -> [x0 |-> "-", y0 |-> "-", pp |-> "and", pn |-> "andc2", np |-> "andc1", nn |-> "nor"]
    [] op = "andc2" -> [x0 |-> "x", y0 |-> "-", pp |-> "andc2", pn |-> "and", np |-> "nor", nn |-> "andc1"]
    [] op = "andc1" -> [x0 |-> "-", y0 |-> "y", pp |-> "andc1", pn |-> "nor", np |-> "and", nn |-> "andc2"]
    [] op = "xor"   -> [x0 |-> "x", y0 |-> "y", pp |-> "xor", pn |-> "eqv", np |-> "eqv", nn |-> "xor"]
    [] op = "ior"   -> [x0 |-> "x", y0 |-> "y", pp |-> "ior", pn |-> "orc2", np |-> "orc1", nn |-> "nand"]
    [] op = "nor"   -> [x0 |-> "~", y0 |-> "~", pp |-> "nor", pn |-> "andc1", np |-> "andc2", nn |-> "and"]
    [] op = "eqv"   -> [x0 |-> "~", y0 |-> "~", pp |-> "eqv", pn |-> "xor", np |-> "xor", nn |-> "eqv"]
    [] op = "orc2"  -> [x0 |-> "1", y0 |-> "~", pp |-> "orc2", pn |-> "ior", np |-> "nand", nn |-> "orc1"]
    [] op = "orc1"  -> [x0 |-> "~", y0 |-> "1", pp |-> "orc1", pn |-> "nand", np |-> "ior", nn |-> "orc2"]
    [] op = "nand"  -> [x0 |-> "1", y0 |-> "1", pp |-> "nand", pn |-> "orc1", np |-> "orc2", nn |-> "ior"]

BITWISE_OPS == {"and", "andc2", "andc1", "xor", "ior", "nor", "eqv", "orc2", "orc1", "nand"}

RECURSIVE bignum_bitwise(_, _, _)
bignum_bitwise_unsigned(op, x, y) ==
  CASE op = "nor"  -> bignum_bitwise_not(bitwise_unsigned("ior", x, y))
    [] op = "eqv"  -> bignum_bitwise_not(bitwise_unsigned("xor", x, y))
    [] op = "nand" -> bignum_bitwise_not(bitwise_unsigned("and", x, y))
    [] op = "orc2" -> bignum_bitwise_not(bignum_bitwise("andc1", x, y))
    [] op = "orc1" -> bignum_bitwise_not(bignum_bitwise("andc2", x, y))
    [] OTHER -> bitwise_unsigned(op, x, y)

bignum_bitwise(op, x, y) ==
  LET t == BitwiseTable(op)
      Only(code, z) == CASE code = "-" -> BIGNUM_ZERO
                         [] code = "~" -> bignum_bitwise_not(z)
                         [] code = "1" -> BIGNUM_ONE(TRUE)
                         [] OTHER -> z
  IN IF Zero(x) THEN Only(t.y0, y)
     ELSE IF Zero(y) THEN Only(t.x0, x)
     ELSE IF ~x.neg /\ ~y.neg THEN bignum_bitwise_unsigned(t.pp, x, y)
     ELSE IF ~x.neg THEN bignum_bitwise_unsigned(t.pn, x, bignum_bitwise_not(y))
     ELSE IF ~y.neg THEN bignum_bitwise_unsigned(t.np, bignum_bitwise_not(x), y)
     ELSE bignum_bitwise_unsigned(t.nn, bignum_bitwise_not(x), bignum_bitwise_not(y))

(***************************************************************************)
(* Lengths and counts of bits.                                             *)
(***************************************************************************)

bignum_length_in_bits(x) ==
  IF Zero(x) THEN 0 ELSE LengthInBits(x.d[Len(x.d)]) + D * (Len(x.d) - 1)

(* A negative power of two is one bit shorter. *)
bignum_magnitude_length(x) == bignum_length_in_bits(x)  \* mutant
bignum_integer_length(x) ==
  LET top == x.d[Len(x.d)]
      power == (\A i \in 1..(Len(x.d) - 1) : x.d[i] = 0) /\ (top & (top - 1)) = 0
  IN bignum_length_in_bits(x) - (IF ~Zero(x) /\ x.neg /\ power THEN 1 ELSE 0)

bignum_first_set_bit(x) ==
  LET i == Min({k \in DOMAIN x.d : x.d[k] # 0})
  IN IF Zero(x) THEN -1
     ELSE BitCount((x.d[i] ^^ (x.d[i] - 1)) \div 2) + (i - 1) * D

bignum_bit_count_unsigned(x) == Up(LAMBDA c, i : c + BitCount(x.d[i]), 0, 1, Len(x.d))

bignum_bit_count(x) ==
  bignum_bit_count_unsigned(IF ~Zero(x) /\ x.neg THEN bignum_bitwise_not(x) ELSE x)

bignum_positive_hamming_distance(x, y) ==
  Up(LAMBDA c, i : c + BitCount(Digit(x.d, i) ^^ Digit(y.d, i)), 0, 1,
     IF Len(x.d) < Len(y.d) THEN Len(y.d) ELSE Len(x.d))

bignum_hamming_distance(x, y) ==
  LET nx == bignum_bitwise_not(x)
      ny == bignum_bitwise_not(y)
  IN IF Zero(x) /\ Zero(y) THEN 0
     ELSE IF Zero(x) THEN IF y.neg THEN -1 ELSE bignum_bit_count_unsigned(y)
     ELSE IF Zero(y) THEN IF x.neg THEN -1 ELSE bignum_bit_count_unsigned(x)
     ELSE IF x.neg # y.neg THEN -1
     ELSE IF x.neg THEN bignum_positive_hamming_distance(nx, ny)
     ELSE bignum_positive_hamming_distance(x, y)

(***************************************************************************)
(* Shifts.                                                                 *)
(***************************************************************************)

(* The first digit is read even when all of them are shifted out.  That    *)
(* happens only to a magnitude that bignum_trim has just shortened by one  *)
(* digit, and the word it reads is the SHARP_F, zero, that was left there. *)
bignum_shift_right_unsigned(d, digits, bits) ==
  LET length == Len(d) - digits
                - (IF d # <<>> /\ d[Len(d)] \div 2^bits = 0 THEN 1 ELSE 0)
      Shifted(i) == (Digit(d, i) \div 2^bits) + (Digit(d, i + 1) % 2^bits) * 2^(D - bits)
      written == IF digits >= Len(d) THEN 0
                 ELSE Len(d) - digits - (IF d[Len(d)] \div 2^bits = 0 THEN 1 ELSE 0)
  IN IF bits # 0 /\ written # length THEN AssertionFails
     ELSE Bn(FALSE, [i \in 1..length |-> Shifted(digits + i)])

bignum_shift_right(x, m) ==
  LET digits == m \div D
      bits == m % D
  IN IF digits >= Len(x.d) THEN IF x.neg THEN BIGNUM_ONE(TRUE) ELSE BIGNUM_ZERO
     ELSE IF x.neg
     THEN bignum_bitwise_not(bignum_shift_right_unsigned(bignum_bitwise_not(x).d, digits, bits))
     ELSE bignum_shift_right_unsigned(x.d, digits, bits)

(* The digits of d shifted left by m bits, in length digits. *)
ShiftedLeft(d, m, length) ==
  LET zeroes == m \div D
      shift == m % D
  IN [i \in 1..length |-> ((Digit(d, i - zeroes) * 2^shift) % RADIX)
                          + (Digit(d, i - zeroes - 1) \div 2^(D - shift))]

bignum_shift_left(x, m) ==
  IF m = 0 \/ Zero(x) THEN x
  ELSE Bn(x.neg, ShiftedLeft(x.d, m, Len(x.d) - 1 + BITS_TO_DIGITS(LengthInBits(x.d[Len(x.d)]) + m)))

bignum_nonnegative_one_bits(size, position) ==
  bignum_shift_left(bignum_bitwise_not(bignum_shift_left(BIGNUM_ONE(TRUE), size)), position)

bignum_negative_zero_bits(n, m) == bignum_bitwise_not(bignum_nonnegative_one_bits(n, m))

(***************************************************************************)
(* Conversions between bignums and machine integers.                       *)
(***************************************************************************)

(* The digits of a C integer, at least one. *)
RECURSIVE DigitsOf(_)
DigitsOf(n) == <<n % RADIX>> \o (IF n < RADIX THEN <<>> ELSE DigitsOf(n \div RADIX))

long_to_bignum(n) ==
  IF n = 0 THEN BIGNUM_ZERO
  ELSE IF n < 0 THEN Bn(TRUE, DigitsOf(-n)) ELSE Bn(FALSE, DigitsOf(n))

bignum_to_long(x) ==
  LET accumulator == Down(LAMBDA a, i : (a * RADIX + x.d[i]) % (4 * RADIX), 0, 1, Len(x.d))
  IN IF x.neg THEN Long(-Long(accumulator)) ELSE Long(accumulator)

unsigned_long_to_shifted_bignum(n, m, neg) ==
  IF n = 0 THEN BIGNUM_ZERO
  ELSE Bn(neg, ShiftedLeft(DigitsOf(n), m, BITS_TO_DIGITS(LengthInBits(n) + m)))

bignum_fits_in_word_p(x, word_length, twos_complement_p) ==
  LET n_bits == IF twos_complement_p THEN word_length - 1 ELSE word_length
      max_digits == BITS_TO_DIGITS(n_bits)
      length == Len(x.d)
      msd == x.d[length]
      max == 2^(n_bits - (length - 1) * D)
  IN /\ twos_complement_p \/ ~x.neg
     /\ \/ length < max_digits
        \/ /\ length = max_digits
           /\ msd < max \/ (twos_complement_p /\ msd = max /\ x.neg)

(***************************************************************************)
(* Conversions between bignums and doubles.  A double is s * 2^e, where s  *)
(* has at most MANT bits; exponents have no bound here.                    *)
(***************************************************************************)

(* The bits of the first digit, when the exponent is not a multiple of D. *)
OddBitsShort(exponent) == (exponent - 1) % D  \* mutant
OddBits(exponent) == exponent % D

(* The digits are taken from the significand, the most significant one     *)
(* first; significand / 2^MANT is the fraction of the C code.  The count   *)
(* of valid bits is unsigned: it wraps when the first digit takes more     *)
(* bits than there are, and then the significand is zero.                  *)
double_to_bignum(s, e) ==
  LET magnitude == IF s < 0 THEN -s ELSE s
      exponent == LengthInBits(magnitude) + e
      odd_bits == OddBits(exponent)
      Write(acc, n_bits) ==
        LET scaled == acc.significand * 2^n_bits
        IN [d |-> <<scaled \div 2^MANT>> \o acc.d, significand |-> scaled % 2^MANT,
            valid |-> (acc.valid - n_bits) % 2^16]
      Step(acc, i) ==
        IF acc.significand = 0 \/ acc.valid = 0 THEN [acc EXCEPT !.d = <<0>> \o @]
        ELSE IF acc.valid >= D THEN Write(acc, D)
        ELSE LET digit == Write(acc, D).d[1]
                 unit == 2^(D - acc.valid)
             IN [d |-> <<digit - (digit % unit)>> \o acc.d, significand |-> 0, valid |-> 0]
      start == [d |-> <<>>, significand |-> magnitude * 2^(MANT - LengthInBits(magnitude)),
                valid |-> MANT]
      first == IF odd_bits > 0 THEN Write(start, odd_bits) ELSE start
  IN IF s = 0 \/ exponent <= 0 THEN BIGNUM_ZERO
     ELSE IF exponent = 1 THEN BIGNUM_ONE(s < 0)
     ELSE Bn(s < 0, Down(Step, first, 1, exponent \div D).d)

(* What rounding up adds when the guard bit is in the last digit taken. *)
HalfCorrection(guard) == guard  \* mutant
RoundingCorrection(guard) == 2 * guard

(* Add up digits until MANT bits are taken: count bits of the digit at     *)
(* index are next and bits are still to get.  The result has the value,    *)
(* where the guard bit is, what rounding up adds, and the digits by which  *)
(* the value is scaled; or it is finished, when no bit is left.            *)
RECURSIVE GetBits(_, _, _, _, _)
GetBits(d, index, count, bits, value) ==
  LET short == count > bits
      guard == IF short THEN 2^(count - bits - 1) ELSE RADIX \div 2
      sum == value * RADIX + d[index] - (IF short THEN d[index] % (2 * guard) ELSE 0)
      finished == [value |-> sum, finished |-> TRUE]
      Rounding(i, g, c) == [value |-> sum, finished |-> FALSE, index |-> i, guard |-> g,
                            correction |-> c, scale_words |-> index - 1]
  IN IF short \/ count = bits
     THEN IF count = D /\ ~short
          THEN IF index = 1 THEN finished ELSE Rounding(index - 1, RADIX \div 2, 1)
          ELSE Rounding(index, guard, RoundingCorrection(guard))
     ELSE IF index = 1 THEN finished
     ELSE GetBits(d, index - 1, D, bits - count, sum)

bignum_to_double(x) ==
  LET length == Len(x.d)
      g == GetBits(x.d, length, LengthInBits(x.d[length]), MANT, 0)
      digit == x.d[g.index]
      guard_set == (digit \div g.guard) % 2 = 1
      odd == IF 2 * g.guard = RADIX THEN x.d[g.index + 1] % 2 = 1
             ELSE (digit \div (2 * g.guard)) % 2 = 1
      round_up == guard_set /\ \/ digit % g.guard # 0
                               \/ odd
                               \/ \E i \in 1..(g.index - 1) : x.d[i] # 0
      unscaled == guard_set /\ digit % g.guard = 0 /\ ~odd /\ g.index = 1
      value == IF g.finished \/ unscaled THEN g.value
               ELSE (g.value + (IF round_up THEN g.correction ELSE 0)) * RADIX^g.scale_words
  IN IF Zero(x) THEN 0 ELSE IF x.neg THEN -value ELSE value

(***************************************************************************)
(* Digit streams.  A stream is the sequence of its digits in radix, the    *)
(* most significant one first; bignum_to_digit_stream hands them out the   *)
(* other way round.                                                        *)
(***************************************************************************)

(* Without digits when the carry runs past the space d has. *)
RECURSIVE bignum_destructive_add(_, _, _)
bignum_destructive_add(d, n, i) ==
  LET digit == d[i] + n
  IN IF i > Len(d) THEN <<>>
     ELSE IF digit < RADIX THEN [d EXCEPT ![i] = digit]
     ELSE bignum_destructive_add([d EXCEPT ![i] = digit - RADIX], 1, i + 1)

StreamLengthShort(n_digits, radix) ==  \* mutant: the bits of the largest digit in radix
  BITS_TO_DIGITS(n_digits * (LengthInBits(radix) - 1))
StreamLength(n_digits, radix) == BITS_TO_DIGITS(n_digits * LengthInBits(radix))

digit_stream_to_bignum(stream, radix, neg) ==
  LET length == StreamLength(Len(stream), radix)
      Step(d, i) == IF d = <<>> THEN d
                    ELSE LET up == bignum_destructive_scale_up(d, radix)
                         IN IF up = <<>> THEN up ELSE bignum_destructive_add(up, stream[i], 1)
      digits == Up(Step, Zeroes(length), 1, Len(stream))
  IN IF stream = <<>> THEN BIGNUM_ZERO
     ELSE IF Len(stream) = 1 THEN long_to_bignum(IF neg THEN -stream[1] ELSE stream[1])
     ELSE IF digits = <<>> THEN AssertionFails
     ELSE bignum_trim(Bn(neg, digits))

RECURSIVE DigitStream(_, _, _)
DigitStream(d, radix, n) ==
  IF n = 0 THEN <<>>
  ELSE IF d[n] = 0 THEN DigitStream(d, radix, n - 1)
  ELSE LET s == bignum_destructive_scale_down(d, radix)
       IN Append(DigitStream(s.d, radix, n), s.r)

(* The list that LISTIFY-BIGNUM conses up. *)
bignum_to_digit_stream(x, radix) == DigitStream(x.d, radix, Len(x.d))
====
