-------------------------------- MODULE Num --------------------------------
(***************************************************************************)
(* The 128-bit numbers of src/common/num.c: two words of W bits (64 in the *)
(* code), arithmetic modulo 2^W on each, and the overflow that is noticed. *)
(* Strings of digits are sequences of digits, the first one first.         *)
(***************************************************************************)
EXTENDS Integers, Sequences

CONSTANTS W             \* bits of a word, a multiple of 4

ASSUME WordAssumption == W \in Nat /\ W > 0 /\ W % 4 = 0

(* b to the power of n, a function so that its equations can be proved.    *)
Power(b, n) == LET p[i \in 0..n] == IF i = 0 THEN 1 ELSE b * p[i - 1] IN p[n]

WORD == Power(2, W)
TOP == Power(2, W - 1)  \* the word with its first bit set

(* n turns of a loop, the i-th of which is Turn(t, i); t is bound to its   *)
(* value, so that TLC does not nest the turns of one loop in the next.     *)
Loop(Turn(_, _), first, n) ==
    LET after[i \in 0..n] ==
          IF i = 0 THEN first
          ELSE CHOOSE x \in {Turn(t, i) : t \in {after[i - 1]}} : TRUE
    IN after[n]

(* A num_t for a number below WORD * WORD, and back. *)
Limbs(x) == [hi |-> x \div WORD, lo |-> x % WORD]
Value(n) == n.hi * WORD + n.lo

num_ii(hi, lo) == [hi |-> hi, lo |-> lo]
num_i(x) == num_ii(0, x)

(* Mutant: the bit between the words is lost. *)
num_lshift_lost(a) == num_ii((2 * a.hi) % WORD, (2 * a.lo) % WORD)

num_lshift(a) == num_ii(((2 * a.hi) % WORD) + (a.lo \div TOP), (2 * a.lo) % WORD)
num_rshift(a) == num_ii(a.hi \div 2, (a.lo \div 2) + (a.hi % 2) * TOP)

(* The bits two words share, from the last one up. *)
Bit(x, i) == (x \div Power(2, i - 1)) % 2
AndTurn(x, y, sum, i) ==
    IF Bit(x, i) = 1 /\ Bit(y, i) = 1 THEN sum + Power(2, i - 1) ELSE sum

And(x, y) == Loop(LAMBDA sum, i : AndTurn(x, y, sum, i), 0, W)

num_and(a, b) == num_ii(And(a.hi, b.hi), And(a.lo, b.lo))

num_cmp_i(a, x) == IF a.hi # 0 \/ a.lo > x THEN 1 ELSE IF a.lo = x THEN 0 ELSE -1

num_cmp(a, b) ==
    CASE a.hi > b.hi -> 1
      [] a.hi < b.hi -> -1
      [] a.hi = b.hi /\ a.lo > b.lo -> 1
      [] a.hi = b.hi /\ a.lo < b.lo -> -1
      [] OTHER -> 0

(* Results that may overflow: the number, and whether num_set_overflow was *)
(* called.                                                                 *)
Result(n, overflow) == [n |-> n, overflow |-> overflow]

num_add(a, b) ==
    LET lo == (a.lo + b.lo) % WORD
        hi == (a.hi + b.hi) % WORD
        up == (hi + 1) % WORD
    IN IF lo < a.lo THEN Result(num_ii(up, lo), hi < a.hi \/ up < 1)
                    ELSE Result(num_ii(hi, lo), hi < a.hi)

num_sub(a, b) ==
    LET lo == (a.lo - b.lo) % WORD
        hi == (a.hi - b.hi) % WORD
        down == (hi - 1) % WORD
    IN IF lo > a.lo THEN Result(num_ii(down, lo), hi > a.hi \/ down > hi)
                    ELSE Result(num_ii(hi, lo), hi > a.hi)

BITS == 2 * W

(* One turn of num_mul_i, shift and add: r is arg2 shifted, and can tells   *)
(* that a bit of it was lost.                                              *)
MulTurn(t) ==
    LET sum == num_add(t.reply.n, t.r)
    IN [arg |-> num_rshift(t.arg), r |-> num_lshift(t.r),
        can |-> t.can \/ t.r.hi >= TOP,
        reply |-> IF t.arg.lo % 2 = 1
                  THEN Result(sum.n, t.reply.overflow \/ t.can \/ sum.overflow)
                  ELSE t.reply]

MulStart(arg1, arg2) == [arg |-> arg1, r |-> num_i(arg2), can |-> FALSE,
                         reply |-> Result(num_i(0), FALSE)]

(* Mutant: bits that are shifted out of r are not missed. *)
num_mul_i_unnoticed(arg1, arg2) ==
    Loop(LAMBDA t, i : MulTurn([t EXCEPT !.can = FALSE]),
         MulStart(arg1, arg2), BITS).reply

num_mul_i(arg1, arg2) ==
    Loop(LAMBDA t, i : MulTurn(t), MulStart(arg1, arg2), BITS).reply

(* One turn of num_div_i, shift and subtract; a remainder of W + 1 bits is *)
(* possible.                                                               *)
DivTurn(t, divby) ==
    LET overflow == t.remainder >= TOP
        rest == ((2 * t.remainder) % WORD) + (t.result.hi \div TOP)
        shifted == num_lshift(t.result)
        one == num_ii(shifted.hi, shifted.lo + 1)
    IN CASE overflow ->
              [result |-> one, remainder |-> (WORD - 1 - divby + 1 + rest) % WORD]
         [] ~overflow /\ rest >= divby ->
              [result |-> one, remainder |-> rest - divby]
         [] OTHER -> [result |-> shifted, remainder |-> rest]

num_div_i(divwhat, divby) ==
    Loop(LAMBDA t, i : DivTurn(t, divby), [result |-> divwhat, remainder |-> 0], BITS)
-----------------------------------------------------------------------------
HEX_DIGITS == W \div 2
(* The digits of the largest number: 39 in the code. *)
DEC_DIGITS == CHOOSE d \in 1..W : /\ Power(10, d - 1) <= WORD * WORD - 1
                                  /\ WORD * WORD - 1 < Power(10, d)

(* _num_get_str, decimal: divide until nothing is left. *)
GetTurn(t) == LET d == num_div_i(t.value, 10)
              IN IF num_cmp_i(t.value, 0) = 0 THEN t
                 ELSE [value |-> d.result, str |-> <<d.remainder>> \o t.str]

_num_get_str(n) ==
    IF num_cmp_i(n, 0) = 0 THEN <<0>>
    ELSE Loop(LAMBDA t, i : GetTurn(t), [value |-> n, str |-> <<>>], DEC_DIGITS).str

(* num_export, NUM_FORMAT_HEX: the bytes, most significant first. *)
num_export_hex(n) ==
    [i \in 1..HEX_DIGITS |-> (Value(n) \div Power(16, HEX_DIGITS - i)) % 16]

(* _num_set_str, decimal: stops at the first overflow. *)
DecTurn(t, digit) ==
    LET m == num_mul_i(t.n, 10)
        a == num_add(m.n, num_i(digit))
    IN IF t.overflow THEN t ELSE Result(a.n, m.overflow \/ a.overflow)

_num_set_str_dec(str) ==
    LET r == Loop(LAMBDA t, i : DecTurn(t, str[i]), Result(num_i(0), FALSE), Len(str))
    IN [n |-> r.n, ret |-> IF r.overflow \/ Len(str) \notin 1..DEC_DIGITS THEN 1 ELSE 0]

(* _num_set_str, hexadecimal: no overflow within HEX_DIGITS. *)
HexTurn(n, digit) ==
    num_add(num_lshift(num_lshift(num_lshift(num_lshift(n)))), num_i(digit)).n

_num_set_str_hex(str) ==
    [n |-> Loop(LAMBDA n, i : HexTurn(n, str[i]), num_i(0), Len(str)),
     ret |-> IF Len(str) \notin 1..HEX_DIGITS THEN 1 ELSE 0]
=============================================================================
