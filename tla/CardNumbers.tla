---------------------------- MODULE CardNumbers ----------------------------
(***************************************************************************)
(* Passcard's numbers as the code computes them, on the two words of Num:  *)
(* ppp_calculate and the loop of ppp_get_passcode (src/libotp/ppp.c), and  *)
(* the numbers that are typed, printed and kept in the state file.         *)
(***************************************************************************)
EXTENDS Passcard, Num

CONSTANTS ALPHABET      \* length of the alphabet

(* Counters and masks are numbers of two words; a card and a letter fit in *)
(* one: 2^120, 110 and 88 in the code, for words of 64 bits.               *)
ASSUME NumberAssumption == /\ W >= 8
                           /\ FULL_SPACE <= WORD * WORD
                           /\ SALTS * CODE_SPACE <= WORD * WORD
                           /\ ALPHABET \in 2..(WORD - 1)

(* ppp_calculate: card, and passcode on the card, of an unsalted counter. *)
calculate_card(n) ==
    LET d == num_div_i(n, codes_on_card)
    IN [card |-> num_add(d.result, num_i(1)).n, code |-> d.remainder]

(* ppp_calculate: max_card and max_code from the mask of the counter. *)
calculate_max(mask) ==
    LET max == num_sub(num_div_i(mask, codes_on_card).result, num_i(1)).n
    IN [card |-> max, code |-> num_mul_i(max, codes_on_card)]

(* The loop of ppp_get_passcode: letters, by their number in the alphabet, *)
(* of an encrypted counter.                                                *)
LetterTurn(t) == LET d == num_div_i(t.cipher, ALPHABET)
                 IN [cipher |-> d.result, str |-> Append(t.str, d.remainder)]

passcode_letters(cipher) ==
    Loop(LAMBDA t, i : LetterTurn(t), [cipher |-> cipher, str |-> <<>>], code_length).str
-----------------------------------------------------------------------------
(* Numbers of the program that a counter stands for here: it may be the    *)
(* counter, a cipher text, or close to the largest number.                 *)
Numbers == {counter, WORD * WORD - 1 - counter}

(***************************************************************************)
(* ppp_calculate on two words is ppp_calculate on numbers: carries between *)
(* the words, remainders that need a bit more than a word and borrows give *)
(* Passcard's card, position and limits, without an overflow; and masks    *)
(* split a number as ppp_add_salt and ppp_verify_range expect.             *)
(***************************************************************************)
WordsAgree ==
    LET c == calculate_card(Limbs(unsalted_counter))
        m == calculate_max(Limbs((IF salted THEN CODE_SPACE ELSE FULL_SPACE) - 1))
    IN /\ Value(c.card) = current_card
       /\ c.code = (current_row - 1) * codes_in_row + current_column
       /\ Value(m.card) = max_card
       /\ m.code = Result(Limbs(max_code), FALSE)
       /\ num_cmp(Limbs(unsalted_counter), m.code.n) < 0 <=> unsalted_counter < max_code
       /\ \A x \in Numbers, k \in {W \div 2, W} :
            num_add(num_and(Limbs(x), Limbs(Power(2, k) - 1)), Limbs(x - (x % Power(2, k))))
              = Result(Limbs(x), FALSE)

(***************************************************************************)
(* What is left of x after n digits in the base ALPHABET.                  *)
(***************************************************************************)
AfterDigits(x, n) ==
    LET rest[i \in 0..n] == IF i = 0 THEN x ELSE rest[i - 1] \div ALPHABET IN rest[n]

(***************************************************************************)
(* ppp_get_passcode takes the letters of a passcode out of the cipher text *)
(* one by one: they are its digits in the base ALPHABET, so two cipher     *)
(* texts that differ below ALPHABET^code_length give different passcodes.  *)
(***************************************************************************)
LettersFaithful ==
    \A x \in Numbers :
       passcode_letters(Limbs(x))
         = [i \in 1..code_length |-> AfterDigits(x, i - 1) % ALPHABET]

(***************************************************************************)
(* A number survives the state file (hexadecimal) and the user's keyboard  *)
(* (decimal); one that does not fit is refused, never taken modulo 2^128.  *)
(***************************************************************************)
FileFaithful ==
    \A x \in Numbers :
       _num_set_str_hex(num_export_hex(Limbs(x))) = [n |-> Limbs(x), ret |-> 0]

KeyboardFaithful ==
    /\ \A x \in Numbers :
         _num_set_str_dec(_num_get_str(Limbs(x))) = [n |-> Limbs(x), ret |-> 0]
    /\ \A d \in {0, 35, 36, 99} :
         LET typed == _num_set_str_dec(_num_get_str(Limbs(counter))
                                         \o <<d \div 10, d % 10>>)
         IN IF 100 * counter + d < WORD * WORD
            THEN typed = [n |-> Limbs(100 * counter + d), ret |-> 0]
            ELSE typed.ret = 1

(* Numbers are what their digits say, in a passcode and in both formats.   *)
DigitsFaithful == LettersFaithful /\ FileFaithful /\ KeyboardFaithful
=============================================================================
