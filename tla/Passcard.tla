------------------------------ MODULE Passcard ------------------------------
(***************************************************************************)
(* Counters, salts and cards: ppp_calculate, ppp_verify_range and          *)
(* ppp_add_salt of src/libotp/ppp.c, and what the utility makes of a       *)
(* position on a card in src/utility/actions_helpers.c.                    *)
(*                                                                         *)
(* A counter is a number.  With a salt, its low part (code_mask, 32 bits)  *)
(* counts passcodes and its high part (salt_mask) is a random number fixed *)
(* when the key is made; x & code_mask is x % CODE_SPACE.  The two spaces  *)
(* are parameters: 2^32 and 2^120 in the code.                             *)
(***************************************************************************)
EXTENDS Integers

CONSTANTS CODE_SPACE,    \* code_mask + 1
          FULL_SPACE,    \* the mask of unsalted counters + 1
          MAX_COUNTER,   \* the largest counter that ppp_verify_range takes
          SALTS          \* bound: salts 0..SALTS-1

ROWS_PER_CARD == 10

(* Room for the largest card twice: the code's spaces are far larger. *)
ASSUME SpaceAssumption == /\ CODE_SPACE \in Nat /\ CODE_SPACE > 330
                          /\ FULL_SPACE \in Nat /\ FULL_SPACE > 330
                          /\ MAX_COUNTER \in Nat
                          /\ SALTS \in Nat \ {0}

VARIABLES counter, code_length, salted

cardVars == <<counter, code_length, salted>>

ppp_get_codes_per_row(len) ==
    CASE len = 2 -> 11
      [] len = 3 -> 8
      [] len = 4 -> 7
      [] len \in 5..6 -> 5
      [] len = 7 -> 4
      [] len \in 8..10 -> 3
      [] OTHER -> 2

codes_in_row == ppp_get_codes_per_row(code_length)
codes_on_card == codes_in_row * ROWS_PER_CARD

(* The counter without its salt. *)
unsalted_counter == IF salted THEN counter % CODE_SPACE ELSE counter

(* Mutant: the cards before this one are not taken off first. *)
row_of_all_codes == 1 + unsalted_counter \div codes_in_row

(* Where ppp_calculate finds the current passcode; column 0 is 'A'. *)
current_card == unsalted_counter \div codes_on_card + 1
current_row == 1 + (unsalted_counter % codes_on_card) \div codes_in_row
current_column == (unsalted_counter % codes_on_card) % codes_in_row

(* The last card is left unused, so that no counter is the mask itself. *)
max_card == ((IF salted THEN CODE_SPACE ELSE FULL_SPACE) - 1)
                \div codes_on_card - 1
max_code == max_card * codes_on_card

(* Mutants: the range check is missing, or takes max_code too. *)
no_range_check == "OK"
range_inclusive ==
    IF counter > MAX_COUNTER THEN "STATE_PARSE_ERROR"
    ELSE IF unsalted_counter > max_code THEN "STATE_NUMSPACE" ELSE "OK"

(* ppp_verify_range.  The first check is of the counter with its salt: the *)
(* keys with one of the 2^32 - 2^28 largest salts cannot be used at all.   *)
ppp_verify_range ==
    IF counter > MAX_COUNTER THEN "STATE_PARSE_ERROR"
    ELSE IF unsalted_counter >= max_code THEN "STATE_NUMSPACE" ELSE "OK"

(* x & salt_mask. *)
SaltOf(x) == x - (x % CODE_SPACE)

(* ppp_add_salt(s, &passcode). *)
ppp_add_salt(passcode) ==
    IF salted THEN (passcode % CODE_SPACE) + SaltOf(counter)
              ELSE passcode

(* Mutant: rows counted from 0 here and from 1 in the prompt. *)
row_from_zero(card, column, row) ==
    (card - 1) * codes_on_card + row * codes_in_row + column

(* ah_get_passcode_number: the passcode at a position of a card. *)
ah_get_passcode_number(card, column, row) ==
    (card - 1) * codes_on_card + (row - 1) * codes_in_row + column

(***************************************************************************)
(* The counter fits its mask: ppp_increment's num_add never runs past the  *)
(* space which the masks leave it.                                         *)
(***************************************************************************)
CardTypeOK == /\ counter \in 0..((IF salted THEN SALTS * CODE_SPACE
                                           ELSE FULL_SPACE) - 1)
              /\ code_length \in 2..16
              /\ salted \in BOOLEAN

(* state_key_generate: counter 0, or a salt alone. *)
CardInit == /\ code_length \in 2..16
            /\ salted \in BOOLEAN
            /\ IF salted THEN \E k \in 0..(SALTS - 1) : counter = k * CODE_SPACE
                         ELSE counter = 0
-----------------------------------------------------------------------------
(* ppp_increment. *)
increment == /\ ppp_verify_range = "OK"
             /\ counter' = counter + 1
             /\ UNCHANGED <<code_length, salted>>

(* Mutant: the salt is not added. *)
skip_unsalted(skip_to) ==
    /\ skip_to < max_code
    /\ counter' = skip_to
    /\ UNCHANGED <<code_length, salted>>

(* ppp_skip. *)
skip(skip_to) == /\ ppp_verify_range = "OK"
                 /\ skip_to < max_code
                 /\ counter' = ppp_add_salt(skip_to)
                 /\ UNCHANGED <<code_length, salted>>

(* ppp_set_int(PPP_FIELD_CODE_LENGTH): the counter stays. *)
set_code_length(len) == /\ code_length' = len
                        /\ UNCHANGED <<counter, salted>>

(* action_skip: the first passcode of a card, or a passcode; here the last. *)
action_skip == \/ \E n \in 1..(max_card + 1) : skip(ah_get_passcode_number(n, 0, 1))
               \/ skip(max_code - 1)

CardNext == \/ increment
            \/ action_skip
            \/ \E len \in 2..16 : set_code_length(len)

CardSpec == CardInit /\ [][CardNext]_cardVars
-----------------------------------------------------------------------------
(***************************************************************************)
(* The library and the utility agree on addresses: the number which        *)
(* ah_get_passcode_number computes from the card, column and row that      *)
(* ppp_calculate shows in the prompt is the counter it started from.       *)
(***************************************************************************)
AddressRoundTrip ==
    ah_get_passcode_number(current_card, current_column, current_row)
        = unsalted_counter

(***************************************************************************)
(* Every passcode that ppp_verify_range lets a user be asked for is on a   *)
(* card that can be printed, at a row and column that the card has.        *)
(***************************************************************************)
OnPrintableCard ==
    ppp_verify_range = "OK" =>
        /\ current_card \in 1..max_card
        /\ current_row \in 1..ROWS_PER_CARD
        /\ current_column \in 0..(codes_in_row - 1)

(***************************************************************************)
(* Authenticating and skipping never touch the salt: no counter carries    *)
(* into it, up to the last passcode, and no skip drops it.                 *)
(***************************************************************************)
SaltKept ==
    [][salted => SaltOf(counter') = SaltOf(counter)]_cardVars

(* The position after this one in reading order. *)
NextPosition ==
    IF current_column < codes_in_row - 1
      THEN <<current_card, current_row, current_column + 1>>
    ELSE IF current_row < ROWS_PER_CARD
      THEN <<current_card, current_row + 1, 0>>
    ELSE <<current_card + 1, 1, 0>>

(***************************************************************************)
(* Passcodes are asked for in reading order: column by column, row by row, *)
(* card by card; none is left out at the end of a row or card.             *)
(***************************************************************************)
ReadingOrder ==
    [][counter' = counter + 1 /\ code_length' = code_length =>
          <<current_card, current_row, current_column>>' = NextPosition]_cardVars
=============================================================================
