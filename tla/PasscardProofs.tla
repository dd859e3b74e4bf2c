--------------------------- MODULE PasscardProofs ---------------------------
(***************************************************************************)
(* Theorems about Passcard, for spaces of every size, 2^32 and 2^120 among *)
(* them, and for every salt.                                               *)
(***************************************************************************)
EXTENDS Passcard, TLAPS

(* The sizes a card can have: the table of ppp_get_codes_per_row. *)
CardRows == {11, 8, 7, 5, 4, 3, 2}

(* A counter of salt k: the salt is kept in the part above code_mask. *)
WithSalt(k, x) == x >= k * CODE_SPACE /\ x < k * CODE_SPACE + CODE_SPACE

(***************************************************************************)
(* The inductive invariant.  CardTypeOK alone is not inductive: a salted   *)
(* counter must be known to leave room below the next salt.                *)
(***************************************************************************)
CardInv == /\ counter \in Nat
           /\ code_length \in 2..16
           /\ salted \in BOOLEAN
           /\ ~salted => counter < FULL_SPACE
           /\ salted => \E k \in 0..(SALTS - 1) : WithSalt(k, counter)

(* Every legal code length has one of the seven row sizes. *)
LEMMA RowSizes == ASSUME code_length \in 2..16
                  PROVE  codes_in_row \in CardRows
BY DEF codes_in_row, ppp_get_codes_per_row, CardRows

(* What the masks keep is a natural number below the space. *)
LEMMA ModRange == ASSUME NEW x \in Nat
                  PROVE  x % CODE_SPACE \in 0..(CODE_SPACE - 1)
BY SpaceAssumption

(* A division by the size of a card, taken apart again, is exact. *)
LEMMA SplitExact ==
    ASSUME NEW u \in Nat, NEW r \in CardRows, NEW n, n = r * ROWS_PER_CARD
    PROVE  /\ n \in Nat \ {0} /\ r \in Nat \ {0}
           /\ u \div n \in Nat
           /\ u % n \in 0..(n - 1)
           /\ n * (u \div n) + (u % n) = u
           /\ (u % n) \div r \in 0..9
           /\ (u % n) % r \in 0..(r - 1)
           /\ r * ((u % n) \div r) + ((u % n) % r) = u % n
<1>1. CASE r = 11
  BY <1>1 DEF ROWS_PER_CARD
<1>2. CASE r = 8
  BY <1>2 DEF ROWS_PER_CARD
<1>3. CASE r = 7
  BY <1>3 DEF ROWS_PER_CARD
<1>4. CASE r = 5
  BY <1>4 DEF ROWS_PER_CARD
<1>5. CASE r = 4
  BY <1>5 DEF ROWS_PER_CARD
<1>6. CASE r = 3
  BY <1>6 DEF ROWS_PER_CARD
<1>7. CASE r = 2
  BY <1>7 DEF ROWS_PER_CARD
<1> QED
  BY <1>1, <1>2, <1>3, <1>4, <1>5, <1>6, <1>7 DEF CardRows

(* x & code_mask of a counter with salt k takes exactly the salt away. *)
LEMMA MaskedSalt ==
    ASSUME NEW k \in Nat, NEW x \in Nat, WithSalt(k, x)
    PROVE  x % CODE_SPACE = x - k * CODE_SPACE
<1> DEFINE C == CODE_SPACE
           q == x \div C
           r == x % C
<1>1. C \in Nat /\ C > 330
  BY SpaceAssumption
<1> HIDE DEF C
<1>2. q \in Nat /\ r \in 0..(C - 1) /\ x = q * C + r
  BY <1>1
<1> HIDE DEF q, r
<1>3. k * C \in Nat /\ q * C \in Nat
  BY <1>1, <1>2
<1>4. k * C <= x /\ x < k * C + C
  BY DEF WithSalt, C
<1>5. ~(q < k)
  <2> SUFFICES ASSUME q < k PROVE FALSE
    OBVIOUS
  <2>1. (k - q) * C >= C
    BY <1>1, <1>2
  <2>2. k * C >= q * C + C
    BY <2>1, <1>1, <1>2
  <2> QED
    BY <2>2, <1>1, <1>2, <1>3, <1>4
<1>6. ~(k < q)
  <2> SUFFICES ASSUME k < q PROVE FALSE
    OBVIOUS
  <2>1. (q - k) * C >= C
    BY <1>1, <1>2
  <2>2. q * C >= k * C + C
    BY <2>1, <1>1, <1>2
  <2> QED
    BY <2>2, <1>1, <1>2, <1>3, <1>4
<1>7. q = k
  BY <1>2, <1>5, <1>6
<1> QED
  BY <1>1, <1>2, <1>3, <1>7 DEF C, r

(* The space of the counter: what is masked off for a salted one. *)
Space == IF salted THEN CODE_SPACE ELSE FULL_SPACE

(* The spare card: max_code stays a whole card below the end of the space. *)
LEMMA SpareCard ==
    ASSUME CardInv
    PROVE  /\ codes_in_row \in CardRows
           /\ codes_on_card \in Nat
           /\ max_card \in Nat \ {0}
           /\ max_code \in Nat \ {0}
           /\ max_code = max_card * codes_on_card
           /\ max_code + codes_on_card <= Space - 1
<1> DEFINE S == Space
           Goal(r) == LET n == r * ROWS_PER_CARD
                          m == (S - 1) \div n - 1
                      IN /\ n \in Nat
                         /\ m \in Nat \ {0}
                         /\ m * n \in Nat \ {0}
                         /\ m * n + n <= S - 1
<1>1. S \in Nat /\ S > 330
  BY SpaceAssumption DEF Space
<1>2. codes_in_row \in CardRows
  BY RowSizes DEF CardInv
<1> HIDE DEF S
<1>3. \A r \in CardRows : Goal(r)
  <2> SUFFICES ASSUME NEW r \in CardRows PROVE Goal(r)
    OBVIOUS
  <2>1. CASE r = 11
    BY <1>1, <2>1 DEF ROWS_PER_CARD
  <2>2. CASE r = 8
    BY <1>1, <2>2 DEF ROWS_PER_CARD
  <2>3. CASE r = 7
    BY <1>1, <2>3 DEF ROWS_PER_CARD
  <2>4. CASE r = 5
    BY <1>1, <2>4 DEF ROWS_PER_CARD
  <2>5. CASE r = 4
    BY <1>1, <2>5 DEF ROWS_PER_CARD
  <2>6. CASE r = 3
    BY <1>1, <2>6 DEF ROWS_PER_CARD
  <2>7. CASE r = 2
    BY <1>1, <2>7 DEF ROWS_PER_CARD
  <2> QED
    BY <2>1, <2>2, <2>3, <2>4, <2>5, <2>6, <2>7 DEF CardRows
<1>4. Goal(codes_in_row)
  BY <1>2, <1>3
<1> QED
  BY <1>2, <1>4 DEF codes_on_card, max_card, max_code, S, Space

(* The counter without its salt: a number of the space. *)
LEMMA UnsaltedInSpace ==
    ASSUME CardInv
    PROVE  unsalted_counter \in Nat /\ unsalted_counter < Space
<1>1. CASE salted
  BY <1>1, ModRange, SpaceAssumption DEF CardInv, unsalted_counter, Space
<1>2. CASE ~salted
  BY <1>2 DEF CardInv, unsalted_counter, Space
<1> QED
  BY <1>1, <1>2

(* Fresh keys, salted or not, start inside the invariant. *)
LEMMA CardInvInit == CardInit => CardInv
<1> SUFFICES ASSUME CardInit PROVE CardInv
  OBVIOUS
<1>1. CASE salted
  <2>1. PICK k \in 0..(SALTS - 1) : counter = k * CODE_SPACE
    BY <1>1 DEF CardInit
  <2>2. k * CODE_SPACE \in Nat
    BY SpaceAssumption
  <2>3. WithSalt(k, counter)
    BY <2>1, <2>2, SpaceAssumption DEF WithSalt
  <2> QED
    BY <1>1, <2>1, <2>2, <2>3 DEF CardInit, CardInv
<1>2. CASE ~salted
  BY <1>2, SpaceAssumption DEF CardInit, CardInv
<1> QED
  BY <1>1, <1>2

(* What ppp_verify_range accepts has a passcode left. *)
LEMMA CodesLeft ==
    ASSUME CardInv, ppp_verify_range = "OK"
    PROVE  unsalted_counter < max_code
<1>1. unsalted_counter \in Nat /\ max_code \in Nat
  BY UnsaltedInSpace, SpareCard
<1>2. ~(unsalted_counter >= max_code)
  BY DEF ppp_verify_range
<1> QED
  BY <1>1, <1>2

(* ppp_increment stays below the next salt and below the mask. *)
LEMMA IncrementKeeps ==
    ASSUME CardInv, increment
    PROVE  CardInv' /\ (salted => SaltOf(counter') = SaltOf(counter))
<1>1. /\ counter' = counter + 1 /\ code_length' = code_length
      /\ salted' = salted /\ unsalted_counter < max_code
  BY CodesLeft DEF increment
<1>2. max_code \in Nat /\ max_code < Space
  BY SpareCard, SpaceAssumption DEF Space
<1>3. CASE salted
  <2>1. PICK k \in 0..(SALTS - 1) : WithSalt(k, counter)
    BY <1>3 DEF CardInv
  <2>2. k \in Nat /\ k * CODE_SPACE \in Nat /\ counter \in Nat /\ CODE_SPACE \in Nat
    BY SpaceAssumption DEF CardInv
  <2>3. counter % CODE_SPACE = counter - k * CODE_SPACE
    BY <2>1, <2>2, MaskedSalt
  <2>4. counter - k * CODE_SPACE < max_code /\ max_code < CODE_SPACE
    BY <1>1, <1>2, <1>3, <2>3 DEF unsalted_counter, Space
  <2>5. WithSalt(k, counter + 1)
    BY <2>1, <2>2, <2>4, <1>2 DEF WithSalt
  <2>6. (counter + 1) % CODE_SPACE = counter + 1 - k * CODE_SPACE
    BY <2>2, <2>5, MaskedSalt
  <2>7. SaltOf(counter') = SaltOf(counter)
    BY <1>1, <2>2, <2>3, <2>6 DEF SaltOf
  <2> QED
    BY <1>1, <1>3, <2>2, <2>5, <2>7 DEF CardInv, WithSalt
<1>4. CASE ~salted
  BY <1>1, <1>2, <1>4, SpaceAssumption DEF CardInv, unsalted_counter, Space
<1> QED
  BY <1>3, <1>4 DEF CardInv

(* ppp_skip to any passcode below max_code keeps the salt it found. *)
LEMMA SkipKeeps ==
    ASSUME CardInv, NEW to \in Nat, skip(to)
    PROVE  CardInv' /\ (salted => SaltOf(counter') = SaltOf(counter))
<1>1. /\ counter' = ppp_add_salt(to) /\ code_length' = code_length
      /\ salted' = salted /\ to < max_code
  BY DEF skip
<1>2. max_code \in Nat /\ max_code < Space
  BY SpareCard, SpaceAssumption DEF Space
<1>3. CASE salted
  <2>1. PICK k \in 0..(SALTS - 1) : WithSalt(k, counter)
    BY <1>3 DEF CardInv
  <2>2. k \in Nat /\ k * CODE_SPACE \in Nat /\ counter \in Nat /\ CODE_SPACE \in Nat
    BY SpaceAssumption DEF CardInv
  <2>3. counter % CODE_SPACE = counter - k * CODE_SPACE
    BY <2>1, <2>2, MaskedSalt
  <2>4. to < CODE_SPACE
    BY <1>1, <1>2, <1>3, <2>2 DEF Space
  <2>5. to % CODE_SPACE = to
    <3>1. 0 * CODE_SPACE = 0
      BY <2>2
    <3> QED
      BY <3>1, <2>2, <2>4, MaskedSalt DEF WithSalt
  <2>6. counter' = to + k * CODE_SPACE
    BY <1>1, <1>3, <2>2, <2>3, <2>5 DEF ppp_add_salt, SaltOf
  <2>7. counter' \in Nat /\ WithSalt(k, counter')
    BY <2>2, <2>4, <2>6 DEF WithSalt
  <2>8. counter' % CODE_SPACE = counter' - k * CODE_SPACE
    BY <2>2, <2>7, MaskedSalt
  <2>9. SaltOf(counter') = SaltOf(counter)
    <3>1. SaltOf(counter) = k * CODE_SPACE
      BY <2>2, <2>3 DEF SaltOf
    <3>2. SaltOf(counter') = k * CODE_SPACE
      BY <2>2, <2>7, <2>8 DEF SaltOf
    <3> QED
      BY <3>1, <3>2
  <2> QED
    BY <1>1, <1>3, <2>7, <2>9 DEF CardInv, WithSalt
<1>4. CASE ~salted
  BY <1>1, <1>2, <1>4, SpaceAssumption DEF CardInv, ppp_add_salt, Space
<1> QED
  BY <1>3, <1>4 DEF CardInv

(* Every step keeps the invariant and the salt. *)
LEMMA CardStep ==
    ASSUME CardInv, CardNext
    PROVE  CardInv' /\ (salted => SaltOf(counter') = SaltOf(counter))
<1>1. CASE increment
  BY <1>1, IncrementKeeps
<1>2. CASE action_skip
  <2>1. /\ codes_on_card \in Nat /\ codes_in_row \in Nat
        /\ max_card \in Nat /\ max_code \in Nat \ {0}
    BY SpareCard DEF CardRows
  <2>2. \A n \in 1..(max_card + 1) : ah_get_passcode_number(n, 0, 1) \in Nat
    BY <2>1 DEF ah_get_passcode_number
  <2>3. max_code - 1 \in Nat
    BY <2>1
  <2> QED
    BY <1>2, <2>2, <2>3, SkipKeeps DEF action_skip
<1>3. ASSUME NEW len \in 2..16, set_code_length(len)
      PROVE  CardInv' /\ (salted => SaltOf(counter') = SaltOf(counter))
  BY <1>3 DEF set_code_length, CardInv, WithSalt, SaltOf
<1> QED
  BY <1>1, <1>2, <1>3 DEF CardNext

(* The invariant holds always, for every size of the spaces. *)
THEOREM CardInvariant == CardSpec => []CardInv
<1>1. CardInv /\ [CardNext]_cardVars => CardInv'
  <2> SUFFICES ASSUME CardInv, [CardNext]_cardVars PROVE CardInv'
    OBVIOUS
  <2>1. CASE CardNext
    BY <2>1, CardStep
  <2>2. CASE UNCHANGED cardVars
    BY <2>2 DEF cardVars, CardInv, WithSalt
  <2> QED
    BY <2>1, <2>2
<1> QED
  BY CardInvInit, <1>1, PTL DEF CardSpec

(* CardTypeOK: the counter fits its mask; the salt never overflows. *)
THEOREM CardTyping == CardSpec => []CardTypeOK
<1>1. CardInv => CardTypeOK
  <2> SUFFICES ASSUME CardInv PROVE CardTypeOK
    OBVIOUS
  <2>1. CASE salted
    <3>1. PICK k \in 0..(SALTS - 1) : WithSalt(k, counter)
      BY <2>1 DEF CardInv
    <3>2. /\ k * CODE_SPACE \in Nat /\ SALTS * CODE_SPACE \in Nat
          /\ CODE_SPACE \in Nat /\ counter \in Nat
      BY SpaceAssumption DEF CardInv
    <3>3. (SALTS - 1 - k) * CODE_SPACE \in Nat
      BY SpaceAssumption
    <3>4. k * CODE_SPACE + CODE_SPACE <= SALTS * CODE_SPACE
      BY <3>3, SpaceAssumption
    <3>5. counter < SALTS * CODE_SPACE
      BY <3>1, <3>2, <3>4 DEF WithSalt
    <3> QED
      BY <2>1, <3>2, <3>5 DEF CardInv, CardTypeOK
  <2>2. CASE ~salted
    BY <2>2, SpaceAssumption DEF CardInv, CardTypeOK
  <2> QED
    BY <2>1, <2>2
<1> QED
  BY CardInvariant, <1>1, PTL

(* The parts of the position that ppp_calculate computes fit together. *)
LEMMA Position ==
    ASSUME CardInv
    PROVE  /\ codes_on_card \in Nat \ {0} /\ codes_in_row \in Nat \ {0}
           /\ current_card \in Nat \ {0}
           /\ current_row \in 1..ROWS_PER_CARD
           /\ current_column \in 0..(codes_in_row - 1)
           /\ unsalted_counter =
                codes_on_card * (current_card - 1)
                  + codes_in_row * (current_row - 1) + current_column
           /\ codes_on_card * (current_card - 1) <= unsalted_counter
<1> DEFINE u == unsalted_counter
           r == codes_in_row
           n == codes_on_card
           q == u \div n
           m == u % n
           a == m \div r
           b == m % r
<1>1. u \in Nat /\ r \in CardRows /\ n = r * ROWS_PER_CARD
  BY UnsaltedInSpace, SpareCard DEF codes_on_card
<1>2. current_card = q + 1 /\ current_row = 1 + a /\ current_column = b
  BY DEF current_card, current_row, current_column
<1> HIDE DEF u, r, n
<1>3. /\ n \in Nat \ {0} /\ r \in Nat \ {0} /\ q \in Nat /\ m \in 0..(n - 1)
      /\ n * q + m = u /\ a \in 0..9 /\ b \in 0..(r - 1) /\ r * a + b = m
  BY <1>1, SplitExact
<1> HIDE DEF q, m, a, b
<1>4. n * q \in Nat /\ r * a \in Nat
  BY <1>3
<1>5. current_card - 1 = q /\ current_row - 1 = a /\ current_column = b
  BY <1>2, <1>3
<1>6. u = n * q + r * a + b /\ n * q <= u
  BY <1>3, <1>4
<1>7. /\ u = n * (current_card - 1) + r * (current_row - 1) + current_column
      /\ n * (current_card - 1) <= u
  BY <1>5, <1>6
<1>8. /\ current_card \in Nat \ {0} /\ current_row \in 1..ROWS_PER_CARD
      /\ current_column \in 0..(r - 1)
  BY <1>2, <1>3 DEF ROWS_PER_CARD
<1> QED
  BY <1>3, <1>7, <1>8 DEF u, r, n

(* AddressRoundTrip: ah_get_passcode_number inverts ppp_calculate. *)
THEOREM CardAddresses == CardSpec => []AddressRoundTrip
<1>1. CardInv => AddressRoundTrip
  <2> SUFFICES ASSUME CardInv PROVE AddressRoundTrip
    OBVIOUS
  <2>1. /\ (current_card - 1) * codes_on_card = codes_on_card * (current_card - 1)
        /\ (current_row - 1) * codes_in_row = codes_in_row * (current_row - 1)
    BY Position DEF ROWS_PER_CARD
  <2> QED
    BY <2>1, Position DEF AddressRoundTrip, ah_get_passcode_number
<1> QED
  BY CardInvariant, <1>1, PTL

(* OnPrintableCard: what may be asked for is on a card that exists. *)
THEOREM CardPrintable == CardSpec => []OnPrintableCard
<1>1. CardInv => OnPrintableCard
  <2> SUFFICES ASSUME CardInv, ppp_verify_range = "OK" PROVE OnPrintableCard
    BY DEF OnPrintableCard
  <2> DEFINE n == codes_on_card
             c == current_card
             m == max_card
  <2>1. n \in Nat \ {0} /\ c \in Nat \ {0} /\ m \in Nat
        /\ n * (c - 1) <= unsalted_counter /\ unsalted_counter < m * n
        /\ unsalted_counter \in Nat
    BY Position, SpareCard, UnsaltedInSpace, CodesLeft DEF max_code
  <2> HIDE DEF n, c, m
  <2>2. ~(m < c)
    <3> SUFFICES ASSUME m < c PROVE FALSE
      OBVIOUS
    <3>1. (c - 1 - m) * n \in Nat /\ m * n \in Nat /\ n * (c - 1) \in Nat
      BY <2>1
    <3>2. m * n <= n * (c - 1)
      BY <3>1, <2>1
    <3> QED
      BY <3>1, <3>2, <2>1
  <2>3. current_card \in 1..max_card
    BY <2>1, <2>2 DEF c, m
  <2> QED
    BY <2>3, Position DEF OnPrintableCard
<1> QED
  BY CardInvariant, <1>1, PTL

(* SaltKept: no increment carries into the salt, no skip drops it. *)
THEOREM CardSaltKept == CardSpec => SaltKept
<1>1. CardInv /\ [CardNext]_cardVars =>
        [salted => SaltOf(counter') = SaltOf(counter)]_cardVars
  BY CardStep
<1> QED
  BY CardInvariant, <1>1, PTL DEF CardSpec, SaltKept

(* The position of passcode u on cards of r columns, and the one after it. *)
CardOf(u, r) == u \div (r * ROWS_PER_CARD) + 1
RowOf(u, r) == 1 + (u % (r * ROWS_PER_CARD)) \div r
ColumnOf(u, r) == (u % (r * ROWS_PER_CARD)) % r

Follows(u, r) ==
    /\ ColumnOf(u, r) < r - 1 =>
          /\ CardOf(u + 1, r) = CardOf(u, r) /\ RowOf(u + 1, r) = RowOf(u, r)
          /\ ColumnOf(u + 1, r) = ColumnOf(u, r) + 1
    /\ ~(ColumnOf(u, r) < r - 1) /\ RowOf(u, r) < ROWS_PER_CARD =>
          /\ CardOf(u + 1, r) = CardOf(u, r)
          /\ RowOf(u + 1, r) = RowOf(u, r) + 1 /\ ColumnOf(u + 1, r) = 0
    /\ ~(ColumnOf(u, r) < r - 1) /\ ~(RowOf(u, r) < ROWS_PER_CARD) =>
          /\ CardOf(u + 1, r) = CardOf(u, r) + 1
          /\ RowOf(u + 1, r) = 1 /\ ColumnOf(u + 1, r) = 0

(* The next number is at the next position, for every size of a card. *)
LEMMA NextOnCard == ASSUME NEW u \in Nat, NEW r \in CardRows
                    PROVE  Follows(u, r)
<1> USE DEF Follows, CardOf, RowOf, ColumnOf, ROWS_PER_CARD
<1>1. CASE r = 11
  BY <1>1
<1>2. CASE r = 8
  BY <1>2
<1>3. CASE r = 7
  BY <1>3
<1>4. CASE r = 5
  BY <1>4
<1>5. CASE r = 4
  BY <1>5
<1>6. CASE r = 3
  BY <1>6
<1>7. CASE r = 2
  BY <1>7
<1> QED
  BY <1>1, <1>2, <1>3, <1>4, <1>5, <1>6, <1>7 DEF CardRows

(* A step that adds one to the counter adds one to what its salt leaves. *)
LEMMA UnsaltedNext ==
    ASSUME CardInv, CardNext, counter' = counter + 1
    PROVE  salted' = salted /\ unsalted_counter' = unsalted_counter + 1
<1>1. salted' = salted
  BY DEF CardNext, increment, action_skip, skip, set_code_length
<1>2. CASE salted
  <2>1. counter' - (counter' % CODE_SPACE) = counter - (counter % CODE_SPACE)
    BY <1>2, CardStep DEF SaltOf
  <2>2. counter \in Nat /\ counter' \in Nat
    BY DEF CardInv
  <2>3. counter % CODE_SPACE \in Nat /\ counter' % CODE_SPACE \in Nat
    BY <2>2, ModRange, SpaceAssumption
  <2>4. counter' % CODE_SPACE = (counter % CODE_SPACE) + 1
    BY <2>1, <2>2, <2>3
  <2> QED
    BY <1>1, <1>2, <2>4 DEF unsalted_counter
<1>3. CASE ~salted
  BY <1>1, <1>3 DEF unsalted_counter
<1> QED
  BY <1>2, <1>3

(* ReadingOrder: the next passcode is at the next position of the card. *)
THEOREM CardReading == CardSpec => ReadingOrder
<1> DEFINE u == unsalted_counter
           r == codes_in_row
<1>1. ASSUME CardInv, CardNext, counter' = counter + 1,
             code_length' = code_length
      PROVE  <<current_card, current_row, current_column>>' = NextPosition
  <2>1. u \in Nat /\ r \in CardRows
    BY <1>1, UnsaltedInSpace, SpareCard
  <2>2. u' = u + 1 /\ r' = r
    BY <1>1, UnsaltedNext DEF codes_in_row
  <2>3. /\ current_card = CardOf(u, r) /\ current_row = RowOf(u, r)
        /\ current_column = ColumnOf(u, r)
    BY DEF current_card, current_row, current_column, codes_on_card,
           CardOf, RowOf, ColumnOf
  <2>4. /\ current_card' = CardOf(u', r') /\ current_row' = RowOf(u', r')
        /\ current_column' = ColumnOf(u', r')
    BY DEF current_card, current_row, current_column, codes_on_card,
           CardOf, RowOf, ColumnOf
  <2>5. Follows(u, r)
    BY <2>1, NextOnCard
  <2> HIDE DEF u
  <2>6. /\ current_card' = CardOf(u + 1, r) /\ current_row' = RowOf(u + 1, r)
        /\ current_column' = ColumnOf(u + 1, r)
    BY <2>2, <2>4
  <2> QED
    BY <2>3, <2>5, <2>6 DEF Follows, NextPosition
<1>2. CardInv /\ [CardNext]_cardVars =>
        [counter' = counter + 1 /\ code_length' = code_length =>
           <<current_card, current_row, current_column>>' = NextPosition]_cardVars
  BY <1>1
<1> QED
  BY CardInvariant, <1>2, PTL DEF CardSpec, ReadingOrder
=============================================================================
