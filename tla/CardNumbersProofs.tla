------------------------- MODULE CardNumbersProofs --------------------------
(***************************************************************************)
(* Theorems about Num and CardNumbers, for words of every width: each      *)
(* operation of num.c computes what its name says and notices what does    *)
(* not fit, and cards, passcodes and printed numbers are what Passcard     *)
(* takes them for.                                                         *)
(***************************************************************************)
EXTENDS CardNumbers, PasscardProofs, SequenceTheorems, WellFoundedInduction

(* A set of numbers that is not empty has a least one. *)
LEMMA LeastNat ==
  ASSUME NEW T, T \subseteq Nat, T # {}
  PROVE  \E x \in T : \A y \in T : x <= y
<1> DEFINE R == OpToRel(<, Nat)
<1>1. IsWellFoundedOn(R, Nat)
  BY NatLessThanWellFounded
<1>2. \A x, y \in Nat : y < x => <<y, x>> \in R
  BY DEF OpToRel
<1> HIDE DEF R
<1>3. PICK x \in T : \A y \in T : ~ (<<y, x>> \in R)
  BY <1>1, WFMin
<1>4. ASSUME NEW y \in T  PROVE x <= y
  <2>1. ~ (y < x)
    BY <1>2, <1>3
  <2> QED  BY <2>1
<1> QED  BY <1>4

(* Induction over the turns of a loop, as a lemma about a set of numbers. *)
LEMMA TurnInduction ==
  ASSUME NEW n \in Nat, NEW T, 0 \in T, \A i \in 1..n : i - 1 \in T => i \in T
  PROVE  \A i \in 0..n : i \in T
<1> SUFFICES ASSUME (0..n) \ T # {}  PROVE FALSE
  OBVIOUS
<1> DEFINE U == (0..n) \ T
<1>0. U \subseteq Nat /\ U # {}
  OBVIOUS
<1> HIDE DEF U
<1>1. PICK x \in U : \A y \in U : x <= y
  BY <1>0, LeastNat
<1> USE DEF U
<1>2. x \in 1..n /\ x - 1 \in 0..n /\ ~(x <= x - 1)
  BY <1>1
<1> QED
  BY <1>1, <1>2

(* A loop whose turns stay in a set of states is defined. *)
TurnsStay(g, S, n) == \A t \in S, i \in 1..n : g[<<t, i>>] \in S

RunOf(g, first, n, f) == /\ f[0] = first
                         /\ \A i \in 1..n : f[i] = g[<<f[i - 1], i>>]

(* Such a loop goes through a sequence of states of the set. *)
LEMMA LoopDefined ==
  ASSUME NEW n \in Nat, NEW S, NEW first \in S, NEW g, TurnsStay(g, S, n)
  PROVE  \E f \in [0..n -> S] : RunOf(g, first, n, f)
<1> DEFINE Upto(m, f) == /\ f[0] = first
                         /\ \A i \in 1..m : f[i] = g[<<f[i - 1], i>>]
           T == {m \in 0..n : \E f \in [0..m -> S] : Upto(m, f)}
<1> USE DEF TurnsStay, RunOf
<1>1. 0 \in T
  <2> DEFINE f == [i \in 0..0 |-> first]
  <2>1. f \in [0..0 -> S] /\ Upto(0, f)
    OBVIOUS
  <2> HIDE DEF f
  <2> QED  BY <2>1
<1>2. ASSUME NEW m \in 1..n, m - 1 \in T  PROVE m \in T
  <2>1. PICK f \in [0..(m - 1) -> S] : Upto(m - 1, f)
    BY <1>2
  <2> DEFINE h == [i \in 0..m |-> IF i = m THEN g[<<f[m - 1], m>>] ELSE f[i]]
  <2>2. f[m - 1] \in S /\ g[<<f[m - 1], m>>] \in S
    <3>1. m - 1 \in 0..(m - 1)
      OBVIOUS
    <3>2. f[m - 1] \in S
      BY <3>1
    <3> QED  BY <3>2
  <2>3. h \in [0..m -> S]
    <3>1. \A i \in 0..m : i # m => i \in 0..(m - 1)
      OBVIOUS
    <3> QED  BY <2>2, <3>1
  <2>4. h[m] = g[<<f[m - 1], m>>] /\ \A i \in 0..(m - 1) : h[i] = f[i]
    OBVIOUS
  <2> HIDE DEF h
  <2>5. h[0] = first
    BY <2>1, <2>4
  <2>6. ASSUME NEW i \in 1..m  PROVE h[i] = g[<<h[i - 1], i>>]
    <3>1. i - 1 \in 0..(m - 1) /\ h[i - 1] = f[i - 1]
      BY <2>4
    <3>2. CASE i = m
      BY <3>1, <3>2, <2>4
    <3>3. CASE i # m
      <4>1. i \in 1..(m - 1) /\ i \in 0..(m - 1)
        BY <3>3
      <4> QED  BY <4>1, <3>1, <2>1, <2>4
    <3> QED  BY <3>2, <3>3
  <2> QED  BY <2>3, <2>5, <2>6
<1>3. n \in T
  <2>1. \A i \in 1..n : i - 1 \in T => i \in T
    BY <1>2
  <2>2. 0 \in 0..n /\ n \in 0..n
    OBVIOUS
  <2> HIDE DEF T
  <2> QED  BY <1>1, <2>1, <2>2, TurnInduction
<1> QED
  BY <1>3

(* What such a loop goes through are states of the set. *)
LEMMA LoopStates ==
  ASSUME NEW n \in Nat, NEW S, NEW first \in S, NEW g, TurnsStay(g, S, n),
         NEW f, f[0] = first,
         \A i \in 1..n : f[i - 1] \in S => f[i] = g[<<f[i - 1], i>>]
  PROVE  \A i \in 0..n : f[i] \in S
<1> DEFINE T == {i \in 0..n : f[i] \in S}
<1>1. 0 \in T
  OBVIOUS
<1>2. ASSUME NEW i \in 1..n, i - 1 \in T  PROVE i \in T
  <2>1. f[i - 1] \in S
    BY <1>2
  <2>2. f[i] = g[<<f[i - 1], i>>]
    BY <2>1
  <2>3. g[<<f[i - 1], i>>] \in S
    BY <2>1 DEF TurnsStay
  <2> QED  BY <2>2, <2>3
<1> HIDE DEF T
<1>3. \A i \in 0..n : i \in T
  BY <1>1, <1>2, TurnInduction
<1> QED
  BY <1>3 DEF T

-----------------------------------------------------------------------------
(***************************************************************************)
(* Powers.                                                                 *)
(***************************************************************************)
Powers(b, n, p) == p = [i \in 0..n |-> IF i = 0 THEN 1 ELSE b * p[i - 1]]

(* The function Power is the one its equations describe. *)
LEMMA PowersDefined ==
  ASSUME NEW b \in Nat, NEW n \in Nat
  PROVE  \E p \in [0..n -> Nat] : Powers(b, n, p) /\ Power(b, n) = p[n]
<1> DEFINE g == [q \in Nat \X (1..n) |-> b * q[1]]
           P == CHOOSE p : Powers(b, n, p)
<1>1. \A t \in Nat, i \in 1..n : g[<<t, i>>] = b * t
  OBVIOUS
<1>0. 1 \in Nat /\ TurnsStay(g, Nat, n)
  <2> HIDE DEF g
  <2> QED  BY <1>1 DEF TurnsStay
<1> HIDE DEF g, P
<1>2. PICK f \in [0..n -> Nat] : RunOf(g, 1, n, f)
  BY <1>0, LoopDefined
<1>3. \A i \in 0..n : f[i] = IF i = 0 THEN 1 ELSE b * f[i - 1]
  <2> SUFFICES ASSUME NEW i \in 0..n, i # 0  PROVE f[i] = b * f[i - 1]
    BY <1>2 DEF RunOf
  <2>1. i \in 1..n /\ i - 1 \in 0..n /\ f[i - 1] \in Nat
    OBVIOUS
  <2> QED  BY <2>1, <1>1, <1>2 DEF RunOf
<1>4. Powers(b, n, f)
  BY <1>3 DEF Powers
<1>5. Powers(b, n, P)
  BY <1>4 DEF P
<1>6. Power(b, n) = P[n]
  BY DEF Power, Powers, P
<1>7. \A i \in 0..n : P[i] = IF i = 0 THEN 1 ELSE b * P[i - 1]
  BY <1>5 DEF Powers
<1>8. \A i \in 0..n : P[i] \in Nat
  <2> DEFINE T == {i \in 0..n : P[i] \in Nat}
  <2>1. 0 \in T
    BY <1>7
  <2>2. \A i \in 1..n : i - 1 \in T => i \in T
    BY <1>7
  <2> HIDE DEF T
  <2>3. \A i \in 0..n : i \in T
    BY <2>1, <2>2, TurnInduction
  <2> QED  BY <2>3 DEF T
<1>9. P \in [0..n -> Nat]
  <2>1. P = [i \in 0..n |-> P[i]]
    BY <1>5 DEF Powers
  <2> QED  BY <2>1, <1>8
<1> QED
  BY <1>5, <1>6, <1>9

(* b^0 = 1 and b^(n+1) = b * b^n. *)
LEMMA PowerNext ==
  ASSUME NEW b \in Nat, NEW n \in Nat
  PROVE  /\ Power(b, n) \in Nat
         /\ Power(b, 0) = 1
         /\ Power(b, n + 1) = b * Power(b, n)
<1>0. n + 1 \in Nat /\ 0 \in Nat
  OBVIOUS
<1>1. PICK p \in [0..n -> Nat] : Powers(b, n, p) /\ Power(b, n) = p[n]
  BY PowersDefined
<1>2. PICK q \in [0..(n + 1) -> Nat] : Powers(b, n + 1, q) /\ Power(b, n + 1) = q[n + 1]
  BY <1>0, PowersDefined
<1>3. PICK z \in [0..0 -> Nat] : Powers(b, 0, z) /\ Power(b, 0) = z[0]
  BY <1>0, PowersDefined
<1>4. \A i \in 0..n : p[i] = IF i = 0 THEN 1 ELSE b * p[i - 1]
  BY <1>1 DEF Powers
<1>5. \A i \in 0..(n + 1) : q[i] = IF i = 0 THEN 1 ELSE b * q[i - 1]
  BY <1>2 DEF Powers
<1>6. z[0] = 1
  BY <1>3 DEF Powers
<1> DEFINE T == {i \in 0..n : p[i] = q[i]}
<1>7. 0 \in T
  BY <1>4, <1>5
<1>8. \A i \in 1..n : i - 1 \in T => i \in T
  BY <1>4, <1>5
<1> HIDE DEF T
<1>9. \A i \in 0..n : i \in T
  BY <1>7, <1>8, TurnInduction
<1>10. p[n] = q[n]
  BY <1>9 DEF T
<1>11. q[n + 1] = b * q[n]
  BY <1>5
<1> QED
  BY <1>1, <1>2, <1>3, <1>6, <1>10, <1>11

(* Powers are positive, and exponents add up. *)
LEMMA PowerSum ==
  ASSUME NEW b \in Nat \ {0}, NEW m \in Nat, NEW n \in Nat
  PROVE  /\ Power(b, m) \in Nat \ {0}
         /\ Power(b, m + n) = Power(b, m) * Power(b, n)
<1> DEFINE T == {i \in 0..m : Power(b, i) \in Nat \ {0}}
           U == {i \in 0..n : Power(b, m + i) = Power(b, m) * Power(b, i)}
<1>1. \A i \in 1..m : i - 1 \in T => i \in T
  <2> SUFFICES ASSUME NEW i \in 1..m, i - 1 \in T  PROVE i \in T
    OBVIOUS
  <2> DEFINE q == Power(b, i - 1)
  <2>1. (i - 1) + 1 = i /\ i - 1 \in Nat
    OBVIOUS
  <2>2. Power(b, i) = b * q
    BY <2>1, PowerNext
  <2>3. q \in Nat \ {0}
    OBVIOUS
  <2> HIDE DEF q
  <2>4. b * q \in Nat \ {0}
    BY <2>3
  <2> QED  BY <2>2, <2>4
<1>2. \A i \in 1..n : i - 1 \in U => i \in U
  <2> SUFFICES ASSUME NEW i \in 1..n, i - 1 \in U  PROVE i \in U
    OBVIOUS
  <2> DEFINE q == Power(b, i - 1)
             p == Power(b, m)
  <2>1. (i - 1) + 1 = i /\ i - 1 \in Nat /\ (m + (i - 1)) + 1 = m + i /\ m + (i - 1) \in Nat
    OBVIOUS
  <2>2. Power(b, i) = b * q /\ Power(b, m + i) = b * Power(b, m + (i - 1))
    BY <2>1, PowerNext
  <2>3. q \in Nat /\ p \in Nat
    BY <2>1, PowerNext
  <2>4. Power(b, m + (i - 1)) = p * q
    OBVIOUS
  <2> HIDE DEF q, p
  <2>5. b * (p * q) = p * (b * q)
    BY <2>3
  <2> QED  BY <2>2, <2>4, <2>5 DEF p
<1>3. 0 \in T /\ 0 \in U
  <2>1. Power(b, 0) = 1 /\ Power(b, m) \in Nat /\ m + 0 = m
    BY PowerNext
  <2> QED  BY <2>1
<1> HIDE DEF T, U
<1>4. m \in T /\ n \in U
  <2>1. m \in 0..m /\ n \in 0..n
    OBVIOUS
  <2> QED  BY <1>1, <1>2, <1>3, <2>1, TurnInduction
<1> QED
  BY <1>4 DEF T, U

(* The powers of two count something. *)
LEMMA TwoPower == \A n \in Nat : Power(2, n) \in Nat \ {0}
<1> SUFFICES ASSUME NEW n \in Nat  PROVE Power(2, n) \in Nat \ {0}
  OBVIOUS
<1> DEFINE b == 2
<1>1. b \in Nat \ {0}
  OBVIOUS
<1> HIDE DEF b
<1>2. Power(b, n) \in Nat \ {0}
  BY <1>1, PowerSum
<1> QED
  BY <1>2 DEF b

(* One exponent more, twice the power. *)
LEMMA TwoNext == \A m, n \in Nat : n = m + 1 => Power(2, n) = 2 * Power(2, m)
BY PowerNext

(* Exponents of two add up. *)
LEMMA TwoSum ==
  \A m, n, k \in Nat : k = m + n => Power(2, k) = Power(2, m) * Power(2, n)
<1> SUFFICES ASSUME NEW m \in Nat, NEW n \in Nat
             PROVE  Power(2, m + n) = Power(2, m) * Power(2, n)
  OBVIOUS
<1> DEFINE b == 2
<1>1. b \in Nat \ {0}
  OBVIOUS
<1> HIDE DEF b
<1>2. Power(b, m + n) = Power(b, m) * Power(b, n)
  BY <1>1, PowerSum
<1> QED
  BY <1>2 DEF b

(* A larger exponent, a power at least as large. *)
LEMMA PowerGrows ==
  ASSUME NEW b \in Nat \ {0}, NEW m \in Nat, NEW n \in Nat, m <= n
  PROVE  /\ Power(b, n) = Power(b, m) * Power(b, n - m)
         /\ Power(b, m) <= Power(b, n)
<1> DEFINE k == n - m
           p == Power(b, m)
           q == Power(b, k)
<1>1. k \in Nat /\ m + k = n
  OBVIOUS
<1> HIDE DEF k
<1>0. q \in Nat \ {0}
  BY <1>1, PowerSum
<1>2. Power(b, n) = p * q /\ p \in Nat \ {0} /\ q \in Nat \ {0}
  BY <1>0, <1>1, PowerSum
<1> HIDE DEF p, q
<1>3. p * q >= p
  BY <1>2
<1> QED
  BY <1>2, <1>3 DEF p, q, k

-----------------------------------------------------------------------------
(***************************************************************************)
(* Quotients, remainders and words.                                        *)
(***************************************************************************)
(* A division, taken apart again. *)
LEMMA DivParts ==
  ASSUME NEW x \in Int, NEW d \in Nat \ {0}
  PROVE  /\ x \div d \in Int /\ (x >= 0 => x \div d \in Nat)
         /\ x % d \in 0..(d - 1)
         /\ x = d * (x \div d) + (x % d)
OBVIOUS

(* Quotient and remainder are the only numbers that fit together so. *)
LEMMA DivIs ==
  ASSUME NEW x \in Int, NEW d \in Nat \ {0}, NEW q \in Int, NEW r \in 0..(d - 1),
         x = d * q + r
  PROVE  x \div d = q /\ x % d = r
<1> DEFINE k == x \div d
           s == x % d
<1>1. k \in Int /\ s \in 0..(d - 1) /\ d * q + r = d * k + s
  BY DivParts
<1> HIDE DEF k, s
<1>2. d * (q - k) = s - r
  BY <1>1
<1>3. ~(q - k >= 1)
  <2> SUFFICES ASSUME q - k >= 1  PROVE FALSE
    OBVIOUS
  <2>1. d * (q - k) >= d
    BY <1>1
  <2> QED  BY <1>1, <1>2, <2>1
<1>4. ~(k - q >= 1)
  <2> SUFFICES ASSUME k - q >= 1  PROVE FALSE
    OBVIOUS
  <2>1. d * (k - q) >= d
    BY <1>1
  <2>2. d * (k - q) = r - s
    BY <1>1, <1>2
  <2> QED  BY <1>1, <2>1, <2>2
<1>5. q = k
  BY <1>1, <1>3, <1>4
<1>6. r = s
  BY <1>1, <1>5
<1> QED
  BY <1>5, <1>6 DEF k, s

Word == 0..(WORD - 1)
Nums == [hi : Word, lo : Word]

(* A word is twice its first bit, and two words have BITS bits. *)
LEMMA WordFacts ==
  /\ WORD \in Nat /\ TOP \in Nat /\ WORD = 2 * TOP /\ TOP >= 8
  /\ BITS \in Nat /\ W \in Nat
  /\ WORD * WORD \in Nat \ {0} /\ Power(2, BITS) = WORD * WORD
<1>1. W \in Nat /\ W >= 4 /\ W - 1 \in Nat /\ (W - 1) + 1 = W /\ BITS = W + W
  BY WordAssumption DEF BITS
<1>2. WORD = 2 * TOP /\ TOP \in Nat
  BY <1>1, PowerNext DEF WORD, TOP
<1>3. Power(2, 3) = 8
  <2>1. Power(2, 0) = 1 /\ Power(2, 0 + 1) = 2 * Power(2, 0)
        /\ Power(2, 1 + 1) = 2 * Power(2, 1) /\ Power(2, 2 + 1) = 2 * Power(2, 2)
    BY PowerNext
  <2> QED  BY <2>1
<1>4. TOP >= 8
  <2>1. Power(2, 3) <= Power(2, W - 1)
    BY <1>1, PowerGrows
  <2> QED  BY <1>3, <2>1 DEF TOP
<1>5. Power(2, BITS) = WORD * WORD
  <2>1. Power(2, W + W) = Power(2, W) * Power(2, W)
    BY <1>1, PowerSum
  <2> QED  BY <1>1, <2>1 DEF WORD
<1>6. WORD * WORD \in Nat \ {0}
  BY <1>2, <1>4
<1> QED
  BY <1>1, <1>2, <1>4, <1>5, <1>6

(* The value of two words, and two words for a value. *)
LEMMA ValueRange ==
  ASSUME NEW n \in Nums
  PROVE  /\ n.hi \in Word /\ n.lo \in Word
         /\ Value(n) \in 0..(WORD * WORD - 1)
         /\ Limbs(Value(n)) = n
<1> DEFINE h == n.hi
           l == n.lo
<1>1. h \in Word /\ l \in Word /\ n = [hi |-> h, lo |-> l]
  BY DEF Nums
<1> HIDE DEF h, l
<1>2. WORD \in Nat \ {0} /\ h \in Nat /\ l \in 0..(WORD - 1)
  BY <1>1, WordFacts DEF Word
<1>3. Value(n) = WORD * h + l /\ WORD * h + l \in Nat
  BY <1>1, <1>2 DEF Value
<1>4. WORD * h <= WORD * (WORD - 1)
  <2>1. WORD - 1 - h \in Nat
    BY <1>1, <1>2 DEF Word
  <2>2. WORD * (WORD - 1 - h) >= 0
    BY <1>2, <2>1
  <2> QED  BY <1>2, <2>2
<1>5. WORD * h + l <= WORD * WORD - 1
  BY <1>2, <1>4
<1>6. Value(n) \div WORD = h /\ Value(n) % WORD = l
  <2>1. Value(n) \in Int /\ h \in Int
    BY <1>2, <1>3
  <2> QED  BY <1>2, <1>3, <2>1, DivIs
<1>7. Limbs(Value(n)) = n
  BY <1>1, <1>6 DEF Limbs
<1>8. Value(n) \in 0..(WORD * WORD - 1)
  <2>1. WORD * WORD \in Nat
    BY WordFacts
  <2> QED  BY <1>3, <1>5, <2>1
<1> QED
  BY <1>1, <1>7, <1>8 DEF h, l

(* Two words hold every number below their space. *)
LEMMA LimbsRange ==
  ASSUME NEW x \in 0..(WORD * WORD - 1)
  PROVE  Limbs(x) \in Nums /\ Value(Limbs(x)) = x
<1> DEFINE h == x \div WORD
           l == x % WORD
<1>1. WORD \in Nat \ {0} /\ x \in Nat /\ x < WORD * WORD /\ x \in Int /\ x >= 0
  BY WordFacts
<1>2. h \in Nat /\ l \in 0..(WORD - 1) /\ x = WORD * h + l
  BY <1>1, DivParts
<1> HIDE DEF h, l
<1>3. h < WORD
  <2> SUFFICES ASSUME h >= WORD  PROVE FALSE
    BY <1>1, <1>2
  <2>1. WORD * h >= WORD * WORD
    <3>1. WORD * (h - WORD) >= 0
      BY <1>1, <1>2
    <3> QED  BY <1>1, <1>2, <3>1
  <2>2. WORD * h \in Nat /\ WORD * WORD \in Nat
    BY <1>1, <1>2
  <2> QED  BY <1>1, <1>2, <2>1, <2>2
<1>4. Limbs(x) = [hi |-> h, lo |-> l]
  BY DEF Limbs, h, l
<1>5. Limbs(x) \in Nums
  BY <1>1, <1>2, <1>3, <1>4 DEF Nums, Word
<1> QED
  BY <1>1, <1>2, <1>4, <1>5 DEF Value

(* A number is the two words of its value. *)
LEMMA NumIs ==
  ASSUME NEW n \in Nums, NEW x, Value(n) = x
  PROVE  n = Limbs(x)
BY ValueRange

(* A word as a number of two words. *)
LEMMA NumOf ==
  ASSUME NEW x \in Word
  PROVE  num_i(x) \in Nums /\ Value(num_i(x)) = x
<1>1. WORD \in Nat \ {0} /\ 0 \in Word /\ x \in Nat
  BY WordFacts DEF Word
<1>2. num_i(x) = [hi |-> 0, lo |-> x]
  BY DEF num_i, num_ii
<1> QED
  BY <1>1, <1>2 DEF Nums, Value

-----------------------------------------------------------------------------
(***************************************************************************)
(* The operations of num.c on two words.                                   *)
(***************************************************************************)
(* num_add: the sum, or the sum without what does not fit, and which.      *)
THEOREM AddValue ==
  ASSUME NEW a \in Nums, NEW b \in Nums
  PROVE  LET s == num_add(a, b)
         IN /\ s = Result(s.n, s.overflow)
            /\ s.n \in Nums /\ s.overflow \in BOOLEAN
            /\ s.overflow <=> Value(a) + Value(b) >= WORD * WORD
            /\ s.overflow => Value(s.n) = Value(a) + Value(b) - WORD * WORD
            /\ ~s.overflow => Value(s.n) = Value(a) + Value(b)
<1> DEFINE ah == a.hi
           al == a.lo
           bh == b.hi
           bl == b.lo
           lo == (al + bl) % WORD
           hi == (ah + bh) % WORD
           up == (hi + 1) % WORD
<1>1. WORD \in Nat /\ WORD >= 16 /\ ah \in 0..(WORD - 1) /\ al \in 0..(WORD - 1)
      /\ bh \in 0..(WORD - 1) /\ bl \in 0..(WORD - 1)
  BY WordFacts, ValueRange DEF Word
<1>2. /\ Value(a) = ah * WORD + al
      /\ Value(b) = bh * WORD + bl
  BY DEF Value
<1>3. num_add(a, b) =
        IF lo < al THEN Result([hi |-> up, lo |-> lo], hi < ah \/ up < 1)
                   ELSE Result([hi |-> hi, lo |-> lo], hi < ah)
  BY DEF num_add, num_ii
<1> HIDE DEF ah, al, bh, bl
<1>4. \/ al + bl < WORD /\ lo = al + bl /\ ~(lo < al)
      \/ al + bl >= WORD /\ lo = al + bl - WORD /\ lo < al
  BY <1>1
<1>5. \/ ah + bh < WORD /\ hi = ah + bh /\ ~(hi < ah)
      \/ ah + bh >= WORD /\ hi = ah + bh - WORD /\ hi < ah
  BY <1>1
<1>6. \/ hi + 1 < WORD /\ up = hi + 1 /\ ~(up < 1)
      \/ hi + 1 = WORD /\ up = 0
  <2>1. hi \in 0..(WORD - 1)
    BY <1>1
  <2> HIDE DEF hi
  <2> QED  BY <1>1, <2>1
<1>7. lo \in 0..(WORD - 1) /\ hi \in 0..(WORD - 1) /\ up \in 0..(WORD - 1)
  BY <1>1, <1>4, <1>5, <1>6
<1> HIDE DEF lo, hi, up
<1> DEFINE c == lo < al
           o == IF c THEN hi < ah \/ up < 1 ELSE hi < ah
           H == IF c THEN up ELSE hi
           L == lo
<1>8. /\ H \in 0..(WORD - 1) /\ L \in 0..(WORD - 1) /\ o \in BOOLEAN /\ c \in BOOLEAN
      /\ L = al + bl - (IF c THEN WORD ELSE 0)
      /\ H = ah + bh + (IF c THEN 1 ELSE 0) - (IF o THEN WORD ELSE 0)
  <2>1. o \in BOOLEAN /\ c \in BOOLEAN
    <3>1. (lo < al) \in BOOLEAN /\ (hi < ah) \in BOOLEAN /\ (hi < ah \/ up < 1) \in BOOLEAN
      OBVIOUS
    <3> QED  BY <3>1, Zenon
  <2>2. H \in 0..(WORD - 1) /\ L \in 0..(WORD - 1) /\ L = al + bl - (IF c THEN WORD ELSE 0)
    BY <1>1, <1>4, <1>7
  <2>3. CASE c
    <3>1. hi < ah \/ up < 1 <=> ah + bh + 1 >= WORD
      BY <1>1, <1>5, <1>6
    <3>2. up = ah + bh + 1 - (IF ah + bh + 1 >= WORD THEN WORD ELSE 0)
      BY <1>1, <1>5, <1>6
    <3> QED  BY <2>1, <2>2, <2>3, <3>1, <3>2
  <2>4. CASE ~c
    BY <1>1, <1>5, <2>1, <2>2, <2>4
  <2> QED  BY <2>3, <2>4
<1>15. num_add(a, b) = Result([hi |-> H, lo |-> L], o)
  BY <1>3
<1> HIDE DEF c, o, H, L
<1> DEFINE n == [hi |-> H, lo |-> L]
<1>9. n \in Nums /\ Value(n) = H * WORD + L /\ Value(n) \in 0..(WORD * WORD - 1)
  <2>1. n \in Nums /\ Value(n) = H * WORD + L
    BY <1>8 DEF Nums, Value, Word
  <2> QED  BY <2>1, ValueRange
<1>10. /\ o => Value(n) = Value(a) + Value(b) - WORD * WORD
       /\ ~o => Value(n) = Value(a) + Value(b)
  <2>1. CASE c /\ o
    BY <1>1, <1>2, <1>8, <1>9, <2>1
  <2>2. CASE c /\ ~o
    BY <1>1, <1>2, <1>8, <1>9, <2>2
  <2>3. CASE ~c /\ o
    BY <1>1, <1>2, <1>8, <1>9, <2>3
  <2>4. CASE ~c /\ ~o
    BY <1>1, <1>2, <1>8, <1>9, <2>4
  <2> QED  BY <2>1, <2>2, <2>3, <2>4
<1>11. Value(a) \in Nat /\ Value(b) \in Nat /\ WORD * WORD \in Nat
  <2>1. Value(a) \in 0..(WORD * WORD - 1) /\ Value(b) \in 0..(WORD * WORD - 1)
    BY ValueRange
  <2> QED  BY <2>1, WordFacts
<1> HIDE DEF n
<1>12. o <=> Value(a) + Value(b) >= WORD * WORD
  BY <1>9, <1>10, <1>11
<1>13. num_add(a, b) = Result(n, o)
  BY <1>15 DEF n
<1>14. Result(n, o).n = n /\ Result(n, o).overflow = o
  BY DEF Result
<1> QED
  BY <1>8, <1>9, <1>10, <1>12, <1>13, <1>14

(* num_sub: the difference, or what a borrow from outside makes of it. *)
THEOREM SubValue ==
  ASSUME NEW a \in Nums, NEW b \in Nums
  PROVE  LET s == num_sub(a, b)
         IN /\ s = Result(s.n, s.overflow)
            /\ s.n \in Nums /\ s.overflow \in BOOLEAN
            /\ s.overflow <=> Value(a) < Value(b)
            /\ s.overflow => Value(s.n) = Value(a) - Value(b) + WORD * WORD
            /\ ~s.overflow => Value(s.n) = Value(a) - Value(b)
<1> DEFINE ah == a.hi
           al == a.lo
           bh == b.hi
           bl == b.lo
           lo == (al - bl) % WORD
           hi == (ah - bh) % WORD
           down == (hi - 1) % WORD
<1>1. WORD \in Nat /\ WORD >= 16 /\ ah \in 0..(WORD - 1) /\ al \in 0..(WORD - 1)
      /\ bh \in 0..(WORD - 1) /\ bl \in 0..(WORD - 1)
  BY WordFacts, ValueRange DEF Word
<1>2. /\ Value(a) = ah * WORD + al
      /\ Value(b) = bh * WORD + bl
  BY DEF Value
<1>3. num_sub(a, b) =
        IF lo > al THEN Result([hi |-> down, lo |-> lo], hi > ah \/ down > hi)
                   ELSE Result([hi |-> hi, lo |-> lo], hi > ah)
  BY DEF num_sub, num_ii
<1> HIDE DEF ah, al, bh, bl
<1>4. \/ al >= bl /\ lo = al - bl /\ ~(lo > al)
      \/ al < bl /\ lo = al - bl + WORD /\ lo > al
  BY <1>1
<1>5. \/ ah >= bh /\ hi = ah - bh /\ ~(hi > ah)
      \/ ah < bh /\ hi = ah - bh + WORD /\ hi > ah
  BY <1>1
<1>6. \/ hi >= 1 /\ down = hi - 1 /\ ~(down > hi)
      \/ hi = 0 /\ down = WORD - 1 /\ down > hi
  <2>1. hi \in 0..(WORD - 1)
    BY <1>1
  <2> HIDE DEF hi
  <2> QED  BY <1>1, <2>1
<1>7. lo \in 0..(WORD - 1) /\ hi \in 0..(WORD - 1) /\ down \in 0..(WORD - 1)
  BY <1>1, <1>4, <1>5, <1>6
<1> HIDE DEF lo, hi, down
<1> DEFINE c == lo > al
           o == IF c THEN hi > ah \/ down > hi ELSE hi > ah
           H == IF c THEN down ELSE hi
           L == lo
<1>8. /\ H \in 0..(WORD - 1) /\ L \in 0..(WORD - 1) /\ o \in BOOLEAN /\ c \in BOOLEAN
      /\ L = al - bl + (IF c THEN WORD ELSE 0)
      /\ H = ah - bh - (IF c THEN 1 ELSE 0) + (IF o THEN WORD ELSE 0)
  <2>1. o \in BOOLEAN /\ c \in BOOLEAN
    <3>1. (lo > al) \in BOOLEAN /\ (hi > ah) \in BOOLEAN /\ (hi > ah \/ down > hi) \in BOOLEAN
      OBVIOUS
    <3> QED  BY <3>1, Zenon
  <2>2. H \in 0..(WORD - 1) /\ L \in 0..(WORD - 1) /\ L = al - bl + (IF c THEN WORD ELSE 0)
    BY <1>1, <1>4, <1>7
  <2>3. CASE c
    <3>1. hi > ah \/ down > hi <=> ah - bh - 1 < 0
      BY <1>1, <1>5, <1>6
    <3>2. down = ah - bh - 1 + (IF ah - bh - 1 < 0 THEN WORD ELSE 0)
      BY <1>1, <1>5, <1>6
    <3> QED  BY <2>1, <2>2, <2>3, <3>1, <3>2
  <2>4. CASE ~c
    BY <1>1, <1>5, <2>1, <2>2, <2>4
  <2> QED  BY <2>3, <2>4
<1>15. num_sub(a, b) = Result([hi |-> H, lo |-> L], o)
  BY <1>3
<1> HIDE DEF c, o, H, L
<1> DEFINE n == [hi |-> H, lo |-> L]
<1>9. n \in Nums /\ Value(n) = H * WORD + L /\ Value(n) \in 0..(WORD * WORD - 1)
  <2>1. n \in Nums /\ Value(n) = H * WORD + L
    BY <1>8 DEF Nums, Value, Word
  <2> QED  BY <2>1, ValueRange
<1>10. /\ o => Value(n) = Value(a) - Value(b) + WORD * WORD
       /\ ~o => Value(n) = Value(a) - Value(b)
  <2>1. CASE c /\ o
    BY <1>1, <1>2, <1>8, <1>9, <2>1
  <2>2. CASE c /\ ~o
    BY <1>1, <1>2, <1>8, <1>9, <2>2
  <2>3. CASE ~c /\ o
    BY <1>1, <1>2, <1>8, <1>9, <2>3
  <2>4. CASE ~c /\ ~o
    BY <1>1, <1>2, <1>8, <1>9, <2>4
  <2> QED  BY <2>1, <2>2, <2>3, <2>4
<1>11. Value(a) \in Nat /\ Value(b) \in Nat /\ WORD * WORD \in Nat
  <2>1. Value(a) \in 0..(WORD * WORD - 1) /\ Value(b) \in 0..(WORD * WORD - 1)
    BY ValueRange
  <2> QED  BY <2>1, WordFacts
<1> HIDE DEF n
<1>12. o <=> Value(a) < Value(b)
  BY <1>9, <1>10, <1>11, ValueRange
<1>13. num_sub(a, b) = Result(n, o)
  BY <1>15 DEF n
<1>14. Result(n, o).n = n /\ Result(n, o).overflow = o
  BY DEF Result
<1> QED
  BY <1>8, <1>9, <1>10, <1>12, <1>13, <1>14

(* num_cmp and num_cmp_i compare values. *)
LEMMA CmpValue ==
  ASSUME NEW a \in Nums, NEW b \in Nums
  PROVE  num_cmp(a, b) < 0 <=> Value(a) < Value(b)
<1> DEFINE ah == a.hi
           al == a.lo
           bh == b.hi
           bl == b.lo
<1>1. WORD \in Nat /\ WORD >= 16 /\ ah \in 0..(WORD - 1) /\ al \in 0..(WORD - 1)
      /\ bh \in 0..(WORD - 1) /\ bl \in 0..(WORD - 1)
  BY WordFacts, ValueRange DEF Word
<1>2. Value(a) = ah * WORD + al /\ Value(b) = bh * WORD + bl
  BY DEF Value
<1>3. num_cmp(a, b) = CASE ah > bh -> 1
                        [] ah < bh -> -1
                        [] ah = bh /\ al > bl -> 1
                        [] ah = bh /\ al < bl -> -1
                        [] OTHER -> 0
  BY DEF num_cmp
<1> HIDE DEF ah, al, bh, bl
<1>4. CASE ah > bh
  <2>1. (ah - bh) * WORD >= WORD
    BY <1>1, <1>4
  <2>2. num_cmp(a, b) = 1
    BY <1>1, <1>3, <1>4
  <2> QED  BY <1>1, <1>2, <2>1, <2>2
<1>5. CASE ah < bh
  <2>1. (bh - ah) * WORD >= WORD
    BY <1>1, <1>5
  <2>2. num_cmp(a, b) = -1
    BY <1>1, <1>3, <1>5
  <2> QED  BY <1>1, <1>2, <2>1, <2>2
<1>6. CASE ah = bh
  <2>1. num_cmp(a, b) < 0 <=> al < bl
    BY <1>1, <1>3, <1>6
  <2> QED  BY <1>1, <1>2, <1>6, <2>1
<1> QED
  BY <1>1, <1>4, <1>5, <1>6

(* Only 0 compares as 0: the end of _num_get_str. *)
LEMMA ZeroValue ==
  ASSUME NEW a \in Nums
  PROVE  num_cmp_i(a, 0) = 0 <=> Value(a) = 0
<1> DEFINE h == a.hi
           l == a.lo
<1>1. WORD \in Nat /\ WORD >= 16 /\ h \in 0..(WORD - 1) /\ l \in 0..(WORD - 1)
  BY WordFacts, ValueRange DEF Word
<1>2. Value(a) = h * WORD + l
  BY DEF Value
<1>3. num_cmp_i(a, 0) = IF h # 0 \/ l > 0 THEN 1 ELSE IF l = 0 THEN 0 ELSE -1
  BY DEF num_cmp_i
<1> HIDE DEF h, l
<1>4. CASE h # 0
  <2>1. h * WORD >= WORD
    BY <1>1, <1>4
  <2> QED  BY <1>1, <1>2, <1>3, <1>4, <2>1
<1>5. CASE h = 0
  BY <1>1, <1>2, <1>3, <1>5
<1> QED
  BY <1>4, <1>5

(* The first bit of a word, and what shifting leaves of the word. *)
LEMMA TopBit ==
  ASSUME NEW x \in Word
  PROVE  /\ x \div TOP \in {0, 1}
         /\ x \div TOP = 1 <=> x >= TOP
         /\ (2 * x) % WORD = 2 * x - (x \div TOP) * WORD
         /\ (2 * x) % WORD \in 0..(WORD - 2)
<1>1. WORD \in Nat /\ TOP \in Nat /\ WORD = 2 * TOP /\ TOP >= 8 /\ x \in 0..(WORD - 1)
  BY WordFacts DEF Word
<1>2. CASE x >= TOP
  <2>1. x \div TOP = 1
    <3>1. x = TOP * 1 + (x - TOP) /\ x - TOP \in 0..(TOP - 1) /\ TOP \in Nat \ {0}
          /\ x \in Int /\ 1 \in Int
      BY <1>1, <1>2
    <3> QED  BY <3>1, DivIs
  <2>2. (2 * x) % WORD = 2 * x - WORD
    <3>1. 2 * x = WORD * 1 + (2 * x - WORD) /\ 2 * x - WORD \in 0..(WORD - 1)
          /\ WORD \in Nat \ {0} /\ 2 * x \in Int /\ 1 \in Int
      BY <1>1, <1>2
    <3> QED  BY <3>1, DivIs
  <2> QED  BY <1>1, <1>2, <2>1, <2>2
<1>3. CASE x < TOP
  <2>1. x \div TOP = 0
    <3>1. x = TOP * 0 + x /\ x \in 0..(TOP - 1) /\ TOP \in Nat \ {0}
          /\ x \in Int /\ 0 \in Int
      BY <1>1, <1>3
    <3> QED  BY <3>1, DivIs
  <2>2. (2 * x) % WORD = 2 * x
    <3>1. 2 * x = WORD * 0 + 2 * x /\ 2 * x \in 0..(WORD - 1)
          /\ WORD \in Nat \ {0} /\ 2 * x \in Int /\ 0 \in Int
      BY <1>1, <1>3
    <3> QED  BY <3>1, DivIs
  <2> QED  BY <1>1, <1>3, <2>1, <2>2
<1> QED
  BY <1>1, <1>2, <1>3

(* num_lshift doubles, and drops the first bit. *)
LEMMA LshiftValue ==
  ASSUME NEW a \in Nums
  PROVE  /\ num_lshift(a) \in Nums
         /\ a.hi \div TOP \in {0, 1} /\ (a.hi \div TOP = 1 <=> a.hi >= TOP)
         /\ Value(num_lshift(a)) = 2 * Value(a) - (a.hi \div TOP) * (WORD * WORD)
         /\ num_lshift(a).lo \in 0..(WORD - 2)
<1> DEFINE h == a.hi
           l == a.lo
           p == h \div TOP
           q == l \div TOP
           hh == (2 * h) % WORD
           ll == (2 * l) % WORD
<1>1. h \in Word /\ l \in Word /\ Value(a) = h * WORD + l
  BY ValueRange DEF Value
<1>2. num_lshift(a) = [hi |-> hh + q, lo |-> ll]
  BY DEF num_lshift, num_ii
<1> HIDE DEF h, l
<1>3. /\ p \in {0, 1} /\ (p = 1 <=> h >= TOP) /\ hh = 2 * h - p * WORD /\ hh \in 0..(WORD - 2)
      /\ q \in {0, 1} /\ ll = 2 * l - q * WORD /\ ll \in 0..(WORD - 2)
  BY <1>1, TopBit
<1>4. WORD \in Nat /\ WORD >= 16 /\ h \in 0..(WORD - 1) /\ l \in 0..(WORD - 1)
  BY <1>1, WordFacts DEF Word
<1> HIDE DEF p, q, hh, ll
<1>5. num_lshift(a) \in Nums
  BY <1>2, <1>3, <1>4 DEF Nums, Word
<1>6. Value(num_lshift(a)) = (hh + q) * WORD + ll
  BY <1>2 DEF Value
<1>7. (hh + q) * WORD + ll = 2 * (h * WORD + l) - p * (WORD * WORD)
  <2>1. CASE p = 0
    BY <1>3, <1>4, <2>1
  <2>2. CASE p = 1
    BY <1>3, <1>4, <2>2
  <2> QED  BY <1>3, <2>1, <2>2
<1>8. num_lshift(a).lo \in 0..(WORD - 2)
  BY <1>2, <1>3
<1> QED
  BY <1>1, <1>3, <1>5, <1>6, <1>7, <1>8 DEF p, h

(* num_rshift halves. *)
LEMMA RshiftValue ==
  ASSUME NEW a \in Nums
  PROVE  /\ num_rshift(a) \in Nums
         /\ a.lo % 2 \in {0, 1}
         /\ Value(a) = 2 * Value(num_rshift(a)) + (a.lo % 2)
<1> DEFINE h == a.hi
           l == a.lo
<1>1. h \in Word /\ l \in Word /\ Value(a) = h * WORD + l
  BY ValueRange DEF Value
<1>2. num_rshift(a) = [hi |-> h \div 2, lo |-> (l \div 2) + (h % 2) * TOP]
  BY DEF num_rshift, num_ii
<1> HIDE DEF h, l
<1> DEFINE hq == h \div 2
           hr == h % 2
           lq == l \div 2
           lr == l % 2
<1>3. WORD \in Nat /\ TOP \in Nat /\ WORD = 2 * TOP /\ TOP >= 8
      /\ h \in 0..(WORD - 1) /\ l \in 0..(WORD - 1)
  BY <1>1, WordFacts DEF Word
<1>4. /\ hq \in Nat /\ hr \in {0, 1} /\ h = 2 * hq + hr
      /\ lq \in Nat /\ lr \in {0, 1} /\ l = 2 * lq + lr
  BY <1>3
<1> HIDE DEF hq, hr, lq, lr
<1>5. num_rshift(a) = [hi |-> hq, lo |-> lq + hr * TOP]
  BY <1>2 DEF hq, hr, lq
<1>6. hq \in 0..(WORD - 1) /\ lq + hr * TOP \in 0..(WORD - 1)
  BY <1>3, <1>4
<1>7. num_rshift(a) \in Nums
  BY <1>5, <1>6 DEF Nums, Word
<1>8. Value(num_rshift(a)) = hq * WORD + (lq + hr * TOP)
  BY <1>5 DEF Value
<1>9. h * WORD + l = 2 * (hq * WORD + (lq + hr * TOP)) + lr
  <2>1. CASE hr = 0
    BY <1>3, <1>4, <2>1
  <2>2. CASE hr = 1
    BY <1>3, <1>4, <2>2
  <2> QED  BY <1>4, <2>1, <2>2
<1> QED
  BY <1>1, <1>4, <1>7, <1>8, <1>9 DEF lr, l

-----------------------------------------------------------------------------
(***************************************************************************)
(* num_div_i.                                                              *)
(***************************************************************************)
DivStates(d) == [result : Nums, remainder : 0..(d - 1)]

(* A turn takes the next bit of the dividend into the remainder and puts   *)
(* the next bit of the quotient in its place.                              *)
LEMMA DivTurnValue ==
  ASSUME NEW d \in Word \ {0}, NEW t \in DivStates(d)
  PROVE  LET u == DivTurn(t, d)
             b == t.result.hi \div TOP
         IN /\ u \in DivStates(d)
            /\ b \in {0, 1} /\ (b = 1 <=> t.result.hi >= TOP)
            /\ \E one \in {0, 1} :
                 /\ 2 * t.remainder + b = d * one + u.remainder
                 /\ Value(u.result) = 2 * Value(t.result) - b * (WORD * WORD) + one
<1> DEFINE r == t.remainder
           n == t.result
           b == n.hi \div TOP
           s == num_lshift(n)
           two == (2 * r) % WORD
<1>1. r \in 0..(d - 1) /\ n \in Nums
  BY DEF DivStates
<1>2. WORD \in Nat /\ TOP \in Nat /\ WORD = 2 * TOP /\ TOP >= 8 /\ d \in 1..(WORD - 1)
  BY WordFacts DEF Word
<1>3. DivTurn(t, d) =
        CASE r >= TOP ->
               [result |-> [hi |-> s.hi, lo |-> s.lo + 1],
                remainder |-> (WORD - 1 - d + 1 + (two + b)) % WORD]
          [] ~(r >= TOP) /\ two + b >= d ->
               [result |-> [hi |-> s.hi, lo |-> s.lo + 1], remainder |-> (two + b) - d]
          [] OTHER -> [result |-> s, remainder |-> two + b]
  BY DEF DivTurn, num_ii
<1> HIDE DEF r, n
<1>4. /\ s \in Nums /\ b \in {0, 1} /\ (b = 1 <=> n.hi >= TOP)
      /\ Value(s) = 2 * Value(n) - b * (WORD * WORD) /\ s.lo \in 0..(WORD - 2)
  BY <1>1, LshiftValue
<1>5. two = 2 * r - (IF r >= TOP THEN WORD ELSE 0)
  <2>1. r \in Word
    BY <1>1, <1>2 DEF Word
  <2> DEFINE p == r \div TOP
  <2>2. p \in {0, 1} /\ (p = 1 <=> r >= TOP) /\ two = 2 * r - p * WORD
    BY <2>1, TopBit
  <2> HIDE DEF p, two
  <2> QED  BY <1>1, <1>2, <2>2
<1> HIDE DEF b, s, two
<1> DEFINE one == [hi |-> s.hi, lo |-> s.lo + 1]
<1>6. one \in Nums /\ Value(one) = Value(s) + 1
  <2>1. s.hi \in Word /\ s.lo \in Word
    BY <1>4, ValueRange
  <2>2. one \in Nums
    BY <1>2, <1>4, <2>1 DEF Nums, Word
  <2> QED  BY <1>2, <1>4, <2>1, <2>2 DEF Value, Word
<1> HIDE DEF one
<1> DEFINE u == DivTurn(t, d)
<1>7. /\ u \in DivStates(d)
      /\ \E o \in {0, 1} : /\ 2 * r + b = d * o + u.remainder
                           /\ Value(u.result) = Value(s) + o
  <2>0. Value(s) \in Int
    BY <1>4, ValueRange
  <2>1. CASE r >= TOP
    <3>1. u = [result |-> one, remainder |-> (WORD - 1 - d + 1 + (two + b)) % WORD]
      BY <1>3, <2>1 DEF one
    <3>2. WORD - 1 - d + 1 + (two + b) = 2 * r + b - d
      BY <1>1, <1>2, <1>4, <1>5, <2>1
    <3>3. 2 * r + b - d \in 0..(d - 1)
      BY <1>1, <1>2, <1>4, <2>1
    <3>4. (2 * r + b - d) % WORD = 2 * r + b - d
      <4> DEFINE x == 2 * r + b - d
      <4>1. x \in Int /\ x \in 0..(WORD - 1)
        BY <1>2, <3>3
      <4> HIDE DEF x
      <4>2. x % WORD = x
        BY <1>2, <4>1
      <4> QED  BY <4>2 DEF x
    <3>5. u = [result |-> one, remainder |-> 2 * r + b - d]
      BY <3>1, <3>2, <3>4
    <3>6. u \in DivStates(d)
      BY <1>6, <3>3, <3>5 DEF DivStates
    <3>7. /\ 2 * r + b = d * 1 + u.remainder /\ Value(u.result) = Value(s) + 1
      BY <1>1, <1>2, <1>4, <1>6, <3>5
    <3> QED  BY <3>6, <3>7
  <2>2. CASE ~(r >= TOP) /\ two + b >= d
    <3>1. u = [result |-> one, remainder |-> 2 * r + b - d]
      BY <1>1, <1>2, <1>3, <1>4, <1>5, <2>2 DEF one
    <3>2. 2 * r + b - d \in 0..(d - 1)
      BY <1>1, <1>2, <1>4, <1>5, <2>2
    <3>3. u \in DivStates(d)
      BY <1>6, <3>1, <3>2 DEF DivStates
    <3>4. /\ 2 * r + b = d * 1 + u.remainder /\ Value(u.result) = Value(s) + 1
      BY <1>1, <1>2, <1>4, <1>6, <3>1
    <3> QED  BY <3>3, <3>4
  <2>3. CASE ~(r >= TOP) /\ ~(two + b >= d)
    <3>1. u = [result |-> s, remainder |-> 2 * r + b]
      BY <1>1, <1>2, <1>3, <1>4, <1>5, <2>3
    <3>2. 2 * r + b \in 0..(d - 1)
      BY <1>1, <1>2, <1>4, <1>5, <2>3
    <3>3. u \in DivStates(d)
      BY <1>4, <3>1, <3>2 DEF DivStates
    <3>4. /\ 2 * r + b = d * 0 + u.remainder /\ Value(u.result) = Value(s) + 0
      BY <1>1, <1>2, <1>4, <2>0, <3>1
    <3> QED  BY <3>3, <3>4
  <2> QED  BY <2>1, <2>2, <2>3
<1>8. t.remainder = r /\ t.result = n /\ t.result.hi \div TOP = b
  BY DEF r, n, b
<1> HIDE DEF u
<1>9. /\ u \in DivStates(d)
      /\ b \in {0, 1} /\ (b = 1 <=> t.result.hi >= TOP)
      /\ \E o \in {0, 1} :
           /\ 2 * r + b = d * o + u.remainder
           /\ Value(u.result) = 2 * Value(n) - b * (WORD * WORD) + o
  BY <1>4, <1>7, <1>8
<1> QED
  BY <1>8, <1>9 DEF u

(* The states num_div_i goes through. *)
DivRun(n, d, f) == /\ f[0] = [result |-> n, remainder |-> 0]
                   /\ \A i \in 1..BITS : f[i] = DivTurn(f[i - 1], d)

(* The states num_div_i goes through. *)
LEMMA DivLoop ==
  ASSUME NEW n \in Nums, NEW d \in Word \ {0}
  PROVE  \E f : /\ \A i \in 0..BITS : f[i] \in DivStates(d)
                /\ DivRun(n, d, f)
                /\ num_div_i(n, d) = f[BITS]
<1> DEFINE S == DivStates(d)
           first == [result |-> n, remainder |-> 0]
           g == [q \in S \X (1..BITS) |-> DivTurn(q[1], d)]
           Turn(x) == CHOOSE y \in {DivTurn(t, d) : t \in {x}} : TRUE
           Is(f) == f = [i \in 0..BITS |-> IF i = 0 THEN first ELSE Turn(f[i - 1])]
           A == CHOOSE f : Is(f)
<1>1. \A x : Turn(x) = DivTurn(x, d)
  OBVIOUS
<1>2. BITS \in Nat /\ first \in S
  BY WordFacts DEF DivStates, Word
<1>3. \A t \in S, i \in 1..BITS : g[<<t, i>>] = DivTurn(t, d) /\ DivTurn(t, d) \in S
  BY DivTurnValue
<1>4. num_div_i(n, d) = A[BITS]
  BY DEF num_div_i, Loop
<1> HIDE DEF g, S, first, Turn
<1>5. TurnsStay(g, S, BITS)
  BY <1>3 DEF TurnsStay
<1>6. PICK f \in [0..BITS -> S] : RunOf(g, first, BITS, f)
  BY <1>2, <1>5, LoopDefined
<1>7. Is(f)
  <2>1. ASSUME NEW i \in 0..BITS
        PROVE  f[i] = IF i = 0 THEN first ELSE Turn(f[i - 1])
    <3>1. CASE i = 0
      BY <1>6, <3>1 DEF RunOf
    <3>2. CASE i # 0
      <4>1. i \in 1..BITS /\ i - 1 \in 0..BITS /\ f[i - 1] \in S
        BY <1>2, <3>2
      <4> QED  BY <1>1, <1>3, <1>6, <3>2, <4>1 DEF RunOf
    <3> QED  BY <3>1, <3>2
  <2> QED  BY <2>1
<1>8. Is(A)
  BY <1>7
<1> HIDE DEF A
<1>9. A[0] = first /\ \A i \in 1..BITS : A[i] = DivTurn(A[i - 1], d)
  <2>1. \A i \in 0..BITS : A[i] = IF i = 0 THEN first ELSE Turn(A[i - 1])
    BY <1>8
  <2> QED  BY <1>1, <1>2, <2>1
<1>10. \A i \in 1..BITS : A[i - 1] \in S => A[i] = g[<<A[i - 1], i>>]
  BY <1>3, <1>9
<1>11. \A i \in 0..BITS : A[i] \in S
  BY <1>2, <1>5, <1>9, <1>10, LoopStates
<1>12. DivRun(n, d, A)
  BY <1>9 DEF DivRun, first
<1> QED
  BY <1>4, <1>11, <1>12 DEF S

(* After i turns the first i bits of the dividend, q * d + remainder, are  *)
(* divided and the others, L, are still in the result above q.             *)
DivInv(N, d, t, P, Q) ==
    \E L \in Nat, q \in Nat :
       /\ Value(t.result) = P * L + q /\ q < P /\ L < Q
       /\ N = L + (q * d + t.remainder) * Q

(* A turn takes one bit more. *)
LEMMA DivTurnInv ==
  ASSUME NEW d \in Word \ {0}, NEW t \in DivStates(d), NEW N \in Nat,
         NEW P \in Nat \ {0}, NEW Q \in Nat \ {0}, P * (2 * Q) = WORD * WORD,
         DivInv(N, d, t, P, 2 * Q)
  PROVE  DivInv(N, d, DivTurn(t, d), 2 * P, Q)
<1> DEFINE u == DivTurn(t, d)
           V == Value(t.result)
           r == t.remainder
           s == u.remainder
           b == t.result.hi \div TOP
           X == Value(u.result)
<1>1. PICK L \in Nat, q \in Nat : /\ V = P * L + q /\ q < P /\ L < 2 * Q
                                  /\ N = L + (q * d + r) * (2 * Q)
  BY DEF DivInv
<1>2. PICK one \in {0, 1} : /\ 2 * r + b = d * one + s
                            /\ X = 2 * V - b * (WORD * WORD) + one
  BY DivTurnValue
<1>3. u \in DivStates(d) /\ b \in {0, 1} /\ (b = 1 <=> t.result.hi >= TOP)
  BY DivTurnValue
<1>4. r \in Nat /\ s \in Nat /\ d \in Nat
  BY <1>3, WordFacts DEF DivStates, Word
<1>5. b = 1 <=> V >= P * Q
  <2> DEFINE h == t.result.hi
             l == t.result.lo
  <2>1. h \in Word /\ l \in Word /\ V = h * WORD + l
    BY ValueRange DEF DivStates, Value
  <2>2. WORD \in Nat /\ TOP \in Nat /\ WORD = 2 * TOP /\ h \in Nat /\ l \in 0..(WORD - 1)
    BY <2>1, WordFacts DEF Word
  <2>3. P * Q = TOP * WORD
    BY <2>2
  <2>4. b = 1 <=> h >= TOP
    BY <1>3
  <2> HIDE DEF h, l, b, V
  <2>5. CASE h >= TOP
    <3>1. (h - TOP) * WORD >= 0
      BY <2>2, <2>5
    <3> QED  BY <2>1, <2>2, <2>3, <2>4, <2>5, <3>1
  <2>6. CASE ~(h >= TOP)
    <3>1. (TOP - 1 - h) * WORD >= 0
      BY <2>2, <2>6
    <3> QED  BY <2>1, <2>2, <2>3, <2>4, <2>6, <3>1
  <2> QED  BY <2>5, <2>6
<1>6. WORD * WORD = 2 * (P * Q) /\ P * Q \in Nat
  OBVIOUS
<1> HIDE DEF u, V, r, s, b, X
<1>7. b = 1 <=> L >= Q
  <2>1. CASE L >= Q
    <3>1. P * (L - Q) >= 0
      BY <2>1
    <3>2. P * L >= P * Q
      BY <3>1
    <3> QED  BY <1>1, <1>5, <1>6, <2>1, <3>2
  <2>2. CASE ~(L >= Q)
    <3>1. P * (Q - 1 - L) >= 0
      BY <2>2
    <3>2. P * L + P <= P * Q
      BY <3>1
    <3> QED  BY <1>1, <1>5, <1>6, <2>2, <3>2
  <2> QED  BY <2>1, <2>2
<1> DEFINE K == L - b * Q
           k == 2 * q + one
<1>8. K \in Nat /\ K < Q
  BY <1>1, <1>3, <1>7
<1>9. k \in Nat /\ k < 2 * P
  BY <1>1
<1>10. X = (2 * P) * K + k
  <2>1. CASE b = 0
    BY <1>1, <1>2, <1>6, <2>1
  <2>2. CASE b = 1
    BY <1>1, <1>2, <1>6, <2>2
  <2> QED  BY <1>3, <2>1, <2>2
<1>11. N = K + (k * d + s) * Q
  <2>2. CASE one = 0
    <3>0. s = 2 * r + b
      BY <1>2, <1>3, <1>4, <2>2
    <3>1. k * d + s = 2 * (q * d) + 2 * r + b
      BY <1>3, <1>4, <3>0, <2>2
    <3>2. N = K + (2 * (q * d) + 2 * r + b) * Q
      BY <1>1, <1>3, <1>4
    <3> QED  BY <3>1, <3>2
  <2>3. CASE one = 1
    <3>0. s = 2 * r + b - d
      BY <1>2, <1>3, <1>4, <2>3
    <3>1. k * d + s = 2 * (q * d) + 2 * r + b
      BY <1>3, <1>4, <3>0, <2>3
    <3>2. N = K + (2 * (q * d) + 2 * r + b) * Q
      BY <1>1, <1>3, <1>4
    <3> QED  BY <3>1, <3>2
  <2> QED  BY <2>2, <2>3
<1> HIDE DEF K, k
<1> QED
  BY <1>8, <1>9, <1>10, <1>11 DEF DivInv, u, s, X

(* num_div_i: quotient and remainder, for every divisor that is not 0. *)
THEOREM DivValue ==
  ASSUME NEW n \in Nums, NEW d \in Word \ {0}
  PROVE  /\ num_div_i(n, d) = [result |-> num_div_i(n, d).result,
                               remainder |-> num_div_i(n, d).remainder]
         /\ num_div_i(n, d).result \in Nums
         /\ Value(num_div_i(n, d).result) = Value(n) \div d
         /\ num_div_i(n, d).remainder = Value(n) % d
<1>1. PICK f : /\ \A i \in 0..BITS : f[i] \in DivStates(d)
               /\ DivRun(n, d, f)
               /\ num_div_i(n, d) = f[BITS]
  BY DivLoop
<1> DEFINE N == Value(n)
           Inv(i) == DivInv(N, d, f[i], Power(2, i), Power(2, BITS - i))
           T == {i \in 0..BITS : Inv(i)}
<1>2. BITS \in Nat /\ N \in 0..(WORD * WORD - 1) /\ WORD * WORD \in Nat /\ N \in Nat
  <2>1. N \in 0..(WORD * WORD - 1) /\ WORD * WORD \in Nat /\ BITS \in Nat
    BY ValueRange, WordFacts
  <2> HIDE DEF N
  <2> QED  BY <2>1
<1>3. Power(2, 0) = 1 /\ Power(2, BITS) = WORD * WORD /\ d \in Nat
  BY <1>2, PowerNext, WordFacts DEF Word
<1>4. 0 \in T
  <2>1. f[0].result = n /\ f[0].remainder = 0
    BY <1>1 DEF DivRun
  <2>2. N = 1 * N + 0 /\ N = N + (0 * d + 0) * (WORD * WORD)
    BY <1>2, <1>3
  <2>3. BITS - 0 = BITS /\ 0 \in 0..BITS
    BY <1>2
  <2> HIDE DEF N
  <2>4. DivInv(N, d, f[0], 1, WORD * WORD)
    <3>1. /\ N = 1 * N + 0 /\ 0 < 1 /\ N < WORD * WORD
          /\ N = N + (0 * d + 0) * (WORD * WORD) /\ N \in Nat /\ 0 \in Nat
      BY <1>2, <2>2
    <3> QED  BY <2>1, <3>1 DEF DivInv, N
  <2> QED  BY <1>3, <2>3, <2>4
<1>5. ASSUME NEW i \in 1..BITS, i - 1 \in T  PROVE i \in T
  <2> DEFINE P == Power(2, i - 1)
             Q == Power(2, BITS - i)
  <2>1. i - 1 \in Nat /\ (i - 1) + 1 = i /\ BITS - i \in Nat /\ (BITS - i) + 1 = BITS - (i - 1)
        /\ (i - 1) + (BITS - (i - 1)) = BITS /\ BITS - (i - 1) \in Nat /\ i - 1 \in 0..BITS
    BY <1>2
  <2>2. P \in Nat \ {0} /\ Q \in Nat \ {0}
    BY <2>1, TwoPower
  <2>3. Power(2, i) = 2 * P /\ Power(2, BITS - (i - 1)) = 2 * Q
    BY <2>1, PowerNext
  <2>4. P * Power(2, BITS - (i - 1)) = Power(2, BITS)
    BY <2>1, PowerSum
  <2>5. P * (2 * Q) = WORD * WORD
    BY <1>3, <2>3, <2>4
  <2>6. DivInv(N, d, f[i - 1], P, 2 * Q)
    BY <1>5, <2>3
  <2>7. f[i] = DivTurn(f[i - 1], d) /\ f[i - 1] \in DivStates(d)
    BY <1>1, <2>1 DEF DivRun
  <2> HIDE DEF P, Q, N
  <2>8. DivInv(N, d, f[i], 2 * P, Q)
    BY <1>2, <2>2, <2>5, <2>6, <2>7, DivTurnInv
  <2> QED  BY <2>3, <2>8 DEF Q
<1>6. Inv(BITS)
  <2> HIDE DEF T
  <2>1. \A i \in 0..BITS : i \in T
    BY <1>2, <1>4, <1>5, TurnInduction
  <2>2. BITS \in 0..BITS
    BY <1>2
  <2>3. BITS \in T
    BY <2>1, <2>2
  <2> QED  BY <2>3 DEF T
<1> DEFINE r == f[BITS].remainder
           X == Value(f[BITS].result)
<1>7. f[BITS] \in DivStates(d)
  BY <1>1, <1>2
<1>8. r \in 0..(d - 1) /\ f[BITS].result \in Nums /\ f[BITS] = [result |-> f[BITS].result,
                                                         remainder |-> r]
  BY <1>7 DEF DivStates
<1>9. PICK L \in Nat, q \in Nat :
         /\ X = Power(2, BITS) * L + q /\ L < Power(2, BITS - BITS)
         /\ N = L + (q * d + r) * Power(2, BITS - BITS)
  BY <1>6 DEF DivInv
<1>10. BITS - BITS = 0
  BY <1>2
<1> HIDE DEF N, r, X, Inv, T
<1>11. L = 0 /\ X = q /\ N = d * q + r
  BY <1>2, <1>3, <1>8, <1>9, <1>10
<1>12. N \div d = q /\ N % d = r
  <2>1. N \in Int /\ d \in Nat \ {0} /\ q \in Int
    BY <1>2, <1>3
  <2> QED  BY <1>8, <1>11, <2>1, DivIs
<1> QED
  BY <1>1, <1>8, <1>11, <1>12 DEF N, r, X

-----------------------------------------------------------------------------
(***************************************************************************)
(* num_mul_i.                                                              *)
(***************************************************************************)
MulStates == [arg : Nums, r : Nums, can : BOOLEAN,
              reply : [n : Nums, overflow : BOOLEAN]]

(* A turn takes the last bit off arg and doubles r. *)
LEMMA MulTurnValue ==
  ASSUME NEW t \in MulStates
  PROVE  LET u == MulTurn(t)
             b == t.arg.lo % 2
             sum == Value(t.reply.n) + Value(t.r)
             top == 2 * Value(t.r) >= WORD * WORD
         IN /\ u \in MulStates
            /\ b \in {0, 1} /\ Value(t.arg) = 2 * Value(u.arg) + b
            /\ u.can <=> t.can \/ top
            /\ ~top => Value(u.r) = 2 * Value(t.r)
            /\ b = 0 => u.reply = t.reply
            /\ b = 1 => /\ u.reply.overflow <=> \/ t.reply.overflow \/ t.can
                                                \/ sum >= WORD * WORD
                        /\ sum < WORD * WORD => Value(u.reply.n) = sum
<1> DEFINE b == t.arg.lo % 2
           s == num_add(t.reply.n, t.r)
           p == t.r.hi \div TOP
           sum == Value(t.reply.n) + Value(t.r)
           A == num_rshift(t.arg)
           R == num_lshift(t.r)
           c == t.can \/ t.r.hi >= TOP
           o == t.reply.overflow \/ t.can \/ s.overflow
           Y == IF b = 1 THEN [n |-> s.n, overflow |-> o] ELSE t.reply
<1>1. /\ t.arg \in Nums /\ t.r \in Nums /\ t.can \in BOOLEAN /\ t.reply.n \in Nums
      /\ t.reply.overflow \in BOOLEAN /\ t.reply \in [n : Nums, overflow : BOOLEAN]
  BY DEF MulStates
<1>2. MulTurn(t) = [arg |-> A, r |-> R, can |-> c, reply |-> Y]
  BY DEF MulTurn, Result
<1>3. A \in Nums /\ b \in {0, 1} /\ Value(t.arg) = 2 * Value(A) + b
  BY <1>1, RshiftValue
<1>4. /\ R \in Nums /\ p \in {0, 1} /\ (p = 1 <=> t.r.hi >= TOP)
      /\ Value(R) = 2 * Value(t.r) - p * (WORD * WORD)
  BY <1>1, LshiftValue
<1>5. /\ s.n \in Nums /\ s.overflow \in BOOLEAN
      /\ s.overflow <=> sum >= WORD * WORD
      /\ ~s.overflow => Value(s.n) = sum
  BY <1>1, AddValue
<1>6. c \in BOOLEAN /\ o \in BOOLEAN
  <2>1. (t.r.hi >= TOP) \in BOOLEAN
    OBVIOUS
  <2> QED  BY <1>1, <1>5, <2>1, Zenon
<1>7. Y \in [n : Nums, overflow : BOOLEAN]
  <2> HIDE DEF o, b, s
  <2> QED  BY <1>1, <1>5, <1>6
<1> DEFINE u == MulTurn(t)
<1>8. u \in MulStates /\ u.arg = A /\ u.r = R /\ u.can = c /\ u.reply = Y
  <2> HIDE DEF A, R, c, Y
  <2> QED  BY <1>2, <1>3, <1>4, <1>6, <1>7 DEF MulStates
<1>9. t.r.hi >= TOP <=> 2 * Value(t.r) >= WORD * WORD
  <2>1. Value(R) \in 0..(WORD * WORD - 1) /\ Value(t.r) \in 0..(WORD * WORD - 1)
        /\ WORD * WORD \in Nat
    BY <1>1, <1>4, ValueRange, WordFacts
  <2> HIDE DEF p, R
  <2>2. CASE p = 0
    BY <1>4, <2>1, <2>2
  <2>3. CASE p = 1
    BY <1>4, <2>1, <2>3
  <2> QED  BY <1>4, <2>2, <2>3
<1>10. u.can <=> t.can \/ 2 * Value(t.r) >= WORD * WORD
  BY <1>8, <1>9
<1>11. ~(2 * Value(t.r) >= WORD * WORD) => Value(u.r) = 2 * Value(t.r)
  <2> SUFFICES ASSUME ~(2 * Value(t.r) >= WORD * WORD)  PROVE Value(R) = 2 * Value(t.r)
    BY <1>8
  <2>1. p = 0
    BY <1>4, <1>9
  <2>2. Value(t.r) \in Int /\ WORD * WORD \in Int
    BY <1>1, ValueRange, WordFacts
  <2> HIDE DEF p, R
  <2> QED  BY <1>4, <2>1, <2>2
<1>12. b = 0 => u.reply = t.reply
  BY <1>8
<1>13. b = 1 => u.reply.n = s.n /\ u.reply.overflow = o
  BY <1>8
<1>14. sum \in Int /\ WORD * WORD \in Int
  BY <1>1, ValueRange, WordFacts
<1>15. b = 1 => /\ u.reply.overflow <=> \/ t.reply.overflow \/ t.can
                                        \/ sum >= WORD * WORD
                /\ sum < WORD * WORD => Value(u.reply.n) = sum
  <2> SUFFICES ASSUME b = 1
               PROVE  /\ u.reply.overflow <=> \/ t.reply.overflow \/ t.can
                                              \/ sum >= WORD * WORD
                      /\ sum < WORD * WORD => Value(u.reply.n) = sum
    OBVIOUS
  <2> HIDE DEF b, u, s, sum
  <2>1. o <=> t.reply.overflow \/ t.can \/ sum >= WORD * WORD
    BY <1>5
  <2>2. u.reply.overflow <=> o
    <3> HIDE DEF o
    <3> QED  BY <1>13
  <2>3. ASSUME sum < WORD * WORD  PROVE Value(u.reply.n) = sum
    <3>1. ~s.overflow
      BY <1>5, <1>14, <2>3
    <3>2. u.reply.n = s.n
      BY <1>13
    <3>3. Value(s.n) = sum
      BY <1>5, <1>14, <3>1
    <3> QED  BY <3>2, <3>3
  <2> QED  BY <2>1, <2>2, <2>3
<1> HIDE DEF u, b, A
<1>16. u \in MulStates /\ b \in {0, 1} /\ Value(t.arg) = 2 * Value(u.arg) + b
  BY <1>3, <1>8
<1> HIDE DEF sum
<1> QED
  BY <1>10, <1>11, <1>12, <1>15, <1>16 DEF u, b, sum

(* The states num_mul_i goes through. *)
MulRun(n, m, f) == /\ f[0] = MulStart(n, m)
                   /\ \A i \in 1..BITS : f[i] = MulTurn(f[i - 1])

(* The states num_mul_i goes through. *)
LEMMA MulLoop ==
  ASSUME NEW n \in Nums, NEW m \in Word
  PROVE  \E f : /\ \A i \in 0..BITS : f[i] \in MulStates
                /\ MulRun(n, m, f)
                /\ num_mul_i(n, m) = f[BITS].reply
<1> DEFINE S == MulStates
           first == MulStart(n, m)
           g == [q \in S \X (1..BITS) |-> MulTurn(q[1])]
           Turn(x) == CHOOSE y \in {MulTurn(t) : t \in {x}} : TRUE
           Is(f) == f = [i \in 0..BITS |-> IF i = 0 THEN first ELSE Turn(f[i - 1])]
           A == CHOOSE f : Is(f)
<1>1. \A x : Turn(x) = MulTurn(x)
  OBVIOUS
<1>2. BITS \in Nat /\ first \in S
  <2>1. num_i(m) \in Nums /\ num_i(0) \in Nums /\ BITS \in Nat
    <3>1. 0 \in Word
      BY WordFacts DEF Word
    <3> QED  BY <3>1, NumOf, WordFacts
  <2> QED  BY <2>1 DEF MulStart, MulStates, Result
<1>3. \A t \in S, i \in 1..BITS : g[<<t, i>>] = MulTurn(t) /\ MulTurn(t) \in S
  BY MulTurnValue
<1>4. num_mul_i(n, m) = A[BITS].reply
  BY DEF num_mul_i, Loop
<1> HIDE DEF g, S, first, Turn
<1>5. TurnsStay(g, S, BITS)
  BY <1>3 DEF TurnsStay
<1>6. PICK f \in [0..BITS -> S] : RunOf(g, first, BITS, f)
  BY <1>2, <1>5, LoopDefined
<1>7. Is(f)
  <2>1. ASSUME NEW i \in 0..BITS
        PROVE  f[i] = IF i = 0 THEN first ELSE Turn(f[i - 1])
    <3>1. CASE i = 0
      BY <1>6, <3>1 DEF RunOf
    <3>2. CASE i # 0
      <4>1. i \in 1..BITS /\ i - 1 \in 0..BITS /\ f[i - 1] \in S
        BY <1>2, <3>2
      <4> QED  BY <1>1, <1>3, <1>6, <3>2, <4>1 DEF RunOf
    <3> QED  BY <3>1, <3>2
  <2> QED  BY <2>1
<1>8. Is(A)
  BY <1>7
<1> HIDE DEF A
<1>9. A[0] = first /\ \A i \in 1..BITS : A[i] = MulTurn(A[i - 1])
  <2>1. \A i \in 0..BITS : A[i] = IF i = 0 THEN first ELSE Turn(A[i - 1])
    BY <1>8
  <2> QED  BY <1>1, <1>2, <2>1
<1>10. \A i \in 1..BITS : A[i - 1] \in S => A[i] = g[<<A[i - 1], i>>]
  BY <1>3, <1>9
<1>11. \A i \in 0..BITS : A[i] \in S
  <2>1. A[0] = first
    BY <1>9
  <2> HIDE DEF Is
  <2> QED  BY <1>2, <1>5, <1>10, <2>1, LoopStates
<1>12. MulRun(n, m, A)
  BY <1>9 DEF MulRun, first
<1> QED
  BY <1>4, <1>11, <1>12 DEF S

(* After i turns reply is m times the last i bits of n, and r is m shifted *)
(* by i, each unless it does not fit, which reply.overflow and can tell.   *)
MulInv(N, m, t, P) ==
    \E c \in Nat :
       /\ N = P * Value(t.arg) + c /\ c < P
       /\ IF t.can THEN m * P >= WORD * WORD ELSE Value(t.r) = m * P
       /\ IF t.reply.overflow THEN m * c >= WORD * WORD ELSE Value(t.reply.n) = m * c

(* A turn takes one bit more. *)
LEMMA MulTurnInv ==
  ASSUME NEW t \in MulStates, NEW m \in Nat, NEW N \in Nat, NEW P \in Nat \ {0},
         MulInv(N, m, t, P)
  PROVE  MulInv(N, m, MulTurn(t), 2 * P)
<1> DEFINE u == MulTurn(t)
           WW == WORD * WORD
           b == t.arg.lo % 2
           a == Value(t.arg)
           a2 == Value(u.arg)
           r == Value(t.r)
           y == Value(t.reply.n)
<1>1. PICK c \in Nat :
         /\ N = P * a + c /\ c < P
         /\ IF t.can THEN m * P >= WW ELSE r = m * P
         /\ IF t.reply.overflow THEN m * c >= WW ELSE y = m * c
  BY DEF MulInv
<1>2. /\ u \in MulStates
      /\ b \in {0, 1} /\ a = 2 * a2 + b
      /\ u.can <=> t.can \/ 2 * r >= WW
      /\ ~(2 * r >= WW) => Value(u.r) = 2 * r
      /\ b = 0 => u.reply = t.reply
      /\ b = 1 => /\ u.reply.overflow <=> t.reply.overflow \/ t.can \/ y + r >= WW
                  /\ y + r < WW => Value(u.reply.n) = y + r
  BY MulTurnValue
<1>3. WW \in Nat /\ a2 \in Nat /\ r \in Nat /\ y \in Nat /\ a \in Nat
  <2>1. u.arg \in Nums /\ t.r \in Nums /\ t.reply.n \in Nums /\ t.arg \in Nums
    BY <1>2 DEF MulStates
  <2> QED  BY <2>1, ValueRange, WordFacts
<1> HIDE DEF u, WW, b, a, a2, r, y
<1>4. m * P \in Nat /\ m * c \in Nat /\ m * (2 * P) = 2 * (m * P)
  OBVIOUS
<1>5. IF u.can THEN m * (2 * P) >= WW ELSE Value(u.r) = m * (2 * P)
  BY <1>1, <1>2, <1>3, <1>4
<1>6. CASE b = 0
  <2>1. N = (2 * P) * a2 + c /\ c < 2 * P
    BY <1>1, <1>2, <1>3, <1>6
  <2>2. IF u.reply.overflow THEN m * c >= WW ELSE Value(u.reply.n) = m * c
    BY <1>1, <1>2, <1>6 DEF y
  <2> QED  BY <1>5, <2>1, <2>2 DEF MulInv, u, a2, WW
<1>7. CASE b = 1
  <2> DEFINE k == c + P
  <2>1. N = (2 * P) * a2 + k /\ k < 2 * P /\ k \in Nat /\ m * k = m * c + m * P
    BY <1>1, <1>2, <1>3, <1>7
  <2> HIDE DEF k
  <2>2. IF u.reply.overflow THEN m * k >= WW ELSE Value(u.reply.n) = m * k
    <3>1. CASE t.reply.overflow \/ t.can
      BY <1>1, <1>2, <1>3, <1>4, <1>7, <2>1, <3>1
    <3>2. CASE ~t.reply.overflow /\ ~t.can
      BY <1>1, <1>2, <1>3, <1>4, <1>7, <2>1, <3>2
    <3> QED  BY <3>1, <3>2
  <2> QED  BY <1>5, <2>1, <2>2 DEF MulInv, u, a2, WW
<1> QED
  BY <1>2, <1>6, <1>7

(* num_mul_i: the product, or the news that it does not fit. *)
THEOREM MulValue ==
  ASSUME NEW n \in Nums, NEW m \in Word
  PROVE  LET p == num_mul_i(n, m)
         IN /\ p = Result(p.n, p.overflow)
            /\ p.n \in Nums /\ p.overflow \in BOOLEAN
            /\ p.overflow <=> Value(n) * m >= WORD * WORD
            /\ ~p.overflow => Value(p.n) = Value(n) * m
<1>1. PICK f : /\ \A i \in 0..BITS : f[i] \in MulStates
               /\ MulRun(n, m, f)
               /\ num_mul_i(n, m) = f[BITS].reply
  BY MulLoop
<1> DEFINE N == Value(n)
           Inv(i) == MulInv(N, m, f[i], Power(2, i))
           T == {i \in 0..BITS : Inv(i)}
<1>2. BITS \in Nat /\ N \in 0..(WORD * WORD - 1) /\ WORD * WORD \in Nat \ {0} /\ N \in Nat
  <2>1. N \in 0..(WORD * WORD - 1) /\ WORD * WORD \in Nat \ {0} /\ BITS \in Nat
    BY ValueRange, WordFacts
  <2> HIDE DEF N
  <2> QED  BY <2>1
<1>3. Power(2, 0) = 1 /\ Power(2, BITS) = WORD * WORD /\ m \in Nat
  BY <1>2, PowerNext, WordFacts DEF Word
<1>4. 0 \in T
  <2>1. f[0] = MulStart(n, m) /\ 0 \in 0..BITS
    BY <1>1, <1>2 DEF MulRun
  <2>2. f[0].arg = n /\ f[0].r = num_i(m) /\ f[0].can = FALSE /\ f[0].reply.n = num_i(0)
        /\ f[0].reply.overflow = FALSE
    BY <2>1 DEF MulStart, Result
  <2>3. Value(num_i(m)) = m /\ Value(num_i(0)) = 0
    <3>1. 0 \in Word
      BY WordFacts DEF Word
    <3> QED  BY <3>1, NumOf
  <2>4. N = 1 * N + 0 /\ 0 < 1 /\ m = m * 1 /\ 0 = m * 0
    BY <1>2, <1>3
  <2> HIDE DEF N
  <2>5. MulInv(N, m, f[0], 1)
    BY <2>2, <2>3, <2>4 DEF MulInv, N
  <2> QED  BY <1>3, <2>1, <2>5
<1>5. ASSUME NEW i \in 1..BITS, i - 1 \in T  PROVE i \in T
  <2> DEFINE P == Power(2, i - 1)
  <2>1. i - 1 \in Nat /\ (i - 1) + 1 = i /\ i - 1 \in 0..BITS
    BY <1>2
  <2>2. P \in Nat \ {0} /\ Power(2, i) = 2 * P
    BY <2>1, TwoPower, PowerNext
  <2>3. f[i] = MulTurn(f[i - 1]) /\ f[i - 1] \in MulStates
    BY <1>1, <2>1 DEF MulRun
  <2>4. MulInv(N, m, f[i - 1], P)
    BY <1>5
  <2> HIDE DEF P, N
  <2>5. MulInv(N, m, f[i], 2 * P)
    BY <1>2, <1>3, <2>2, <2>3, <2>4, MulTurnInv
  <2> QED  BY <2>2, <2>5
<1>6. MulInv(N, m, f[BITS], WORD * WORD)
  <2> HIDE DEF T
  <2>1. \A i \in 0..BITS : i \in T
    BY <1>2, <1>4, <1>5, TurnInduction
  <2>2. BITS \in 0..BITS
    BY <1>2
  <2>3. BITS \in T
    BY <2>1, <2>2
  <2> QED  BY <1>3, <2>3 DEF T
<1> DEFINE y == f[BITS].reply
           a == Value(f[BITS].arg)
<1>7. f[BITS] \in MulStates
  BY <1>1, <1>2
<1>8. y \in [n : Nums, overflow : BOOLEAN] /\ y = Result(y.n, y.overflow)
      /\ y.n \in Nums /\ y.overflow \in BOOLEAN /\ a \in Nat
  <2>1. f[BITS].arg \in Nums
    BY <1>7 DEF MulStates
  <2>2. a \in Nat
    BY <2>1, ValueRange, WordFacts
  <2> QED  BY <1>7, <2>2 DEF MulStates, Result
<1>9. PICK c \in Nat :
         /\ N = (WORD * WORD) * a + c
         /\ IF y.overflow THEN m * c >= WORD * WORD ELSE Value(y.n) = m * c
  BY <1>6 DEF MulInv
<1> DEFINE WW == WORD * WORD
<1> HIDE DEF N, a, y, Inv, T, WW
<1>10. a = 0
  <2> SUFFICES ASSUME a # 0  PROVE FALSE
    OBVIOUS
  <2>1. WW * (a - 1) >= 0
    BY <1>2, <1>8 DEF WW
  <2>2. WW * a >= WW
    BY <1>2, <1>8, <2>1 DEF WW
  <2>3. N < WW /\ N = WW * a + c
    BY <1>2, <1>9 DEF WW
  <2>4. WW * a \in Nat
    BY <1>2, <1>8 DEF WW
  <2> QED  BY <1>2, <2>2, <2>3, <2>4 DEF WW
<1>11. N = c /\ m * c = N * m
  BY <1>2, <1>3, <1>9, <1>10
<1>12. \A y2 \in Nums : Value(y2) < WW
  BY <1>2, ValueRange DEF WW
<1>13. y.overflow <=> N * m >= WW
  <2>1. WW \in Nat /\ N * m = m * c
    BY <1>2, <1>11 DEF WW
  <2>2. CASE y.overflow
    BY <1>9, <2>1, <2>2 DEF WW
  <2>3. CASE ~y.overflow
    <3>1. Value(y.n) = N * m
      BY <1>9, <2>1, <2>3
    <3>2. Value(y.n) < WW
      BY <1>8, <1>12
    <3>3. N * m \in Nat
      BY <1>2, <1>3
    <3> QED  BY <2>1, <2>3, <3>1, <3>2, <3>3
  <2> QED  BY <2>2, <2>3
<1> QED
  BY <1>1, <1>8, <1>9, <1>11, <1>13 DEF N, y, WW

-----------------------------------------------------------------------------
(***************************************************************************)
(* num_and with a mask of the last k bits.                                 *)
(***************************************************************************)
(* One more bit of a remainder by a power of two. *)
LEMMA OneMoreBit ==
  ASSUME NEW x \in Nat, NEW P \in Nat \ {0}
  PROVE  /\ (x \div P) % 2 \in {0, 1}
         /\ x % (2 * P) = (x % P) + P * ((x \div P) % 2)
<1> DEFINE q == x \div P
           r == x % P
           h == q \div 2
           b == q % 2
<1>1. q \in Nat /\ r \in 0..(P - 1) /\ x = P * q + r
  <2>1. x \in Int /\ x >= 0
    OBVIOUS
  <2> QED  BY <2>1, DivParts
<1> HIDE DEF q, r
<1>2. h \in Nat /\ b \in {0, 1} /\ q = 2 * h + b
  BY <1>1
<1> HIDE DEF h, b
<1>3. r + P * b \in 0..(2 * P - 1)
  <2>1. CASE b = 0
    BY <1>1, <2>1
  <2>2. CASE b = 1
    BY <1>1, <2>2
  <2> QED  BY <1>2, <2>1, <2>2
<1>4. x = (2 * P) * h + (r + P * b)
  BY <1>1, <1>2
<1>5. x % (2 * P) = r + P * b
  <2> DEFINE D == 2 * P
             s == r + P * b
  <2>1. D \in Nat \ {0} /\ x \in Int /\ h \in Int /\ s \in 0..(D - 1) /\ x = D * h + s
    BY <1>2, <1>3, <1>4
  <2> HIDE DEF D, s
  <2>2. x % D = s
    BY <2>1, DivIs
  <2> QED  BY <2>2 DEF D, s
<1> QED
  BY <1>2, <1>5 DEF b, q, r

(* The mask of the last k bits has just these bits. *)
LEMMA BitOfMask ==
  ASSUME NEW k \in Nat, NEW i \in Nat \ {0}
  PROVE  Bit(Power(2, k) - 1, i) = IF i <= k THEN 1 ELSE 0
<1> DEFINE P == Power(2, i - 1)
           M == Power(2, k)
           x == M - 1
<1>1. i - 1 \in Nat /\ (i - 1) + 1 = i
  OBVIOUS
<1>2. P \in Nat \ {0} /\ M \in Nat \ {0} /\ x \in Nat
  BY <1>1, TwoPower
<1>3. CASE i <= k
  <2> DEFINE j == k - i
             K == Power(2, j)
  <2>1. j \in Nat /\ (i - 1) + (j + 1) = k /\ j + 1 \in Nat
    BY <1>3
  <2> HIDE DEF j
  <2>2. Power(2, j + 1) = 2 * K /\ K \in Nat \ {0}
    BY <2>1, PowerNext, TwoPower
  <2>3. M = P * Power(2, j + 1)
    <3> DEFINE a == i - 1
               e == j + 1
    <3>1. a \in Nat /\ e \in Nat /\ k = a + e
      BY <1>1, <2>1
    <3> HIDE DEF a, e
    <3>2. Power(2, k) = Power(2, a) * Power(2, e)
      BY <3>1, TwoSum
    <3> QED  BY <3>2 DEF a, e
  <2> HIDE DEF K, M, P
  <2>4. x = P * (2 * K - 1) + (P - 1)
    BY <1>2, <2>2, <2>3
  <2>5. x \div P = 2 * K - 1
    <3> DEFINE q == 2 * K - 1
    <3>1. x \in Int /\ q \in Int /\ P - 1 \in 0..(P - 1) /\ x = P * q + (P - 1)
      BY <1>2, <2>2, <2>4
    <3> HIDE DEF q, x
    <3>2. x \div P = q
      BY <1>2, <3>1, DivIs
    <3> QED  BY <3>2 DEF q
  <2>6. (2 * K - 1) % 2 = 1
    BY <2>2
  <2> QED  BY <1>3, <2>5, <2>6 DEF Bit, P, M
<1>4. CASE ~(i <= k)
  <2>1. k <= i - 1
    BY <1>4
  <2>2. M <= P
    BY <1>1, <2>1, PowerGrows
  <2> HIDE DEF M, P
  <2>3. x \div P = 0
    <3>1. x \in Int /\ 0 \in Int /\ x \in 0..(P - 1) /\ x = P * 0 + x
      BY <1>2, <2>2
    <3> HIDE DEF x
    <3> QED  BY <1>2, <3>1, DivIs
  <2> QED  BY <1>4, <2>3 DEF Bit, P, M
<1> QED
  BY <1>3, <1>4

(* The states And goes through. *)
LEMMA AndLoop ==
  ASSUME NEW x \in Nat, NEW y \in Nat
  PROVE  \E f : /\ \A i \in 0..W : f[i] \in Nat
                /\ f[0] = 0
                /\ \A i \in 1..W : f[i] = AndTurn(x, y, f[i - 1], i)
                /\ And(x, y) = f[W]
<1> DEFINE S == Nat
           first == 0
           g == [q \in S \X (1..W) |-> AndTurn(x, y, q[1], q[2])]
           Turn(s, i) == CHOOSE z \in {AndTurn(x, y, t, i) : t \in {s}} : TRUE
           Is(f) == f = [i \in 0..W |-> IF i = 0 THEN first ELSE Turn(f[i - 1], i)]
           A == CHOOSE f : Is(f)
<1>1. \A s, i : Turn(s, i) = AndTurn(x, y, s, i)
  OBVIOUS
<1>2. W \in Nat /\ first \in S
  BY WordAssumption
<1>3. \A t \in S, i \in 1..W : g[<<t, i>>] = AndTurn(x, y, t, i)
  OBVIOUS
<1>4. \A t \in S, i \in 1..W : AndTurn(x, y, t, i) \in S
  <2> SUFFICES ASSUME NEW t \in S, NEW i \in 1..W  PROVE AndTurn(x, y, t, i) \in S
    OBVIOUS
  <2>1. i - 1 \in Nat
    BY <1>2
  <2>2. Power(2, i - 1) \in Nat
    BY <2>1, PowerNext
  <2> QED  BY <2>2 DEF AndTurn
<1>5. And(x, y) = A[W]
  BY DEF And, Loop
<1> HIDE DEF g, S, first, Turn
<1>6. TurnsStay(g, S, W)
  BY <1>3, <1>4 DEF TurnsStay
<1>7. PICK f \in [0..W -> S] : RunOf(g, first, W, f)
  BY <1>2, <1>6, LoopDefined
<1>8. Is(f)
  <2>1. ASSUME NEW i \in 0..W
        PROVE  f[i] = IF i = 0 THEN first ELSE Turn(f[i - 1], i)
    <3>1. CASE i = 0
      BY <1>7, <3>1 DEF RunOf
    <3>2. CASE i # 0
      <4>1. i \in 1..W /\ i - 1 \in 0..W /\ f[i - 1] \in S
        BY <1>2, <3>2
      <4> QED  BY <1>1, <1>3, <1>7, <3>2, <4>1 DEF RunOf
    <3> QED  BY <3>1, <3>2
  <2> QED  BY <2>1
<1>9. Is(A)
  BY <1>8
<1> HIDE DEF A
<1>10. A[0] = first /\ \A i \in 1..W : A[i] = AndTurn(x, y, A[i - 1], i)
  <2>1. \A i \in 0..W : A[i] = IF i = 0 THEN first ELSE Turn(A[i - 1], i)
    BY <1>9
  <2> QED  BY <1>1, <1>2, <2>1
<1>11. \A i \in 1..W : A[i - 1] \in S => A[i] = g[<<A[i - 1], i>>]
  BY <1>3, <1>10
<1>12. \A i \in 0..W : A[i] \in S
  <2>1. A[0] = first
    BY <1>10
  <2> HIDE DEF Is
  <2> QED  BY <1>2, <1>6, <1>11, <2>1, LoopStates
<1> QED
  BY <1>5, <1>10, <1>12 DEF S, first

(* x & (2^k - 1) is x modulo 2^k. *)
LEMMA AndMask ==
  ASSUME NEW x \in Nat, NEW k \in 0..W
  PROVE  And(x, Power(2, k) - 1) = x % Power(2, k)
<1> DEFINE y == Power(2, k) - 1
<1>1. W \in Nat /\ k \in Nat /\ y \in Nat
  BY WordAssumption, TwoPower
<1>2. PICK f : /\ f[0] = 0
               /\ \A i \in 1..W : f[i] = AndTurn(x, y, f[i - 1], i)
               /\ And(x, y) = f[W]
  BY <1>1, AndLoop
<1> DEFINE T == {i \in 0..W : f[i] = x % Power(2, IF i <= k THEN i ELSE k)}
<1>3. 0 \in T
  <2>1. Power(2, 0) = 1 /\ x % 1 = 0 /\ 0 \in 0..W /\ 0 <= k
    BY <1>1, PowerNext
  <2> HIDE DEF y
  <2> QED  BY <1>2, <2>1
<1>4. ASSUME NEW i \in 1..W, i - 1 \in T  PROVE i \in T
  <2> DEFINE P == Power(2, i - 1)
  <2>1. i - 1 \in Nat /\ (i - 1) + 1 = i /\ i \in Nat \ {0}
    BY <1>1
  <2>2. P \in Nat \ {0} /\ Power(2, i) = 2 * P
    BY <2>1, TwoPower, PowerNext
  <2>3. f[i] = IF Bit(x, i) = 1 /\ Bit(y, i) = 1 THEN f[i - 1] + P ELSE f[i - 1]
    BY <1>2 DEF AndTurn
  <2>4. Bit(y, i) = IF i <= k THEN 1 ELSE 0
    BY <1>1, <2>1, BitOfMask
  <2>5. Bit(x, i) \in {0, 1} /\ x % (2 * P) = (x % P) + P * Bit(x, i)
    BY <2>2, OneMoreBit DEF Bit
  <2>6. CASE i <= k
    <3>1. f[i - 1] = x % P
      BY <1>4, <2>6
    <3>2. x % P \in Nat
      BY <2>2
    <3>3. f[i] = x % (2 * P)
      <4>1. CASE Bit(x, i) = 0
        BY <2>2, <2>3, <2>5, <3>1, <3>2, <4>1
      <4>2. CASE Bit(x, i) = 1
        BY <2>2, <2>3, <2>4, <2>5, <2>6, <3>1, <3>2, <4>2
      <4> QED  BY <2>5, <4>1, <4>2
    <3> QED  BY <2>2, <2>6, <3>3
  <2>7. CASE ~(i <= k)
    <3>1. f[i] = f[i - 1]
      BY <2>3, <2>4, <2>7
    <3>2. CASE i - 1 = k
      BY <1>4, <2>7, <3>1, <3>2
    <3>3. CASE i - 1 # k
      <4>1. ~(i - 1 <= k)
        BY <1>1, <2>7, <3>3
      <4> QED  BY <1>4, <2>7, <3>1, <4>1
    <3> QED  BY <3>2, <3>3
  <2> QED  BY <2>6, <2>7
<1> HIDE DEF T
<1>5. W \in T
  <2>1. \A i \in 0..W : i \in T
    BY <1>1, <1>3, <1>4, TurnInduction
  <2>2. W \in 0..W
    BY <1>1
  <2> QED  BY <2>1, <2>2
<1>6. f[W] = x % Power(2, k)
  <2>1. CASE W = k
    BY <1>5, <2>1 DEF T
  <2>2. CASE W # k
    <3>1. ~(W <= k)
      BY <1>1, <2>2
    <3> QED  BY <1>5, <3>1 DEF T
  <2> QED  BY <2>1, <2>2
<1> QED
  BY <1>2, <1>6

(* The masks split a number. *)
LEMMA MaskSplit ==
  ASSUME NEW x \in 0..(WORD * WORD - 1), NEW k \in 0..W
  PROVE  num_add(num_and(Limbs(x), Limbs(Power(2, k) - 1)), Limbs(x - (x % Power(2, k))))
           = Result(Limbs(x), FALSE)
<1> DEFINE M == Power(2, k)
           h == x \div WORD
           l == x % WORD
<1>1. W \in Nat /\ k \in Nat /\ WORD \in Nat \ {0} /\ WORD * WORD \in Nat /\ x \in Nat
      /\ WORD >= 16
  BY WordFacts
<1>2. M \in Nat \ {0}
  BY <1>1, TwoPower
<1>3. PICK J \in Nat \ {0} : WORD = M * J
  <2> DEFINE j == W - k
  <2>1. j \in Nat /\ k + j = W
    BY <1>1
  <2> HIDE DEF j
  <2>2. Power(2, j) \in Nat \ {0}
    BY <2>1, TwoPower
  <2>3. WORD = M * Power(2, j)
    BY <1>1, <2>1, TwoSum DEF WORD
  <2> QED  BY <2>2, <2>3
<1>4. h \in Nat /\ l \in 0..(WORD - 1) /\ x = WORD * h + l
  <2>1. x \in Int /\ x >= 0
    BY <1>1
  <2> QED  BY <1>1, <2>1, DivParts
<1>5. Limbs(x) = [hi |-> h, lo |-> l] /\ Limbs(x) \in Nums
  BY LimbsRange DEF Limbs
<1>6. M <= WORD
  <2> HIDE DEF M
  <2>1. M * (J - 1) >= 0
    BY <1>2
  <2> QED  BY <1>2, <1>3, <2>1
<1> DEFINE r == l % M
           mask == M - 1
<1>7. Limbs(M - 1) = [hi |-> 0, lo |-> M - 1]
  <2>1. mask \in Int /\ mask \in 0..(WORD - 1) /\ 0 \in Int /\ mask = WORD * 0 + mask
    BY <1>1, <1>2, <1>6
  <2> HIDE DEF mask
  <2>2. mask \div WORD = 0 /\ mask % WORD = mask
    BY <1>1, <2>1, DivIs
  <2> QED  BY <2>2 DEF Limbs, mask
<1>8. And(h, 0) = 0
  <2>1. Power(2, 0) = 1 /\ Power(2, 0) - 1 = 0 /\ 0 \in 0..W
    BY <1>1, PowerNext
  <2>2. And(h, 0) = h % 1
    <3> HIDE DEF h
    <3>1. And(h, Power(2, 0) - 1) = h % Power(2, 0)
      BY <1>4, <2>1, AndMask
    <3> QED  BY <2>1, <3>1
  <2>3. h % 1 = 0
    <3> HIDE DEF h
    <3> QED  BY <1>4
  <2> QED  BY <2>2, <2>3
<1>9. And(l, M - 1) = r
  <2>1. l \in Nat
    BY <1>1, <1>4
  <2> HIDE DEF l
  <2> QED  BY <2>1, AndMask
<1>10. num_and(Limbs(x), Limbs(M - 1)) = [hi |-> 0, lo |-> r]
  <2> HIDE DEF h, l, r, M
  <2> QED  BY <1>5, <1>7, <1>8, <1>9 DEF num_and, num_ii
<1> DEFINE s == l \div M
<1>11. s \in Nat /\ r \in 0..(M - 1) /\ l = M * s + r
  <2>1. l \in Int /\ l >= 0
    BY <1>1, <1>4
  <2> HIDE DEF l, M
  <2> QED  BY <1>2, <2>1, DivParts
<1> HIDE DEF M, h, l, r, s
<1>12. x % M = r
  <2> DEFINE q == J * h + s
  <2>1. x = M * q + r
    BY <1>2, <1>3, <1>4, <1>11
  <2>2. q \in Int /\ x \in Int
    BY <1>1, <1>3, <1>4, <1>11
  <2> HIDE DEF q
  <2> QED  BY <1>2, <1>11, <2>1, <2>2, DivIs
<1>13. r \in Word /\ x - r \in 0..(WORD * WORD - 1)
  <2>1. r <= l /\ WORD * h \in Nat
    <3>1. M * s \in Nat
      BY <1>2, <1>11
    <3> QED  BY <1>1, <1>4, <1>11, <3>1
  <2> QED  BY <1>1, <1>4, <1>11, <2>1 DEF Word
<1> DEFINE a == num_i(r)
           y == x - r
           b == Limbs(y)
<1>14. a \in Nums /\ Value(a) = r /\ b \in Nums /\ Value(b) = y /\ y = x - r
  <2>1. a \in Nums /\ Value(a) = r
    BY <1>13, NumOf
  <2>2. y \in 0..(WORD * WORD - 1)
    BY <1>13
  <2> HIDE DEF y
  <2>3. b \in Nums /\ Value(b) = y
    BY <2>2, LimbsRange
  <2> QED  BY <2>1, <2>3 DEF y
<1>15. num_and(Limbs(x), Limbs(M - 1)) = a
  BY <1>10 DEF num_i, num_ii
<1>16. b = Limbs(x - (x % M))
  BY <1>12
<1> HIDE DEF a, b, y
<1> DEFINE z == num_add(a, b)
<1>17. /\ z = Result(z.n, z.overflow)
       /\ z.n \in Nums /\ z.overflow \in BOOLEAN
       /\ z.overflow <=> Value(a) + Value(b) >= WORD * WORD
       /\ ~z.overflow => Value(z.n) = Value(a) + Value(b)
  BY <1>14, AddValue
<1>18. Value(a) + Value(b) = x
  BY <1>1, <1>11, <1>2, <1>14
<1> HIDE DEF z
<1>19. z.overflow = FALSE /\ Value(z.n) = x
  BY <1>1, <1>17, <1>18
<1>20. z.n = Limbs(x)
  BY <1>17, <1>19, NumIs
<1>21. z = Result(Limbs(x), FALSE)
  BY <1>17, <1>19, <1>20
<1> QED
  BY <1>15, <1>16, <1>21 DEF z, M

-----------------------------------------------------------------------------
(***************************************************************************)
(* WordsAgree: ppp_calculate and ppp_verify_range on two words.            *)
(***************************************************************************)
(* A word of eight bits holds the size of every card. *)
LEMMA WordHolds == WORD \in Nat /\ WORD >= 256
<1>1. W \in Nat /\ 8 <= W /\ 8 \in Nat
  BY WordAssumption, NumberAssumption
<1>2. Power(2, 8) = 256
  <2>1. Power(2, 0) = 1 /\ Power(2, 0 + 1) = 2 * Power(2, 0)
        /\ Power(2, 1 + 1) = 2 * Power(2, 1) /\ Power(2, 2 + 1) = 2 * Power(2, 2)
        /\ Power(2, 3 + 1) = 2 * Power(2, 3) /\ Power(2, 4 + 1) = 2 * Power(2, 4)
        /\ Power(2, 5 + 1) = 2 * Power(2, 5) /\ Power(2, 6 + 1) = 2 * Power(2, 6)
        /\ Power(2, 7 + 1) = 2 * Power(2, 7)
    BY PowerNext
  <2> QED  BY <2>1
<1>3. Power(2, 8) <= Power(2, W)
  <2> DEFINE b == 2
             m == 8
  <2>1. b \in Nat \ {0} /\ m \in Nat /\ m <= W
    BY <1>1
  <2> HIDE DEF b, m
  <2>2. Power(b, m) <= Power(b, W)
    BY <1>1, <2>1, PowerGrows
  <2> QED  BY <2>2 DEF b, m
<1> QED
  BY <1>2, <1>3, WordFacts DEF WORD

(* Counters, masks and the sizes of cards fit. *)
LEMMA CardFits ==
  ASSUME CardInv
  PROVE  /\ counter \in 0..(WORD * WORD - 1)
         /\ unsalted_counter \in 0..(WORD * WORD - 1)
         /\ Space - 1 \in 0..(WORD * WORD - 1)
         /\ codes_on_card \in 20..110 /\ codes_on_card \in Word \ {0}
<1> DEFINE WW == WORD * WORD
           C == SALTS * CODE_SPACE
<1>1. WW \in Nat /\ C \in Nat /\ FULL_SPACE <= WW /\ C <= WW
      /\ FULL_SPACE \in Nat /\ CODE_SPACE \in Nat /\ FULL_SPACE > 330 /\ CODE_SPACE > 330
  BY WordFacts, SpaceAssumption, NumberAssumption
<1>2. CODE_SPACE <= C
  <2>1. (SALTS - 1) * CODE_SPACE >= 0
    BY SpaceAssumption
  <2> QED  BY <2>1, SpaceAssumption
<1>3. counter \in Nat /\ counter < WW
  <2>1. CASE salted
    <3>1. PICK k \in 0..(SALTS - 1) : WithSalt(k, counter)
      BY <2>1 DEF CardInv
    <3>2. /\ k * CODE_SPACE \in Nat /\ counter \in Nat
          /\ (SALTS - 1 - k) * CODE_SPACE \in Nat
      BY SpaceAssumption DEF CardInv
    <3>3. k * CODE_SPACE + CODE_SPACE <= C
      BY <3>2, SpaceAssumption
    <3> HIDE DEF C, WW
    <3> QED  BY <1>1, <3>1, <3>2, <3>3 DEF WithSalt
  <2>2. CASE ~salted
    BY <1>1, <2>2 DEF CardInv
  <2> QED  BY <2>1, <2>2
<1> HIDE DEF C, WW
<1>4. Space \in Nat /\ Space > 330 /\ Space <= WW
  BY <1>1, <1>2 DEF Space
<1>5. unsalted_counter \in Nat /\ unsalted_counter < WW
  BY <1>1, <1>4, UnsaltedInSpace
<1>6. codes_on_card \in 20..110
  BY SpareCard DEF codes_on_card, CardRows, ROWS_PER_CARD
<1>7. codes_on_card \in Word \ {0}
  BY <1>6, WordHolds DEF Word
<1> QED
  BY <1>1, <1>3, <1>4, <1>5, <1>6, <1>7 DEF WW

(* Card and passcode on the card: the division is exact, the + 1 fits. *)
LEMMA CardAgrees ==
  ASSUME CardInv
  PROVE  LET c == calculate_card(Limbs(unsalted_counter))
         IN /\ Value(c.card) = current_card
            /\ c.code = (current_row - 1) * codes_in_row + current_column
<1> DEFINE u == unsalted_counter
           n == codes_on_card
           a == Limbs(u)
           d == num_div_i(a, n)
           one == num_i(1)
           s == num_add(d.result, one)
           WW == WORD * WORD
<1>1. a \in Nums /\ Value(a) = u /\ u \in 0..(WW - 1) /\ n \in 20..110 /\ n \in Word \ {0}
  BY CardFits, LimbsRange
<1>2. one \in Nums /\ Value(one) = 1
  <2>1. 1 \in Word
    BY WordHolds DEF Word
  <2> QED  BY <2>1, NumOf
<1>3. WW \in Nat /\ WW >= 256
  <2>1. WORD * (WORD - 1) >= 0
    BY WordHolds
  <2> QED  BY <2>1, WordHolds
<1>4. calculate_card(a) = [card |-> s.n, code |-> d.remainder]
  BY DEF calculate_card
<1>5. current_card = u \div n + 1
  BY DEF current_card
<1>6. u % n = (current_row - 1) * codes_in_row + current_column
  <2> DEFINE k == current_card - 1
             x == codes_in_row * (current_row - 1) + current_column
  <2>1. n \in Nat \ {0} /\ codes_in_row \in CardRows /\ n = codes_in_row * ROWS_PER_CARD
        /\ current_row \in 1..10 /\ current_column \in 0..(codes_in_row - 1)
        /\ k \in Nat /\ u = n * k + x
    BY <1>1, Position, SpareCard DEF codes_on_card, ROWS_PER_CARD
  <2>2. x \in 0..(n - 1) /\ x = (current_row - 1) * codes_in_row + current_column
    BY <2>1 DEF CardRows, ROWS_PER_CARD
  <2> HIDE DEF u, n, k, x
  <2>3. u \in Int /\ k \in Int
    BY <1>1, <1>3, <2>1
  <2>4. u % n = x
    BY <2>1, <2>2, <2>3, DivIs
  <2> QED  BY <2>2, <2>4
<1> HIDE DEF u, n, a, one, WW
<1>7. d.result \in Nums /\ Value(d.result) = u \div n /\ d.remainder = u % n
  BY <1>1, DivValue
<1> DEFINE q == u \div n
<1>8. q \in Nat /\ q + 1 < WW
  <2>1. u \in Int /\ u >= 0 /\ n \in Nat \ {0}
    BY <1>1, <1>3
  <2>2. q \in Nat /\ u % n \in 0..(n - 1) /\ u = n * q + (u % n)
    BY <2>1, DivParts
  <2> HIDE DEF q
  <2>3. n * q >= 20 * q
    <3>1. (n - 20) * q >= 0
      BY <1>1, <2>2
    <3> QED  BY <1>1, <2>2, <3>1
  <2>4. n * q \in Nat
    BY <1>1, <2>2
  <2>5. 20 * q <= WW - 1
    BY <1>1, <1>3, <2>2, <2>3, <2>4
  <2> QED  BY <1>3, <2>2, <2>5
<1> HIDE DEF d, q
<1>9. s.n \in Nums /\ s.overflow \in BOOLEAN
      /\ (s.overflow <=> Value(d.result) + Value(one) >= WORD * WORD)
      /\ (~s.overflow => Value(s.n) = Value(d.result) + Value(one))
  BY <1>2, <1>7, AddValue
<1> HIDE DEF s
<1>10. Value(s.n) = q + 1
  <2>1. Value(d.result) + Value(one) = q + 1
    BY <1>2, <1>7 DEF q
  <2>2. ~(q + 1 >= WW)
    BY <1>3, <1>8
  <2> QED  BY <1>9, <2>1, <2>2 DEF WW
<1>11. calculate_card(a).card = s.n /\ calculate_card(a).code = d.remainder
  BY <1>4
<1> QED
  BY <1>5, <1>6, <1>7, <1>10, <1>11 DEF a, u, n, q

(* The limits: the spare card is taken off without a borrow, and the last  *)
(* passcode is found without an overflow.                                  *)
LEMMA MaxAgrees ==
  ASSUME CardInv
  PROVE  LET m == calculate_max(Limbs(Space - 1))
         IN /\ Value(m.card) = max_card
            /\ m.code = Result(Limbs(max_code), FALSE)
            /\ num_cmp(Limbs(unsalted_counter), m.code.n) < 0 <=> unsalted_counter < max_code
<1> DEFINE x == Space - 1
           n == codes_on_card
           a == Limbs(x)
           d == num_div_i(a, n)
           one == num_i(1)
           s == num_sub(d.result, one)
           p == num_mul_i(s.n, n)
           WW == WORD * WORD
<1>1. a \in Nums /\ Value(a) = x /\ x \in 0..(WW - 1) /\ n \in 20..110 /\ n \in Word \ {0}
  BY CardFits, LimbsRange
<1>2. one \in Nums /\ Value(one) = 1
  <2>1. 1 \in Word
    BY WordHolds DEF Word
  <2> QED  BY <2>1, NumOf
<1>3. WW \in Nat
  BY WordFacts
<1>4. calculate_max(a) = [card |-> s.n, code |-> p]
  BY DEF calculate_max
<1>5. max_card = x \div n - 1 /\ max_card \in Nat \ {0}
      /\ max_code = max_card * n /\ max_code \in Nat /\ max_code + n <= x
  BY SpareCard DEF max_card, Space
<1> HIDE DEF x, n, a, one, WW
<1>6. d.result \in Nums /\ Value(d.result) = x \div n
  BY <1>1, DivValue
<1> HIDE DEF d
<1>7. s.n \in Nums /\ s.overflow \in BOOLEAN
      /\ (s.overflow <=> Value(d.result) < Value(one))
      /\ (~s.overflow => Value(s.n) = Value(d.result) - Value(one))
  BY <1>2, <1>6, SubValue
<1> HIDE DEF s
<1>8. Value(s.n) = max_card
  <2> DEFINE q == x \div n
  <2>1. Value(d.result) = q /\ q \in Int /\ q - 1 = max_card /\ q - 1 \in Nat \ {0}
    <3>1. x \in Int /\ n \in Nat \ {0}
      BY <1>1, <1>3
    <3> QED  BY <1>5, <1>6, <3>1, DivParts
  <2> HIDE DEF q
  <2> QED  BY <1>2, <1>7, <2>1
<1>9. /\ p = Result(p.n, p.overflow)
      /\ p.n \in Nums /\ p.overflow \in BOOLEAN
      /\ (p.overflow <=> Value(s.n) * n >= WORD * WORD)
      /\ (~p.overflow => Value(p.n) = Value(s.n) * n)
  BY <1>1, <1>7, MulValue
<1> HIDE DEF p
<1>10. max_code \in 0..(WW - 1) /\ Value(s.n) * n = max_code
  BY <1>1, <1>3, <1>5, <1>8
<1>11. p.overflow = FALSE /\ Value(p.n) = max_code
  <2>1. ~(max_code >= WW)
    BY <1>3, <1>10
  <2> QED  BY <1>9, <1>10, <2>1 DEF WW
<1>12. p.n = Limbs(max_code)
  BY <1>9, <1>11, NumIs
<1>13. p = Result(Limbs(max_code), FALSE)
  BY <1>9, <1>11, <1>12
<1>14. num_cmp(Limbs(unsalted_counter), p.n) < 0 <=> unsalted_counter < max_code
  <2> DEFINE u == unsalted_counter
             b == Limbs(u)
  <2>1. b \in Nums /\ Value(b) = u
    BY CardFits, LimbsRange
  <2> HIDE DEF b
  <2>2. num_cmp(b, p.n) < 0 <=> Value(b) < Value(p.n)
    BY <1>9, <2>1, CmpValue
  <2> QED  BY <1>11, <2>1, <2>2 DEF ppp_verify_range, b
<1>15. calculate_max(a).card = s.n /\ calculate_max(a).code = p
  BY <1>4
<1> QED
  BY <1>8, <1>13, <1>14, <1>15 DEF a, x

(* WordsAgree: on words of every width, carries, borrows and remainders of *)
(* a bit more than a word give the numbers Passcard computes, and masks    *)
(* split them.                                                             *)
THEOREM CardWords == CardSpec => []WordsAgree
<1>1. CardInv => WordsAgree
  <2> SUFFICES ASSUME CardInv  PROVE WordsAgree
    OBVIOUS
  <2> DEFINE mask == Space - 1
  <2>1. (IF salted THEN CODE_SPACE ELSE FULL_SPACE) - 1 = mask
    BY DEF Space
  <2>2. ASSUME NEW x \in Numbers, NEW k \in {W \div 2, W}
        PROVE  num_add(num_and(Limbs(x), Limbs(Power(2, k) - 1)),
                       Limbs(x - (x % Power(2, k)))) = Result(Limbs(x), FALSE)
    <3>1. WORD * WORD \in Nat /\ counter \in 0..(WORD * WORD - 1)
      BY CardFits, WordFacts
    <3>2. x \in 0..(WORD * WORD - 1)
      BY <3>1 DEF Numbers
    <3>3. k \in 0..W
      BY WordAssumption
    <3> QED  BY <3>2, <3>3, MaskSplit
  <2> HIDE DEF mask
  <2> QED  BY <2>1, <2>2, CardAgrees, MaxAgrees DEF WordsAgree, mask
<1> QED
  BY CardInvariant, <1>1, PTL

-----------------------------------------------------------------------------
(***************************************************************************)
(* LettersFaithful: the letters of a passcode are digits.                  *)
(***************************************************************************)
Rests(x, n, p) == p = [i \in 0..n |-> IF i = 0 THEN x ELSE p[i - 1] \div ALPHABET]

(* The alphabet has a length that fits in a word. *)
LEMMA AlphabetFits == ALPHABET \in Word \ {0} /\ ALPHABET \in Nat \ {0}
BY NumberAssumption, WordFacts DEF Word

(* The function AfterDigits is the one its equations describe. *)
LEMMA RestsDefined ==
  ASSUME NEW x \in Nat, NEW n \in Nat
  PROVE  \E p \in [0..n -> Nat] : Rests(x, n, p) /\ AfterDigits(x, n) = p[n]
<1> DEFINE g == [q \in Nat \X (1..n) |-> q[1] \div ALPHABET]
           P == CHOOSE p : Rests(x, n, p)
<1>1. \A t \in Nat, i \in 1..n : g[<<t, i>>] = t \div ALPHABET /\ t \div ALPHABET \in Nat
  BY AlphabetFits
<1>0. TurnsStay(g, Nat, n)
  <2> HIDE DEF g
  <2> QED  BY <1>1 DEF TurnsStay
<1> HIDE DEF g, P
<1>2. PICK f \in [0..n -> Nat] : RunOf(g, x, n, f)
  BY <1>0, LoopDefined
<1>3. \A i \in 0..n : f[i] = IF i = 0 THEN x ELSE f[i - 1] \div ALPHABET
  <2> SUFFICES ASSUME NEW i \in 0..n, i # 0  PROVE f[i] = f[i - 1] \div ALPHABET
    BY <1>2 DEF RunOf
  <2>1. i \in 1..n /\ i - 1 \in 0..n /\ f[i - 1] \in Nat
    OBVIOUS
  <2> QED  BY <2>1, <1>1, <1>2 DEF RunOf
<1>4. Rests(x, n, f)
  BY <1>3 DEF Rests
<1>5. Rests(x, n, P)
  BY <1>4 DEF P
<1>6. AfterDigits(x, n) = P[n]
  BY DEF AfterDigits, Rests, P
<1>7. \A i \in 0..n : P[i] = IF i = 0 THEN x ELSE P[i - 1] \div ALPHABET
  BY <1>5 DEF Rests
<1>8. \A i \in 0..n : P[i] \in Nat
  <2> DEFINE T == {i \in 0..n : P[i] \in Nat}
  <2>1. 0 \in T
    BY <1>7
  <2>2. ASSUME NEW i \in 1..n, i - 1 \in T  PROVE i \in T
    <3>1. i \in 0..n /\ i # 0 /\ P[i - 1] \in Nat
      BY <2>2
    <3>2. P[i] = P[i - 1] \div ALPHABET
      BY <3>1, <1>7
    <3>3. P[i] \in Nat
      BY <3>1, <3>2, <1>1
    <3> QED  BY <3>1, <3>3
  <2> HIDE DEF T
  <2>3. \A i \in 0..n : i \in T
    BY <2>1, <2>2, TurnInduction
  <2> QED  BY <2>3 DEF T
<1>9. P \in [0..n -> Nat]
  <2>1. P = [i \in 0..n |-> P[i]]
    BY <1>5 DEF Rests
  <2> QED  BY <2>1, <1>8
<1> QED
  BY <1>5, <1>6, <1>9

(* One more digit is taken off by one more division. *)
LEMMA AfterNext ==
  ASSUME NEW x \in Nat, NEW n \in Nat
  PROVE  /\ AfterDigits(x, n) \in Nat
         /\ AfterDigits(x, 0) = x
         /\ AfterDigits(x, n + 1) = AfterDigits(x, n) \div ALPHABET
<1>0. n + 1 \in Nat /\ 0 \in Nat
  OBVIOUS
<1>1. PICK p \in [0..n -> Nat] : Rests(x, n, p) /\ AfterDigits(x, n) = p[n]
  BY RestsDefined
<1>2. PICK q \in [0..(n + 1) -> Nat] : Rests(x, n + 1, q) /\ AfterDigits(x, n + 1) = q[n + 1]
  BY <1>0, RestsDefined
<1>3. PICK z \in [0..0 -> Nat] : Rests(x, 0, z) /\ AfterDigits(x, 0) = z[0]
  BY <1>0, RestsDefined
<1>4. \A i \in 0..n : p[i] = IF i = 0 THEN x ELSE p[i - 1] \div ALPHABET
  BY <1>1 DEF Rests
<1>5. \A i \in 0..(n + 1) : q[i] = IF i = 0 THEN x ELSE q[i - 1] \div ALPHABET
  BY <1>2 DEF Rests
<1>6. z[0] = x
  BY <1>3 DEF Rests
<1> DEFINE T == {i \in 0..n : p[i] = q[i]}
<1>7. 0 \in T
  BY <1>4, <1>5
<1>8. ASSUME NEW i \in 1..n, i - 1 \in T  PROVE i \in T
  <2>1. i \in 0..n /\ i \in 0..(n + 1) /\ i # 0 /\ p[i - 1] = q[i - 1]
    BY <1>8
  <2>2. p[i] = p[i - 1] \div ALPHABET
    BY <2>1, <1>4
  <2>3. q[i] = q[i - 1] \div ALPHABET
    BY <2>1, <1>5
  <2>4. p[i] = q[i]
    BY <2>1, <2>2, <2>3
  <2> QED  BY <2>1, <2>4
<1> HIDE DEF T
<1>9. \A i \in 0..n : i \in T
  BY <1>7, <1>8, TurnInduction
<1>10. p[n] = q[n]
  BY <1>9 DEF T
<1>11. q[n + 1] = q[n] \div ALPHABET
  BY <1>5
<1> QED
  BY <1>1, <1>2, <1>3, <1>6, <1>10, <1>11

LetterStates == [cipher : Nums, str : Seq(Nat)]

(* A turn of ppp_get_passcode divides and appends the remainder. *)
LEMMA LetterTurnValue ==
  ASSUME NEW t \in LetterStates
  PROVE  /\ LetterTurn(t) \in LetterStates
         /\ Value(LetterTurn(t).cipher) = Value(t.cipher) \div ALPHABET
         /\ LetterTurn(t).str = Append(t.str, Value(t.cipher) % ALPHABET)
<1> DEFINE c == t.cipher
           d == num_div_i(c, ALPHABET)
           v == Value(c)
<1>1. c \in Nums /\ t.str \in Seq(Nat)
  BY DEF LetterStates
<1>2. LetterTurn(t) = [cipher |-> d.result, str |-> Append(t.str, d.remainder)]
  BY DEF LetterTurn
<1> HIDE DEF c
<1>3. d.result \in Nums /\ Value(d.result) = v \div ALPHABET /\ d.remainder = v % ALPHABET
  BY <1>1, AlphabetFits, DivValue
<1>4. v \in Nat
  BY <1>1, ValueRange, WordFacts
<1> HIDE DEF d, v
<1>5. v % ALPHABET \in Nat
  BY <1>4, AlphabetFits
<1>6. Append(t.str, d.remainder) \in Seq(Nat)
  BY <1>1, <1>3, <1>5
<1> QED
  BY <1>2, <1>3, <1>6 DEF LetterStates, c, v

(* The states ppp_get_passcode goes through. *)
LEMMA LetterLoop ==
  ASSUME NEW c \in Nums, code_length \in 2..16
  PROVE  \E f : /\ \A i \in 0..code_length : f[i] \in LetterStates
                /\ f[0] = [cipher |-> c, str |-> <<>>]
                /\ \A i \in 1..code_length : f[i] = LetterTurn(f[i - 1])
                /\ passcode_letters(c) = f[code_length].str
<1> DEFINE S == LetterStates
           N == code_length
           first == [cipher |-> c, str |-> <<>>]
           g == [q \in S \X (1..N) |-> LetterTurn(q[1])]
           Turn(s, i) == CHOOSE z \in {LetterTurn(t) : t \in {s}} : TRUE
           Is(f) == f = [i \in 0..N |-> IF i = 0 THEN first ELSE Turn(f[i - 1], i)]
           A == CHOOSE f : Is(f)
<1>1. \A s, i : Turn(s, i) = LetterTurn(s)
  OBVIOUS
<1>2. N \in Nat /\ first \in S
  BY DEF LetterStates
<1>3. \A t \in S, i \in 1..N : g[<<t, i>>] = LetterTurn(t)
  OBVIOUS
<1>4. \A t \in S, i \in 1..N : LetterTurn(t) \in S
  BY LetterTurnValue
<1>5. passcode_letters(c) = A[code_length].str
  BY DEF passcode_letters, Loop
<1> HIDE DEF g, S, N, first, Turn
<1>6. TurnsStay(g, S, N)
  BY <1>3, <1>4 DEF TurnsStay
<1>7. PICK f \in [0..N -> S] : RunOf(g, first, N, f)
  BY <1>2, <1>6, LoopDefined
<1>8. Is(f)
  <2>1. ASSUME NEW i \in 0..N
        PROVE  f[i] = IF i = 0 THEN first ELSE Turn(f[i - 1], i)
    <3>1. CASE i = 0
      BY <1>7, <3>1 DEF RunOf
    <3>2. CASE i # 0
      <4>1. i \in 1..N /\ i - 1 \in 0..N /\ f[i - 1] \in S
        BY <1>2, <3>2
      <4> QED  BY <1>1, <1>3, <1>7, <3>2, <4>1 DEF RunOf
    <3> QED  BY <3>1, <3>2
  <2> QED  BY <2>1
<1>9. Is(A)
  BY <1>8
<1> HIDE DEF A
<1>10. A[0] = first /\ \A i \in 1..N : A[i] = LetterTurn(A[i - 1])
  <2>1. \A i \in 0..N : A[i] = IF i = 0 THEN first ELSE Turn(A[i - 1], i)
    BY <1>9
  <2> QED  BY <1>1, <1>2, <2>1
<1>11. \A i \in 1..N : A[i - 1] \in S => A[i] = g[<<A[i - 1], i>>]
  BY <1>3, <1>10
<1>12. \A i \in 0..N : A[i] \in S
  <2>1. A[0] = first
    BY <1>10
  <2> HIDE DEF Is
  <2> QED  BY <1>2, <1>6, <1>11, <2>1, LoopStates
<1> QED
  BY <1>5, <1>10, <1>12 DEF S, N, first

(* Letters are digits in the base ALPHABET, the least significant first. *)
LEMMA LettersAre ==
  ASSUME NEW x \in 0..(WORD * WORD - 1), code_length \in 2..16
  PROVE  passcode_letters(Limbs(x))
           = [i \in 1..code_length |-> AfterDigits(x, i - 1) % ALPHABET]
<1> DEFINE c == Limbs(x)
           L == code_length
           D(i) == AfterDigits(x, i - 1) % ALPHABET
<1>1. c \in Nums /\ Value(c) = x /\ x \in Nat /\ L \in Nat
  BY LimbsRange, WordFacts
<1> HIDE DEF c
<1>2. PICK f : /\ \A i \in 0..L : f[i] \in LetterStates
               /\ f[0] = [cipher |-> c, str |-> <<>>]
               /\ \A i \in 1..L : f[i] = LetterTurn(f[i - 1])
               /\ passcode_letters(c) = f[L].str
  BY <1>1, LetterLoop
<1> HIDE DEF L
<1> DEFINE T == {i \in 0..L : /\ Value(f[i].cipher) = AfterDigits(x, i)
                              /\ Len(f[i].str) = i
                              /\ \A j \in 1..i : f[i].str[j] = D(j)}
<1>3. 0 \in T
  <2>1. Value(f[0].cipher) = AfterDigits(x, 0)
    BY <1>1, <1>2, AfterNext
  <2>2. Len(f[0].str) = 0 /\ 0 \in 0..L
    BY <1>1, <1>2
  <2> HIDE DEF D
  <2> QED  BY <2>1, <2>2
<1>4. ASSUME NEW i \in 1..L, i - 1 \in T  PROVE i \in T
  <2> DEFINE s == f[i - 1]
             m == i - 1
             v == AfterDigits(x, m)
  <2>1. m \in Nat /\ m + 1 = i /\ m \in 0..L /\ i \in 0..L
    BY <1>1
  <2>2. s \in LetterStates /\ f[i] = LetterTurn(s)
    BY <1>2, <2>1
  <2>3. Value(s.cipher) = v /\ Len(s.str) = m /\ \A j \in 1..m : s.str[j] = D(j)
    BY <1>4
  <2>4. D(i) = v % ALPHABET
    OBVIOUS
  <2>5. AfterDigits(x, i) = v \div ALPHABET
    <3> HIDE DEF m
    <3> QED  BY <1>1, <2>1, AfterNext
  <2> HIDE DEF s, m, D, v
  <2>6. Value(f[i].cipher) = v \div ALPHABET /\ f[i].str = Append(s.str, v % ALPHABET)
    BY <2>2, <2>3, LetterTurnValue
  <2>7. s.str \in Seq(Nat)
    BY <2>2 DEF LetterStates
  <2> DEFINE e == v % ALPHABET
             z == s.str
  <2> HIDE DEF e, z
  <2>8. f[i].str = Append(z, e) /\ Len(z) = m /\ z \in Seq(Nat) /\ D(i) = e
        /\ \A j \in 1..m : z[j] = D(j)
    BY <2>3, <2>4, <2>6, <2>7 DEF e, z
  <2>9. Len(f[i].str) = i /\ \A j \in 1..i : f[i].str[j] = D(j)
    BY <2>1, <2>8
  <2> QED  BY <2>1, <2>5, <2>6, <2>9
<1> HIDE DEF T
<1>5. L \in T
  <2>1. \A i \in 0..L : i \in T
    BY <1>1, <1>3, <1>4, TurnInduction
  <2>2. L \in 0..L
    BY <1>1
  <2> QED  BY <2>1, <2>2
<1>6. f[L].str = [i \in 1..L |-> D(i)]
  <2> DEFINE z == f[L].str
  <2>1. L \in 0..L
    BY <1>1
  <2>2. z \in Seq(Nat)
    BY <1>2, <2>1 DEF LetterStates
  <2>3. Len(z) = L /\ \A j \in 1..L : z[j] = D(j)
    BY <1>5 DEF T
  <2> HIDE DEF z, D
  <2>4. z = [i \in 1..L |-> z[i]]
    BY <2>2, <2>3
  <2> QED  BY <2>3, <2>4 DEF z
<1> QED
  BY <1>2, <1>6 DEF c, L

-----------------------------------------------------------------------------
(***************************************************************************)
(* FileFaithful and KeyboardFaithful: numbers as digits, the first one     *)
(* first.                                                                  *)
(***************************************************************************)
(* A digit of x, where P is a power of the base b, and what is left before *)
(* it.                                                                     *)
LEMMA NextDigit ==
  ASSUME NEW x \in Nat, NEW b \in Nat \ {0}, NEW P \in Nat \ {0}
  PROVE  /\ x \div P \in 0..x
         /\ x \div (b * P) \in Nat
         /\ (x \div P) % b \in 0..(b - 1)
         /\ x \div P = b * (x \div (b * P)) + ((x \div P) % b)
<1> DEFINE q == x \div P
           r == x % P
           h == q \div b
           e == q % b
           D == b * P
           s == P * e + r
<1>1. q \in Nat /\ r \in 0..(P - 1) /\ x = P * q + r
  <2>1. x \in Int /\ x >= 0
    OBVIOUS
  <2> QED  BY <2>1, DivParts
<1> HIDE DEF q, r
<1>2. h \in Nat /\ e \in 0..(b - 1) /\ q = b * h + e
  <2>1. q \in Int /\ q >= 0
    BY <1>1
  <2> QED  BY <2>1, DivParts
<1> HIDE DEF h, e
<1>3. q <= x
  <2>1. (P - 1) * q >= 0
    BY <1>1
  <2> QED  BY <1>1, <2>1
<1>4. D \in Nat \ {0}
  OBVIOUS
<1>5. s \in 0..(D - 1)
  <2>1. P * (b - 1 - e) >= 0 /\ P * e >= 0
    BY <1>2
  <2> QED  BY <1>1, <1>2, <2>1
<1>6. x = D * h + s
  BY <1>1, <1>2
<1>7. x \div D = h
  <2> HIDE DEF D, s
  <2>1. x \in Int /\ h \in Int
    BY <1>2
  <2> QED  BY <1>4, <1>5, <1>6, <2>1, DivIs
<1> QED
  BY <1>1, <1>2, <1>3, <1>7 DEF q, e

(* The powers of ten. *)
LEMMA TenPower ==
  \A n \in Nat : /\ Power(10, n) \in Nat \ {0} /\ Power(10, 0) = 1
                 /\ Power(10, n + 1) = 10 * Power(10, n)
<1> DEFINE b == 10
<1>1. b \in Nat \ {0} /\ b \in Nat
  OBVIOUS
<1> HIDE DEF b
<1>2. ASSUME NEW n \in Nat
      PROVE  /\ Power(b, n) \in Nat \ {0} /\ Power(b, 0) = 1
             /\ Power(b, n + 1) = b * Power(b, n)
  <2>1. Power(b, n) \in Nat \ {0}
    BY <1>1, PowerSum
  <2> QED  BY <1>1, <2>1, PowerNext
<1> QED
  BY <1>2 DEF b

(* The powers of sixteen. *)
LEMMA SixteenPower ==
  \A n \in Nat : /\ Power(16, n) \in Nat \ {0} /\ Power(16, 0) = 1
                 /\ Power(16, n + 1) = 16 * Power(16, n)
<1> DEFINE b == 16
<1>1. b \in Nat \ {0} /\ b \in Nat
  OBVIOUS
<1> HIDE DEF b
<1>2. ASSUME NEW n \in Nat
      PROVE  /\ Power(b, n) \in Nat \ {0} /\ Power(b, 0) = 1
             /\ Power(b, n + 1) = b * Power(b, n)
  <2>1. Power(b, n) \in Nat \ {0}
    BY <1>1, PowerSum
  <2> QED  BY <1>1, <2>1, PowerNext
<1> QED
  BY <1>2 DEF b

(* HEX_DIGITS digits are two words. *)
LEMMA HexDigits ==
  HEX_DIGITS \in Nat \ {0} /\ Power(16, HEX_DIGITS) = WORD * WORD
<1> DEFINE H == HEX_DIGITS
           T == {i \in 0..H : Power(16, i) = Power(2, 4 * i)}
<1>1. H \in Nat \ {0} /\ 4 * H = BITS
  BY WordAssumption DEF HEX_DIGITS, BITS
<1> HIDE DEF H
<1>2. 0 \in T
  BY <1>1, SixteenPower, PowerNext
<1>3. ASSUME NEW i \in 1..H, i - 1 \in T  PROVE i \in T
  <2> DEFINE m == i - 1
             k == 4 * m
  <2>1. m \in Nat /\ m + 1 = i /\ k \in Nat /\ 4 * i = k + 4 /\ i \in 0..H
    BY <1>1
  <2>2. Power(16, m) = Power(2, k)
    BY <1>3
  <2> HIDE DEF m, k
  <2>3. Power(16, i) = 16 * Power(2, k)
    BY <2>1, <2>2, SixteenPower
  <2>4. Power(2, k + 4) = 16 * Power(2, k)
    <3> DEFINE k1 == k + 1
               k2 == k + 2
               k3 == k + 3
    <3>1. k1 \in Nat /\ k2 \in Nat /\ k3 \in Nat
          /\ k1 + 1 = k2 /\ k2 + 1 = k3 /\ k3 + 1 = k + 4
      BY <2>1
    <3>2. Power(2, k + 1) = 2 * Power(2, k) /\ Power(2, k) \in Nat
      BY <2>1, PowerNext
    <3>3. Power(2, k1) = 2 * Power(2, k)
      BY <3>2
    <3> HIDE DEF k1, k2, k3
    <3>4. Power(2, k2) = 2 * Power(2, k1) /\ Power(2, k3) = 2 * Power(2, k2)
          /\ Power(2, k + 4) = 2 * Power(2, k3)
      <4> DEFINE k4 == k + 4
      <4>1. k4 \in Nat /\ k4 = k3 + 1
        BY <2>1, <3>1
      <4> HIDE DEF k4
      <4>2. Power(2, k4) = 2 * Power(2, k3)
        BY <3>1, <4>1, TwoNext
      <4> QED  BY <3>1, <4>2, TwoNext DEF k4
    <3> QED  BY <3>2, <3>3, <3>4
  <2> QED  BY <2>1, <2>3, <2>4
<1> HIDE DEF T
<1>4. H \in T
  <2>1. \A i \in 0..H : i \in T
    BY <1>1, <1>2, <1>3, TurnInduction
  <2>2. H \in 0..H
    BY <1>1
  <2> QED  BY <2>1, <2>2
<1> QED
  BY <1>1, <1>4, WordFacts DEF T, H

(* A shift of a number that leaves a bit free doubles it. *)
LEMMA LshiftSmall ==
  ASSUME NEW a \in Nums, 2 * Value(a) < WORD * WORD
  PROVE  num_lshift(a) \in Nums /\ Value(num_lshift(a)) = 2 * Value(a)
<1> DEFINE s == num_lshift(a)
           b == a.hi \div TOP
           v == Value(a)
           WW == WORD * WORD
<1>1. s \in Nums /\ b \in {0, 1} /\ Value(s) = 2 * v - b * WW
  BY LshiftValue
<1>2. WW \in Nat /\ v \in 0..(WW - 1) /\ Value(s) \in 0..(WW - 1)
  BY <1>1, ValueRange, WordFacts
<1> HIDE DEF s, b, v, WW
<1>3. b = 0
  <2>1. CASE b = 1
    <3>1. 2 * v < WW /\ Value(s) = 2 * v - WW
      BY <1>1, <1>2, <2>1 DEF v, WW
    <3> QED  BY <1>2, <3>1
  <2> QED  BY <1>1, <2>1
<1>4. Value(s) = 2 * v
  BY <1>1, <1>2, <1>3
<1> QED
  BY <1>1, <1>4 DEF s, v

(* A hexadecimal digit more, when there is room for one. *)
LEMMA HexTurnValue ==
  ASSUME NEW n \in Nums, NEW d \in 0..15
  PROVE  /\ HexTurn(n, d) \in Nums
         /\ 16 * Value(n) + d < WORD * WORD => Value(HexTurn(n, d)) = 16 * Value(n) + d
<1> DEFINE n1 == num_lshift(n)
           n2 == num_lshift(n1)
           n3 == num_lshift(n2)
           n4 == num_lshift(n3)
           e == num_i(d)
           s == num_add(n4, e)
           WW == WORD * WORD
<1>1. HexTurn(n, d) = s.n
  BY DEF HexTurn
<1>2. e \in Nums /\ Value(e) = d
  <2>1. d \in Word
    BY WordHolds DEF Word
  <2> QED  BY <2>1, NumOf
<1> HIDE DEF e
<1>3. n1 \in Nums
  BY LshiftValue
<1>4. 2 * Value(n) < WW => Value(n1) = 2 * Value(n)
  BY LshiftSmall
<1> HIDE DEF n1
<1>5. n2 \in Nums
  BY <1>3, LshiftValue
<1>6. 2 * Value(n1) < WW => Value(n2) = 2 * Value(n1)
  BY <1>3, LshiftSmall
<1> HIDE DEF n2
<1>7. n3 \in Nums
  BY <1>5, LshiftValue
<1>8. 2 * Value(n2) < WW => Value(n3) = 2 * Value(n2)
  BY <1>5, LshiftSmall
<1> HIDE DEF n3
<1>9. n4 \in Nums
  BY <1>7, LshiftValue
<1>10. 2 * Value(n3) < WW => Value(n4) = 2 * Value(n3)
  BY <1>7, LshiftSmall
<1> HIDE DEF n4
<1>11. s.n \in Nums /\ s.overflow \in BOOLEAN
       /\ (s.overflow <=> Value(n4) + Value(e) >= WW)
       /\ (~s.overflow => Value(s.n) = Value(n4) + Value(e))
  BY <1>2, <1>9, AddValue
<1> HIDE DEF s, WW
<1>12. ASSUME 16 * Value(n) + d < WW  PROVE Value(s.n) = 16 * Value(n) + d
  <2> DEFINE v == Value(n)
  <2>1. v \in Nat /\ WW \in Nat
    BY ValueRange, WordFacts DEF WW
  <2> HIDE DEF v
  <2>2. 16 * v + d < WW
    BY <1>12 DEF v
  <2>3. Value(n1) = 2 * v
    BY <1>4, <2>1, <2>2 DEF v
  <2>4. Value(n2) = 4 * v
    BY <1>6, <2>1, <2>2, <2>3
  <2>5. Value(n3) = 8 * v
    BY <1>8, <2>1, <2>2, <2>4
  <2>6. Value(n4) = 16 * v
    BY <1>10, <2>1, <2>2, <2>5
  <2>7. Value(n4) + Value(e) = 16 * v + d
    BY <1>2, <2>6
  <2>8. ~s.overflow
    BY <1>11, <2>1, <2>2, <2>7
  <2> QED  BY <1>11, <2>7, <2>8 DEF v
<1> QED
  BY <1>1, <1>11, <1>12 DEF WW

(* The states _num_set_str goes through, hexadecimal. *)
LEMMA HexLoop ==
  ASSUME NEW str \in Seq(0..15)
  PROVE  \E f : /\ \A i \in 0..Len(str) : f[i] \in Nums
                /\ f[0] = num_i(0)
                /\ \A i \in 1..Len(str) : f[i] = HexTurn(f[i - 1], str[i])
                /\ _num_set_str_hex(str) = [n |-> f[Len(str)],
                     ret |-> IF Len(str) \notin 1..HEX_DIGITS THEN 1 ELSE 0]
<1> DEFINE S == Nums
           N == Len(str)
           first == num_i(0)
           g == [q \in S \X (1..N) |-> HexTurn(q[1], str[q[2]])]
           Turn(s, i) == CHOOSE z \in {HexTurn(t, str[i]) : t \in {s}} : TRUE
           Is(f) == f = [i \in 0..N |-> IF i = 0 THEN first ELSE Turn(f[i - 1], i)]
           A == CHOOSE f : Is(f)
<1>1. \A s, i : Turn(s, i) = HexTurn(s, str[i])
  OBVIOUS
<1>2. N \in Nat /\ first \in S
  <2>1. 0 \in Word
    BY WordHolds DEF Word
  <2> QED  BY <2>1, NumOf
<1>3. \A t \in S, i \in 1..N : g[<<t, i>>] = HexTurn(t, str[i])
  OBVIOUS
<1>4. \A t \in S, i \in 1..N : HexTurn(t, str[i]) \in S
  BY HexTurnValue
<1>5. _num_set_str_hex(str) = [n |-> A[Len(str)],
                            ret |-> IF Len(str) \notin 1..HEX_DIGITS THEN 1 ELSE 0]
  BY DEF _num_set_str_hex, Loop
<1> HIDE DEF g, S, N, first, Turn
<1>6. TurnsStay(g, S, N)
  BY <1>3, <1>4 DEF TurnsStay
<1>7. PICK f \in [0..N -> S] : RunOf(g, first, N, f)
  BY <1>2, <1>6, LoopDefined
<1>8. Is(f)
  <2>1. ASSUME NEW i \in 0..N
        PROVE  f[i] = IF i = 0 THEN first ELSE Turn(f[i - 1], i)
    <3>1. CASE i = 0
      BY <1>7, <3>1 DEF RunOf
    <3>2. CASE i # 0
      <4>1. i \in 1..N /\ i - 1 \in 0..N /\ f[i - 1] \in S
        BY <1>2, <3>2
      <4> QED  BY <1>1, <1>3, <1>7, <3>2, <4>1 DEF RunOf
    <3> QED  BY <3>1, <3>2
  <2> QED  BY <2>1
<1>9. Is(A)
  BY <1>8
<1> HIDE DEF A
<1>10. A[0] = first /\ \A i \in 1..N : A[i] = HexTurn(A[i - 1], str[i])
  <2>1. \A i \in 0..N : A[i] = IF i = 0 THEN first ELSE Turn(A[i - 1], i)
    BY <1>9
  <2> QED  BY <1>1, <1>2, <2>1
<1>11. \A i \in 1..N : A[i - 1] \in S => A[i] = g[<<A[i - 1], i>>]
  BY <1>3, <1>10
<1>12. \A i \in 0..N : A[i] \in S
  <2>1. A[0] = first
    BY <1>10
  <2> HIDE DEF Is
  <2>2. \A i \in 1..N : A[i - 1] \in S => A[i] = g[<<A[i - 1], i>>]
    BY <1>11
  <2> HIDE DEF A
  <2> QED  BY <1>2, <1>6, <2>1, <2>2, LoopStates, ZenonT(30)
<1> QED
  BY <1>5, <1>10, <1>12 DEF S, N, first

(* The digit in front of it, in base 16. *)
LEMMA NextHexDigit ==
  ASSUME NEW x \in Nat, NEW P \in Nat \ {0}
  PROVE  /\ x \div P \in 0..x
         /\ x \div (16 * P) \in Nat
         /\ (x \div P) % 16 \in 0..15
         /\ x \div P = 16 * (x \div (16 * P)) + ((x \div P) % 16)
<1> DEFINE b == 16
<1>1. b \in Nat \ {0} /\ b - 1 = 15
  OBVIOUS
<1> HIDE DEF b
<1>2. /\ x \div P \in 0..x
      /\ x \div (b * P) \in Nat
      /\ (x \div P) % b \in 0..(b - 1)
      /\ x \div P = b * (x \div (b * P)) + ((x \div P) % b)
  BY <1>1, NextDigit
<1> QED
  BY <1>1, <1>2 DEF b

(* The digit in front of it, in base 10. *)
LEMMA NextDecDigit ==
  ASSUME NEW x \in Nat, NEW P \in Nat \ {0}
  PROVE  /\ x \div P \in 0..x
         /\ x \div (10 * P) \in Nat
         /\ (x \div P) % 10 \in 0..9
         /\ x \div P = 10 * (x \div (10 * P)) + ((x \div P) % 10)
<1> DEFINE b == 10
<1>1. b \in Nat \ {0} /\ b - 1 = 9
  OBVIOUS
<1> HIDE DEF b
<1>2. /\ x \div P \in 0..x
      /\ x \div (b * P) \in Nat
      /\ (x \div P) % b \in 0..(b - 1)
      /\ x \div P = b * (x \div (b * P)) + ((x \div P) % b)
  BY <1>1, NextDigit
<1> QED
  BY <1>1, <1>2 DEF b

(* The hexadecimal digits of a number. *)
LEMMA HexDigitsOf ==
  ASSUME NEW x \in 0..(WORD * WORD - 1)
  PROVE  LET str == num_export_hex(Limbs(x))
         IN /\ str \in Seq(0..15) /\ Len(str) = HEX_DIGITS
            /\ \A i \in 1..HEX_DIGITS :
                 str[i] = (x \div Power(16, HEX_DIGITS - i)) % 16
<1> DEFINE str == num_export_hex(Limbs(x))
           H == HEX_DIGITS
           D(i) == (x \div Power(16, H - i)) % 16
<1>1. H \in Nat /\ x \in Nat
  BY HexDigits, WordFacts
<1>2. str = [i \in 1..H |-> D(i)]
  BY LimbsRange DEF num_export_hex
<1> HIDE DEF H, str
<1>3. ASSUME NEW i \in 1..H  PROVE D(i) \in 0..15
  <2> DEFINE j == H - i
             P == Power(16, j)
  <2>1. j \in Nat
    BY <1>1
  <2> HIDE DEF j
  <2>2. P \in Nat \ {0}
    BY <2>1, SixteenPower
  <2> HIDE DEF P
  <2>3. (x \div P) % 16 \in 0..15
    BY <1>1, <2>2, NextHexDigit
  <2> QED  BY <2>3 DEF P, j
<1> HIDE DEF D
<1>4. str \in Seq(0..15) /\ Len(str) = H /\ \A i \in 1..H : str[i] = D(i)
  <2>1. str \in [1..H -> 0..15]
    BY <1>2, <1>3
  <2>2. str \in Seq(0..15)
    BY <1>1, <2>1
  <2>3. Len(str) = H
    BY <1>1, <2>1, <2>2, LenProperties
  <2> QED  BY <1>2, <2>2, <2>3
<1> QED
  BY <1>4 DEF str, H, D

(* What is written to the state file is read back. *)
THEOREM HexReadBack ==
  ASSUME NEW x \in 0..(WORD * WORD - 1)
  PROVE  _num_set_str_hex(num_export_hex(Limbs(x))) = [n |-> Limbs(x), ret |-> 0]
<1> DEFINE str == num_export_hex(Limbs(x))
           H == HEX_DIGITS
           WW == WORD * WORD
<1>1. H \in Nat \ {0} /\ x \in Nat /\ WW \in Nat \ {0} /\ x < WW /\ Power(16, H) = WW
  BY HexDigits, WordFacts
<1>2. str \in Seq(0..15) /\ Len(str) = H
      /\ \A i \in 1..H : str[i] = (x \div Power(16, H - i)) % 16
  BY HexDigitsOf
<1> HIDE DEF str
<1>3. PICK f : /\ \A i \in 0..Len(str) : f[i] \in Nums
               /\ f[0] = num_i(0)
               /\ \A i \in 1..Len(str) : f[i] = HexTurn(f[i - 1], str[i])
               /\ _num_set_str_hex(str)
                    = [n |-> f[Len(str)],
                       ret |-> IF Len(str) \notin 1..HEX_DIGITS THEN 1 ELSE 0]
  BY <1>2, HexLoop
<1>4. _num_set_str_hex(str) = [n |-> f[H], ret |-> 0]
  <2>1. Len(str) \in 1..HEX_DIGITS
    BY <1>1, <1>2
  <2> QED  BY <1>2, <1>3, <2>1
<1>5. \A i \in 0..H : f[i] \in Nums
  BY <1>2, <1>3
<1>6. \A i \in 1..H : f[i] = HexTurn(f[i - 1], str[i])
  BY <1>2, <1>3
<1> HIDE DEF H, WW
<1> DEFINE T == {i \in 0..H : Value(f[i]) = x \div Power(16, H - i)}
<1>7. 0 \in T
  <2>1. Value(f[0]) = 0
    <3>1. 0 \in Word
      BY WordHolds DEF Word
    <3> QED  BY <1>3, <3>1, NumOf
  <2>2. x \div WW = 0
    <3>1. x \in Int /\ 0 \in Int /\ x \in 0..(WW - 1) /\ x = WW * 0 + x
      BY <1>1
    <3> QED  BY <1>1, <3>1, DivIs
  <2>3. H - 0 = H /\ 0 \in 0..H
    BY <1>1
  <2> QED  BY <1>1, <2>1, <2>2, <2>3
<1>8. ASSUME NEW i \in 1..H, i - 1 \in T  PROVE i \in T
  <2> DEFINE n == f[i - 1]
             d == str[i]
             j == H - i
             k == H - (i - 1)
             P == Power(16, j)
             Q == Power(16, k)
  <2>1. j \in Nat /\ k = j + 1 /\ i \in 0..H /\ i - 1 \in 0..H
    BY <1>1
  <2>2. n \in Nums /\ f[i] = HexTurn(n, d)
    BY <1>5, <1>6, <2>1
  <2>3. d = (x \div P) % 16
    BY <1>2
  <2>4. Value(n) = x \div Q
    BY <1>8
  <2>5. P \in Nat \ {0} /\ Q = 16 * P
    <3> HIDE DEF j, k
    <3> QED  BY <2>1, SixteenPower
  <2> HIDE DEF n, d, P, Q, j, k
  <2>6. /\ x \div P \in 0..x
        /\ x \div (16 * P) \in Nat
        /\ (x \div P) % 16 \in 0..15
        /\ x \div P = 16 * (x \div (16 * P)) + ((x \div P) % 16)
    BY <1>1, <2>5, NextHexDigit
  <2>7. x \div P = 16 * Value(n) + d /\ d \in 0..15 /\ x \div P \in 0..x
    BY <2>3, <2>4, <2>5, <2>6
  <2>8. 16 * Value(n) + d < WW
    BY <1>1, <2>7
  <2>9. Value(f[i]) = x \div P
    BY <2>2, <2>7, <2>8, HexTurnValue DEF WW
  <2> QED  BY <2>1, <2>9 DEF P, j
<1> HIDE DEF T
<1>9. Value(f[H]) = x
  <2>1. H \in T
    <3>1. \A i \in 0..H : i \in T
      BY <1>1, <1>7, <1>8, TurnInduction
    <3>2. H \in 0..H
      BY <1>1
    <3> QED  BY <3>1, <3>2
  <2>2. Power(16, H - H) = 1
    <3>1. H - H = 0
      BY <1>1
    <3>2. Power(16, 0) = 1
      BY SixteenPower
    <3> QED  BY <3>1, <3>2
  <2>3. x \div 1 = x
    BY <1>1
  <2> QED  BY <2>1, <2>2, <2>3 DEF T
<1>10. f[H] = Limbs(x)
  <2>1. f[H] \in Nums
    BY <1>1, <1>5
  <2> QED  BY <1>9, <2>1, NumIs
<1> QED
  BY <1>4, <1>10 DEF str

(* One exponent more, and more of them, in base ten. *)
LEMMA TenGrows ==
  \A m, n \in Nat : /\ n = m + 1 => Power(10, n) = 10 * Power(10, m)
                    /\ m <= n => Power(10, m) <= Power(10, n)
<1> DEFINE b == 10
<1>1. b \in Nat \ {0}
  OBVIOUS
<1> HIDE DEF b
<1>2. ASSUME NEW m \in Nat, NEW n \in Nat, m <= n
      PROVE  Power(b, m) <= Power(b, n)
  BY <1>1, <1>2, PowerGrows
<1> QED
  BY <1>2, TenPower DEF b

(* DEC_DIGITS is the number of digits of the largest number. *)
LEMMA DecDigits ==
  /\ DEC_DIGITS \in 1..W /\ DEC_DIGITS \in Nat /\ DEC_DIGITS >= 3
  /\ WORD * WORD - 1 < Power(10, DEC_DIGITS)
<1> DEFINE WW == WORD * WORD
           T == {d \in Nat : WW - 1 < Power(10, d)}
           U == {i \in 0..W : Power(2, i + i) <= Power(10, i)}
           Is(d) == Power(10, d - 1) <= WW - 1 /\ WW - 1 < Power(10, d)
<1>1. W \in Nat /\ WW \in Nat /\ Power(2, W + W) = WW /\ WW >= 256
  <2>1. WORD * (WORD - 1) >= 0
    BY WordHolds
  <2>2. WORD * WORD >= WORD
    BY <2>1, WordHolds
  <2>3. W + W = BITS
    BY WordFacts DEF BITS
  <2> QED  BY <2>2, <2>3, WordHolds, WordFacts
<1>2. 0 \in U
  <2>1. Power(2, 0) = 1 /\ Power(10, 0) = 1 /\ 0 + 0 = 0
    BY PowerNext, TenPower
  <2> QED  BY <1>1, <2>1
<1>3. ASSUME NEW i \in 1..W, i - 1 \in U  PROVE i \in U
  <2> DEFINE m == i - 1
             m0 == m + m
             m1 == m0 + 1
             m2 == i + i
  <2>1. m \in Nat /\ i = m + 1 /\ m0 \in Nat /\ m1 \in Nat /\ m2 \in Nat
        /\ m1 = m0 + 1 /\ m2 = m1 + 1 /\ i \in 0..W /\ i \in Nat
    BY <1>1
  <2>2. Power(2, m0) <= Power(10, m)
    BY <1>3
  <2> HIDE DEF m, m0, m1, m2
  <2>3. Power(2, m1) = 2 * Power(2, m0) /\ Power(2, m2) = 2 * Power(2, m1)
        /\ Power(2, m0) \in Nat
    BY <2>1, TwoNext, TwoPower
  <2>4. Power(10, i) = 10 * Power(10, m) /\ Power(10, m) \in Nat
    BY <2>1, TenGrows, TenPower
  <2>5. Power(2, m2) <= Power(10, i)
    BY <2>2, <2>3, <2>4
  <2> QED  BY <2>1, <2>5 DEF m2
<1> HIDE DEF U, WW
<1>4. W \in T
  <2>1. W \in U
    <3>1. \A i \in 0..W : i \in U
      BY <1>1, <1>2, <1>3, TurnInduction
    <3>2. W \in 0..W
      BY <1>1
    <3> QED  BY <3>1, <3>2
  <2>2. WW <= Power(10, W) /\ Power(10, W) \in Nat
    BY <1>1, <2>1, TenPower DEF U
  <2> QED  BY <1>1, <2>2
<1>5. PICK d \in T : \A y \in T : d <= y
  BY <1>4, LeastNat
<1>6. d \in Nat /\ WW - 1 < Power(10, d) /\ d <= W
  BY <1>4, <1>5
<1>7. d # 0
  <2>1. Power(10, 0) = 1
    BY TenPower
  <2> QED  BY <1>1, <1>6, <2>1
<1>8. Power(10, d - 1) <= WW - 1
  <2> DEFINE e == d - 1
  <2>1. e \in Nat /\ e < d
    BY <1>6, <1>7
  <2> HIDE DEF e
  <2>2. e \notin T
    BY <1>5, <1>6, <2>1
  <2>3. Power(10, e) \in Nat
    BY <2>1, TenPower
  <2>4. Power(10, e) <= WW - 1
    BY <1>1, <2>1, <2>2, <2>3
  <2> QED  BY <2>4 DEF e
<1>9. \E y \in 1..W : Is(y)
  BY <1>1, <1>6, <1>7, <1>8
<1>10. DEC_DIGITS = CHOOSE y \in 1..W : Is(y)
  BY DEF DEC_DIGITS, WW
<1> HIDE DEF Is
<1>11. DEC_DIGITS \in 1..W /\ Is(DEC_DIGITS)
  BY <1>9, <1>10
<1>12. DEC_DIGITS \in Nat /\ WW - 1 < Power(10, DEC_DIGITS)
  BY <1>1, <1>11 DEF Is
<1>13. DEC_DIGITS >= 3
  <2> DEFINE D == DEC_DIGITS
             m == 2
  <2>1. Power(10, 2) = 100
    <3>1. Power(10, 0) = 1 /\ Power(10, 0 + 1) = 10 * Power(10, 0)
          /\ Power(10, 1 + 1) = 10 * Power(10, 1)
      BY TenPower
    <3> QED  BY <3>1
  <2>2. m \in Nat /\ D \in Nat /\ WW - 1 < Power(10, D) /\ Power(10, m) = 100
    BY <1>12, <2>1
  <2> HIDE DEF D
  <2>3. ASSUME D <= 2  PROVE FALSE
    <3> HIDE DEF m
    <3>1. D <= m
      BY <2>3 DEF m
    <3>2. Power(10, D) <= 100
      BY <2>2, <3>1, TenGrows
    <3>3. Power(10, D) \in Nat
      BY <2>2, TenPower
    <3> QED  BY <1>1, <2>2, <3>2, <3>3
  <2> QED  BY <2>2, <2>3 DEF D
<1> QED
  BY <1>11, <1>12, <1>13 DEF WW

GetStates == [value : Nums, str : Seq(0..9)]

(* A turn of _num_get_str: the next digit in front, until nothing is left. *)
LEMMA GetTurnValue ==
  ASSUME NEW t \in GetStates
  PROVE  /\ GetTurn(t) \in GetStates
         /\ Value(t.value) = 0 => GetTurn(t) = t
         /\ Value(t.value) # 0 =>
              /\ Value(GetTurn(t).value) = Value(t.value) \div 10
              /\ GetTurn(t).str = <<Value(t.value) % 10>> \o t.str
<1> DEFINE c == t.value
           d == num_div_i(c, 10)
           v == Value(c)
           e == d.remainder
           z == t.str
<1>1. c \in Nums /\ z \in Seq(0..9)
  BY DEF GetStates
<1>2. num_cmp_i(c, 0) = 0 <=> v = 0
  BY <1>1, ZeroValue
<1>3. GetTurn(t) = IF num_cmp_i(c, 0) = 0 THEN t
                   ELSE [value |-> d.result, str |-> <<e>> \o z]
  BY DEF GetTurn
<1>4. v \in Nat
  BY <1>1, ValueRange, WordFacts
<1> HIDE DEF c, z
<1>5. d.result \in Nums /\ Value(d.result) = v \div 10 /\ e = v % 10
  <2> DEFINE m == 10
  <2>1. m \in Word \ {0}
    BY WordHolds DEF Word
  <2> HIDE DEF m
  <2>2. /\ num_div_i(c, m).result \in Nums
        /\ Value(num_div_i(c, m).result) = v \div m
        /\ num_div_i(c, m).remainder = v % m
    BY <1>1, <2>1, DivValue
  <2> QED  BY <2>2 DEF m
<1> HIDE DEF d, v, e
<1>6. e \in 0..9
  BY <1>4, <1>5
<1>7. <<e>> \o z \in Seq(0..9)
  BY <1>1, <1>6
<1>8. CASE v = 0
  BY <1>2, <1>3, <1>8 DEF v, c
<1>9. CASE v # 0
  <2>1. GetTurn(t) = [value |-> d.result, str |-> <<e>> \o z]
    BY <1>2, <1>3, <1>9
  <2> QED  BY <1>5, <1>7, <1>9, <2>1 DEF GetStates, v, c, z
<1> QED
  BY <1>8, <1>9

(* The states _num_get_str goes through. *)
LEMMA GetLoop ==
  ASSUME NEW c \in Nums, num_cmp_i(c, 0) # 0
  PROVE  \E f : /\ \A i \in 0..DEC_DIGITS : f[i] \in GetStates
                /\ f[0] = [value |-> c, str |-> <<>>]
                /\ \A i \in 1..DEC_DIGITS : f[i] = GetTurn(f[i - 1])
                /\ _num_get_str(c) = f[DEC_DIGITS].str
<1> DEFINE S == GetStates
           N == DEC_DIGITS
           first == [value |-> c, str |-> <<>>]
           g == [q \in S \X (1..N) |-> GetTurn(q[1])]
           Turn(s, i) == CHOOSE z \in {GetTurn(t) : t \in {s}} : TRUE
           Is(f) == f = [i \in 0..N |-> IF i = 0 THEN first ELSE Turn(f[i - 1], i)]
           A == CHOOSE f : Is(f)
<1>1. \A s, i : Turn(s, i) = GetTurn(s)
  OBVIOUS
<1>2. N \in Nat /\ first \in S
  BY DecDigits DEF GetStates
<1>3. \A t \in S, i \in 1..N : g[<<t, i>>] = GetTurn(t)
  OBVIOUS
<1>4. \A t \in S, i \in 1..N : GetTurn(t) \in S
  BY GetTurnValue
<1>5. _num_get_str(c) = A[DEC_DIGITS].str
  BY DEF _num_get_str, Loop
<1> HIDE DEF g, S, N, first, Turn
<1>6. TurnsStay(g, S, N)
  BY <1>3, <1>4 DEF TurnsStay
<1>7. PICK f \in [0..N -> S] : RunOf(g, first, N, f)
  BY <1>2, <1>6, LoopDefined
<1>8. Is(f)
  <2>1. ASSUME NEW i \in 0..N
        PROVE  f[i] = IF i = 0 THEN first ELSE Turn(f[i - 1], i)
    <3>1. CASE i = 0
      BY <1>7, <3>1 DEF RunOf
    <3>2. CASE i # 0
      <4>1. i \in 1..N /\ i - 1 \in 0..N /\ f[i - 1] \in S
        BY <1>2, <3>2
      <4> QED  BY <1>1, <1>3, <1>7, <3>2, <4>1 DEF RunOf
    <3> QED  BY <3>1, <3>2
  <2> QED  BY <2>1
<1>9. Is(A)
  BY <1>8
<1> HIDE DEF A
<1>10. A[0] = first /\ \A i \in 1..N : A[i] = GetTurn(A[i - 1])
  <2>1. \A i \in 0..N : A[i] = IF i = 0 THEN first ELSE Turn(A[i - 1], i)
    BY <1>9
  <2> QED  BY <1>1, <1>2, <2>1
<1>11. \A i \in 1..N : A[i - 1] \in S => A[i] = g[<<A[i - 1], i>>]
  BY <1>3, <1>10
<1>12. \A i \in 0..N : A[i] \in S
  <2>1. A[0] = first
    BY <1>10
  <2> HIDE DEF Is
  <2> QED  BY <1>2, <1>6, <1>11, <2>1, LoopStates
<1> QED
  BY <1>5, <1>10, <1>12 DEF S, N, first

(* str are the last L decimal digits of x. *)
LastDigits(x, L, str) ==
    Len(str) = L /\ \A k \in 1..L : str[k] = (x \div Power(10, L - k)) % 10

(* After some turns of _num_get_str: L digits are written. *)
GetInv(x, s, i, L) ==
    /\ LastDigits(x, L, s.str)
    /\ Value(s.value) = x \div Power(10, L)
    /\ L # 0 => x \div Power(10, L - 1) # 0
    /\ L = i \/ Value(s.value) = 0

(* One turn writes one digit more, or none when all are written. *)
LEMMA GetTurnInv ==
  ASSUME NEW x \in Nat, NEW s \in GetStates, NEW i \in Nat, NEW L \in 0..i,
         GetInv(x, s, i, L)
  PROVE  \E M \in 0..(i + 1) : GetInv(x, GetTurn(s), i + 1, M)
<1> DEFINE v == Value(s.value)
           z == s.str
           M == L + 1
           P == Power(10, L)
           Q == Power(10, M)
           e == v % 10
           y == <<e>> \o z
<1>1. L \in Nat /\ M \in Nat /\ M = L + 1 /\ z \in Seq(0..9) /\ L \in 0..(i + 1)
  BY DEF GetStates
<1>2. /\ LastDigits(x, L, z)
      /\ v = x \div P
      /\ L # 0 => x \div Power(10, L - 1) # 0
      /\ L = i \/ v = 0
  BY DEF GetInv
<1>3. CASE v = 0
  <2>1. GetTurn(s) = s
    BY <1>3, GetTurnValue
  <2>2. GetInv(x, GetTurn(s), i + 1, L)
    BY <1>2, <1>3, <2>1 DEF GetInv
  <2> QED  BY <1>1, <2>2
<1>4. CASE v # 0
  <2>1. L = i
    BY <1>2, <1>4
  <2>2. Value(GetTurn(s).value) = v \div 10 /\ GetTurn(s).str = y
    BY <1>4, GetTurnValue
  <2>3. P \in Nat \ {0} /\ Q = 10 * P
    <3> HIDE DEF M
    <3> QED  BY <1>1, TenGrows, TenPower
  <2> HIDE DEF M, P, Q, v
  <2>4. /\ x \div P \in 0..x
        /\ x \div (10 * P) \in Nat
        /\ (x \div P) % 10 \in 0..9
        /\ x \div P = 10 * (x \div (10 * P)) + ((x \div P) % 10)
    BY <2>3, NextDecDigit
  <2>5. v \div 10 = x \div Q /\ e \in 0..9
    <3> DEFINE h == x \div (10 * P)
    <3>1. v = 10 * h + e /\ h \in Nat /\ e \in 0..9
      BY <1>2, <2>4
    <3> HIDE DEF h, e
    <3>2. v \div 10 = h
      BY <3>1
    <3> QED  BY <2>3, <3>1, <3>2 DEF h
  <2>6. LastDigits(x, M, y)
    <3> HIDE DEF e
    <3>1. Len(z) = L
      BY <1>2 DEF LastDigits
    <3>2. Len(y) = M /\ y[1] = e /\ \A k \in 2..M : y[k] = z[k - 1]
      <4> DEFINE o == <<e>>
      <4>1. o \in Seq(0..9) /\ Len(o) = 1 /\ o[1] = e
        BY <2>5
      <4>2. y = o \o z
        OBVIOUS
      <4> HIDE DEF o, y, z
      <4>3. Len(y) = Len(o) + Len(z)
            /\ \A k \in 1..(Len(o) + Len(z)) :
                 y[k] = IF k <= Len(o) THEN o[k] ELSE z[k - Len(o)]
        BY <1>1, <4>1, <4>2, ConcatProperties
      <4> QED  BY <1>1, <3>1, <4>1, <4>3
    <3> HIDE DEF y
    <3>3. ASSUME NEW k \in 1..M  PROVE y[k] = (x \div Power(10, M - k)) % 10
      <4>1. CASE k = 1
        <5>1. M - k = L
          BY <1>1, <4>1
        <5> QED  BY <1>2, <3>2, <4>1, <5>1 DEF P, e
      <4>2. CASE k # 1
        <5> DEFINE j == k - 1
        <5>1. j \in 1..L /\ M - k = L - j /\ k \in 2..M
          BY <1>1, <4>2
        <5>2. z[j] = (x \div Power(10, L - j)) % 10
          BY <1>2, <5>1 DEF LastDigits
        <5>3. y[k] = z[j]
          BY <3>2, <5>1
        <5> QED  BY <5>1, <5>2, <5>3
      <4> QED  BY <4>1, <4>2
    <3> QED  BY <3>2, <3>3 DEF LastDigits
  <2>7. x \div Power(10, M - 1) # 0
    <3>1. M - 1 = L
      BY <1>1
    <3> QED  BY <1>2, <1>4, <3>1 DEF P
  <2>8. GetInv(x, GetTurn(s), i + 1, M)
    <3> HIDE DEF y
    <3>1. M = i + 1
      BY <1>1, <2>1
    <3> QED  BY <2>2, <2>5, <2>6, <2>7, <3>1 DEF GetInv, Q
  <2>9. M \in 0..(i + 1)
    BY <1>1, <2>1
  <2> QED  BY <2>8, <2>9
<1> QED
  BY <1>3, <1>4

(* What _num_get_str writes: the digits of x, without leading zeros. *)
LEMMA GetStr ==
  ASSUME NEW x \in 0..(WORD * WORD - 1)
  PROVE  LET str == _num_get_str(Limbs(x))
         IN \E L \in 1..DEC_DIGITS :
              /\ str \in Seq(0..9) /\ LastDigits(x, L, str)
              /\ x \div Power(10, L) = 0
              /\ (x = 0 /\ L = 1) \/ Power(10, L - 1) <= x
<1> DEFINE c == Limbs(x)
           D == DEC_DIGITS
           str == _num_get_str(c)
<1>1. /\ c \in Nums /\ Value(c) = x /\ x \in Nat /\ D \in Nat /\ D >= 3
      /\ x < Power(10, D) /\ Power(10, D) \in Nat \ {0}
  <2>1. WORD * WORD \in Nat /\ D \in Nat /\ D >= 3 /\ WORD * WORD - 1 < Power(10, D)
    BY DecDigits, WordFacts
  <2>2. Power(10, D) \in Nat \ {0}
    BY <2>1, TenPower
  <2> HIDE DEF D
  <2> QED  BY <2>1, <2>2, LimbsRange
<1> HIDE DEF c, D
<1>2. CASE x = 0
  <2>1. str = <<0>>
    BY <1>1, <1>2, ZeroValue DEF _num_get_str
  <2>2. str \in Seq(0..9) /\ Len(str) = 1 /\ str[1] = 0
    BY <2>1
  <2>3. Power(10, 0) = 1 /\ Power(10, 1) \in Nat \ {0}
    BY TenPower
  <2>4. LastDigits(x, 1, str)
    <3>1. ASSUME NEW k \in 1..1  PROVE str[k] = (x \div Power(10, 1 - k)) % 10
      <4>1. 1 - k = 0 /\ k = 1
        OBVIOUS
      <4>2. (x \div 1) % 10 = 0
        BY <1>2
      <4> QED  BY <2>2, <2>3, <4>1, <4>2
    <3> QED  BY <2>2, <3>1 DEF LastDigits
  <2>5. x \div Power(10, 1) = 0
    <3> DEFINE P == Power(10, 1)
    <3>1. P \in Nat \ {0} /\ x \in Int /\ 0 \in Int /\ 0 \in 0..(P - 1) /\ x = P * 0 + 0
      BY <1>2, <2>3
    <3> HIDE DEF P
    <3>2. x \div P = 0
      BY <3>1, DivIs
    <3> QED  BY <3>2 DEF P
  <2>6. 1 \in 1..D
    BY <1>1
  <2> HIDE DEF str
  <2> QED  BY <1>2, <2>2, <2>4, <2>5, <2>6 DEF str, c, D
<1>3. CASE x # 0
  <2>1. num_cmp_i(c, 0) # 0
    BY <1>1, <1>3, ZeroValue
  <2>2. PICK f : /\ \A i \in 0..D : f[i] \in GetStates
                 /\ f[0] = [value |-> c, str |-> <<>>]
                 /\ \A i \in 1..D : f[i] = GetTurn(f[i - 1])
                 /\ str = f[D].str
    BY <1>1, <2>1, GetLoop DEF D
  <2> HIDE DEF str
  <2> DEFINE T == {i \in 0..D : \E L \in 0..i : GetInv(x, f[i], i, L)}
  <2>3. 0 \in T
    <3>1. Power(10, 0) = 1 /\ x \div 1 = x
      BY <1>1, TenPower
    <3>2. f[0].value = c /\ f[0].str = <<>>
      BY <2>2
    <3>3. Value(f[0].value) = x \div Power(10, 0)
      BY <1>1, <3>1, <3>2
    <3>4. LastDigits(x, 0, f[0].str)
      BY <3>2 DEF LastDigits
    <3>5. GetInv(x, f[0], 0, 0)
      BY <3>3, <3>4 DEF GetInv
    <3>6. 0 \in 0..D /\ 0 \in 0..0
      BY <1>1
    <3> QED  BY <3>5, <3>6
  <2>4. ASSUME NEW i \in 1..D, i - 1 \in T  PROVE i \in T
    <3> DEFINE m == i - 1
    <3>1. m \in Nat /\ m + 1 = i /\ m \in 0..D /\ i \in 0..D
      BY <1>1
    <3>2. PICK L \in 0..m : GetInv(x, f[m], m, L)
      BY <2>4
    <3>3. f[m] \in GetStates /\ f[i] = GetTurn(f[m])
      BY <2>2, <3>1
    <3> HIDE DEF m
    <3>4. \E M \in 0..(m + 1) : GetInv(x, GetTurn(f[m]), m + 1, M)
      BY <1>1, <3>1, <3>2, <3>3, GetTurnInv
    <3> QED  BY <3>1, <3>3, <3>4
  <2> HIDE DEF T
  <2>5. D \in T
    <3>1. \A i \in 0..D : i \in T
      BY <1>1, <2>3, <2>4, TurnInduction
    <3>2. D \in 0..D
      BY <1>1
    <3> QED  BY <3>1, <3>2
  <2>6. PICK L \in 0..D : GetInv(x, f[D], D, L)
    BY <2>5 DEF T
  <2> DEFINE P == Power(10, L)
             v == Value(f[D].value)
  <2>7. /\ LastDigits(x, L, str) /\ v = x \div P
        /\ L # 0 => x \div Power(10, L - 1) # 0
        /\ L = D \/ v = 0
    BY <2>2, <2>6 DEF GetInv
  <2> HIDE DEF v
  <2>8. x \div P = 0
    <3>1. CASE L = D
      <4>1. P \in Nat \ {0} /\ x \in 0..(P - 1)
        BY <1>1, <3>1
      <4> HIDE DEF P
      <4>2. x \in Int /\ 0 \in Int /\ x = P * 0 + x
        BY <1>1, <4>1
      <4> QED  BY <4>1, <4>2, DivIs
    <3>2. CASE L # D
      BY <2>7, <3>2
    <3> QED  BY <3>1, <3>2
  <2>9. L # 0
    <3>1. Power(10, 0) = 1 /\ x \div 1 = x
      BY <1>1, TenPower
    <3>2. x \div Power(10, 0) # 0
      BY <1>3, <3>1
    <3> QED  BY <2>8, <3>2
  <2>10. Power(10, L - 1) <= x
    <3> DEFINE m == L - 1
               R == Power(10, m)
    <3>1. m \in Nat
      BY <1>1, <2>9
    <3> HIDE DEF m
    <3>2. R \in Nat \ {0}
      BY <3>1, TenPower
    <3>3. x \div R # 0
      BY <2>7, <2>9 DEF m
    <3> HIDE DEF R
    <3>4. ASSUME x < R  PROVE FALSE
      <4>1. x \in Int /\ 0 \in Int /\ x \in 0..(R - 1) /\ x = R * 0 + x
        BY <1>1, <3>2, <3>4
      <4>2. x \div R = 0
        BY <3>2, <4>1, DivIs
      <4> QED  BY <3>3, <4>2
    <3>5. R <= x
      BY <1>1, <3>2, <3>4
    <3> QED  BY <3>5 DEF R, m
  <2>11. str \in Seq(0..9)
    <3>1. D \in 0..D
      BY <1>1
    <3> QED  BY <2>2, <3>1 DEF GetStates
  <2>12. L \in 1..D
    BY <1>1, <2>9
  <2> QED  BY <2>7, <2>8, <2>10, <2>11, <2>12 DEF str, c, D
<1> QED
  BY <1>2, <1>3

DecStates == [n : Nums, overflow : BOOLEAN]

(* A turn of _num_set_str: times ten, and a digit more, or an overflow. *)
LEMMA DecTurnValue ==
  ASSUME NEW t \in DecStates, NEW d \in 0..9
  PROVE  LET u == DecTurn(t, d)
             v == 10 * Value(t.n) + d
         IN /\ u \in DecStates
            /\ t.overflow => u.overflow
            /\ ~t.overflow => (u.overflow <=> v >= WORD * WORD)
            /\ ~u.overflow => Value(u.n) = v
<1> DEFINE n == t.n
           m == num_mul_i(n, 10)
           e == num_i(d)
           a == num_add(m.n, e)
           V == Value(n)
           v == 10 * V + d
           WW == WORD * WORD
           u == DecTurn(t, d)
<1>1. n \in Nums /\ t.overflow \in BOOLEAN
  BY DEF DecStates
<1>2. u = IF t.overflow THEN t ELSE Result(a.n, m.overflow \/ a.overflow)
  BY DEF DecTurn
<1>3. e \in Nums /\ Value(e) = d
  <2>1. d \in Word
    BY WordHolds DEF Word
  <2> QED  BY <2>1, NumOf
<1>4. V \in Nat /\ WW \in Nat
  BY <1>1, ValueRange, WordFacts
<1>5. m.n \in Nums /\ m.overflow \in BOOLEAN
      /\ (m.overflow <=> 10 * V >= WW) /\ (~m.overflow => Value(m.n) = 10 * V)
  <2> DEFINE b == 10
             p == num_mul_i(n, b)
  <2>1. b \in Word
    BY WordHolds DEF Word
  <2> HIDE DEF n, b
  <2>2. /\ p.n \in Nums /\ p.overflow \in BOOLEAN
        /\ (p.overflow <=> V * b >= WW)
        /\ (~p.overflow => Value(p.n) = V * b)
    BY <1>1, <2>1, MulValue
  <2>3. V * b = 10 * V
    <3> HIDE DEF V
    <3> QED  BY <1>4 DEF b
  <2>4. p = m
    BY DEF b
  <2> HIDE DEF p, m, V, WW
  <2> QED  BY <2>2, <2>3, <2>4
<1> HIDE DEF m, e, n
<1>6. a.n \in Nums /\ a.overflow \in BOOLEAN
      /\ (a.overflow <=> Value(m.n) + Value(e) >= WW)
      /\ (~a.overflow => Value(a.n) = Value(m.n) + Value(e))
  BY <1>3, <1>5, AddValue
<1> HIDE DEF a, V, WW, u
<1>7. CASE t.overflow
  <2>1. u = t
    BY <1>2, <1>7
  <2> QED  BY <1>7, <2>1 DEF u
<1>8. CASE ~t.overflow
  <2> DEFINE o == m.overflow \/ a.overflow
  <2>1. u = Result(a.n, o) /\ o \in BOOLEAN
    BY <1>2, <1>5, <1>6, <1>8
  <2>2. u.n = a.n /\ u.overflow = o /\ u \in DecStates
    BY <1>6, <2>1 DEF Result, DecStates
  <2>3. o <=> v >= WW
    <3>1. CASE m.overflow
      <4>1. 10 * V >= WW
        BY <1>5, <3>1
      <4>2. v >= WW
        BY <1>4, <4>1
      <4> QED  BY <3>1, <4>2
    <3>2. CASE ~m.overflow
      <4>1. Value(m.n) + Value(e) = v
        BY <1>3, <1>5, <3>2
      <4> QED  BY <1>6, <3>2, <4>1
    <3> QED  BY <3>1, <3>2
  <2>4. ~o => Value(a.n) = v
    <3> SUFFICES ASSUME ~o  PROVE Value(a.n) = v
      OBVIOUS
    <3>1. Value(m.n) = 10 * V /\ Value(a.n) = Value(m.n) + Value(e)
      BY <1>5, <1>6
    <3> QED  BY <1>3, <3>1
  <2> HIDE DEF o, v
  <2> QED  BY <1>8, <2>2, <2>3, <2>4 DEF u, v, V, n, WW
<1> QED
  BY <1>7, <1>8

(* The states _num_set_str goes through, decimal. *)
LEMMA DecLoop ==
  ASSUME NEW str \in Seq(0..9)
  PROVE  \E f : /\ \A i \in 0..Len(str) : f[i] \in DecStates
                /\ f[0] = Result(num_i(0), FALSE)
                /\ \A i \in 1..Len(str) : f[i] = DecTurn(f[i - 1], str[i])
                /\ _num_set_str_dec(str) = [n |-> f[Len(str)].n,
                       ret |-> IF f[Len(str)].overflow
                                  \/ Len(str) \notin 1..DEC_DIGITS THEN 1 ELSE 0]
<1> DEFINE S == DecStates
           N == Len(str)
           first == Result(num_i(0), FALSE)
           g == [q \in S \X (1..N) |-> DecTurn(q[1], str[q[2]])]
           Turn(s, i) == CHOOSE z \in {DecTurn(t, str[i]) : t \in {s}} : TRUE
           Is(f) == f = [i \in 0..N |-> IF i = 0 THEN first ELSE Turn(f[i - 1], i)]
           A == CHOOSE f : Is(f)
<1>1. \A s, i : Turn(s, i) = DecTurn(s, str[i])
  OBVIOUS
<1>2. N \in Nat /\ first \in S
  <2>1. 0 \in Word
    BY WordHolds DEF Word
  <2> QED  BY <2>1, NumOf DEF Result, DecStates
<1>3. \A t \in S, i \in 1..N : g[<<t, i>>] = DecTurn(t, str[i])
  OBVIOUS
<1>4. \A t \in S, i \in 1..N : DecTurn(t, str[i]) \in S
  BY DecTurnValue
<1>5. _num_set_str_dec(str) = [n |-> A[Len(str)].n,
                       ret |-> IF A[Len(str)].overflow
                                  \/ Len(str) \notin 1..DEC_DIGITS THEN 1 ELSE 0]
  BY DEF _num_set_str_dec, Loop
<1> HIDE DEF g, S, N, first, Turn
<1>6. TurnsStay(g, S, N)
  BY <1>3, <1>4 DEF TurnsStay
<1>7. PICK f \in [0..N -> S] : RunOf(g, first, N, f)
  BY <1>2, <1>6, LoopDefined
<1>8. Is(f)
  <2>1. ASSUME NEW i \in 0..N
        PROVE  f[i] = IF i = 0 THEN first ELSE Turn(f[i - 1], i)
    <3>1. CASE i = 0
      BY <1>7, <3>1 DEF RunOf
    <3>2. CASE i # 0
      <4>1. i \in 1..N /\ i - 1 \in 0..N /\ f[i - 1] \in S
        BY <1>2, <3>2
      <4> QED  BY <1>1, <1>3, <1>7, <3>2, <4>1 DEF RunOf
    <3> QED  BY <3>1, <3>2
  <2> QED  BY <2>1
<1>9. Is(A)
  BY <1>8
<1> HIDE DEF A
<1>10. A[0] = first /\ \A i \in 1..N : A[i] = DecTurn(A[i - 1], str[i])
  <2>1. \A i \in 0..N : A[i] = IF i = 0 THEN first ELSE Turn(A[i - 1], i)
    BY <1>9
  <2> QED  BY <1>1, <1>2, <2>1
<1>11. \A i \in 1..N : A[i - 1] \in S => A[i] = g[<<A[i - 1], i>>]
  BY <1>3, <1>10
<1>12. \A i \in 0..N : A[i] \in S
  <2>1. A[0] = first
    BY <1>10
  <2> HIDE DEF Is
  <2>2. \A i \in 1..N : A[i - 1] \in S => A[i] = g[<<A[i - 1], i>>]
    BY <1>11
  <2> HIDE DEF A
  <2> QED  BY <1>2, <1>6, <2>1, <2>2, LoopStates, ZenonT(30)
<1> QED
  BY <1>5, <1>10, <1>12 DEF S, N, first

(* What is typed is taken if it fits, and refused if it does not. *)
LEMMA DecRead ==
  ASSUME NEW str \in Seq(0..9), NEW y \in Nat, NEW K \in Nat,
         LastDigits(y, K, str), y \div Power(10, K) = 0
  PROVE  /\ y < WORD * WORD /\ K \in 1..DEC_DIGITS =>
              _num_set_str_dec(str) = [n |-> Limbs(y), ret |-> 0]
         /\ ~(y < WORD * WORD) => _num_set_str_dec(str).ret = 1
<1> DEFINE WW == WORD * WORD
<1>1. WW \in Nat \ {0}
  BY WordFacts
<1>2. Len(str) = K /\ \A i \in 1..K : str[i] = (y \div Power(10, K - i)) % 10
  BY DEF LastDigits
<1>3. PICK f : /\ \A i \in 0..Len(str) : f[i] \in DecStates
               /\ f[0] = Result(num_i(0), FALSE)
               /\ \A i \in 1..Len(str) : f[i] = DecTurn(f[i - 1], str[i])
               /\ _num_set_str_dec(str)
                    = [n |-> f[Len(str)].n,
                       ret |-> IF f[Len(str)].overflow
                                  \/ Len(str) \notin 1..DEC_DIGITS THEN 1 ELSE 0]
  BY DecLoop
<1>4. \A i \in 0..K : f[i] \in DecStates
  BY <1>2, <1>3
<1>5. \A i \in 1..K : f[i] = DecTurn(f[i - 1], str[i])
  BY <1>2, <1>3
<1>6. _num_set_str_dec(str)
        = [n |-> f[K].n,
           ret |-> IF f[K].overflow \/ K \notin 1..DEC_DIGITS THEN 1 ELSE 0]
  BY <1>2, <1>3
<1> HIDE DEF WW
<1> DEFINE T == {i \in 0..K : /\ ~f[i].overflow => Value(f[i].n) = y \div Power(10, K - i)
                              /\ y < WW => ~f[i].overflow}
<1>7. 0 \in T
  <2>1. f[0].n = num_i(0) /\ f[0].overflow = FALSE
    BY <1>3 DEF Result
  <2>2. Value(f[0].n) = 0
    <3>1. 0 \in Word
      BY WordHolds DEF Word
    <3> QED  BY <2>1, <3>1, NumOf
  <2>3. K - 0 = K /\ 0 \in 0..K
    OBVIOUS
  <2> QED  BY <2>1, <2>2, <2>3
<1>8. ASSUME NEW i \in 1..K, i - 1 \in T  PROVE i \in T
  <2> DEFINE s == f[i - 1]
             u == f[i]
             d == str[i]
             j == K - i
             k == K - (i - 1)
             P == Power(10, j)
             Q == Power(10, k)
  <2>1. j \in Nat /\ k \in Nat /\ k = j + 1 /\ i \in 0..K /\ i - 1 \in 0..K
    OBVIOUS
  <2>2. s \in DecStates /\ u = DecTurn(s, d)
    BY <1>4, <1>5, <2>1
  <2>3. d = (y \div P) % 10
    BY <1>2
  <2>4. (~s.overflow => Value(s.n) = y \div Q) /\ (y < WW => ~s.overflow)
    BY <1>8
  <2>5. P \in Nat \ {0} /\ Q = 10 * P
    <3> HIDE DEF j, k
    <3> QED  BY <2>1, TenGrows, TenPower
  <2> HIDE DEF s, u, d, P, Q, j, k
  <2>6. /\ y \div P \in 0..y
        /\ y \div (10 * P) \in Nat
        /\ (y \div P) % 10 \in 0..9
        /\ y \div P = 10 * (y \div (10 * P)) + ((y \div P) % 10)
    BY <2>5, NextDecDigit
  <2> DEFINE q == y \div P
             v == 10 * Value(s.n) + d
  <2>7. d \in 0..9 /\ q \in 0..y /\ (~s.overflow => v = q)
    BY <2>3, <2>4, <2>5, <2>6
  <2>8. /\ u \in DecStates
        /\ s.overflow => u.overflow
        /\ ~s.overflow => (u.overflow <=> v >= WW)
        /\ ~u.overflow => Value(u.n) = v
    BY <2>2, <2>7, DecTurnValue DEF WW
  <2>9. u.overflow \in BOOLEAN /\ s.overflow \in BOOLEAN
    BY <2>2, <2>8 DEF DecStates
  <2> HIDE DEF q, v
  <2>10. ~u.overflow => Value(u.n) = q
    BY <2>7, <2>8, <2>9
  <2>11. y < WW => ~u.overflow
    <3> SUFFICES ASSUME y < WW  PROVE ~u.overflow
      OBVIOUS
    <3>1. ~s.overflow
      BY <2>4
    <3>2. v = q /\ ~(q >= WW)
      BY <1>1, <2>7, <3>1
    <3> QED  BY <2>8, <3>1, <3>2
  <2> QED  BY <2>1, <2>10, <2>11 DEF u, q, P, j
<1> HIDE DEF T
<1>9. (~f[K].overflow => Value(f[K].n) = y) /\ (y < WW => ~f[K].overflow)
  <2>1. K \in T
    <3>1. \A i \in 0..K : i \in T
      BY <1>7, <1>8, TurnInduction
    <3>2. K \in 0..K
      OBVIOUS
    <3> QED  BY <3>1, <3>2
  <2>2. Power(10, K - K) = 1
    <3>1. K - K = 0
      OBVIOUS
    <3>2. Power(10, 0) = 1
      BY TenPower
    <3> QED  BY <3>1, <3>2
  <2>3. y \div 1 = y
    OBVIOUS
  <2> QED  BY <2>1, <2>2, <2>3 DEF T
<1>10. f[K].n \in Nums /\ f[K].overflow \in BOOLEAN
  <2>1. K \in 0..K
    OBVIOUS
  <2> QED  BY <1>4, <2>1 DEF DecStates
<1>11. ASSUME y < WW, K \in 1..DEC_DIGITS
       PROVE  _num_set_str_dec(str) = [n |-> Limbs(y), ret |-> 0]
  <2>1. ~f[K].overflow /\ Value(f[K].n) = y
    BY <1>9, <1>11
  <2>2. f[K].n = Limbs(y)
    BY <1>10, <2>1, NumIs
  <2> QED  BY <1>6, <1>11, <2>1, <2>2
<1>12. ASSUME ~(y < WW)  PROVE _num_set_str_dec(str).ret = 1
  <2>1. f[K].overflow
    <3> SUFFICES ASSUME ~f[K].overflow  PROVE FALSE
      OBVIOUS
    <3>1. Value(f[K].n) = y
      BY <1>9
    <3>2. Value(f[K].n) \in 0..(WW - 1)
      BY <1>10, ValueRange DEF WW
    <3> QED  BY <1>1, <1>12, <3>1, <3>2
  <2> QED  BY <1>6, <2>1
<1> QED
  BY <1>11, <1>12 DEF WW

(* Two digits more behind a number are the digits of a hundred times it    *)
(* and they.                                                               *)
LEMMA TwoDigitsMore ==
  ASSUME NEW x \in Nat, NEW d \in 0..99, NEW L \in Nat,
         NEW str \in Seq(0..9), LastDigits(x, L, str), x \div Power(10, L) = 0
  PROVE  LET typed == str \o <<d \div 10, d % 10>>
             y == 100 * x + d
         IN /\ typed \in Seq(0..9) /\ LastDigits(y, L + 2, typed)
            /\ y \div Power(10, L + 2) = 0
<1> DEFINE p == d \div 10
           q == d % 10
           two == <<p, q>>
           typed == str \o two
           y == 100 * x + d
<1>1. p \in 0..9 /\ q \in 0..9 /\ d = 10 * p + q
  OBVIOUS
<1> HIDE DEF p, q
<1>2. two \in Seq(0..9) /\ Len(two) = 2 /\ two[1] = p /\ two[2] = q
  BY <1>1
<1>3. Len(str) = L /\ \A k \in 1..L : str[k] = (x \div Power(10, L - k)) % 10
  BY DEF LastDigits
<1> HIDE DEF two
<1>4. /\ typed \in Seq(0..9) /\ Len(typed) = Len(str) + Len(two)
      /\ \A k \in 1..(Len(str) + Len(two)) :
           typed[k] = IF k <= Len(str) THEN str[k] ELSE two[k - Len(str)]
  BY <1>2, ConcatProperties
<1> HIDE DEF typed
<1>5. Len(typed) = L + 2 /\ (\A k \in 1..L : typed[k] = str[k])
      /\ typed[L + 1] = p /\ typed[L + 2] = q
  BY <1>2, <1>3, <1>4
<1>6. y \in Nat
  OBVIOUS
<1>7. ASSUME NEW j \in Nat, NEW k \in Nat, k = j + 2
      PROVE  y \div Power(10, k) = x \div Power(10, j)
  <2> DEFINE P == Power(10, j)
             Q == Power(10, k)
             h == x \div P
             r == x % P
             s == 100 * r + d
  <2>1. P \in Nat \ {0}
    BY TenPower
  <2>2. Q = 100 * P
    <3> DEFINE m == j + 1
    <3>1. m \in Nat /\ m = j + 1 /\ k = m + 1
      BY <1>7
    <3> HIDE DEF m
    <3>2. Power(10, m) = 10 * Power(10, j) /\ Power(10, k) = 10 * Power(10, m)
      BY <3>1, TenGrows
    <3> QED  BY <2>1, <3>2
  <2>3. h \in Nat /\ r \in 0..(P - 1) /\ x = P * h + r
    <3> HIDE DEF P
    <3>1. x \in Int /\ x >= 0
      OBVIOUS
    <3> QED  BY <2>1, <3>1, DivParts
  <2> HIDE DEF P, Q, h, r
  <2>4. s \in 0..(Q - 1) /\ Q \in Nat \ {0}
    BY <2>1, <2>2, <2>3
  <2>5. y = Q * h + s
    <3>1. (100 * P) * h = 100 * (P * h)
      BY <2>1, <2>3
    <3> DEFINE w == P * h
               g == Q * h
    <3>2. w \in Nat /\ x = w + r /\ r \in Nat /\ g = 100 * w
      BY <2>1, <2>2, <2>3, <3>1
    <3> HIDE DEF w, g
    <3>3. 100 * x + d = g + (100 * r + d)
      BY <3>2
    <3> QED  BY <3>3 DEF g
  <2>6. y \div Q = h
    <3> HIDE DEF y, s
    <3>1. y \in Int /\ h \in Int
      BY <1>6, <2>3
    <3> QED  BY <2>4, <2>5, <3>1, DivIs
  <2> QED  BY <2>6 DEF Q, h, P
<1>8. y \div Power(10, L + 2) = 0
  <2> DEFINE k == L + 2
  <2>1. k \in Nat /\ k = L + 2
    OBVIOUS
  <2> HIDE DEF k, y
  <2>2. y \div Power(10, k) = x \div Power(10, L)
    BY <1>7, <2>1
  <2> QED  BY <2>1, <2>2
<1>9. (y \div 10) % 10 = p /\ (y \div 1) % 10 = q
  BY <1>1
<1>10. ASSUME NEW k \in 1..(L + 2)
       PROVE  typed[k] = (y \div Power(10, (L + 2) - k)) % 10
  <2>1. CASE k \in 1..L
    <3> DEFINE j == L - k
               m == (L + 2) - k
    <3>1. j \in Nat /\ m \in Nat /\ m = j + 2
      BY <2>1
    <3>2. typed[k] = (x \div Power(10, j)) % 10
      BY <1>3, <1>5, <2>1
    <3> HIDE DEF j, m, y
    <3>3. y \div Power(10, m) = x \div Power(10, j)
      BY <1>7, <3>1
    <3>4. typed[k] = (y \div Power(10, m)) % 10
      BY <3>2, <3>3
    <3> QED  BY <3>4 DEF m
  <2>2. CASE k = L + 1
    <3>1. (L + 2) - k = 1 /\ typed[k] = p
      BY <1>5, <2>2
    <3>2. Power(10, 1) = 10
      <4>1. Power(10, 0) = 1 /\ Power(10, 0 + 1) = 10 * Power(10, 0)
        BY TenPower
      <4> QED  BY <4>1
    <3> HIDE DEF y
    <3> QED  BY <1>9, <3>1, <3>2
  <2>3. CASE k = L + 2
    <3>1. (L + 2) - k = 0 /\ typed[k] = q
      BY <1>5, <2>3
    <3>2. Power(10, 0) = 1
      BY TenPower
    <3> HIDE DEF y
    <3> QED  BY <1>9, <3>1, <3>2
  <2> QED  BY <2>1, <2>2, <2>3
<1> HIDE DEF y
<1>11. LastDigits(y, L + 2, typed)
  BY <1>5, <1>10 DEF LastDigits
<1> QED
  BY <1>4, <1>8, <1>11 DEF typed, two, p, q, y

(* What is shown to a user can be typed, and a number with two digits more *)
(* is taken for what it is or refused.                                     *)
THEOREM DecReadBack ==
  ASSUME NEW x \in 0..(WORD * WORD - 1)
  PROVE  /\ _num_set_str_dec(_num_get_str(Limbs(x))) = [n |-> Limbs(x), ret |-> 0]
         /\ \A d \in 0..99 :
              LET typed == _num_set_str_dec(_num_get_str(Limbs(x))
                                              \o <<d \div 10, d % 10>>)
              IN /\ 100 * x + d < WORD * WORD =>
                      typed = [n |-> Limbs(100 * x + d), ret |-> 0]
                 /\ ~(100 * x + d < WORD * WORD) => typed.ret = 1
<1> DEFINE WW == WORD * WORD
           D == DEC_DIGITS
           str == _num_get_str(Limbs(x))
<1>1. /\ WW \in Nat /\ D \in Nat /\ D >= 3 /\ WW - 1 < Power(10, D)
      /\ Power(10, D) \in Nat /\ x \in Nat /\ x < WW
  <2>1. WW \in Nat /\ D \in Nat /\ D >= 3 /\ WW - 1 < Power(10, D)
    BY DecDigits, WordFacts
  <2>2. Power(10, D) \in Nat
    <3> HIDE DEF D
    <3> QED  BY <2>1, TenPower
  <2> QED  BY <2>1, <2>2
<1>2. PICK L \in 1..D :
         /\ str \in Seq(0..9) /\ LastDigits(x, L, str)
         /\ x \div Power(10, L) = 0
         /\ (x = 0 /\ L = 1) \/ Power(10, L - 1) <= x
  BY GetStr
<1>3. L \in Nat
  BY <1>1
<1> HIDE DEF str
<1>4. _num_set_str_dec(str) = [n |-> Limbs(x), ret |-> 0]
  BY <1>1, <1>2, <1>3, DecRead
<1>5. ASSUME NEW d \in 0..99
      PROVE  LET typed == _num_set_str_dec(str \o <<d \div 10, d % 10>>)
             IN /\ 100 * x + d < WW => typed = [n |-> Limbs(100 * x + d), ret |-> 0]
                /\ ~(100 * x + d < WW) => typed.ret = 1
  <2> DEFINE z == str \o <<d \div 10, d % 10>>
             y == 100 * x + d
             K == L + 2
  <2>1. /\ z \in Seq(0..9) /\ LastDigits(y, K, z) /\ y \div Power(10, K) = 0
    BY <1>1, <1>2, <1>3, TwoDigitsMore
  <2>2. y \in Nat /\ K \in Nat
    BY <1>1, <1>3
  <2>3. ASSUME y < WW  PROVE K \in 1..D
    <3>1. CASE x = 0 /\ L = 1
      BY <1>1, <3>1
    <3>2. CASE Power(10, L - 1) <= x
      <4> DEFINE m0 == L - 1
                 m2 == L + 1
      <4>1. m0 \in Nat /\ L = m0 + 1 /\ m2 \in Nat /\ m2 = L + 1
        BY <1>1
      <4>2. Power(10, m0) <= x
        BY <3>2
      <4> HIDE DEF m0, m2, D
      <4>3. Power(10, m2) = 10 * Power(10, L) /\ Power(10, L) = 10 * Power(10, m0)
            /\ Power(10, m0) \in Nat
        BY <1>3, <4>1, TenGrows, TenPower
      <4>4. Power(10, m2) <= y
        BY <1>1, <4>2, <4>3
      <4>5. ASSUME D <= m2  PROVE FALSE
        <5>1. Power(10, D) <= Power(10, m2)
          BY <1>1, <4>1, <4>5, TenGrows
        <5>2. Power(10, m2) \in Nat
          BY <4>1, TenPower
        <5> HIDE DEF y, WW
        <5> QED  BY <1>1, <2>2, <2>3, <4>4, <5>1, <5>2
      <4> QED  BY <1>1, <1>3, <4>1, <4>5
    <3> QED  BY <1>2, <3>1, <3>2
  <2> HIDE DEF z, y, K
  <2>4. /\ y < WORD * WORD /\ K \in 1..DEC_DIGITS =>
              _num_set_str_dec(z) = [n |-> Limbs(y), ret |-> 0]
        /\ ~(y < WORD * WORD) => _num_set_str_dec(z).ret = 1
    BY <2>1, <2>2, DecRead
  <2> QED  BY <2>3, <2>4 DEF z, y
<1> QED
  BY <1>4, <1>5 DEF str

(* DigitsFaithful: on words of every width, the letters of a passcode are  *)
(* the digits of its cipher text, and a number survives the state file and *)
(* the keyboard or is refused.                                             *)
THEOREM CardDigits == CardSpec => []DigitsFaithful
<1>1. CardInv => DigitsFaithful
  <2> SUFFICES ASSUME CardInv  PROVE DigitsFaithful
    OBVIOUS
  <2>1. WORD * WORD \in Nat /\ counter \in 0..(WORD * WORD - 1) /\ code_length \in 2..16
    BY CardFits, WordFacts DEF CardInv
  <2>2. Numbers \subseteq 0..(WORD * WORD - 1)
    BY <2>1 DEF Numbers
  <2>3. LettersFaithful
    BY <2>1, <2>2, LettersAre DEF LettersFaithful
  <2>4. FileFaithful
    BY <2>2, HexReadBack DEF FileFaithful
  <2>5. KeyboardFaithful
    <3>1. \A x \in Numbers :
             _num_set_str_dec(_num_get_str(Limbs(x))) = [n |-> Limbs(x), ret |-> 0]
      BY <2>2, DecReadBack
    <3>2. ASSUME NEW d \in {0, 35, 36, 99}
          PROVE  LET typed == _num_set_str_dec(_num_get_str(Limbs(counter))
                                                 \o <<d \div 10, d % 10>>)
                 IN IF 100 * counter + d < WORD * WORD
                    THEN typed = [n |-> Limbs(100 * counter + d), ret |-> 0]
                    ELSE typed.ret = 1
      <4>1. d \in 0..99
        OBVIOUS
      <4>2. LET typed == _num_set_str_dec(_num_get_str(Limbs(counter))
                                              \o <<d \div 10, d % 10>>)
            IN /\ 100 * counter + d < WORD * WORD =>
                    typed = [n |-> Limbs(100 * counter + d), ret |-> 0]
               /\ ~(100 * counter + d < WORD * WORD) => typed.ret = 1
        BY <2>1, <4>1, DecReadBack
      <4> QED  BY <4>2
    <3> QED  BY <3>1, <3>2 DEF KeyboardFaithful
  <2> QED  BY <2>3, <2>4, <2>5 DEF DigitsFaithful
<1> QED
  BY CardInvariant, <1>1, PTL

-----------------------------------------------------------------------------
(***************************************************************************)
(* Which cipher texts give the same passcode.                              *)
(***************************************************************************)
Quot(x, d) == x \div d
Rem(x, d) == x % d

(* One digit more of what a power of the base leaves. *)
LEMMA OneMoreDigit ==
  ASSUME NEW x \in Nat, NEW y \in Nat, NEW b \in Nat \ {0}, NEW P \in Nat \ {0},
         NEW Q, Q = b * P
  PROVE  /\ Quot(x, Q) = Quot(Quot(x, P), b)
         /\ Quot(y, Q) = Quot(Quot(y, P), b)
         /\ Rem(x, Q) = Rem(y, Q) <=>
              Rem(x, P) = Rem(y, P) /\ Rem(Quot(x, P), b) = Rem(Quot(y, P), b)
<1> DEFINE D == b * P
           Split(u) == /\ u \div D = (u \div P) \div b
                       /\ u % D = P * ((u \div P) % b) + (u % P)
                       /\ u % P \in 0..(P - 1) /\ (u \div P) % b \in Nat
<1>1. ASSUME NEW u \in Nat  PROVE Split(u)
  <2> DEFINE q == u \div P
             r == u % P
             h == q \div b
             e == q % b
             s == P * e + r
  <2>1. q \in Nat /\ r \in 0..(P - 1) /\ u = P * q + r
    <3>1. u \in Int /\ u >= 0
      OBVIOUS
    <3> QED  BY <3>1, DivParts
  <2> HIDE DEF q, r
  <2>2. h \in Nat /\ e \in 0..(b - 1) /\ q = b * h + e
    <3>1. q \in Int /\ q >= 0
      BY <2>1
    <3> QED  BY <3>1, DivParts
  <2> HIDE DEF h, e
  <2>3. s \in 0..(D - 1) /\ D \in Nat \ {0}
    <3>1. P * (b - 1 - e) >= 0 /\ P * e >= 0
      BY <2>2
    <3> QED  BY <2>1, <2>2, <3>1
  <2>4. u = D * h + s
    BY <2>1, <2>2
  <2> HIDE DEF D, s
  <2>5. u \div D = h /\ u % D = s
    <3>1. u \in Int /\ h \in Int
      BY <2>2
    <3> QED  BY <2>3, <2>4, <3>1, DivIs
  <2>6. e \in Nat
    BY <2>2
  <2> QED  BY <2>1, <2>5, <2>6 DEF s, h, e, q, r
<1>2. Split(x) /\ Split(y)
  BY <1>1
<1> DEFINE r == x % P
           e == (x \div P) % b
           t == y % P
           f == (y \div P) % b
<1>3. /\ x % D = P * e + r /\ y % D = P * f + t
      /\ r \in 0..(P - 1) /\ t \in 0..(P - 1) /\ e \in Nat /\ f \in Nat
      /\ x \div D = (x \div P) \div b /\ y \div D = (y \div P) \div b
  BY <1>2
<1> HIDE DEF r, e, t, f, D, Split
<1>4. ASSUME x % D = y % D  PROVE r = t /\ e = f
  <2> DEFINE z == P * e + r
  <2>1. z \in Int /\ z = P * e + r /\ z = P * f + t
    BY <1>3, <1>4
  <2>2. e \in Int /\ f \in Int
    BY <1>3
  <2> HIDE DEF z
  <2>3. z \div P = e /\ z % P = r
    <3>1. z \in Int /\ e \in Int /\ r \in 0..(P - 1) /\ z = P * e + r
      BY <1>3, <2>1, <2>2
    <3> QED  BY <3>1, DivIs
  <2>4. z \div P = f /\ z % P = t
    <3>1. z \in Int /\ f \in Int /\ t \in 0..(P - 1) /\ z = P * f + t
      BY <1>3, <2>1, <2>2
    <3> QED  BY <3>1, DivIs
  <2> QED  BY <2>3, <2>4
<1>5. ASSUME r = t, e = f  PROVE x % D = y % D
  BY <1>3, <1>5
<1>6. Q = D
  BY DEF D
<1>7. /\ Quot(x, Q) = Quot(Quot(x, P), b)
      /\ Quot(y, Q) = Quot(Quot(y, P), b)
  BY <1>3, <1>6 DEF Quot
<1>8. Rem(x, Q) = x % D /\ Rem(y, Q) = y % D /\ Rem(x, P) = r /\ Rem(y, P) = t
      /\ Rem(Quot(x, P), b) = e /\ Rem(Quot(y, P), b) = f
  BY <1>6 DEF Quot, Rem, r, e, t, f
<1> QED
  BY <1>4, <1>5, <1>7, <1>8

(* Two cipher texts give the same passcode exactly when they agree below   *)
(* ALPHABET^code_length: ppp_get_passcode wastes nothing of them, and of a *)
(* larger cipher text nothing else reaches the passcode.                   *)
THEOREM SamePasscode ==
  ASSUME NEW x \in 0..(WORD * WORD - 1), NEW y \in 0..(WORD * WORD - 1),
         code_length \in 2..16
  PROVE  passcode_letters(Limbs(x)) = passcode_letters(Limbs(y))
           <=> x % Power(ALPHABET, code_length) = y % Power(ALPHABET, code_length)
<1> DEFINE L == code_length
           b == ALPHABET
           D(u, j) == AfterDigits(u, j - 1) % b
           Same(i) == \A j \in 1..i : D(x, j) = D(y, j)
           Below(i) == x % Power(b, i) = y % Power(b, i)
           T == {i \in 0..L : /\ AfterDigits(x, i) = x \div Power(b, i)
                              /\ AfterDigits(y, i) = y \div Power(b, i)
                              /\ Same(i) <=> Below(i)}
<1>1. x \in Nat /\ y \in Nat /\ L \in Nat /\ b \in Nat \ {0} /\ b \in Nat
  BY WordFacts, AlphabetFits
<1> HIDE DEF L
<1>2. 0 \in T
  <2>1. /\ Power(b, 0) = 1 /\ AfterDigits(x, 0) = x /\ AfterDigits(y, 0) = y
        /\ x \div 1 = x /\ y \div 1 = y /\ x % 1 = 0 /\ y % 1 = 0 /\ 0 \in 0..L
    BY <1>1, PowerNext, AfterNext
  <2>2. Same(0)
    OBVIOUS
  <2>3. Below(0)
    BY <2>1
  <2> HIDE DEF Same, Below
  <2> QED  BY <2>1, <2>2, <2>3
<1>3. ASSUME NEW i \in 1..L, i - 1 \in T  PROVE i \in T
  <2> DEFINE m == i - 1
             P == Power(b, m)
  <2>1. m \in Nat /\ m + 1 = i /\ m \in 0..L /\ i \in 0..L
    BY <1>1
  <2>2. /\ AfterDigits(x, m) = x \div P /\ AfterDigits(y, m) = y \div P
        /\ Same(m) <=> Below(m)
    BY <1>3
  <2>3. Same(i) <=> Same(m) /\ D(x, i) = D(y, i)
    <3> HIDE DEF D
    <3> QED  BY <2>1
  <2>4. D(x, i) = (x \div P) % b /\ D(y, i) = (y \div P) % b
    BY <2>2
  <2>5. Below(m) <=> x % P = y % P
    OBVIOUS
  <2> HIDE DEF m, b, D, Same
  <2>6. /\ AfterDigits(x, i) = AfterDigits(x, m) \div b
        /\ AfterDigits(y, i) = AfterDigits(y, m) \div b
        /\ Power(b, i) = b * P
    BY <1>1, <2>1, AfterNext, PowerNext DEF b
  <2>7. P \in Nat \ {0}
    BY <1>1, <2>1, PowerSum
  <2> HIDE DEF P
  <2>8. /\ Quot(x, b * P) = Quot(Quot(x, P), b)
        /\ Quot(y, b * P) = Quot(Quot(y, P), b)
        /\ Rem(x, b * P) = Rem(y, b * P) <=>
             Rem(x, P) = Rem(y, P) /\ Rem(Quot(x, P), b) = Rem(Quot(y, P), b)
    <3> DEFINE Q == b * P
    <3>1. Q = b * P
      OBVIOUS
    <3> HIDE DEF Q
    <3>2. /\ Quot(x, Q) = Quot(Quot(x, P), b)
          /\ Quot(y, Q) = Quot(Quot(y, P), b)
          /\ Rem(x, Q) = Rem(y, Q) <=>
               Rem(x, P) = Rem(y, P) /\ Rem(Quot(x, P), b) = Rem(Quot(y, P), b)
      BY <1>1, <2>7, <3>1, OneMoreDigit
    <3> QED  BY <3>2 DEF Q
  <2>9. /\ x \div (b * P) = (x \div P) \div b
        /\ y \div (b * P) = (y \div P) \div b
    BY <2>8 DEF Quot
  <2>10. x % (b * P) = y % (b * P) <=>
           x % P = y % P /\ (x \div P) % b = (y \div P) % b
    BY <2>8 DEF Quot, Rem
  <2>11. Below(i) <=> x % (b * P) = y % (b * P)
    BY <2>6
  <2>12. Same(i) <=> Below(i)
    <3> HIDE DEF Below
    <3> QED  BY <2>2, <2>3, <2>4, <2>5, <2>10, <2>11
  <2>13. AfterDigits(x, i) = x \div Power(b, i) /\ AfterDigits(y, i) = y \div Power(b, i)
    BY <2>2, <2>6, <2>9
  <2> HIDE DEF Below
  <2> QED  BY <2>1, <2>12, <2>13
<1>4. Same(L) <=> Below(L)
  <2> HIDE DEF T
  <2>1. \A i \in 0..L : i \in T
    BY <1>1, <1>2, <1>3, TurnInduction
  <2>2. L \in 0..L
    BY <1>1
  <2>3. L \in T
    BY <2>1, <2>2
  <2> HIDE DEF Same, Below
  <2> QED  BY <2>3 DEF T
<1>5. passcode_letters(Limbs(x)) = [i \in 1..L |-> D(x, i)]
      /\ passcode_letters(Limbs(y)) = [i \in 1..L |-> D(y, i)]
  BY LettersAre DEF L
<1>6. [i \in 1..L |-> D(x, i)] = [i \in 1..L |-> D(y, i)] <=> Same(L)
  <2> HIDE DEF D
  <2> DEFINE f == [i \in 1..L |-> D(x, i)]
             g == [i \in 1..L |-> D(y, i)]
  <2>1. ASSUME f = g  PROVE Same(L)
    <3>1. \A j \in 1..L : f[j] = D(x, j) /\ g[j] = D(y, j)
      OBVIOUS
    <3> HIDE DEF f, g
    <3> QED  BY <2>1, <3>1
  <2>2. ASSUME Same(L)  PROVE f = g
    BY <2>2
  <2> QED  BY <2>1, <2>2
<1> HIDE DEF D, Same
<1> QED
  BY <1>4, <1>5, <1>6 DEF L, b
=============================================================================
