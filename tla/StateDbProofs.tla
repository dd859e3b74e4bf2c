---------------------------- MODULE StateDbProofs ----------------------------
(***************************************************************************)
(* Proofs about StateDb: types and the order of the system calls of a      *)
(* store, and, for files in which no user has two entries, the honesty of  *)
(* its return value, that the lines of the others are kept and that the    *)
(* file implements a table of users.                                       *)
(***************************************************************************)
EXTENDS StateDb, SequenceTheorems, WellFoundedInduction, TLAPS

-----------------------------------------------------------------------------
(* A set of natural numbers that is not empty has a least element. *)
LEMMA LeastNat ==
  ASSUME NEW T, T \subseteq Nat, T # {}
  PROVE  \E x \in T : \A y \in T : x <= y
<1> DEFINE R == OpToRel(<, Nat)
<1>1. IsWellFoundedOn(R, Nat)
  BY NatLessThanWellFounded
<1>2. \A x, y \in Nat : y < x => <<y, x>> \in R
  BY DEF OpToRel
<1> HIDE DEF R
<1>3. PICK x \in T : \A y \in T : ~ (<<y, x>> \in R)
  BY <1>1, WFMin
<1>4. ASSUME NEW y \in T  PROVE x <= y
  <2>1. ~ (y < x)
    BY <1>2, <1>3
  <2> QED  BY <2>1
<1> QED  BY <1>4

(* Induction over the natural numbers. *)
LEMMA SetInduction ==
  ASSUME NEW T, 0 \in T, \A n \in Nat : n \in T => n + 1 \in T
  PROVE  Nat \subseteq T
<1> SUFFICES ASSUME Nat \ T # {}  PROVE FALSE
  OBVIOUS
<1>1. PICK x \in Nat \ T : \A y \in Nat \ T : x <= y
  BY LeastNat
<1>2. x # 0 /\ x - 1 \in Nat /\ (x - 1) + 1 = x
  BY <1>1
<1> QED  BY <1>1, <1>2

(* Min of a set of natural numbers is its least element. *)
LEMMA MinLeast ==
  ASSUME NEW T, T \subseteq Nat, T # {}
  PROVE  Min(T) \in T /\ \A y \in T : Min(T) <= y
<1>1. \E x \in T : \A y \in T : x <= y
  BY LeastNat
<1> QED  BY <1>1 DEF Min

(* An element that no other is below is Min. *)
LEMMA MinIs ==
  ASSUME NEW T, T \subseteq Nat, NEW x \in T, \A y \in T : x <= y
  PROVE  Min(T) = x
<1>1. Min(T) \in T /\ Min(T) <= x
  BY MinLeast
<1>2. x <= Min(T) /\ x \in Nat /\ Min(T) \in Nat
  BY <1>1
<1> QED  BY <1>1, <1>2

-----------------------------------------------------------------------------
(* The lines of others, all of them sound, and what a file says of u alone. *)
Clean(u) == {l \in Line : l.sound /\ l.user # u}
Mine(u) == {<<>>} \cup {<<l>> : l \in {k \in Line : k.sound /\ k.user = u}}

(***************************************************************************)
(* What _db_find_user_entry copies are sound lines of others: all lines,   *)
(* or those before the line at which it stops.                             *)
(***************************************************************************)
LEMMA FindSplits ==
  ASSUME NEW u, NEW q \in Seq(Line), NEW f, f = db_find_user_entry(u, q)
  PROVE  /\ f.copied \in Seq(Clean(u))
         /\ f.left \in Seq(Line)
         /\ f.ret = "STATE_NO_USER_ENTRY" => f.copied = q /\ f.left = <<>>
         /\ f.ret # "STATE_NO_USER_ENTRY" =>
              \E l \in Line : /\ q = (f.copied \o <<l>>) \o f.left
                              /\ f.ret = "ok" => l.sound /\ l.user = u
         /\ f.ret \in {"ok", "STATE_NO_USER_ENTRY", "STATE_PARSE_ERROR"}
<1>0. Len(q) \in Nat /\ \A i \in 1..Len(q) : q[i] \in Line
  BY LenProperties, ElementOfSeq
<1>1. CASE Stops(u, q) = {}
  <2>1. \A i \in 1..Len(q) : q[i] \in Clean(u)
    BY <1>0, <1>1 DEF Stops, Clean
  <2>2. q = SubSeq(q, 1, Len(q))
    BY SubSeqFull
  <2>3. SubSeq(q, 1, Len(q)) \in Seq(Clean(u))
    BY <2>1, <1>0, SubSeqProperties
  <2>4. q \in Seq(Clean(u))
    BY <2>2, <2>3
  <2> QED  BY <1>1, <2>4, EmptySeq DEF db_find_user_entry
<1>2. CASE Stops(u, q) # {}
  <2> DEFINE i == Min(Stops(u, q))
             a == SubSeq(q, 1, i - 1)
             c == SubSeq(q, i + 1, Len(q))
  <2>1. i \in Stops(u, q) /\ \A j \in Stops(u, q) : i <= j
    <3>1. Stops(u, q) \subseteq Nat
      BY <1>0 DEF Stops
    <3> QED  BY <3>1, <1>2, MinLeast
  <2>2. f = [copied |-> a, left |-> c,
             ret |-> IF q[i].sound THEN "ok" ELSE "STATE_PARSE_ERROR"]
    BY <1>2 DEF db_find_user_entry
  <2> HIDE DEF i
  <2>3. i \in 1..Len(q) /\ (q[i].sound => q[i].user = u)
    BY <2>1 DEF Stops
  <2>4. \A j \in 1..(i - 1) : q[j] \in Clean(u)
    <3> SUFFICES ASSUME NEW j \in 1..(i - 1)  PROVE q[j] \in Clean(u)
      OBVIOUS
    <3>1. j \in 1..Len(q) /\ ~ (i <= j)
      BY <2>3, <1>0
    <3>2. j \notin Stops(u, q)
      BY <2>1, <3>1
    <3> QED  BY <3>1, <3>2, <1>0 DEF Stops, Clean
  <2>5. a \in Seq(Clean(u))
    BY <2>3, <2>4, <1>0, SubSeqProperties
  <2>6. c \in Seq(Line)
    BY <2>3, <1>0, SubSeqProperties
  <2>7. q[i] \in Line
    BY <2>3, <1>0
  <2>8. q = (a \o <<q[i]>>) \o c
    <3>1. a \o <<q[i]>> = SubSeq(q, 1, i)
      BY <2>3, <1>0, SubSeqRecursiveSecond
    <3>2. SubSeq(q, 1, i) \o c = SubSeq(q, 1, Len(q))
      BY <2>3, <1>0, ConcatAdjacentSubSeq
    <3>3. SubSeq(q, 1, Len(q)) = q
      BY SubSeqFull
    <3> QED  BY <3>1, <3>2, <3>3
  <2> HIDE DEF a, c
  <2>9. /\ f.copied = a
        /\ f.left = c
        /\ f.ret = IF q[i].sound THEN "ok" ELSE "STATE_PARSE_ERROR"
    BY <2>2
  <2> QED  BY <2>3, <2>5, <2>6, <2>7, <2>8, <2>9
<1> QED  BY <1>1, <1>2

(* Where a search of two files one after the other stops. *)
LEMMA StopsConcat ==
  ASSUME NEW u, NEW a \in Seq(Line), NEW c \in Seq(Line)
  PROVE  /\ a \o c \in Seq(Line)
         /\ Stops(u, a \o c) = Stops(u, a) \cup {Len(a) + i : i \in Stops(u, c)}
         /\ Stops(u, a) \subseteq 1..Len(a)
         /\ Stops(u, c) \subseteq 1..Len(c)
         /\ \A i \in 1..Len(a) : (a \o c)[i] = a[i]
         /\ \A i \in 1..Len(c) : (a \o c)[Len(a) + i] = c[i]
<1>1. Len(a) \in Nat /\ Len(c) \in Nat
  BY LenProperties
<1>2. /\ a \o c \in Seq(Line)
      /\ Len(a \o c) = Len(a) + Len(c)
      /\ \A i \in 1..(Len(a) + Len(c)) :
           (a \o c)[i] = IF i <= Len(a) THEN a[i] ELSE c[i - Len(a)]
  BY ConcatProperties
<1>3. \A i \in 1..Len(a) : (a \o c)[i] = a[i] /\ i \in 1..(Len(a) + Len(c))
  BY <1>1, <1>2
<1>4. ASSUME NEW i \in 1..Len(c)
      PROVE  (a \o c)[Len(a) + i] = c[i] /\ Len(a) + i \in 1..(Len(a) + Len(c))
  <2>1. Len(a) + i \in 1..(Len(a) + Len(c)) /\ ~ (Len(a) + i <= Len(a))
        /\ (Len(a) + i) - Len(a) = i
    BY <1>1
  <2> QED  BY <2>1, <1>2
<1> DEFINE d == a \o c
<1> HIDE DEF d
<1>5. Stops(u, d) = Stops(u, a) \cup {Len(a) + i : i \in Stops(u, c)}
  <2>0. /\ Len(d) = Len(a) + Len(c)
        /\ \A i \in 1..Len(a) : d[i] = a[i] /\ i \in 1..Len(d)
        /\ \A i \in 1..Len(c) : d[Len(a) + i] = c[i] /\ Len(a) + i \in 1..Len(d)
    BY <1>2, <1>3, <1>4 DEF d
  <2>1. ASSUME NEW j \in Stops(u, d)
        PROVE  j \in Stops(u, a) \cup {Len(a) + i : i \in Stops(u, c)}
    <3>1. j \in 1..Len(d) /\ (~d[j].sound \/ d[j].user = u)
      BY DEF Stops
    <3>2. CASE j \in 1..Len(a)
      BY <3>1, <3>2, <2>0 DEF Stops
    <3>3. CASE j \notin 1..Len(a)
      <4>1. j - Len(a) \in 1..Len(c) /\ j = Len(a) + (j - Len(a))
        BY <3>1, <3>3, <2>0, <1>1
      <4>2. d[j] = c[j - Len(a)]
        BY <4>1, <2>0
      <4>3. j - Len(a) \in Stops(u, c)
        BY <4>1, <4>2, <3>1 DEF Stops
      <4> QED  BY <4>1, <4>3
    <3> QED  BY <3>2, <3>3
  <2>2. Stops(u, a) \subseteq Stops(u, d)
    BY <2>0 DEF Stops
  <2>3. ASSUME NEW i \in Stops(u, c)  PROVE Len(a) + i \in Stops(u, d)
    BY <2>0 DEF Stops
  <2> QED  BY <2>1, <2>2, <2>3
<1> QED  BY <1>2, <1>3, <1>4, <1>5 DEF d, Stops

(* A load of two files one after the other finds what the first that has   *)
(* a stopping line says.                                                   *)
LEMMA LookupConcat ==
  ASSUME NEW u, NEW a \in Seq(Line), NEW c \in Seq(Line)
  PROVE  /\ Stops(u, a) # {} => Lookup(a \o c, u) = Lookup(a, u)
         /\ Stops(u, a) = {} => Lookup(a \o c, u) = Lookup(c, u)
<1>1. Len(a) \in Nat /\ Len(c) \in Nat
  BY LenProperties
<1>2. a # Absent /\ c # Absent /\ a \o c # Absent
  BY StopsConcat, DbAssumption
<1> DEFINE d == a \o c
           later == {Len(a) + i : i \in Stops(u, c)}
<1>3. Stops(u, d) = Stops(u, a) \cup later
  BY StopsConcat
<1>4. Stops(u, a) \subseteq 1..Len(a) /\ Stops(u, c) \subseteq 1..Len(c)
  BY StopsConcat
<1>5. \A i \in 1..Len(a) : d[i] = a[i]
  BY StopsConcat
<1>6. \A i \in 1..Len(c) : d[Len(a) + i] = c[i]
  BY StopsConcat
<1>7. later \subseteq Nat /\ \A j \in later : j > Len(a)
  BY <1>1, <1>4
<1>d. d # Absent
  BY <1>2
<1> HIDE DEF d
<1>8. CASE Stops(u, a) # {}
  <2> DEFINE i == Min(Stops(u, a))
  <2>1. i \in Stops(u, a) /\ \A y \in Stops(u, a) : i <= y
    <3>1. Stops(u, a) \subseteq Nat
      BY <1>4, <1>1
    <3> QED  BY <3>1, <1>8, MinLeast
  <2> HIDE DEF i
  <2>2. i \in 1..Len(a) /\ i \in Nat
    BY <2>1, <1>4, <1>1
  <2>3. \A y \in Stops(u, d) : i <= y
    <3> SUFFICES ASSUME NEW y \in Stops(u, d), y \in later  PROVE i <= y
      BY <1>3, <2>1
    <3>1. y \in Nat /\ y > Len(a)
      BY <1>7
    <3> QED  BY <3>1, <2>2, <1>1
  <2>4. Stops(u, d) \subseteq Nat /\ i \in Stops(u, d)
    BY <1>1, <1>3, <1>4, <1>7, <2>1
  <2>5. Min(Stops(u, d)) = i
    BY <2>3, <2>4, MinIs
  <2>6. d[i] = a[i]
    BY <2>2, <1>5
  <2>7. Lookup(d, u) = Lookup(a, u)
    BY <1>d, <1>2, <1>8, <2>4, <2>5, <2>6 DEF Lookup, i
  <2> QED  BY <2>7, <1>8 DEF d
<1>9. CASE Stops(u, a) = {} /\ Stops(u, c) # {}
  <2> DEFINE i == Min(Stops(u, c))
  <2>1. i \in Stops(u, c) /\ \A y \in Stops(u, c) : i <= y
    <3>1. Stops(u, c) \subseteq Nat
      BY <1>4, <1>1
    <3> QED  BY <3>1, <1>9, MinLeast
  <2> HIDE DEF i
  <2>2. i \in 1..Len(c) /\ i \in Nat
    BY <2>1, <1>4, <1>1
  <2>3. \A y \in Stops(u, d) : Len(a) + i <= y
    <3> SUFFICES ASSUME NEW y \in Stops(u, d)  PROVE Len(a) + i <= y
      OBVIOUS
    <3>1. PICK k \in Stops(u, c) : y = Len(a) + k
      BY <1>3, <1>9
    <3>2. i <= k /\ k \in Nat
      BY <2>1, <1>4, <1>1
    <3> QED  BY <3>1, <3>2, <2>2, <1>1
  <2>4. Stops(u, d) \subseteq Nat /\ Len(a) + i \in Stops(u, d)
    BY <1>1, <1>3, <1>4, <1>7, <2>1
  <2>5. Min(Stops(u, d)) = Len(a) + i
    BY <2>3, <2>4, MinIs
  <2>6. d[Len(a) + i] = c[i]
    BY <2>2, <1>6
  <2>7. Lookup(d, u) = Lookup(c, u)
    BY <1>d, <1>2, <1>9, <2>4, <2>5, <2>6 DEF Lookup, i
  <2> QED  BY <2>7, <1>9 DEF d
<1>10. CASE Stops(u, a) = {} /\ Stops(u, c) = {}
  <2>1. Stops(u, d) = {}
    BY <1>3, <1>10
  <2> QED  BY <1>d, <1>2, <1>10, <2>1 DEF Lookup, d
<1> QED  BY <1>8, <1>9, <1>10

(* Mine are files. *)
LEMMA MineLines ==
  ASSUME NEW u, NEW m \in Mine(u)
  PROVE  m \in Seq(Line)
<1>1. m = <<>> \/ \E l \in Line : m = <<l>>
  BY DEF Mine
<1>2. \A l \in Line : <<l>> \in Seq(Line)
  OBVIOUS
<1> QED  BY <1>1, <1>2, EmptySeq

(* A search for another user does not stop at sound lines of mine. *)
LEMMA StopsMine ==
  ASSUME NEW u, NEW w, w # u, NEW m \in Mine(u)
  PROVE  m \in Seq(Line) /\ Stops(w, m) = {}
<1>1. CASE m = <<>>
  BY <1>1, EmptySeq DEF Stops
<1>2. CASE m # <<>>
  <2>1. PICK l \in Line : l.sound /\ l.user = u /\ m = <<l>>
    BY <1>2 DEF Mine
  <2>2. m \in Seq(Line) /\ Len(m) = 1 /\ m[1] = l
    BY <2>1
  <2> QED  BY <2>1, <2>2 DEF Stops
<1> QED  BY <1>1, <1>2

(* A search does not stop at sound lines of others. *)
LEMMA StopsClean ==
  ASSUME NEW u, NEW b \in Seq(Clean(u))
  PROVE  b \in Seq(Line) /\ Stops(u, b) = {}
<1>1. b \in Seq(Line)
  <2>1. Clean(u) \subseteq Line
    BY DEF Clean
  <2> QED  BY <2>1, SeqMonotonic
<1>2. \A i \in 1..Len(b) : b[i] \in Clean(u)
  BY ElementOfSeq
<1>3. \A i \in 1..Len(b) : b[i].sound /\ b[i].user # u
  BY <1>2 DEF Clean
<1> QED  BY <1>1, <1>3 DEF Stops

(* What a store of v for u writes between the lines of others. *)
Stored(u, v) == IF v = NoValue THEN <<>>
                ELSE <<[user |-> u, val |-> v, sound |-> TRUE]>>

(* It is a line of u, or none. *)
LEMMA StoredMine ==
  ASSUME NEW u \in User, NEW v \in Value \cup {NoValue}
  PROVE  Stored(u, v) \in Mine(u)
<1>1. CASE v = NoValue
  BY <1>1 DEF Stored, Mine
<1>2. CASE v # NoValue
  <2> DEFINE l == [user |-> u, val |-> v, sound |-> TRUE]
  <2>1. l \in Line /\ l.sound /\ l.user = u
    BY <1>2 DEF Line
  <2>2. Stored(u, v) = <<l>>
    BY <1>2 DEF Stored
  <2> HIDE DEF l
  <2> QED  BY <2>1, <2>2 DEF Mine
<1> QED  BY <1>1, <1>2

(* A load of a file that a store has written finds what it stored. *)
LEMMA LookupStored ==
  ASSUME NEW u \in User, NEW v \in Value \cup {NoValue},
         NEW b \in Seq(Clean(u)), NEW r \in Seq(Clean(u))
  PROVE  Lookup((b \o Stored(u, v)) \o r, u) = v
<1>1. /\ b \in Seq(Line) /\ r \in Seq(Line)
      /\ Stops(u, b) = {} /\ Stops(u, r) = {}
  BY StopsClean
<1>2. CASE v = NoValue
  <2>1. b \o Stored(u, v) = b
    BY <1>1, <1>2, ConcatEmptySeq DEF Stored
  <2>2. Lookup(b \o r, u) = Lookup(r, u)
    BY <1>1, LookupConcat
  <2>3. Lookup(r, u) = NoValue
    BY <1>1 DEF Lookup
  <2> QED  BY <2>1, <2>2, <2>3, <1>2
<1>3. CASE v # NoValue
  <2> DEFINE l == [user |-> u, val |-> v, sound |-> TRUE]
             e == <<l>>
  <2>1. l \in Line /\ l.sound /\ l.user = u /\ l.val = v
    BY <1>3 DEF Line
  <2>2. Stored(u, v) = e
    BY <1>3 DEF Stored
  <2> HIDE DEF l
  <2>3. e \in Seq(Line) /\ Len(e) = 1 /\ e[1] = l
    BY <2>1
  <2>4. Stops(u, e) = {1}
    BY <2>1, <2>3 DEF Stops
  <2>5. Min({1}) = 1
    <3> DEFINE T == {1}
    <3>1. T \subseteq Nat /\ 1 \in T /\ \A y \in T : 1 <= y
      OBVIOUS
    <3> HIDE DEF T
    <3>2. Min(T) = 1
      BY <3>1, MinIs
    <3> QED  BY <3>2 DEF T
  <2>6. Lookup(e, u) = v
    <3>1. e # Absent
      BY <2>3, DbAssumption
    <3>2. Lookup(e, u) = LET k == e[Min(Stops(u, e))]
                         IN IF k.sound THEN k.val ELSE NoValue
      BY <3>1, <2>4 DEF Lookup
    <3>3. e[Min(Stops(u, e))] = l
      BY <2>3, <2>4, <2>5
    <3> QED  BY <3>2, <3>3, <2>1
  <2> HIDE DEF e
  <2>7. Lookup(b \o e, u) = v
    BY <1>1, <2>3, <2>6, LookupConcat
  <2>8. b \o e \in Seq(Line) /\ Stops(u, b \o e) # {}
    <3>1. /\ b \o e \in Seq(Line)
          /\ Stops(u, b \o e) = Stops(u, b) \cup {Len(b) + i : i \in Stops(u, e)}
      BY <1>1, <2>3, StopsConcat
    <3> QED  BY <3>1, <2>4
  <2>9. Lookup((b \o e) \o r, u) = v
    BY <1>1, <2>7, <2>8, LookupConcat
  <2> QED  BY <2>2, <2>9
<1> QED  BY <1>2, <1>3

(* What the lines around those of mine say of another user. *)
Around(b, r, w) == IF Stops(w, b) # {} THEN Lookup(b, w) ELSE Lookup(r, w)

(* For another user it makes no difference what a file says of mine. *)
LEMMA LookupOther ==
  ASSUME NEW u, NEW w, w # u,
         NEW b \in Seq(Line), NEW r \in Seq(Line), NEW m \in Mine(u)
  PROVE  Lookup((b \o m) \o r, w) = Around(b, r, w)
<1>1. m \in Seq(Line) /\ Stops(w, m) = {}
  BY StopsMine
<1>2. /\ b \o m \in Seq(Line)
      /\ Stops(w, b \o m) = Stops(w, b) \cup {Len(b) + i : i \in Stops(w, m)}
  BY <1>1, StopsConcat
<1>3. Stops(w, b \o m) = Stops(w, b)
  BY <1>1, <1>2
<1>4. CASE Stops(w, b) # {}
  <2>1. Lookup((b \o m) \o r, w) = Lookup(b \o m, w)
    BY <1>2, <1>3, <1>4, LookupConcat
  <2>2. Lookup(b \o m, w) = Lookup(b, w)
    BY <1>1, <1>4, LookupConcat
  <2> QED  BY <2>1, <2>2, <1>4 DEF Around
<1>5. CASE Stops(w, b) = {}
  BY <1>2, <1>3, <1>5, LookupConcat DEF Around
<1> QED  BY <1>4, <1>5

-----------------------------------------------------------------------------
(***************************************************************************)
(* Types, and what the place in db_file_store says: while it writes, there *)
(* is a file tmp; the file of a user is removed for its owner only; what   *)
(* was renamed before is on disk.                                          *)
(***************************************************************************)
TypeInv == /\ TypeOK
           /\ synced = TRUE
           /\ at \in {"before", "entry", "rest", "close", "cleanup"} => tmp \in Seq(Line)
           /\ at # "idle" => owner \in {who, Global}
           /\ at = "unlink" => owner = who /\ new = NoValue

(* A prefix of a file, or one with its last line cut, is a file. *)
LEMMA TornLines ==
  ASSUME NEW f \in Seq(Line)
  PROVE  /\ \A n \in 0..Len(f) : SubSeq(f, 1, n) \in Seq(Line)
         /\ Torn(f) \subseteq Seq(Line)
<1>0. Len(f) \in Nat
  BY LenProperties
<1>1. ASSUME NEW n \in 0..Len(f)  PROVE SubSeq(f, 1, n) \in Seq(Line)
  <2>1. n \in 1..Len(f) \/ n = 0
    BY <1>0
  <2>2. CASE n = 0
    <3>1. SubSeq(f, 1, 0) = <<>>
      BY SubSeqEmpty
    <3> QED  BY <2>2, <3>1, EmptySeq
  <2>3. CASE n \in 1..Len(f)
    <3>1. \A i \in 1..n : f[i] \in Line
      BY <1>0, <2>3, ElementOfSeq
    <3> QED  BY <1>0, <2>3, <3>1, SubSeqProperties
  <2> QED  BY <2>1, <2>2, <2>3
<1>2. ASSUME NEW n \in 0..(Len(f) - 1)
      PROVE  Append(SubSeq(f, 1, n), [f[n + 1] EXCEPT !.sound = FALSE]) \in Seq(Line)
  <2>1. n \in 0..Len(f) /\ n + 1 \in 1..Len(f)
    BY <1>0
  <2>2. f[n + 1] \in Line
    BY <2>1, ElementOfSeq
  <2>3. [f[n + 1] EXCEPT !.sound = FALSE] \in Line
    BY <2>2 DEF Line
  <2> QED  BY <1>1, <2>1, <2>3
<1>3. Torn(f) \subseteq Seq(Line)
  BY <1>1, <1>2 DEF Torn
<1> QED  BY <1>1, <1>3

(* The initial states have it. *)
LEMMA InitTypeInv ==
  Init => TypeInv
<1> SUFFICES ASSUME Init  PROVE TypeInv
  OBVIOUS
<1>1. db \in Seq(Line) \cup {Absent} /\ 0 \in 0..MAX_STORES
  BY DbAssumption DEF Init
<1> QED  BY <1>1 DEF Init, TypeInv, TypeOK, Ret

(* Every step keeps it. *)
LEMMA NextTypeInv ==
  TypeInv /\ [Next]_vars => TypeInv'
<1> SUFFICES ASSUME TypeInv, [Next]_vars  PROVE TypeInv'
  OBVIOUS
<1> USE DEF Continue, Fail
<1>0. /\ db \in Seq(Line) \cup {Absent} /\ disk \in Seq(Line) \cup {Absent}
      /\ tmp \in Seq(Line) \cup {Absent} /\ in \in Seq(Line) \cup {Absent}
      /\ stores \in Nat /\ MAX_STORES \in Nat
  BY DbAssumption DEF TypeInv, TypeOK
<1>e. <<>> \in Seq(Line)
  BY EmptySeq
<1>1. ASSUME NEW u \in User, NEW v \in Value \cup {NoValue}, db_file_store(u, v)
      PROVE  TypeInv'
  BY <1>0, <1>1 DEF db_file_store, TypeInv, TypeOK, Ret
<1>2. CASE store_unlink
  BY <1>0, <1>2 DEF store_unlink, TypeInv, TypeOK, Ret
<1>3. CASE store_open
  BY <1>0, <1>e, <1>3 DEF store_open, TypeInv, TypeOK, Ret
<1>4. ASSUME in # Absent, at \in {"before", "rest"}
      PROVE  LET f == db_find_user_entry(who, in)
             IN tmp \o f.copied \in Seq(Line) /\ f.left \in Seq(Line)
  <2> DEFINE f == db_find_user_entry(who, in)
  <2>1. in \in Seq(Line)
    BY <1>0, <1>4
  <2> HIDE DEF f
  <2>2. f.copied \in Seq(Clean(who)) /\ f.left \in Seq(Line)
    BY <2>1, FindSplits DEF f
  <2>3. f.copied \in Seq(Line) /\ tmp \in Seq(Line)
    BY <2>2, <1>4, StopsClean DEF TypeInv
  <2>4. tmp \o f.copied \in Seq(Line)
    BY <2>3, ConcatProperties
  <2> QED  BY <2>2, <2>4 DEF f
<1>b. ASSUME copy_breaks, at \in {"before", "rest"}  PROVE tmp' \in Seq(Line) /\ in' = in
  <2> DEFINE f == db_find_user_entry(who, in)
  <2>1. in \in Seq(Line) /\ tmp \in Seq(Line)
    BY <1>0, <1>b DEF copy_breaks, TypeInv
  <2>2. (\E n \in 0..Len(f.copied) : tmp' = tmp \o SubSeq(f.copied, 1, n)) /\ in' = in
    BY <1>b DEF copy_breaks
  <2> HIDE DEF f
  <2>3. f.copied \in Seq(Clean(who))
    BY <2>1, FindSplits DEF f
  <2>4. f.copied \in Seq(Line)
    BY <2>3, StopsClean
  <2>5. PICK n \in 0..Len(f.copied) : tmp' = tmp \o SubSeq(f.copied, 1, n)
    BY <2>2
  <2>6. SubSeq(f.copied, 1, n) \in Seq(Line)
    BY <2>4, TornLines
  <2>7. tmp \o SubSeq(f.copied, 1, n) \in Seq(Line)
    BY <2>1, <2>6, ConcatProperties
  <2> QED  BY <2>2, <2>5, <2>7
<1>5. CASE store_before
  <2>1. /\ at = "before" /\ at' \in {"entry", "cleanup"} /\ ret' \in Ret
        /\ UNCHANGED <<db, disk, synced, who, new, stores, owner>>
    BY <1>5 DEF store_before, TypeInv, TypeOK, Ret
  <2>2. tmp' \in Seq(Line) /\ in' \in Seq(Line) \cup {Absent}
    <3>1. CASE in = Absent
      BY <1>5, <2>1, <3>1 DEF store_before, copy_breaks, TypeInv
    <3>2. CASE in # Absent
      BY <1>0, <1>4, <1>5, <1>b, <2>1, <3>2 DEF store_before
    <3> QED  BY <3>1, <3>2
  <2> QED  BY <1>0, <2>1, <2>2 DEF TypeInv, TypeOK
<1>6. CASE store_entry
  <2>1. /\ at = "entry" /\ at' \in {"rest", "cleanup"} /\ ret' \in Ret
        /\ UNCHANGED <<db, disk, synced, who, new, in, stores, owner>>
    BY <1>6 DEF store_entry, TypeInv, TypeOK, Ret
  <2>2. tmp' \in Seq(Line)
    <3>1. CASE new # NoValue /\ tmp' = Append(tmp, [user |-> who, val |-> new, sound |-> TRUE])
      <4>1. [user |-> who, val |-> new, sound |-> TRUE] \in Line
        BY <3>1 DEF TypeInv, TypeOK, Line
      <4>2. tmp \in Seq(Line)
        BY <2>1 DEF TypeInv
      <4> QED  BY <4>1, <4>2, <3>1
    <3>2. CASE UNCHANGED tmp
      BY <3>2, <2>1 DEF TypeInv
    <3> QED  BY <3>1, <3>2, <1>6 DEF store_entry
  <2> QED  BY <1>0, <2>1, <2>2 DEF TypeInv, TypeOK
<1>7. CASE store_rest
  <2>1. /\ at = "rest" /\ at' \in {"close", "cleanup"} /\ ret' \in Ret
        /\ UNCHANGED <<db, disk, synced, who, new, stores, owner>>
    BY <1>7 DEF store_rest, TypeInv, TypeOK, Ret
  <2>2. tmp' \in Seq(Line) /\ in' \in Seq(Line) \cup {Absent}
    <3>1. CASE in = Absent
      BY <1>7, <2>1, <3>1 DEF store_rest, copy_breaks, TypeInv
    <3>2. CASE in # Absent
      BY <1>0, <1>4, <1>7, <1>b, <2>1, <3>2 DEF store_rest
    <3> QED  BY <3>1, <3>2
  <2> QED  BY <1>0, <2>1, <2>2 DEF TypeInv, TypeOK
<1>8. CASE store_close \/ store_cleanup
  <2>1. /\ at \in {"close", "cleanup"} /\ at' = "sync" /\ ret' \in Ret
        /\ tmp' = tmp \/ tmp' \in Torn(tmp)
        /\ UNCHANGED <<db, disk, synced, who, new, in, stores, owner>>
    BY <1>8 DEF store_close, store_cleanup, TypeInv, TypeOK, Ret
  <2>2. tmp' \in Seq(Line)
    BY <2>1, TornLines DEF TypeInv
  <2> QED  BY <1>0, <2>1, <2>2 DEF TypeInv, TypeOK
<1>9. CASE store_sync
  BY <1>0, <1>9 DEF store_sync, TypeInv, TypeOK, Ret
<1>10. CASE store_rename
  BY <1>0, <1>10 DEF store_rename, TypeInv, TypeOK, Ret
<1>11. CASE store_return
  BY <1>0, <1>11 DEF store_return, TypeInv, TypeOK, Ret
<1>12. CASE killed
  BY <1>0, <1>12 DEF killed, TypeInv, TypeOK, Ret
<1>13. CASE power_failure
  <2>1. db' \in {db, disk}
    BY <1>13 DEF power_failure, TypeInv
  <2> QED  BY <1>0, <1>13, <2>1 DEF power_failure, TypeInv, TypeOK, Ret
<1>14. CASE UNCHANGED vars
  BY <1>14 DEF vars, TypeInv, TypeOK
<1> QED  BY <1>1, <1>2, <1>3, <1>5, <1>6, <1>7, <1>8, <1>9, <1>10, <1>11, <1>12,
            <1>13, <1>14 DEF Next, Store

(* The types of the variables are an invariant, with the stages above. *)
THEOREM StateDbInvariant ==
  Spec => []TypeInv
<1>1. Init => TypeInv
  BY InitTypeInv
<1>2. TypeInv /\ [Next]_vars => TypeInv'
  BY NextTypeInv
<1> QED  BY <1>1, <1>2, PTL DEF Spec

(* In particular, every variable has its type. *)
THEOREM StateDbTyping ==
  Spec => []TypeOK
<1>1. TypeInv => TypeOK
  BY DEF TypeInv
<1> QED  BY <1>1, StateDbInvariant, PTL

-----------------------------------------------------------------------------
(***************************************************************************)
(* What has been written to tmp so far, whatever the file db is: nothing,  *)
(* then sound lines of others, then the entry.                             *)
(***************************************************************************)
WrittenInv ==
    /\ at = "before" => tmp = <<>>
    /\ at = "entry" => tmp \in Seq(Clean(who))
    /\ at = "rest" => \E b \in Seq(Clean(who)) : tmp = b \o Stored(who, new)

(* Every step keeps it. *)
LEMMA NextWrittenInv ==
  TypeInv /\ WrittenInv /\ [Next]_vars => WrittenInv'
<1> SUFFICES ASSUME TypeInv, WrittenInv, [Next]_vars  PROVE WrittenInv'
  OBVIOUS
<1> USE DEF Continue, Fail
<1>1. ASSUME NEW u \in User, NEW v \in Value \cup {NoValue}, db_file_store(u, v)
      PROVE  WrittenInv'
  BY <1>1 DEF db_file_store, WrittenInv
<1>2. CASE store_unlink
  BY <1>2 DEF store_unlink, WrittenInv
<1>3. CASE store_open
  BY <1>3 DEF store_open, WrittenInv
<1>4. CASE store_before
  <2>1. who' = who /\ new' = new /\ tmp = <<>> /\ at' \in {"entry", "cleanup"}
    BY <1>4 DEF store_before, WrittenInv
  <2>2. CASE in = Absent
    BY <1>4, <2>1, <2>2, EmptySeq DEF store_before, copy_breaks, WrittenInv
  <2>3. CASE in # Absent
    <3> DEFINE f == db_find_user_entry(who, in)
    <3>1. in \in Seq(Line)
      BY <2>3 DEF TypeInv, TypeOK
    <3>2. at' = "entry" => tmp' = tmp \o f.copied
      BY <1>4, <2>3 DEF store_before
    <3> HIDE DEF f
    <3>3. f.copied \in Seq(Clean(who))
      BY <3>1, FindSplits DEF f
    <3>4. at' = "entry" => tmp' = f.copied
      BY <3>2, <3>3, <2>1, ConcatEmptySeq
    <3> QED  BY <2>1, <3>2, <3>3, <3>4 DEF WrittenInv
  <2> QED  BY <2>2, <2>3
<1>5. CASE store_entry
  <2>1. tmp \in Seq(Clean(who)) /\ who' = who /\ new' = new
    BY <1>5 DEF store_entry, WrittenInv
  <2>2. at' = "rest" => tmp' = tmp \o Stored(who, new)
    <3>1. CASE new # NoValue
      <4> DEFINE l == [user |-> who, val |-> new, sound |-> TRUE]
      <4>1. at' = "rest" => tmp' = Append(tmp, l)
        BY <1>5, <3>1 DEF store_entry
      <4>2. Stored(who, new) = <<l>>
        BY <3>1 DEF Stored
      <4>3. l \in Line /\ tmp \in Seq(Line)
        BY <2>1, <3>1, StopsClean DEF TypeInv, TypeOK, Line
      <4> HIDE DEF l
      <4>4. Append(tmp, l) = tmp \o <<l>>
        BY <4>3, AppendIsConcat
      <4> QED  BY <4>1, <4>2, <4>4
    <3>2. CASE new = NoValue
      BY <1>5, <2>1, <3>2, ConcatEmptySeq DEF store_entry, Stored
    <3> QED  BY <3>1, <3>2
  <2>3. at' \in {"rest", "cleanup"}
    BY <1>5 DEF store_entry
  <2> QED  BY <2>1, <2>2, <2>3 DEF WrittenInv
<1>6. CASE store_rest
  BY <1>6 DEF store_rest, WrittenInv
<1>7. CASE store_close \/ store_cleanup
  BY <1>7 DEF store_close, store_cleanup, WrittenInv
<1>8. CASE store_sync
  BY <1>8 DEF store_sync, WrittenInv
<1>9. CASE store_rename
  BY <1>9 DEF store_rename, WrittenInv
<1>10. CASE store_return
  BY <1>10 DEF store_return, WrittenInv
<1>11. CASE killed
  BY <1>11 DEF killed, WrittenInv
<1>12. CASE power_failure
  BY <1>12 DEF power_failure, WrittenInv
<1>13. CASE UNCHANGED vars
  BY <1>13 DEF vars, WrittenInv
<1> QED  BY <1>1, <1>2, <1>3, <1>4, <1>5, <1>6, <1>7, <1>8, <1>9, <1>10, <1>11, <1>12,
            <1>13 DEF Next, Store

(* What a store has written before it copies the rest of the file. *)
THEOREM WrittenInvariant ==
  Spec => []WrittenInv
<1>1. Init => WrittenInv
  BY DEF Init, WrittenInv
<1>2. TypeInv /\ WrittenInv /\ [Next]_vars => WrittenInv'
  BY NextWrittenInv
<1> QED  BY <1>1, <1>2, StateDbInvariant, PTL DEF Spec

-----------------------------------------------------------------------------
(***************************************************************************)
(* Files in which no user has two entries.  Such a file is all that the    *)
(* program writes; one with a second entry, which an administrator may     *)
(* leave behind, loses the lines after it (MCDbDuplicate).                 *)
(***************************************************************************)
Body(f) == IF f = Absent THEN <<>> ELSE f
Users(f) == {f[i].user : i \in {j \in 1..Len(f) : f[j].sound}}
Unique(f) == \A i, j \in 1..Len(f) :
                f[i].sound /\ f[j].sound /\ f[i].user = f[j].user => i = j
OneEntryEach == \A f \in Files : Unique(Body(f))

(* The users of two files one after the other. *)
LEMMA UsersConcat ==
  ASSUME NEW a \in Seq(Line), NEW c \in Seq(Line)
  PROVE  /\ Users(a \o c) = Users(a) \cup Users(c)
         /\ Unique(a \o c) <=> Unique(a) /\ Unique(c) /\ Users(a) \cap Users(c) = {}
<1> DEFINE d == a \o c
<1>1. /\ Len(a) \in Nat /\ Len(c) \in Nat /\ Len(d) = Len(a) + Len(c)
      /\ \A i \in 1..Len(a) : d[i] = a[i]
      /\ \A i \in 1..Len(c) : d[Len(a) + i] = c[i]
  BY LenProperties, ConcatProperties, StopsConcat
<1> HIDE DEF d
<1>2. \A i \in 1..Len(d) : i \in 1..Len(a)
                           \/ (i - Len(a) \in 1..Len(c) /\ i = Len(a) + (i - Len(a)))
  BY <1>1
<1>3. \A i \in 1..Len(a) : i \in 1..Len(d)
  BY <1>1
<1>4. \A i \in 1..Len(c) : Len(a) + i \in 1..Len(d) /\ Len(a) + i \notin 1..Len(a)
  BY <1>1
<1>5. Users(d) = Users(a) \cup Users(c)
  <2>1. ASSUME NEW i \in 1..Len(d), d[i].sound  PROVE d[i].user \in Users(a) \cup Users(c)
    <3>1. CASE i \in 1..Len(a)
      BY <1>1, <2>1, <3>1 DEF Users
    <3>2. CASE i \notin 1..Len(a)
      <4>1. i - Len(a) \in 1..Len(c) /\ d[i] = c[i - Len(a)]
        BY <1>1, <1>2, <3>2
      <4> QED  BY <2>1, <4>1 DEF Users
    <3> QED  BY <3>1, <3>2
  <2>2. ASSUME NEW i \in 1..Len(a), a[i].sound  PROVE a[i].user \in Users(d)
    BY <1>1, <1>3, <2>2 DEF Users
  <2>3. ASSUME NEW i \in 1..Len(c), c[i].sound  PROVE c[i].user \in Users(d)
    BY <1>1, <1>4, <2>3 DEF Users
  <2> QED  BY <2>1, <2>2, <2>3 DEF Users
<1>6. ASSUME Unique(d)  PROVE Unique(a) /\ Unique(c) /\ Users(a) \cap Users(c) = {}
  <2>1. Unique(a)
    BY <1>1, <1>3, <1>6 DEF Unique
  <2>2. Unique(c)
    <3> SUFFICES ASSUME NEW i \in 1..Len(c), NEW j \in 1..Len(c),
                        c[i].sound, c[j].sound, c[i].user = c[j].user
                 PROVE  i = j
      BY DEF Unique
    <3>1. Len(a) + i = Len(a) + j
      BY <1>1, <1>4, <1>6 DEF Unique
    <3> QED  BY <3>1, <1>1
  <2>3. ASSUME NEW w \in Users(a), w \in Users(c)  PROVE FALSE
    <3>1. PICK i \in 1..Len(a) : a[i].sound /\ w = a[i].user
      BY DEF Users
    <3>2. PICK j \in 1..Len(c) : c[j].sound /\ w = c[j].user
      BY <2>3 DEF Users
    <3>3. i \in 1..Len(d) /\ Len(a) + j \in 1..Len(d)
          /\ d[i] = a[i] /\ d[Len(a) + j] = c[j]
      BY <1>1, <1>3, <1>4
    <3>4. i = Len(a) + j
      <4> DEFINE k == Len(a) + j
      <4>1. k \in 1..Len(d) /\ d[i].sound /\ d[k].sound /\ d[i].user = d[k].user
        BY <3>1, <3>2, <3>3
      <4> HIDE DEF k
      <4>2. i = k
        BY <3>3, <4>1, <1>6 DEF Unique
      <4> QED  BY <4>2 DEF k
    <3> QED  BY <3>4, <1>4
  <2> QED  BY <2>1, <2>2, <2>3
<1>7. ASSUME Unique(a), Unique(c), Users(a) \cap Users(c) = {}  PROVE Unique(d)
  <2> SUFFICES ASSUME NEW i \in 1..Len(d), NEW j \in 1..Len(d),
                      d[i].sound, d[j].sound, d[i].user = d[j].user
               PROVE  i = j
    BY DEF Unique
  <2>1. CASE i \in 1..Len(a) /\ j \in 1..Len(a)
    BY <1>1, <1>7, <2>1 DEF Unique
  <2>2. ASSUME NEW k \in 1..Len(d), k \notin 1..Len(a), d[k].sound
        PROVE  /\ k - Len(a) \in 1..Len(c) /\ k = Len(a) + (k - Len(a))
               /\ d[k] = c[k - Len(a)] /\ d[k].user \in Users(c)
    <3>1. k - Len(a) \in 1..Len(c) /\ k = Len(a) + (k - Len(a))
      BY <1>2, <2>2
    <3>2. d[k] = c[k - Len(a)]
      BY <1>1, <3>1
    <3> QED  BY <3>1, <3>2, <2>2 DEF Users
  <2>3. ASSUME NEW k \in 1..Len(d), k \in 1..Len(a), d[k].sound
        PROVE  d[k].user \in Users(a)
    BY <1>1, <2>3 DEF Users
  <2>4. CASE i \notin 1..Len(a) /\ j \notin 1..Len(a)
    <3> DEFINE x == i - Len(a)
               y == j - Len(a)
    <3>1. x \in 1..Len(c) /\ y \in 1..Len(c) /\ d[i] = c[x] /\ d[j] = c[y]
      BY <2>2, <2>4
    <3>2. i = Len(a) + x /\ j = Len(a) + y
      BY <2>2, <2>4
    <3> HIDE DEF x, y
    <3>3. x = y
      BY <3>1, <1>7 DEF Unique
    <3> QED  BY <3>2, <3>3
  <2> QED  BY <2>1, <2>2, <2>3, <2>4, <1>7
<1> QED  BY <1>5, <1>6, <1>7 DEF d

(* The users of the lines of mine, or of none, and of the lines of others. *)
LEMMA UsersMine ==
  ASSUME NEW u
  PROVE  /\ \A m \in Mine(u) : /\ Users(m) = IF m = <<>> THEN {} ELSE {u}
                               /\ Unique(m)
         /\ \A b \in Seq(Clean(u)) : u \notin Users(b)
<1>1. ASSUME NEW m \in Mine(u)
      PROVE  Users(m) = (IF m = <<>> THEN {} ELSE {u}) /\ Unique(m)
  <2>1. CASE m = <<>>
    BY <2>1, EmptySeq DEF Users, Unique
  <2>2. CASE m # <<>>
    <3>1. PICK l \in Line : l.sound /\ l.user = u /\ m = <<l>>
      BY <2>2 DEF Mine
    <3>2. Len(m) = 1 /\ m[1] = l
      BY <3>1
    <3> QED  BY <2>2, <3>1, <3>2 DEF Users, Unique
  <2> QED  BY <2>1, <2>2
<1>2. ASSUME NEW b \in Seq(Clean(u))  PROVE u \notin Users(b)
  <2>1. \A i \in 1..Len(b) : b[i] \in Clean(u)
    BY ElementOfSeq
  <2> QED  BY <2>1 DEF Users, Clean
<1> QED  BY <1>1, <1>2

(* What a store writes in place of what a file says of u has no two entries either. *)
LEMMA UniqueStored ==
  ASSUME NEW u, NEW b \in Seq(Clean(u)), NEW r \in Seq(Clean(u)),
         NEW m \in Mine(u), NEW e \in Mine(u), Unique((b \o m) \o r)
  PROVE  Unique((b \o e) \o r)
<1>1. b \in Seq(Line) /\ r \in Seq(Line)
  BY StopsClean
<1>2. m \in Seq(Line) /\ e \in Seq(Line)
  BY MineLines
<1>3. b \o m \in Seq(Line) /\ b \o e \in Seq(Line)
  BY <1>1, <1>2, ConcatProperties
<1>4. /\ Unique(b) /\ Unique(r) /\ Users(b) \cap Users(r) = {}
  <2>1. Unique(b \o m) /\ Unique(r) /\ Users(b \o m) \cap Users(r) = {}
    BY <1>1, <1>3, UsersConcat
  <2>2. Unique(b) /\ Users(b \o m) = Users(b) \cup Users(m)
    BY <2>1, <1>1, <1>2, UsersConcat
  <2> QED  BY <2>1, <2>2
<1>5. u \notin Users(b) /\ u \notin Users(r) /\ Unique(e) /\ Users(e) \subseteq {u}
  BY UsersMine
<1>6. Unique(b \o e) /\ Users(b \o e) = Users(b) \cup Users(e)
  <2>1. Users(b) \cap Users(e) = {}
    BY <1>5
  <2> QED  BY <2>1, <1>1, <1>2, <1>4, <1>5, UsersConcat
<1>7. Users(b \o e) \cap Users(r) = {}
  BY <1>4, <1>5, <1>6
<1> QED  BY <1>1, <1>3, <1>4, <1>6, <1>7, UsersConcat

-----------------------------------------------------------------------------
(* The lines that are not u's, counted from the first. *)
LEMMA KeptLoop ==
  ASSUME NEW u, NEW f \in Seq(Line)
  PROVE  /\ Kept(f, u)[0] = <<>>
         /\ \A n \in 1..Len(f) :
              Kept(f, u)[n] = IF f[n].user = u THEN Kept(f, u)[n - 1]
                              ELSE Append(Kept(f, u)[n - 1], f[n])
<1> DEFINE L == Len(f)
           Turn(x, n) == IF f[n].user = u THEN x ELSE Append(x, f[n])
           Is(g, m) == g = [n \in 0..m |-> IF n = 0 THEN <<>> ELSE Turn(g[n - 1], n)]
           T == {m \in Nat : \E g : Is(g, m)}
<1>0. Kept(f, u) = CHOOSE g : Is(g, L)
  BY DEF Kept
<1>l. L \in Nat
  BY LenProperties
<1> HIDE DEF Turn
<1>1. 0 \in T
  <2> DEFINE g == [n \in 0..0 |-> <<>>]
  <2>1. Is(g, 0)
    OBVIOUS
  <2> QED  BY <2>1
<1>2. ASSUME NEW m \in Nat, m \in T  PROVE m + 1 \in T
  <2>1. PICK g : Is(g, m)
    BY <1>2
  <2> DEFINE h == [n \in 0..(m + 1) |-> IF n = m + 1 THEN Turn(g[m], m + 1) ELSE g[n]]
  <2>2. ASSUME NEW n \in 0..(m + 1)
        PROVE  h[n] = IF n = 0 THEN <<>> ELSE Turn(h[n - 1], n)
    <3>1. CASE n = m + 1
      <4>1. n # 0 /\ n - 1 = m /\ m \in 0..(m + 1) /\ m # m + 1
        BY <3>1
      <4>2. h[n] = Turn(g[m], n) /\ h[n - 1] = g[m]
        BY <3>1, <4>1
      <4> QED  BY <4>1, <4>2
    <3>2. CASE n # m + 1
      <4>1. n \in 0..m
        BY <3>2
      <4>2. h[n] = g[n]
        BY <3>2
      <4>3. n # 0 => h[n - 1] = g[n - 1]
        BY <4>1
      <4>4. g[n] = IF n = 0 THEN <<>> ELSE Turn(g[n - 1], n)
        BY <2>1, <4>1
      <4> QED  BY <4>2, <4>3, <4>4
    <3> QED  BY <3>1, <3>2
  <2>3. h = [n \in 0..(m + 1) |-> h[n]]
    OBVIOUS
  <2> HIDE DEF h
  <2>4. Is(h, m + 1)
    BY <2>2, <2>3
  <2> QED  BY <2>4
<1>3. L \in T
  <2> HIDE DEF T, L
  <2> QED  BY <1>l, <1>1, <1>2, SetInduction
<1>4. Is(Kept(f, u), L)
  <2>1. \E g : Is(g, L)
    BY <1>3
  <2> HIDE DEF Is
  <2> QED  BY <1>0, <2>1
<1> HIDE DEF L
<1>5. \A n \in 0..L : Kept(f, u)[n] = IF n = 0 THEN <<>>
                                      ELSE Turn(Kept(f, u)[n - 1], n)
  BY <1>4
<1>6. Kept(f, u)[0] = <<>>
  BY <1>5, <1>l
<1>7. \A n \in 1..L : n \in 0..L /\ n # 0
  BY <1>l
<1> QED  BY <1>5, <1>6, <1>7 DEF Turn, L

(* They are lines. *)
LEMMA KeptLines ==
  ASSUME NEW u, NEW f \in Seq(Line)
  PROVE  \A n \in 0..Len(f) : Kept(f, u)[n] \in Seq(Line)
<1> DEFINE T == {n \in Nat : n <= Len(f) => Kept(f, u)[n] \in Seq(Line)}
<1>0. Len(f) \in Nat /\ \A i \in 1..Len(f) : f[i] \in Line
  BY LenProperties, ElementOfSeq
<1>1. 0 \in T
  <2>1. Kept(f, u)[0] = <<>>
    BY KeptLoop
  <2>2. <<>> \in Seq(Line)
    BY EmptySeq
  <2> QED  BY <2>1, <2>2
<1>2. ASSUME NEW n \in Nat, n \in T  PROVE n + 1 \in T
  <2> SUFFICES ASSUME n + 1 <= Len(f)  PROVE Kept(f, u)[n + 1] \in Seq(Line)
    OBVIOUS
  <2>1. n <= Len(f) /\ n + 1 \in 1..Len(f) /\ (n + 1) - 1 = n
    BY <1>0
  <2>2. Kept(f, u)[n] \in Seq(Line) /\ f[n + 1] \in Line
    BY <1>0, <1>2, <2>1
  <2>3. Kept(f, u)[n + 1] = IF f[n + 1].user = u THEN Kept(f, u)[n]
                            ELSE Append(Kept(f, u)[n], f[n + 1])
    BY <2>1, KeptLoop
  <2>4. Append(Kept(f, u)[n], f[n + 1]) \in Seq(Line)
    BY <2>2, AppendProperties
  <2> QED  BY <2>2, <2>3, <2>4
<1>3. Nat \subseteq T
  <2> HIDE DEF T
  <2> QED  BY <1>1, <1>2, SetInduction
<1> QED  BY <1>0, <1>3

(* The lines of others in two files, one after the other. *)
LEMMA OthersConcat ==
  ASSUME NEW u, NEW a \in Seq(Line), NEW c \in Seq(Line)
  PROVE  /\ Others(a \o c, u) = Others(a, u) \o Others(c, u)
         /\ Others(a, u) \in Seq(Line)
<1> DEFINE d == a \o c
           A == Len(a)
           C == Len(c)
           K(n) == Kept(a, u)[n]
           M(n) == Kept(c, u)[n]
           D(n) == Kept(d, u)[n]
<1>1. /\ A \in Nat /\ C \in Nat /\ Len(d) = A + C /\ d \in Seq(Line)
      /\ \A i \in 1..A : d[i] = a[i]
      /\ \A i \in 1..C : d[A + i] = c[i]
  BY LenProperties, ConcatProperties, StopsConcat
<1>2. a # Absent /\ c # Absent /\ d # Absent
  BY <1>1, DbAssumption
<1>3. /\ \A n \in 0..A : K(n) \in Seq(Line)
      /\ \A n \in 0..C : M(n) \in Seq(Line)
  BY KeptLines
<1> HIDE DEF d
<1>4. /\ K(0) = <<>> /\ M(0) = <<>> /\ D(0) = <<>>
      /\ \A n \in 1..A : K(n) = IF a[n].user = u THEN K(n - 1) ELSE Append(K(n - 1), a[n])
      /\ \A n \in 1..C : M(n) = IF c[n].user = u THEN M(n - 1) ELSE Append(M(n - 1), c[n])
      /\ \A n \in 1..(A + C) :
           D(n) = IF d[n].user = u THEN D(n - 1) ELSE Append(D(n - 1), d[n])
  <2>1. /\ K(0) = <<>>
        /\ \A n \in 1..A : K(n) = IF a[n].user = u THEN K(n - 1) ELSE Append(K(n - 1), a[n])
    BY KeptLoop
  <2>2. /\ M(0) = <<>>
        /\ \A n \in 1..C : M(n) = IF c[n].user = u THEN M(n - 1) ELSE Append(M(n - 1), c[n])
    BY KeptLoop
  <2>3. /\ D(0) = <<>>
        /\ \A n \in 1..Len(d) :
             D(n) = IF d[n].user = u THEN D(n - 1) ELSE Append(D(n - 1), d[n])
    <3>1. d \in Seq(Line)
      BY <1>1
    <3> QED  BY <3>1, KeptLoop
  <2>4. Len(d) = A + C
    BY <1>1
  <2> HIDE DEF K, M, D, A, C
  <2> QED  BY <2>1, <2>2, <2>3, <2>4
<1>5. Others(d, u) = D(A + C) /\ Others(a, u) = K(A) /\ Others(c, u) = M(C)
  BY <1>1, <1>2 DEF Others
<1>c. \A i \in 1..C : c[i] \in Line
  BY ElementOfSeq
<1> HIDE DEF A, C, K, M, D
<1>6. D(A) = K(A)
  <2> DEFINE T == {n \in Nat : n <= A => D(n) = K(n)}
  <2>1. 0 \in T
    BY <1>4
  <2>2. ASSUME NEW n \in Nat, n \in T  PROVE n + 1 \in T
    <3> SUFFICES ASSUME n + 1 <= A  PROVE D(n + 1) = K(n + 1)
      OBVIOUS
    <3>1. n <= A /\ n + 1 \in 1..A /\ n + 1 \in 1..(A + C) /\ (n + 1) - 1 = n
      BY <1>1
    <3>2. D(n) = K(n) /\ d[n + 1] = a[n + 1]
      BY <1>1, <2>2, <3>1
    <3>3. K(n + 1) = IF a[n + 1].user = u THEN K(n) ELSE Append(K(n), a[n + 1])
      BY <1>4, <3>1
    <3>4. D(n + 1) = IF d[n + 1].user = u THEN D(n) ELSE Append(D(n), d[n + 1])
      BY <1>4, <3>1
    <3> QED  BY <3>2, <3>3, <3>4
  <2>3. Nat \subseteq T
    <3> HIDE DEF T
    <3> QED  BY <2>1, <2>2, SetInduction
  <2> QED  BY <2>3, <1>1
<1>7. K(A) \in Seq(Line)
  BY <1>1, <1>3
<1>8. D(A + C) = K(A) \o M(C)
  <2> DEFINE T == {n \in Nat : n <= C => D(A + n) = K(A) \o M(n)}
  <2>1. 0 \in T
    <3>1. A + 0 = A /\ K(A) \o <<>> = K(A)
      BY <1>1, <1>7, ConcatEmptySeq
    <3> QED  BY <1>4, <1>6, <3>1
  <2>2. ASSUME NEW n \in Nat, n \in T  PROVE n + 1 \in T
    <3> SUFFICES ASSUME n + 1 <= C  PROVE D(A + (n + 1)) = K(A) \o M(n + 1)
      OBVIOUS
    <3>1. /\ n <= C /\ n \in 0..C /\ n + 1 \in 1..C /\ A + (n + 1) \in 1..(A + C)
          /\ (n + 1) - 1 = n /\ (A + (n + 1)) - 1 = A + n
      BY <1>1
    <3>2. D(A + n) = K(A) \o M(n)
      BY <2>2, <3>1
    <3>3. d[A + (n + 1)] = c[n + 1] /\ c[n + 1] \in Line /\ M(n) \in Seq(Line)
      BY <1>1, <1>3, <1>c, <3>1
    <3>4. M(n + 1) = IF c[n + 1].user = u THEN M(n) ELSE Append(M(n), c[n + 1])
      BY <1>4, <3>1
    <3> DEFINE p == A + (n + 1)
               l == c[n + 1]
               s == K(A)
               t == M(n)
    <3>5. D(p) = IF d[p].user = u THEN D(p - 1) ELSE Append(D(p - 1), d[p])
      <4>1. p \in 1..(A + C)
        BY <3>1
      <4> HIDE DEF p
      <4> QED  BY <1>4, <4>1
    <3>6. D(p) = IF l.user = u THEN s \o t ELSE Append(s \o t, l)
      BY <3>1, <3>2, <3>3, <3>5
    <3>7. Append(s \o t, l) = s \o Append(t, l)
      <4>1. s \in Seq(Line) /\ t \in Seq(Line) /\ l \in Line
        BY <1>7, <3>3
      <4> HIDE DEF s, t, l
      <4>2. <<l>> \in Seq(Line) /\ s \o t \in Seq(Line)
        BY <4>1, ConcatProperties
      <4>3. Append(s \o t, l) = (s \o t) \o <<l>> /\ Append(t, l) = t \o <<l>>
        BY <4>1, <4>2, AppendIsConcat
      <4>4. (s \o t) \o <<l>> = s \o (t \o <<l>>)
        BY <4>1, <4>2, ConcatAssociative
      <4> QED  BY <4>3, <4>4
    <3>8. D(p) = s \o M(n + 1)
      <4> HIDE DEF p, s, t
      <4>1. CASE l.user = u
        <5>1. M(n + 1) = t
          BY <3>4, <4>1 DEF t
        <5> QED  BY <5>1, <4>1, <3>6
      <4>2. CASE l.user # u
        <5>1. M(n + 1) = Append(t, l)
          BY <3>4, <4>2 DEF t
        <5> QED  BY <5>1, <4>2, <3>6, <3>7
      <4> QED  BY <4>1, <4>2
    <3> QED  BY <3>8
  <2>3. Nat \subseteq T
    <3> HIDE DEF T
    <3> QED  BY <2>1, <2>2, SetInduction
  <2> QED  BY <2>3, <1>1
<1> QED  BY <1>5, <1>7, <1>8 DEF d

(* None of mine is a line of others: they do not see what a file says of me. *)
LEMMA OthersMine ==
  ASSUME NEW u, NEW b \in Seq(Line), NEW r \in Seq(Line), NEW m \in Mine(u)
  PROVE  Others((b \o m) \o r, u) = Others(b, u) \o Others(r, u)
<1>1. m \in Seq(Line) /\ Others(m, u) = <<>>
  <2>1. CASE m = <<>>
    <3>1. m \in Seq(Line) /\ Len(m) = 0
      BY <2>1, EmptySeq
    <3> QED  BY <3>1, KeptLoop, DbAssumption DEF Others
  <2>2. CASE m # <<>>
    <3>1. PICK l \in Line : l.sound /\ l.user = u /\ m = <<l>>
      BY <2>2 DEF Mine
    <3>2. m \in Seq(Line) /\ Len(m) = 1 /\ m[1] = l
      BY <3>1
    <3>3. m # Absent /\ 1 \in 1..Len(m) /\ 1 - 1 = 0
      BY <3>2, DbAssumption
    <3>4. Kept(m, u)[1] = <<>>
      <4>1. /\ Kept(m, u)[0] = <<>>
            /\ \A n \in 1..Len(m) :
                 Kept(m, u)[n] = IF m[n].user = u THEN Kept(m, u)[n - 1]
                                 ELSE Append(Kept(m, u)[n - 1], m[n])
        <5>1. m \in Seq(Line)
          BY <3>2
        <5> QED  BY <5>1, KeptLoop
      <4>2. Kept(m, u)[1] = Kept(m, u)[0]
        BY <4>1, <3>1, <3>2, <3>3
      <4> QED  BY <4>1, <4>2
    <3> QED  BY <3>2, <3>3, <3>4 DEF Others
  <2> QED  BY <2>1, <2>2
<1>2. b \o m \in Seq(Line)
  BY <1>1, ConcatProperties
<1>3. Others((b \o m) \o r, u) = Others(b \o m, u) \o Others(r, u)
  BY <1>2, OthersConcat
<1>4. Others(b \o m, u) = Others(b, u) \o Others(m, u) /\ Others(b, u) \in Seq(Line)
  BY <1>1, OthersConcat
<1>5. Others(b \o m, u) = Others(b, u)
  BY <1>1, <1>4, ConcatEmptySeq
<1> QED  BY <1>3, <1>5

-----------------------------------------------------------------------------
(***************************************************************************)
(* How tmp and what is left to read relate to the file db, if no user has  *)
(* two entries in it: db is what was copied, what it says of the user      *)
(* stored, and what is left; tmp is the same with the new entry instead.   *)
(***************************************************************************)
Copied == \E b \in Seq(Clean(who)), r \in Seq(Clean(who)), m \in Mine(who) :
             /\ Body(db) = (b \o m) \o r
             /\ tmp = (b \o Stored(who, new)) \o r
CopyInv ==
    /\ Unique(Body(db)) /\ Unique(Body(disk))
    /\ at = "before" => in = db
    /\ at = "entry" => /\ who \notin Users(Body(in))
                       /\ \E m \in Mine(who) : Body(db) = (tmp \o m) \o Body(in)
    /\ at = "rest" => /\ who \notin Users(Body(in))
                      /\ \E b \in Seq(Clean(who)), m \in Mine(who) :
                           /\ Body(db) = (b \o m) \o Body(in)
                           /\ tmp = b \o Stored(who, new)
    /\ at = "cleanup" => ret # "ok"
    /\ at \in {"close", "sync", "rename"} /\ ret = "ok" => Copied

(* What the step to the entry leaves behind. *)
LEMMA BeforeCopies ==
  ASSUME TypeInv, WrittenInv, CopyInv, store_before, at' = "entry"
  PROVE  /\ who \notin Users(Body(in'))
         /\ \E m \in Mine(who) : Body(db) = (tmp' \o m) \o Body(in')
<1> USE DEF Continue, Fail
<1>1. in = db /\ tmp = <<>> /\ in \in Seq(Line) \cup {Absent}
  BY DEF store_before, CopyInv, WrittenInv, TypeInv, TypeOK
<1>2. Users(<<>>) = {} /\ <<>> \in Mine(who) /\ <<>> \in Seq(Line)
  BY EmptySeq DEF Users, Mine
<1>3. CASE in = Absent
  <2>1. tmp' = <<>> /\ Body(in') = <<>> /\ Body(db) = <<>>
    BY <1>1, <1>3 DEF store_before, copy_breaks, Body
  <2>2. <<>> = (<<>> \o <<>>) \o <<>>
    BY <1>2, ConcatEmptySeq
  <2>3. Body(db) = (tmp' \o <<>>) \o Body(in')
    BY <2>1, <2>2
  <2> QED  BY <1>2, <2>1, <2>3
<1>4. CASE in # Absent
  <2> DEFINE f == db_find_user_entry(who, in)
  <2>1. in \in Seq(Line) /\ Body(db) = in
    BY <1>1, <1>4 DEF Body
  <2>2. tmp' = tmp \o f.copied /\ in' = f.left /\ f.ret # "STATE_PARSE_ERROR"
    BY <1>4 DEF store_before
  <2> HIDE DEF f
  <2>3. /\ f.copied \in Seq(Clean(who)) /\ f.left \in Seq(Line)
        /\ f.ret = "STATE_NO_USER_ENTRY" => f.copied = in /\ f.left = <<>>
        /\ f.ret # "STATE_NO_USER_ENTRY" =>
             \E l \in Line : /\ in = (f.copied \o <<l>>) \o f.left
                             /\ f.ret = "ok" => l.sound /\ l.user = who
        /\ f.ret \in {"ok", "STATE_NO_USER_ENTRY", "STATE_PARSE_ERROR"}
    <3>1. in \in Seq(Line)
      BY <2>1
    <3> QED  BY <3>1, FindSplits DEF f
  <2>4. f.copied \in Seq(Line) /\ tmp' = f.copied
    <3>1. f.copied \in Seq(Line)
      BY <2>3, StopsClean
    <3> QED  BY <3>1, <1>1, <2>2, ConcatEmptySeq
  <2>5. in' # Absent /\ Body(in') = f.left
    BY <2>2, <2>3, DbAssumption DEF Body
  <2>6. CASE f.ret = "STATE_NO_USER_ENTRY"
    <3>1. in = (in \o <<>>) \o <<>>
      BY <2>1, ConcatEmptySeq
    <3>2. Body(db) = (tmp' \o <<>>) \o Body(in')
      BY <3>1, <2>1, <2>3, <2>4, <2>5, <2>6
    <3>3. Body(in') = <<>>
      BY <2>3, <2>5, <2>6
    <3> QED  BY <3>2, <3>3, <1>2
  <2>7. CASE f.ret = "ok"
    <3>1. PICK l \in Line : in = (f.copied \o <<l>>) \o f.left /\ l.sound /\ l.user = who
      BY <2>3, <2>7
    <3> DEFINE m == <<l>>
    <3>2. m \in Mine(who) /\ m # <<>> /\ m \in Seq(Line)
      BY <3>1 DEF Mine
    <3> HIDE DEF m
    <3>3. in = (f.copied \o m) \o f.left
      BY <3>1 DEF m
    <3>4. Unique((f.copied \o m) \o f.left)
      BY <3>3, <2>1 DEF CopyInv
    <3>5. f.copied \o m \in Seq(Line)
      BY <2>4, <3>2, ConcatProperties
    <3>6. Users(f.copied \o m) \cap Users(f.left) = {}
      BY <3>4, <3>5, <2>3, UsersConcat
    <3>7. who \in Users(f.copied \o m)
      <4>1. Users(m) = {who}
        BY <3>2, UsersMine
      <4>2. Users(f.copied \o m) = Users(f.copied) \cup Users(m)
        BY <2>4, <3>2, UsersConcat
      <4> QED  BY <4>1, <4>2
    <3>8. Body(db) = (tmp' \o m) \o Body(in')
      BY <3>3, <2>1, <2>4, <2>5
    <3> QED  BY <3>2, <3>6, <3>7, <3>8, <2>5
  <2> QED  BY <2>2, <2>3, <2>6, <2>7
<1> QED  BY <1>3, <1>4

(* The rest of the file is copied to its end, or the store fails. *)
LEMMA RestCopies ==
  ASSUME TypeInv, CopyInv, store_rest, ret' = "ok"
  PROVE  at' = "close" /\ Copied'
<1> USE DEF Continue, Fail
<1>1. at = "rest" /\ who' = who /\ new' = new /\ db' = db
  BY DEF store_rest
<1>2. who \notin Users(Body(in)) /\ tmp \in Seq(Line) /\ in \in Seq(Line) \cup {Absent}
  BY <1>1 DEF CopyInv, TypeInv, TypeOK
<1>3. PICK b \in Seq(Clean(who)), m \in Mine(who) :
         Body(db) = (b \o m) \o Body(in) /\ tmp = b \o Stored(who, new)
  BY <1>1 DEF CopyInv
<1>4. Body(in) \in Seq(Clean(who)) /\ tmp' = tmp \o Body(in) /\ at' = "close"
  <2>1. CASE in = Absent
    <3>1. Body(in) = <<>> /\ tmp' = tmp /\ at' = "close"
      BY <2>1 DEF store_rest, copy_breaks, Body
    <3> QED  BY <3>1, <1>2, EmptySeq, ConcatEmptySeq
  <2>2. CASE in # Absent
    <3> DEFINE f == db_find_user_entry(who, in)
    <3>1. in \in Seq(Line) /\ Body(in) = in
      BY <1>2, <2>2 DEF Body
    <3>2. /\ tmp' = tmp \o f.copied /\ f.ret # "STATE_PARSE_ERROR"
          /\ f.ret = "STATE_NO_USER_ENTRY" => at' = "close"
      BY <2>2 DEF store_rest
    <3> HIDE DEF f
    <3>3. /\ f.copied \in Seq(Clean(who)) /\ f.left \in Seq(Line)
          /\ f.ret = "STATE_NO_USER_ENTRY" => f.copied = in /\ f.left = <<>>
          /\ f.ret # "STATE_NO_USER_ENTRY" =>
               \E l \in Line : /\ in = (f.copied \o <<l>>) \o f.left
                               /\ f.ret = "ok" => l.sound /\ l.user = who
          /\ f.ret \in {"ok", "STATE_NO_USER_ENTRY", "STATE_PARSE_ERROR"}
      BY <3>1, FindSplits DEF f
    <3>4. f.ret # "ok"
      <4> SUFFICES ASSUME f.ret = "ok"  PROVE FALSE
        OBVIOUS
      <4>1. PICK l \in Line : in = (f.copied \o <<l>>) \o f.left /\ l.sound /\ l.user = who
        BY <3>3
      <4> DEFINE k == <<l>>
      <4>2. k \in Mine(who) /\ k # <<>> /\ k \in Seq(Line)
        BY <4>1 DEF Mine
      <4> HIDE DEF k
      <4>3. f.copied \in Seq(Line) /\ in = (f.copied \o k) \o f.left
        BY <3>3, <4>1, StopsClean DEF k
      <4>4. f.copied \o k \in Seq(Line) /\ Users(k) = {who}
        BY <4>2, <4>3, ConcatProperties, UsersMine
      <4>5. Users(in) = Users(f.copied \o k) \cup Users(f.left)
        BY <4>3, <4>4, <3>3, UsersConcat
      <4>6. Users(f.copied \o k) = Users(f.copied) \cup Users(k)
        BY <4>2, <4>3, UsersConcat
      <4> QED  BY <4>4, <4>5, <4>6, <1>2, <3>1
    <3> QED  BY <3>1, <3>2, <3>3, <3>4
  <2> QED  BY <2>1, <2>2
<1>5. Body(db') = (b \o m) \o Body(in) /\ tmp' = (b \o Stored(who', new')) \o Body(in)
  BY <1>1, <1>3, <1>4
<1> DEFINE r == Body(in)
<1>6. r \in Seq(Clean(who')) /\ b \in Seq(Clean(who')) /\ m \in Mine(who')
  BY <1>1, <1>4
<1>7. Body(db') = (b \o m) \o r /\ tmp' = (b \o Stored(who', new')) \o r
  BY <1>5
<1> HIDE DEF r
<1>8. \E bb \in Seq(Clean(who')), rr \in Seq(Clean(who')), mm \in Mine(who') :
         /\ Body(db') = (bb \o mm) \o rr
         /\ tmp' = (bb \o Stored(who', new')) \o rr
  BY <1>6, <1>7
<1>9. Body(db)' = Body(db')
  BY DEF Body
<1> QED  BY <1>4, <1>8, <1>9 DEF Copied, Clean, Mine, Stored

(* Every step keeps it. *)
LEMMA NextCopyInv ==
  TypeInv /\ WrittenInv /\ CopyInv /\ [Next]_vars => CopyInv'
<1> SUFFICES ASSUME TypeInv, WrittenInv, CopyInv, [Next]_vars  PROVE CopyInv'
  OBVIOUS
<1> USE DEF Continue, Fail
<1>0. db' = db /\ tmp' = tmp /\ who' = who /\ new' = new /\ Copied => Copied'
  BY DEF Copied, Body, Clean, Mine, Stored
<1>b. db' = db => Body(db)' = Body(db)
  BY DEF Body
<1>c. disk' = disk => Body(disk)' = Body(disk)
  BY DEF Body
<1>d. in' = in => Body(in)' = Body(in)
  BY DEF Body
<1>u. Unique(<<>>)
  BY EmptySeq DEF Unique
<1>v. db' = db /\ disk' = disk => Unique(Body(db))' /\ Unique(Body(disk))'
  BY <1>b, <1>c DEF CopyInv, Unique
<1>1. ASSUME NEW u \in User, NEW v \in Value \cup {NoValue}, db_file_store(u, v)
      PROVE  CopyInv'
  BY <1>1, <1>v DEF db_file_store, CopyInv
<1>2. CASE store_unlink
  <2>1. at' = "done" /\ disk' = disk /\ (db' = Absent \/ db' = db)
    BY <1>2 DEF store_unlink
  <2>2. Unique(Body(db))'
    <3>1. CASE db' = db
      BY <3>1, <1>b DEF CopyInv, Unique
    <3>2. CASE db' = Absent
      <4>1. Body(db)' = <<>>
        BY <3>2 DEF Body
      <4> QED  BY <4>1, <1>u DEF Unique
    <3> QED  BY <3>1, <3>2, <2>1
  <2>3. Unique(Body(disk))'
    BY <2>1, <1>c DEF CopyInv, Unique
  <2> QED  BY <2>1, <2>2, <2>3 DEF CopyInv
<1>3. CASE store_open
  BY <1>3, <1>v DEF store_open, CopyInv
<1>4. CASE store_before
  <2>1. /\ db' = db /\ disk' = disk /\ who' = who
        /\ at' = "entry" \/ (at' = "cleanup" /\ ret' # "ok")
    BY <1>4 DEF store_before
  <2>2. at' = "entry" => /\ who \notin Users(Body(in'))
                         /\ \E m \in Mine(who) : Body(db) = (tmp' \o m) \o Body(in')
    BY <1>4, BeforeCopies
  <2>3. at' = "entry" => (/\ who \notin Users(Body(in))
                          /\ \E m \in Mine(who) : Body(db) = (tmp \o m) \o Body(in))'
    BY <2>1, <2>2 DEF Users, Body, Mine
  <2> QED  BY <2>1, <2>3, <1>v DEF CopyInv
<1>5. CASE store_entry
  <2>1. /\ db' = db /\ disk' = disk /\ who' = who /\ new' = new /\ in' = in /\ at = "entry"
        /\ at' = "rest" \/ (at' = "cleanup" /\ ret' # "ok")
    BY <1>5 DEF store_entry
  <2>2. tmp \in Seq(Clean(who)) /\ who \notin Users(Body(in))
    BY <2>1 DEF WrittenInv, CopyInv
  <2>3. PICK m \in Mine(who) : Body(db) = (tmp \o m) \o Body(in)
    BY <2>1 DEF CopyInv
  <2>4. at' = "rest" => tmp' = tmp \o Stored(who, new)
    <3>1. CASE new # NoValue
      <4> DEFINE l == [user |-> who, val |-> new, sound |-> TRUE]
      <4>1. at' = "rest" => tmp' = Append(tmp, l)
        BY <1>5, <3>1 DEF store_entry
      <4>2. Stored(who, new) = <<l>>
        BY <3>1 DEF Stored
      <4>3. l \in Line /\ tmp \in Seq(Line)
        BY <2>2, <3>1, StopsClean DEF TypeInv, TypeOK, Line
      <4> HIDE DEF l
      <4>4. Append(tmp, l) = tmp \o <<l>>
        BY <4>3, AppendIsConcat
      <4> QED  BY <4>1, <4>2, <4>4
    <3>2. CASE new = NoValue
      BY <1>5, <2>2, <3>2, ConcatEmptySeq DEF store_entry, Stored
    <3> QED  BY <3>1, <3>2
  <2>5. at' = "rest" =>
          \E b \in Seq(Clean(who)), k \in Mine(who) :
             /\ Body(db) = (b \o k) \o Body(in)
             /\ tmp' = b \o Stored(who, new)
    BY <2>2, <2>3, <2>4
  <2>6. at' = "rest" => (/\ who \notin Users(Body(in))
                         /\ \E b \in Seq(Clean(who)), k \in Mine(who) :
                              /\ Body(db) = (b \o k) \o Body(in)
                              /\ tmp = b \o Stored(who, new))'
    BY <2>1, <2>2, <2>5 DEF Users, Body, Mine, Clean, Stored
  <2> QED  BY <2>1, <2>6, <1>v DEF CopyInv
<1>6. CASE store_rest
  <2>1. db' = db /\ disk' = disk /\ at' \in {"close", "cleanup"}
    BY <1>6 DEF store_rest
  <2>2. ret' = "ok" => at' = "close" /\ Copied'
    BY <1>6, RestCopies
  <2> QED  BY <2>1, <2>2, <1>v DEF CopyInv
<1>7. CASE store_close \/ store_cleanup
  BY <1>7, <1>0, <1>v DEF store_close, store_cleanup, CopyInv
<1>8. CASE store_sync
  <2>1. /\ disk' = db /\ db' = db /\ at = "sync" /\ at' = "rename" /\ ret' = ret
        /\ tmp' = tmp /\ who' = who /\ new' = new
    BY <1>8 DEF store_sync
  <2>2. Body(disk)' = Body(db)
    BY <2>1 DEF Body
  <2>3. Unique(Body(disk))' /\ Unique(Body(db))'
    BY <2>1, <2>2, <1>b DEF CopyInv, Unique
  <2> QED  BY <2>1, <2>3, <1>0 DEF CopyInv
<1>9. CASE store_rename
  <2>1. at = "rename" /\ at' = "done" /\ disk' = disk /\ (db' = db \/ (ret = "ok" /\ db' = tmp))
    BY <1>9 DEF store_rename
  <2>2. ASSUME ret = "ok"  PROVE tmp # Absent /\ Unique(tmp)
    <3>1. PICK b \in Seq(Clean(who)), r \in Seq(Clean(who)), m \in Mine(who) :
            Body(db) = (b \o m) \o r /\ tmp = (b \o Stored(who, new)) \o r
      BY <2>1, <2>2 DEF CopyInv, Copied
    <3>2. Stored(who, new) \in Mine(who)
      BY StoredMine DEF TypeInv, TypeOK
    <3>3. Unique((b \o m) \o r)
      BY <3>1 DEF CopyInv
    <3>4. Unique(tmp)
      BY <3>1, <3>2, <3>3, UniqueStored
    <3>5. tmp \in Seq(Line)
      <4>1. b \in Seq(Line) /\ r \in Seq(Line)
        BY StopsClean
      <4>2. Stored(who, new) \in Seq(Line)
        BY <3>2, MineLines
      <4>3. b \o Stored(who, new) \in Seq(Line)
        BY <4>1, <4>2, ConcatProperties
      <4>4. (b \o Stored(who, new)) \o r \in Seq(Line)
        BY <4>1, <4>3, ConcatProperties
      <4> QED  BY <4>4, <3>1
    <3> QED  BY <3>4, <3>5, DbAssumption
  <2>3. Unique(Body(db))'
    <3>1. CASE db' = db
      BY <3>1, <1>b DEF CopyInv, Unique
    <3>2. CASE ret = "ok" /\ db' = tmp
      <4>1. Body(db)' = tmp
        BY <3>2, <2>2 DEF Body
      <4> QED  BY <4>1, <3>2, <2>2 DEF Unique
    <3> QED  BY <3>1, <3>2, <2>1
  <2>4. Unique(Body(disk))'
    BY <2>1, <1>c DEF CopyInv, Unique
  <2> QED  BY <2>1, <2>3, <2>4 DEF CopyInv
<1>10. CASE store_return
  BY <1>10, <1>v DEF store_return, CopyInv
<1>11. CASE killed
  BY <1>11, <1>v DEF killed, CopyInv
<1>12. CASE power_failure
  <2>1. at' = "idle" /\ disk' = db' /\ (db' = db \/ db' = disk)
    BY <1>12 DEF power_failure, TypeInv
  <2>2. Body(db)' \in {Body(db), Body(disk)} /\ Body(disk)' = Body(db)'
    BY <2>1 DEF Body
  <2>3. Unique(Body(db))' /\ Unique(Body(disk))'
    BY <2>2 DEF CopyInv, Unique
  <2> QED  BY <2>1, <2>3 DEF CopyInv
<1>13. CASE UNCHANGED vars
  <2>1. /\ db' = db /\ disk' = disk /\ at' = at /\ ret' = ret /\ tmp' = tmp /\ in' = in
        /\ who' = who /\ new' = new
    BY <1>13 DEF vars
  <2> QED  BY <2>1, <1>0, <1>v DEF CopyInv, Users, Body, Mine, Clean, Stored
<1> QED  BY <1>1, <1>2, <1>3, <1>4, <1>5, <1>6, <1>7, <1>8, <1>9, <1>10, <1>11, <1>12,
            <1>13 DEF Next, Store

(* What is copied stays related to the file, if the first file has no two  *)
(* entries of one user.                                                    *)
THEOREM CopyInvariant ==
  ASSUME OneEntryEach
  PROVE  Spec => []CopyInv
<1>1. ASSUME Init  PROVE CopyInv
  <2>1. db \in Files /\ disk = db /\ at = "idle"
    BY <1>1 DEF Init
  <2> QED  BY <2>1 DEF OneEntryEach, CopyInv
<1>2. TypeInv /\ WrittenInv /\ CopyInv /\ [Next]_vars => CopyInv'
  BY NextCopyInv
<1> QED  BY <1>1, <1>2, StateDbInvariant, WrittenInvariant, PTL DEF Spec

-----------------------------------------------------------------------------
(* What one step does to the file and what it returns is honest. *)
LEMMA HonestStep ==
  TypeInv /\ CopyInv /\ [Next]_vars =>
    [/\ db' # db /\ at' # "idle" => at' = "done" /\ ret' = "ok"
     /\ at # "done" /\ at' = "done" /\ ret' = "ok" => Lookup(db', who) = new]_vars
<1> SUFFICES ASSUME TypeInv, CopyInv, Next
             PROVE  /\ db' # db /\ at' # "idle" => at' = "done" /\ ret' = "ok"
                    /\ at # "done" /\ at' = "done" /\ ret' = "ok" => Lookup(db', who) = new
  OBVIOUS
<1> USE DEF Continue, Fail
<1>1. ASSUME NEW u \in User, NEW v \in Value \cup {NoValue}, db_file_store(u, v)
      PROVE  db' = db /\ at' # "done"
  BY <1>1 DEF db_file_store
<1>2. CASE store_unlink
  BY <1>2 DEF store_unlink, TypeInv, Lookup
<1>3. ASSUME \/ store_open \/ store_before \/ store_entry \/ store_rest \/ store_close
             \/ store_cleanup \/ store_sync
      PROVE  db' = db /\ at' # "done"
  BY <1>3 DEF store_open, store_before, store_entry, store_rest, store_close,
             store_cleanup, store_sync, copy_breaks
<1>4. CASE store_rename
  <2>1. at' = "done" /\ (ret' = "ok" => ret = "ok" /\ db' = tmp) /\ (db' # db => ret' = "ok")
    BY <1>4 DEF store_rename
  <2>2. ASSUME ret = "ok"  PROVE Lookup(tmp, who) = new
    <3>1. PICK b \in Seq(Clean(who)), r \in Seq(Clean(who)) :
            tmp = (b \o Stored(who, new)) \o r
      BY <1>4, <2>2 DEF store_rename, CopyInv, Copied
    <3>2. who \in User /\ new \in Value \cup {NoValue}
      BY DEF TypeInv, TypeOK
    <3> QED  BY <3>1, <3>2, LookupStored
  <2> QED  BY <2>1, <2>2
<1>5. CASE store_return \/ killed \/ power_failure
  BY <1>5 DEF store_return, killed, power_failure
<1> QED  BY <1>1, <1>2, <1>3, <1>4, <1>5 DEF Next, Store

(* A store that returns 0 has stored the value, and only such a store has  *)
(* changed the file, whatever failed, in any file in which no user has two *)
(* entries (db_file_store; MCDbDuplicateFull shows a second entry).        *)
THEOREM StateDbHonest ==
  ASSUME OneEntryEach
  PROVE  Spec => ReturnHonest
<1>1. TypeInv /\ CopyInv /\ [Next]_vars =>
        [/\ db' # db /\ at' # "idle" => at' = "done" /\ ret' = "ok"
         /\ at # "done" /\ at' = "done" /\ ret' = "ok" => Lookup(db', who) = new]_vars
  BY HonestStep
<1>2. Spec => []CopyInv
  BY CopyInvariant
<1> QED  BY <1>1, <1>2, StateDbInvariant, PTL DEF Spec, ReturnHonest

-----------------------------------------------------------------------------
(* A file that does not exist says what an empty one says. *)
LEMMA BodySays ==
  ASSUME NEW f, NEW u
  PROVE  Lookup(f, u) = Lookup(Body(f), u) /\ Others(f, u) = Others(Body(f), u)
<1>1. CASE f # Absent
  BY <1>1 DEF Body
<1>2. CASE f = Absent
  <2> DEFINE e == <<>>
  <2>1. e \in Seq(Line) /\ Len(e) = 0 /\ e # Absent
    BY EmptySeq, DbAssumption
  <2>2. Kept(e, u)[0] = <<>>
    BY <2>1, KeptLoop
  <2>3. Body(f) = e /\ Stops(u, e) = {}
    BY <1>2, <2>1 DEF Body, Stops
  <2>4. Others(f, u) = <<>> /\ Lookup(f, u) = NoValue
    BY <1>2 DEF Others, Lookup
  <2>5. Others(e, u) = <<>>
    BY <2>1, <2>2 DEF Others
  <2>6. Lookup(e, u) = NoValue
    BY <2>1, <2>3 DEF Lookup
  <2> QED  BY <2>3, <2>4, <2>5, <2>6
<1> QED  BY <1>1, <1>2

(* What a store that succeeds has done to the file. *)
LEMMA RenameReplaces ==
  ASSUME TypeInv, CopyInv, store_rename, db' # db
  PROVE  /\ who \in User /\ new \in Value \cup {NoValue}
         /\ \E b \in Seq(Clean(who)), r \in Seq(Clean(who)), m \in Mine(who) :
              /\ Body(db) = (b \o m) \o r
              /\ Body(db') = (b \o Stored(who, new)) \o r
<1>1. at = "rename" /\ ret = "ok" /\ db' = tmp
  BY DEF store_rename
<1>2. who \in User /\ new \in Value \cup {NoValue}
  BY DEF TypeInv, TypeOK
<1>3. PICK b \in Seq(Clean(who)), r \in Seq(Clean(who)), m \in Mine(who) :
        Body(db) = (b \o m) \o r /\ tmp = (b \o Stored(who, new)) \o r
  BY <1>1 DEF CopyInv, Copied
<1>4. b \in Seq(Line) /\ r \in Seq(Line)
  BY StopsClean
<1>5. Stored(who, new) \in Seq(Line)
  BY <1>2, StoredMine, MineLines
<1>6. b \o Stored(who, new) \in Seq(Line)
  BY <1>4, <1>5, ConcatProperties
<1>7. tmp \in Seq(Line)
  BY <1>3, <1>4, <1>6, ConcatProperties
<1>8. Body(db') = tmp
  BY <1>1, <1>7, DbAssumption DEF Body
<1> QED  BY <1>2, <1>3, <1>8

(* A store that succeeds has kept the lines of others. *)
LEMMA OthersStep ==
  TypeInv /\ CopyInv /\ [Next]_vars =>
    [at = "rename" /\ db' # db /\ at' = "done" => Others(db', who) = Others(db, who)]_vars
<1> SUFFICES ASSUME TypeInv, CopyInv, Next, at = "rename", db' # db, at' = "done"
             PROVE  Others(db', who) = Others(db, who)
  OBVIOUS
<1>1. store_rename
  BY DEF Next, Store, db_file_store, store_unlink, store_open, store_before, store_entry,
         store_rest, store_close, store_cleanup, store_sync, store_return, killed, power_failure
<1>2. PICK b \in Seq(Clean(who)), r \in Seq(Clean(who)), m \in Mine(who) :
        Body(db) = (b \o m) \o r /\ Body(db') = (b \o Stored(who, new)) \o r
  BY <1>1, RenameReplaces
<1>3. Stored(who, new) \in Mine(who)
  BY <1>1, RenameReplaces, StoredMine
<1>4. b \in Seq(Line) /\ r \in Seq(Line)
  BY StopsClean
<1>5. Others((b \o m) \o r, who) = Others(b, who) \o Others(r, who)
  BY <1>4, OthersMine
<1>6. Others((b \o Stored(who, new)) \o r, who) = Others(b, who) \o Others(r, who)
  BY <1>3, <1>4, OthersMine
<1>7. Others(db, who) = Others(Body(db), who) /\ Others(db', who) = Others(Body(db'), who)
  BY BodySays
<1> QED  BY <1>2, <1>5, <1>6, <1>7

(* A store for one user keeps the lines of the others, in their order, in  *)
(* any file in which no user has two entries.                              *)
THEOREM StateDbOthers ==
  ASSUME OneEntryEach
  PROVE  Spec => OthersKept
<1>1. TypeInv /\ CopyInv /\ [Next]_vars =>
        [at = "rename" /\ db' # db /\ at' = "done" => Others(db', who) = Others(db, who)]_vars
  BY OthersStep
<1>2. Spec => []CopyInv
  BY CopyInvariant
<1> QED  BY <1>1, <1>2, StateDbInvariant, PTL DEF Spec, OthersKept

-----------------------------------------------------------------------------
(* What a load finds is a value or nothing. *)
LEMMA LookupType ==
  ASSUME NEW f \in Seq(Line) \cup {Absent}, NEW u
  PROVE  Lookup(f, u) \in Value \cup {NoValue}
<1>1. CASE f = Absent \/ Stops(u, f) = {}
  BY <1>1 DEF Lookup
<1>2. CASE f # Absent /\ Stops(u, f) # {}
  <2> DEFINE i == Min(Stops(u, f))
  <2>1. f \in Seq(Line) /\ Len(f) \in Nat
    BY <1>2, LenProperties
  <2>2. i \in Stops(u, f)
    <3>1. Stops(u, f) \subseteq Nat
      BY <2>1 DEF Stops
    <3> QED  BY <3>1, <1>2, MinLeast
  <2> HIDE DEF i
  <2>3. i \in 1..Len(f)
    BY <2>2 DEF Stops
  <2>4. f[i] \in Line
    BY <2>1, <2>3, ElementOfSeq
  <2>5. Lookup(f, u) = IF f[i].sound THEN f[i].val ELSE NoValue
    BY <1>2 DEF Lookup, i
  <2>6. f[i].val \in Value
        \/ f[i].val = NoValue
    BY <2>4 DEF Line
  <2> QED  BY <2>5, <2>6
<1> QED  BY <1>1, <1>2

(* At first the file is a table, and all of it is on disk. *)
LEMMA TableStarts ==
  Init => Abstract!TableInit
<1> SUFFICES ASSUME Init  PROVE Abstract!TableInit
  OBVIOUS
<1>1. db \in Seq(Line) \cup {Absent} /\ disk = db
  BY DbAssumption DEF Init
<1>2. \A u \in User : (IF owner \in {u, Global} THEN Lookup(db, u) ELSE NoValue)
                      \in Value \cup {NoValue}
  BY <1>1, LookupType
<1>3. Loaded(db) \in [User -> Value \cup {NoValue}] /\ Loaded(disk) = Loaded(db)
  BY <1>1, <1>2 DEF Loaded
<1> QED  BY <1>3 DEF Abstract!TableInit, Abstract!Table

(* A step of a store is a Put, a Sync or a PowerFailure, or changes nothing. *)
LEMMA TableStep ==
  TypeInv /\ CopyInv /\ [Next]_vars => [Abstract!TableNext]_(Abstract!tableVars)
<1> SUFFICES ASSUME TypeInv, CopyInv, [Next]_vars
             PROVE  [Abstract!TableNext]_(Abstract!tableVars)
  OBVIOUS
<1> DEFINE Loads(f) == [u \in User |-> IF owner \in {u, Global} THEN Lookup(f, u)
                                                                ELSE NoValue]
<1>1. owner' = owner
  BY DEF Next, Store, db_file_store, store_unlink, store_open, store_before, store_entry,
         store_rest, store_close, store_cleanup, store_sync, store_rename, store_return, killed,
         power_failure, vars
<1>2. /\ Loaded(db) = Loads(db) /\ Loaded(disk) = Loads(disk)
      /\ Loaded(db)' = Loads(db') /\ Loaded(disk)' = Loads(disk')
  BY <1>1 DEF Loaded
<1> HIDE DEF Loads
<1>3. ASSUME db' = db, disk' = disk  PROVE UNCHANGED Abstract!tableVars
  BY <1>2, <1>3 DEF Abstract!tableVars
<1>4. ASSUME disk' = disk, who \in User, new \in Value \cup {NoValue},
             Loads(db') = [Loads(db) EXCEPT ![who] = new]
      PROVE  Abstract!TableNext
  <2>1. Abstract!Put(who, new)
    BY <1>2, <1>4 DEF Abstract!Put
  <2> QED  BY <2>1, <1>4 DEF Abstract!TableNext
<1>5. who \in User /\ new \in Value \cup {NoValue} /\ who # Global
  BY DbAssumption DEF TypeInv, TypeOK
<1>6. CASE store_unlink /\ db' # db
  <2>1. db' = Absent /\ disk' = disk /\ owner = who /\ new = NoValue
    BY <1>6 DEF store_unlink, TypeInv
  <2>2. \A u \in User : Lookup(db', u) = NoValue
    BY <2>1 DEF Lookup
  <2>3. Loads(db') = [Loads(db) EXCEPT ![who] = new]
    BY <2>1, <2>2, <1>5 DEF Loads
  <2> QED  BY <2>1, <2>3, <1>4, <1>5
<1>7. CASE store_rename /\ db' # db
  <2>1. disk' = disk /\ owner \in {who, Global}
    BY <1>7 DEF store_rename, TypeInv
  <2>2. PICK b \in Seq(Clean(who)), r \in Seq(Clean(who)), m \in Mine(who) :
          Body(db) = (b \o m) \o r /\ Body(db') = (b \o Stored(who, new)) \o r
    BY <1>7, RenameReplaces
  <2>3. Lookup(db', who) = new
    <3>1. Lookup(Body(db'), who) = new
      BY <2>2, <1>5, LookupStored
    <3> QED  BY <3>1, BodySays
  <2>4. ASSUME NEW w \in User, w # who  PROVE Lookup(db', w) = Lookup(db, w)
    <3>1. b \in Seq(Line) /\ r \in Seq(Line) /\ Stored(who, new) \in Mine(who)
      BY <1>5, StopsClean, StoredMine
    <3>2. Lookup((b \o m) \o r, w) = Around(b, r, w)
      BY <2>4, <3>1, LookupOther
    <3>3. Lookup((b \o Stored(who, new)) \o r, w) = Around(b, r, w)
      BY <2>4, <3>1, LookupOther
    <3>4. Lookup(Body(db'), w) = Lookup(Body(db), w)
      BY <2>2, <3>2, <3>3
    <3> QED  BY <3>4, BodySays
  <2>5. Loads(db') = [Loads(db) EXCEPT ![who] = new]
    BY <2>1, <2>3, <2>4, <1>5 DEF Loads
  <2> QED  BY <2>1, <2>5, <1>4, <1>5
<1>8. CASE store_sync
  <2>1. db' = db /\ disk' = db
    BY <1>8 DEF store_sync
  <2>2. Abstract!Sync
    BY <2>1, <1>2 DEF Abstract!Sync
  <2> QED  BY <2>2 DEF Abstract!TableNext
<1>9. CASE power_failure
  <2>1. disk' = db' /\ (db' = db \/ db' = disk)
    BY <1>9 DEF power_failure, TypeInv
  <2>2. Abstract!PowerFailure
    BY <2>1, <1>2 DEF Abstract!PowerFailure
  <2> QED  BY <2>2 DEF Abstract!TableNext
<1>10. ASSUME NEW u \in User, NEW v \in Value \cup {NoValue}, db_file_store(u, v)
       PROVE  db' = db /\ disk' = disk
  BY <1>10 DEF db_file_store
<1>11. CASE \/ store_unlink /\ db' = db
            \/ store_rename /\ db' = db
            \/ store_open \/ store_before \/ store_entry \/ store_rest \/ store_close
            \/ store_cleanup \/ store_return \/ killed \/ UNCHANGED vars
  <2>1. db' = db /\ disk' = disk
    BY <1>11 DEF store_unlink, store_rename, store_open, store_before, store_entry,
                 store_rest, store_close, store_cleanup, store_return, killed, vars
  <2> QED  BY <2>1, <1>3
<1> QED  BY <1>3, <1>6, <1>7, <1>8, <1>9, <1>10, <1>11 DEF Next, Store

(* The state file implements a table of users, in which a store that is    *)
(* killed, fails or loses power leaves the old state or the new one, if no *)
(* user has two entries in it.                                             *)
THEOREM StateDbTable ==
  ASSUME OneEntryEach
  PROVE  Spec => ImplementsTable
<1>1. Init => Abstract!TableInit
  BY TableStarts
<1>2. TypeInv /\ CopyInv /\ [Next]_vars => [Abstract!TableNext]_(Abstract!tableVars)
  BY TableStep
<1>3. Spec => []CopyInv
  BY CopyInvariant
<1> QED  BY <1>1, <1>2, <1>3, StateDbInvariant, PTL DEF Spec, ImplementsTable, Abstract!TableSpec

=============================================================================
