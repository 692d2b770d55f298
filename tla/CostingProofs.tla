---------------------------- MODULE CostingProofs ----------------------------
(***************************************************************************)
(* The weighted-average engine folds every journal of a key, however long, *)
(* of any quantities and costs, as its exact reference does, up to the     *)
(* rounding of each issue; receipts average; what goes negative is flagged;*)
(* and what is on hand of a key is the sum of what its rows moved.         *)
(***************************************************************************)
EXTENDS MCCosting, KeyLevel, SumProofs

-----------------------------------------------------------------------------
(* Rounding.                                                               *)

LEMMA Scales ==
  ASSUME NEW a \in Int, NEW b \in Int, NEW c \in Nat, a <= b
  PROVE  c * a <= c * b
<1>1. b - a \in Nat
  OBVIOUS
<1>2. c * (b - a) \in Nat
  BY <1>1
<1>3. c * (b - a) = c * b - c * a
  OBVIOUS
<1> QED
  BY <1>2, <1>3

LEMMA Cancels ==
  ASSUME NEW a \in Int, NEW b \in Int, NEW c \in Nat \ {0}, c * a < c * b
  PROVE  a < b
<1>1. SUFFICES ASSUME b <= a
               PROVE  FALSE
  OBVIOUS
<1>2. c * b <= c * a
  BY <1>1, Scales
<1> QED
  BY <1>2

(* The nearest multiple from below of a half up.                           *)
LEMMA Quotient ==
  ASSUME NEW a \in Nat, NEW d \in Nat \ {0}
  PROVE  LET q == (2 * a + d) \div (2 * d)
         IN  q \in Nat /\ 2 * d * q <= 2 * a + d /\ 2 * a + d < 2 * d * q + 2 * d
<1> DEFINE n == 2 * a + d
           e == 2 * d
           q == n \div e
<1>1. n \in Nat /\ e \in Nat \ {0}
  OBVIOUS
<1>2. n = e * q + (n % e) /\ n % e \in 0..(e - 1) /\ q \in Int
  <2> HIDE DEF n, e
  <2> QED
    BY <1>1
<1>3. q >= 0
  <2> HIDE DEF n, e
  <2> QED
    BY <1>1
<1>4. e * q <= n /\ n < e * q + e
  <2> HIDE DEF n, e, q
  <2> QED
    BY <1>1, <1>2
<1> QED
  BY <1>2, <1>3, <1>4

(* DivRound is a nearest integer, on either side of zero.                  *)
LEMMA RoundsUp ==
  ASSUME NEW n \in Nat, NEW d \in Nat \ {0}
  PROVE  LET r == DivRound(n, d)
         IN  r \in Nat /\ 2 * d * r <= 2 * n + d /\ 2 * n + d < 2 * d * r + 2 * d
<1>1. AbsVal(n) = n /\ AbsVal(d) = d /\ ~(n < 0) /\ ~(d < 0)
  BY DEF AbsVal
<1>2. DivRound(n, d) = (2 * n + d) \div (2 * d)
  BY <1>1 DEF DivRound
<1> QED
  BY <1>2, Quotient

LEMMA RoundsDown ==
  ASSUME NEW n \in Int, n < 0, NEW d \in Nat \ {0}
  PROVE  -n \in Nat /\ DivRound(n, d) = -DivRound(-n, d)
<1>1. /\ AbsVal(n) = -n /\ AbsVal(-n) = -n /\ AbsVal(d) = d
      /\ n < 0 /\ ~(d < 0) /\ ~(-n < 0) /\ -n \in Nat
  BY DEF AbsVal
<1> QED
  BY <1>1 DEF DivRound

LEMMA RoundsToNearest ==
  ASSUME NEW n \in Int, NEW d \in Nat \ {0}
  PROVE  LET r == DivRound(n, d)
         IN  r \in Int /\ 2 * (n - d * r) <= d /\ -d <= 2 * (n - d * r)
<1>1. CASE n \in Nat
  <2> DEFINE r == DivRound(n, d)
  <2>1. r \in Nat /\ 2 * d * r <= 2 * n + d /\ 2 * n + d < 2 * d * r + 2 * d
    BY <1>1, RoundsUp
  <2> HIDE DEF r
  <2>2. 2 * d * r = 2 * (d * r) /\ d * r \in Nat
    BY <2>1
  <2> QED
    BY <2>1, <2>2 DEF r
<1>2. CASE n < 0
  <2> DEFINE q == DivRound(-n, d)
  <2>1. -n \in Nat /\ DivRound(n, d) = -q
    BY <1>2, RoundsDown
  <2>2. q \in Nat /\ 2 * d * q <= 2 * (-n) + d /\ 2 * (-n) + d < 2 * d * q + 2 * d
    BY <2>1, RoundsUp
  <2> HIDE DEF q
  <2>3. d * (-q) = -(d * q) /\ d * q \in Int
    BY <2>2
  <2> QED
    BY <2>1, <2>2, <2>3
<1> QED
  BY <1>1, <1>2

(* An average is a number.                                                 *)
LEMMA AverageType ==
  ASSUME NEW q \in Int, NEW v \in Int
  PROVE  average(q, v) \in Int
<1>1. CASE q = 0
  BY <1>1 DEF average
<1>2. CASE q # 0
  <2>1. AbsVal(v) \in Nat /\ AbsVal(q) \in Nat \ {0}
    BY <1>2 DEF AbsVal
  <2>2. (2 * AbsVal(v) + AbsVal(q)) \div (2 * AbsVal(q)) \in Nat
    BY <2>1, Quotient
  <2> QED
    BY <1>2, <2>2 DEF average, DivRound
<1> QED
  BY <1>1, <1>2

(* The greater fraction is rounded to no less.                             *)
LEMMA RoundsMonotonically ==
  ASSUME NEW m \in Int, NEW c \in Nat \ {0}, NEW n \in Int, NEW d \in Nat \ {0},
         m * d <= n * c
  PROVE  DivRound(m, c) <= DivRound(n, d)
<1>1. ASSUME NEW a \in Nat, NEW e \in Nat \ {0}, NEW b \in Nat, NEW f \in Nat \ {0}, a * f <= b * e
      PROVE  DivRound(a, e) <= DivRound(b, f)
  <2> DEFINE r == DivRound(a, e)
             s == DivRound(b, f)
  <2>1. r \in Nat /\ 2 * e * r <= 2 * a + e
    BY RoundsUp
  <2>2. s \in Nat /\ 2 * b + f < 2 * f * s + 2 * f
    BY RoundsUp
  <2> HIDE DEF r, s
  <2>3. f * (2 * e * r) <= f * (2 * a + e)
    BY <2>1, Scales
  <2>4. e * (2 * b + f) < e * (2 * f * s + 2 * f)
    <3>1. 2 * b + f + 1 <= 2 * f * s + 2 * f
      BY <2>2
    <3>2. e * (2 * b + f + 1) <= e * (2 * f * s + 2 * f)
      BY <2>2, <3>1, Scales
    <3>3. e * (2 * b + f + 1) = e * (2 * b + f) + e
      OBVIOUS
    <3> QED
      BY <2>2, <3>2, <3>3
  <2>5. f * (2 * a + e) <= e * (2 * b + f)
    <3>1. f * (2 * a + e) = 2 * (a * f) + e * f
      OBVIOUS
    <3>2. e * (2 * b + f) = 2 * (b * e) + e * f
      OBVIOUS
    <3> QED
      BY <1>1, <3>1, <3>2
  <2>6. (2 * e * f) * r < (2 * e * f) * (s + 1)
    <3>1. (2 * e * f) * r = f * (2 * e * r)
      BY <2>1
    <3>2. (2 * e * f) * (s + 1) = e * (2 * f * s + 2 * f)
      BY <2>2
    <3>3. f * (2 * e * r) \in Int /\ f * (2 * a + e) \in Int /\ e * (2 * b + f) \in Int
      BY <2>1
    <3> QED
      BY <2>2, <2>3, <2>4, <2>5, <3>1, <3>2, <3>3
  <2>7. 2 * e * f \in Nat \ {0}
    OBVIOUS
  <2>8. r < s + 1
    BY <2>1, <2>2, <2>6, <2>7, Cancels
  <2>9. r <= s
    BY <2>1, <2>2, <2>8
  <2> QED
    BY <2>9 DEF r, s
<1>2. CASE m >= 0 /\ n >= 0
  BY <1>1, <1>2
<1>3. CASE m < 0 /\ n >= 0
  <2>1. DivRound(m, c) = -DivRound(-m, c) /\ -m \in Nat
    BY <1>3, RoundsDown
  <2>2. DivRound(-m, c) \in Nat
    BY <2>1, RoundsUp
  <2>3. DivRound(n, d) \in Nat
    <3>1. n \in Nat
      BY <1>3
    <3> QED
      BY <3>1, RoundsUp
  <2> QED
    BY <2>1, <2>2, <2>3
<1>4. CASE m >= 0 /\ n < 0
  <2>1. m * d \in Nat
    BY <1>4
  <2>2. (-n) * c \in Nat \ {0} /\ (-n) * c = -(n * c)
    <3>1. -n \in Nat \ {0}
      BY <1>4
    <3>2. \A i, j \in Nat \ {0} : i * j \in Nat \ {0}
      OBVIOUS
    <3> QED
      BY <3>1, <3>2
  <2> QED
    BY <2>1, <2>2
<1>5. CASE m < 0 /\ n < 0
  <2>1. /\ DivRound(m, c) = -DivRound(-m, c) /\ -m \in Nat
        /\ DivRound(n, d) = -DivRound(-n, d) /\ -n \in Nat
    BY <1>5, RoundsDown
  <2>2. (-n) * c <= (-m) * d
    <3>1. (-n) * c = -(n * c) /\ (-m) * d = -(m * d) /\ n * c \in Int /\ m * d \in Int
      OBVIOUS
    <3> QED
      BY <3>1
  <2>3. DivRound(-n, d) <= DivRound(-m, c)
    BY <1>1, <2>1, <2>2
  <2>4. DivRound(-n, d) \in Nat /\ DivRound(-m, c) \in Nat
    BY <2>1, RoundsUp
  <2> QED
    BY <2>1, <2>3, <2>4
<1> QED
  BY <1>2, <1>3, <1>4, <1>5

(* An integer is not rounded.                                              *)
LEMMA RoundsIntegers ==
  ASSUME NEW n \in Int
  PROVE  DivRound(n, 1) = n
<1>1. /\ DivRound(n, 1) \in Int /\ 2 * (n - 1 * DivRound(n, 1)) <= 1
      /\ -1 <= 2 * (n - 1 * DivRound(n, 1))
  BY RoundsToNearest
<1> QED
  BY <1>1

-----------------------------------------------------------------------------
(* The folds.                                                              *)

Movements == [qty : Int, cost : Int]

Journals == Seq(Movements)

Valuations == [qty : Int, value : Int, unitCost : Int, provisional : BOOLEAN]

(* What holds at 0, and at each place when it does at the one before.      *)
LEMMA Throughout ==
  ASSUME NEW n \in Nat, NEW P, 0 \in P, \A i \in 1..n : i - 1 \in P => i \in P
  PROVE  \A i \in 0..n : i \in P
<1> DEFINE Q == {i \in Nat : i <= n => i \in P}
<1>1. 0 \in Q
  OBVIOUS
<1>2. ASSUME NEW i \in Nat, i \in Q
      PROVE  i + 1 \in Q
  <2>1. i + 1 <= n => i + 1 \in 1..n /\ (i + 1) - 1 = i /\ i <= n
    OBVIOUS
  <2> QED
    BY <1>2, <2>1
<1>3. \A i \in Nat : i \in Q
  <2> HIDE DEF Q
  <2> QED
    BY <1>1, <1>2, NaturalInduction
<1> QED
  BY <1>3

(* The positions up to the n-th movement.                                  *)
PositionsTo(s, n, position) ==
  position = [i \in 0..n |-> IF i = 0 THEN NoStock ELSE Valuation(position[i - 1], s[i])]

ExactTo(s, n, position) ==
  position = [i \in 0..n |-> IF i = 0 THEN ExactlyNothing ELSE ExactStep(position[i - 1], s[i])]

Positions(s) == CHOOSE position : PositionsTo(s, Len(s), position)

Exactly(s) == CHOOSE position : ExactTo(s, Len(s), position)

(* There are such positions: one more at a time.                           *)
LEMMA PositionsExist ==
  ASSUME NEW s
  PROVE  \A n \in Nat : \E position : PositionsTo(s, n, position)
<1> DEFINE P == {n \in Nat : \E position : PositionsTo(s, n, position)}
<1>1. 0 \in P
  <2> DEFINE p == [i \in 0..0 |-> NoStock]
  <2>1. p = [i \in 0..0 |-> IF i = 0 THEN NoStock ELSE Valuation(p[i - 1], s[i])]
    OBVIOUS
  <2> QED
    BY <2>1 DEF PositionsTo
<1>2. ASSUME NEW n \in Nat, n \in P
      PROVE  n + 1 \in P
  <2>1. PICK p : PositionsTo(s, n, p)
    BY <1>2
  <2> DEFINE q == [i \in 0..(n + 1) |-> IF i <= n THEN p[i] ELSE Valuation(p[n], s[n + 1])]
  <2>2. \A i \in 0..n : p[i] = IF i = 0 THEN NoStock ELSE Valuation(p[i - 1], s[i])
    BY <2>1 DEF PositionsTo
  <2>3. \A i \in 0..(n + 1) : q[i] = IF i = 0 THEN NoStock ELSE Valuation(q[i - 1], s[i])
    <3>1. ASSUME NEW i \in 0..(n + 1), i <= n
          PROVE  q[i] = IF i = 0 THEN NoStock ELSE Valuation(q[i - 1], s[i])
      <4>1. i \in 0..n /\ q[i] = p[i] /\ (i # 0 => i - 1 \in 0..(n + 1) /\ i - 1 <= n)
        BY <3>1
      <4> QED
        BY <2>2, <4>1
    <3>2. q[n + 1] = Valuation(p[n], s[n + 1]) /\ q[n] = p[n]
      OBVIOUS
    <3>3. \A i \in 0..(n + 1) : i <= n \/ i = n + 1
      OBVIOUS
    <3> HIDE DEF q
    <3> QED
      BY <3>1, <3>2, <3>3
  <2>4. q = [i \in 0..(n + 1) |-> IF i = 0 THEN NoStock ELSE Valuation(q[i - 1], s[i])]
    <3>1. q = [i \in 0..(n + 1) |-> q[i]]
      OBVIOUS
    <3> HIDE DEF q
    <3> QED
      BY <2>3, <3>1
  <2> HIDE DEF q
  <2>5. PositionsTo(s, n + 1, q)
    BY <2>4 DEF PositionsTo
  <2> QED
    BY <2>5
<1>3. \A n \in Nat : n \in P
  <2> HIDE DEF P
  <2> QED
    BY <1>1, <1>2, NaturalInduction
<1> QED
  BY <1>3

LEMMA ExactExists ==
  ASSUME NEW s
  PROVE  \A n \in Nat : \E position : ExactTo(s, n, position)
<1> DEFINE P == {n \in Nat : \E position : ExactTo(s, n, position)}
<1>1. 0 \in P
  <2> DEFINE p == [i \in 0..0 |-> ExactlyNothing]
  <2>1. p = [i \in 0..0 |-> IF i = 0 THEN ExactlyNothing ELSE ExactStep(p[i - 1], s[i])]
    OBVIOUS
  <2> QED
    BY <2>1 DEF ExactTo
<1>2. ASSUME NEW n \in Nat, n \in P
      PROVE  n + 1 \in P
  <2>1. PICK p : ExactTo(s, n, p)
    BY <1>2
  <2> DEFINE q == [i \in 0..(n + 1) |-> IF i <= n THEN p[i] ELSE ExactStep(p[n], s[n + 1])]
  <2>2. \A i \in 0..n : p[i] = IF i = 0 THEN ExactlyNothing ELSE ExactStep(p[i - 1], s[i])
    BY <2>1 DEF ExactTo
  <2>3. \A i \in 0..(n + 1) : q[i] = IF i = 0 THEN ExactlyNothing ELSE ExactStep(q[i - 1], s[i])
    <3>1. ASSUME NEW i \in 0..(n + 1), i <= n
          PROVE  q[i] = IF i = 0 THEN ExactlyNothing ELSE ExactStep(q[i - 1], s[i])
      <4>1. i \in 0..n /\ q[i] = p[i] /\ (i # 0 => i - 1 \in 0..(n + 1) /\ i - 1 <= n)
        BY <3>1
      <4> QED
        BY <2>2, <4>1
    <3>2. q[n + 1] = ExactStep(p[n], s[n + 1]) /\ q[n] = p[n]
      OBVIOUS
    <3>3. \A i \in 0..(n + 1) : i <= n \/ i = n + 1
      OBVIOUS
    <3> HIDE DEF q
    <3> QED
      BY <3>1, <3>2, <3>3
  <2>4. q = [i \in 0..(n + 1) |-> IF i = 0 THEN ExactlyNothing ELSE ExactStep(q[i - 1], s[i])]
    <3>1. q = [i \in 0..(n + 1) |-> q[i]]
      OBVIOUS
    <3> HIDE DEF q
    <3> QED
      BY <2>3, <3>1
  <2> HIDE DEF q
  <2>5. ExactTo(s, n + 1, q)
    BY <2>4 DEF ExactTo
  <2> QED
    BY <2>5
<1>3. \A n \in Nat : n \in P
  <2> HIDE DEF P
  <2> QED
    BY <1>1, <1>2, NaturalInduction
<1> QED
  BY <1>3

LEMMA PositionsGoOn ==
  ASSUME NEW s \in Journals
  PROVE  /\ Positions(s)[0] = NoStock
         /\ \A i \in 1..Len(s) : Positions(s)[i] = Valuation(Positions(s)[i - 1], s[i])
<1>1. Len(s) \in Nat
  BY DEF Journals
<1>2. PositionsTo(s, Len(s), Positions(s))
  BY <1>1, PositionsExist DEF Positions
<1> DEFINE p == Positions(s)
<1> HIDE DEF p
<1>3. \A i \in 0..Len(s) : p[i] = IF i = 0 THEN NoStock ELSE Valuation(p[i - 1], s[i])
  BY <1>2 DEF PositionsTo, p
<1>4. 0 \in 0..Len(s) /\ \A i \in 1..Len(s) : i \in 0..Len(s) /\ i # 0
  BY <1>1
<1> QED
  BY <1>3, <1>4 DEF p

LEMMA ExactGoesOn ==
  ASSUME NEW s \in Journals
  PROVE  /\ Exactly(s)[0] = ExactlyNothing
         /\ \A i \in 1..Len(s) : Exactly(s)[i] = ExactStep(Exactly(s)[i - 1], s[i])
<1>1. Len(s) \in Nat
  BY DEF Journals
<1>2. ExactTo(s, Len(s), Exactly(s))
  BY <1>1, ExactExists DEF Exactly
<1> DEFINE p == Exactly(s)
<1> HIDE DEF p
<1>3. \A i \in 0..Len(s) : p[i] = IF i = 0 THEN ExactlyNothing ELSE ExactStep(p[i - 1], s[i])
  BY <1>2 DEF ExactTo, p
<1>4. 0 \in 0..Len(s) /\ \A i \in 1..Len(s) : i \in 0..Len(s) /\ i # 0
  BY <1>1
<1> QED
  BY <1>3, <1>4 DEF p

(* What the engine and its reference return are those positions.           *)
LEMMA CostIs == \A s : Cost(s) = [i \in 1..Len(s) |-> Positions(s)[i]]
BY DEF Cost, Positions, PositionsTo

LEMMA ExactIs == Exact = Exactly(ordered)[Len(ordered)]
BY DEF Exact, Exactly, ExactTo

-----------------------------------------------------------------------------
(* Valuations are numbers.                                                 *)
LEMMA ValuationType ==
  ASSUME NEW p \in Valuations, NEW m \in Movements
  PROVE  Valuation(p, m) \in Valuations /\ Valuation(p, m).qty = p.qty + m.qty
<1>1. /\ p.qty \in Int /\ p.value \in Int /\ p.unitCost \in Int /\ p.provisional \in BOOLEAN
      /\ m.qty \in Int /\ m.cost \in Int
  BY DEF Valuations, Movements
<1>2. Booked(p, m) \in Valuations /\ Booked(p, m).qty = p.qty + m.qty
  <2>1. CASE m.qty > 0
    <3>1. m.qty * m.cost \in Int
      BY <1>1
    <3> QED
      BY <1>1, <2>1, <3>1 DEF Booked, Inbound, Valuations
  <2>2. CASE m.qty < 0
    <3> DEFINE a == average(p.qty, p.value)
               flag == p.qty <= 0 \/ p.qty + m.qty < 0
    <3>1. a \in Int
      BY <1>1, AverageType
    <3> HIDE DEF a
    <3>2. m.qty * a \in Int
      BY <1>1, <3>1
    <3>3. Booked(p, m) = [qty |-> p.qty + m.qty, value |-> p.value + m.qty * a, unitCost |-> a,
                          provisional |-> flag]
      BY <1>1, <2>2 DEF Booked, Outbound, a
    <3>4. flag \in BOOLEAN
      OBVIOUS
    <3> HIDE DEF flag
    <3> QED
      BY <1>1, <3>1, <3>2, <3>3, <3>4 DEF Valuations
  <2>3. CASE m.qty = 0
    <3> DEFINE a == average(p.qty, p.value + m.cost)
    <3>1. a \in Int
      <4>1. p.value + m.cost \in Int
        BY <1>1
      <4> QED
        BY <1>1, <4>1, AverageType
    <3> HIDE DEF a
    <3>2. Booked(p, m) = [qty |-> p.qty, value |-> p.value + m.cost, unitCost |-> a,
                          provisional |-> FALSE]
      BY <1>1, <2>3 DEF Booked, CostCorrection, a
    <3> QED
      BY <1>1, <2>3, <3>1, <3>2 DEF Valuations
  <2> QED
    BY <1>1, <2>1, <2>2, <2>3
<1> DEFINE b == Booked(p, m)
<1> HIDE DEF b
<1>3. [b EXCEPT !.value = 0] \in Valuations /\ [b EXCEPT !.value = 0].qty = b.qty
  <2>1. b \in Valuations
    BY <1>2 DEF b
  <2> QED
    BY <2>1 DEF Valuations
<1>4. Valuation(p, m) \in {b, [b EXCEPT !.value = 0]}
  BY DEF Valuation, ClearedAtZero, b
<1> QED
  BY <1>2, <1>3, <1>4 DEF b

LEMMA PositionsType ==
  ASSUME NEW s \in Journals
  PROVE  \A i \in 0..Len(s) : Positions(s)[i] \in Valuations
<1> DEFINE P == {i \in Nat : Positions(s)[i] \in Valuations}
<1>1. Len(s) \in Nat /\ \A i \in 1..Len(s) : s[i] \in Movements
  BY DEF Journals
<1>2. 0 \in P
  <2>1. NoStock \in Valuations
    BY DEF NoStock, Valuations
  <2> QED
    BY <2>1, PositionsGoOn
<1>3. \A i \in 1..Len(s) : i - 1 \in P => i \in P
  <2>1. \A i \in 1..Len(s) : i \in Nat
    BY <1>1
  <2> QED
    BY <1>1, <2>1, PositionsGoOn, ValuationType
<1>4. \A i \in 0..Len(s) : i \in P
  <2> HIDE DEF P
  <2> QED
    BY <1>1, <1>2, <1>3, Throughout
<1> QED
  BY <1>4

-----------------------------------------------------------------------------
(* The journal of the key.                                                 *)

TypeInv == ordered \in Journals

LEMMA JournalBegins == Init => TypeInv
BY DEF Init, Journals, TypeInv

LEMMA JournalStep == TypeInv /\ [Next]_ordered => TypeInv'
<1> SUFFICES ASSUME ordered \in Journals, [Next]_ordered
             PROVE  ordered' \in Journals
  BY DEF TypeInv
<1>1. Receipts \subseteq Movements /\ Issues \subseteq Movements /\ Revalues \subseteq Movements
  <2>1. Quantities \subseteq Int /\ UnitCosts \subseteq Int /\ Corrections \subseteq Int
    BY MovementsAssumption
  <2>2. {-n : n \in Quantities} \subseteq Int
    BY <2>1
  <2>3. {0} \subseteq Int
    OBVIOUS
  <2>4. \A A, B \in SUBSET Int : [qty : A, cost : B] \subseteq [qty : Int, cost : Int]
    OBVIOUS
  <2> QED
    BY <2>1, <2>2, <2>3, <2>4 DEF Receipts, Issues, Revalues, Movements
<1>2. ASSUME NEW movements, movements \subseteq Movements, Arrives(movements)
      PROVE  ordered' \in Journals
  <2>1. PICK m \in movements : ordered' = Append(ordered, m)
    BY <1>2 DEF Arrives
  <2> QED
    BY <1>2, <2>1 DEF Journals
<1> QED
  BY <1>1, <1>2 DEF Next

(* What the properties speak of.                                           *)
LEMMA ValuationsFollow ==
  ASSUME ordered \in Journals
  PROVE  /\ Len(ordered) \in Nat /\ DOMAIN ordered = 1..Len(ordered)
         /\ DOMAIN valuations = 1..Len(ordered)
         /\ \A i \in 1..Len(ordered) :
              /\ valuations[i] = Positions(ordered)[i]
              /\ before(i) = Positions(ordered)[i - 1]
              /\ valuations[i] = Valuation(before(i), ordered[i])
              /\ valuations[i] \in Valuations /\ before(i) \in Valuations
              /\ ordered[i] \in Movements
              /\ valuations[i].qty = before(i).qty + ordered[i].qty
<1> DEFINE s == ordered
<1>1. Len(s) \in Nat /\ DOMAIN s = 1..Len(s) /\ \A i \in 1..Len(s) : s[i] \in Movements
  BY DEF Journals
<1>2. valuations = [i \in 1..Len(s) |-> Positions(s)[i]]
  BY CostIs DEF valuations
<1>3. \A i \in 1..Len(s) : valuations[i] = Positions(s)[i]
  BY <1>2
<1>4. ASSUME NEW i \in 1..Len(s)
      PROVE  before(i) = Positions(s)[i - 1]
  <2>1. CASE i = 1
    BY <2>1, PositionsGoOn DEF before
  <2>2. CASE i # 1
    <3>1. i - 1 \in 1..Len(s)
      BY <1>1, <2>2
    <3> QED
      BY <1>3, <2>2, <3>1 DEF before
  <2> QED
    BY <2>1, <2>2
<1>5. ASSUME NEW i \in 1..Len(s)
      PROVE  /\ valuations[i] = Valuation(before(i), s[i])
             /\ valuations[i] \in Valuations /\ before(i) \in Valuations
             /\ valuations[i].qty = before(i).qty + s[i].qty
  <2>1. i \in 0..Len(s) /\ i - 1 \in 0..Len(s)
    BY <1>1
  <2>2. Positions(s)[i] \in Valuations /\ Positions(s)[i - 1] \in Valuations
    BY <2>1, PositionsType
  <2>3. Positions(s)[i] = Valuation(Positions(s)[i - 1], s[i])
    BY PositionsGoOn
  <2> QED
    BY <1>1, <1>3, <1>4, <2>2, <2>3, ValuationType
<1> QED
  BY <1>1, <1>2, <1>3, <1>4, <1>5

-----------------------------------------------------------------------------
(* The mean of what is on hand and what enters is between the two, and     *)
(* stays so when all three are rounded.                                    *)
LEMMA MeansAreBetween ==
  ASSUME NEW q \in Nat \ {0}, NEW v \in Int, NEW k \in Nat \ {0}, NEW c \in Int
  PROVE  LET old == DivRound(v, q)
             new == DivRound(v + k * c, q + k)
         IN  (old <= new /\ new <= c) \/ (c <= new /\ new <= old)
<1>1. k * c \in Int /\ q * c \in Int /\ v + k * c \in Int /\ q + k \in Nat \ {0} /\ DivRound(c, 1) = c
  BY RoundsIntegers
<1>2. CASE v <= q * c
  <2>1. k * v <= k * (q * c)
    BY <1>1, <1>2, Scales
  <2>2. v * (q + k) <= (v + k * c) * q
    <3>1. v * (q + k) = v * q + k * v /\ (v + k * c) * q = v * q + k * (q * c)
      BY <1>1
    <3>2. v * q \in Int /\ k * v \in Int /\ k * (q * c) \in Int
      BY <1>1
    <3> QED
      BY <2>1, <3>1, <3>2
  <2>3. (v + k * c) * 1 <= c * (q + k)
    <3>1. c * (q + k) = q * c + k * c
      OBVIOUS
    <3> QED
      BY <1>1, <1>2, <3>1
  <2>4. DivRound(v, q) <= DivRound(v + k * c, q + k)
    BY <1>1, <2>2, RoundsMonotonically
  <2>5. DivRound(v + k * c, q + k) <= DivRound(c, 1)
    BY <1>1, <2>3, RoundsMonotonically
  <2> QED
    BY <1>1, <2>4, <2>5
<1>3. CASE q * c <= v
  <2>1. k * (q * c) <= k * v
    BY <1>1, <1>3, Scales
  <2>2. (v + k * c) * q <= v * (q + k)
    <3>1. v * (q + k) = v * q + k * v /\ (v + k * c) * q = v * q + k * (q * c)
      BY <1>1
    <3>2. v * q \in Int /\ k * v \in Int /\ k * (q * c) \in Int
      BY <1>1
    <3> QED
      BY <2>1, <3>1, <3>2
  <2>3. c * (q + k) <= (v + k * c) * 1
    <3>1. c * (q + k) = q * c + k * c
      OBVIOUS
    <3> QED
      BY <1>1, <1>3, <3>1
  <2>4. DivRound(v + k * c, q + k) <= DivRound(v, q)
    BY <1>1, <2>2, RoundsMonotonically
  <2>5. DivRound(c, 1) <= DivRound(v + k * c, q + k)
    BY <1>1, <2>3, RoundsMonotonically
  <2> QED
    BY <1>1, <2>4, <2>5
<1> QED
  BY <1>1, <1>2, <1>3

LEMMA ReceiptsAverage == TypeInv => ReceiptAveragesBetween
<1> SUFFICES ASSUME ordered \in Journals, NEW i \in DOMAIN ordered,
                    ordered[i].qty > 0, before(i).qty > 0
             PROVE  LET old == average(before(i).qty, before(i).value)
                        new == average(valuations[i].qty, valuations[i].value)
                    IN  \/ old <= new /\ new <= ordered[i].cost
                        \/ ordered[i].cost <= new /\ new <= old
  BY DEF ReceiptAveragesBetween, TypeInv
<1> DEFINE p == before(i)
           m == ordered[i]
<1>1. valuations[i] = Valuation(p, m) /\ p \in Valuations /\ m \in Movements
  BY ValuationsFollow
<1> HIDE DEF p, m
<1>2. /\ p.qty \in Nat \ {0} /\ p.value \in Int /\ m.qty \in Nat \ {0} /\ m.cost \in Int
      /\ p.qty + m.qty # 0
  <2>1. p.qty \in Int /\ p.value \in Int /\ m.qty \in Int /\ m.cost \in Int
    BY <1>1 DEF Valuations, Movements
  <2>2. p.qty > 0 /\ m.qty > 0
    BY DEF p, m
  <2> QED
    BY <2>1, <2>2
<1>3. Booked(p, m) = Inbound(p, m)
  BY <1>2 DEF Booked
<1>4. valuations[i] = Inbound(p, m)
  BY <1>1, <1>2, <1>3 DEF Valuation, ClearedAtZero, Inbound
<1>5. valuations[i].qty = p.qty + m.qty /\ valuations[i].value = p.value + m.qty * m.cost
  BY <1>4 DEF Inbound
<1>6. /\ average(p.qty, p.value) = DivRound(p.value, p.qty)
      /\ average(valuations[i].qty, valuations[i].value)
           = DivRound(p.value + m.qty * m.cost, p.qty + m.qty)
  BY <1>2, <1>5 DEF average
<1> QED
  BY <1>2, <1>6, MeansAreBetween DEF p, m

(* A receipt into stock on hand moves the average towards the cost it      *)
(* enters at and never past it, in every journal.                          *)
THEOREM ReceiptsAverageIn == Spec => []ReceiptAveragesBetween
<1>1. Spec => []TypeInv
  BY JournalBegins, JournalStep, PTL DEF Spec
<1> QED
  BY <1>1, ReceiptsAverage, PTL

-----------------------------------------------------------------------------
(* An issue at or below zero, or that goes below it, is flagged.           *)
LEMMA IssuesAreFlagged ==
  ASSUME NEW p \in Valuations, NEW m \in Movements, m.qty < 0
  PROVE  Valuation(p, m).provisional <=> p.qty <= 0 \/ p.qty + m.qty < 0
<1>1. Booked(p, m) = Outbound(p, m)
  BY DEF Booked, Movements
<1>2. Booked(p, m).provisional <=> p.qty <= 0 \/ p.qty + m.qty < 0
  <2> DEFINE flag == p.qty <= 0 \/ p.qty + m.qty < 0
  <2>1. Booked(p, m).provisional = flag
    BY <1>1 DEF Outbound
  <2> QED
    BY <2>1
<1>3. Valuation(p, m) \in {Booked(p, m), [Booked(p, m) EXCEPT !.value = 0]}
  BY DEF Valuation, ClearedAtZero
<1>4. [Booked(p, m) EXCEPT !.value = 0].provisional = Booked(p, m).provisional
  BY <1>1 DEF Outbound
<1> QED
  BY <1>2, <1>3, <1>4

LEMMA NegativesExplained == TypeInv => NegativeIsProvisional
<1> SUFFICES ASSUME ordered \in Journals
             PROVE  NegativeIsProvisional
  BY DEF TypeInv
<1> DEFINE n == Len(ordered)
           Explained(i) == \E j \in 1..i :
                             /\ before(j).qty >= 0
                             /\ \A k \in j..i : ordered[k].qty < 0 => valuations[k].provisional
           P == {i \in Nat : i \in 1..n /\ valuations[i].qty < 0 => Explained(i)}
<1>1. n \in Nat /\ DOMAIN ordered = 1..n
  BY ValuationsFollow
<1> HIDE DEF n
<1>2. \A i \in 1..n :
        /\ before(i).qty \in Int /\ ordered[i].qty \in Int
        /\ valuations[i].qty = before(i).qty + ordered[i].qty
        /\ ordered[i].qty < 0 =>
             (valuations[i].provisional <=> before(i).qty <= 0 \/ valuations[i].qty < 0)
  <2> SUFFICES ASSUME NEW i \in 1..n
               PROVE  /\ before(i).qty \in Int /\ ordered[i].qty \in Int
                      /\ valuations[i].qty = before(i).qty + ordered[i].qty
                      /\ ordered[i].qty < 0 =>
                           (valuations[i].provisional <=> before(i).qty <= 0 \/ valuations[i].qty < 0)
    OBVIOUS
  <2>1. /\ before(i) \in Valuations /\ ordered[i] \in Movements
        /\ valuations[i] = Valuation(before(i), ordered[i])
        /\ valuations[i].qty = before(i).qty + ordered[i].qty
    BY ValuationsFollow DEF n
  <2> QED
    BY <2>1, IssuesAreFlagged DEF Valuations, Movements
<1>3. 0 \in P
  BY <1>1
<1>4. ASSUME NEW i \in 1..n, i - 1 \in P
      PROVE  i \in P
  <2> SUFFICES ASSUME valuations[i].qty < 0
               PROVE  Explained(i)
    BY <1>1
  <2>1. CASE before(i).qty >= 0
    <3>1. ordered[i].qty < 0 /\ valuations[i].provisional
      BY <1>2, <2>1
    <3>2. \A k \in i..i : k = i
      BY <1>1
    <3>3. i \in 1..i
      BY <1>1
    <3> QED
      BY <2>1, <3>1, <3>2, <3>3
  <2>2. CASE before(i).qty < 0
    <3>1. i # 1 /\ i - 1 \in 1..n /\ before(i) = valuations[i - 1]
      BY <1>1, <2>2 DEF before, NoStock
    <3>2. PICK j \in 1..(i - 1) :
            /\ before(j).qty >= 0
            /\ \A k \in j..(i - 1) : ordered[k].qty < 0 => valuations[k].provisional
      BY <1>4, <2>2, <3>1
    <3>3. ordered[i].qty < 0 => valuations[i].provisional
      BY <1>2, <2>2
    <3>4. j \in 1..i /\ \A k \in j..i : k \in j..(i - 1) \/ k = i
      BY <1>1
    <3> QED
      BY <3>2, <3>3, <3>4
  <2> QED
    BY <1>2, <2>1, <2>2
<1>5. \A i \in 0..n : i \in P
  <2> HIDE DEF P
  <2> QED
    BY <1>1, <1>3, <1>4, Throughout
<1>6. \A i \in 1..n : i \in 0..n /\ i \in Nat
  BY <1>1
<1> QED
  BY <1>1, <1>5, <1>6 DEF NegativeIsProvisional

(* Every position that is negative was opened by an issue that is flagged, *)
(* and so is each issue since, in every journal.                           *)
THEOREM NegativesAreProvisional == Spec => []NegativeIsProvisional
<1>1. Spec => []TypeInv
  BY JournalBegins, JournalStep, PTL DEF Spec
<1> QED
  BY <1>1, NegativesExplained, PTL

-----------------------------------------------------------------------------
(* The value on hand and its exact reference.                              *)

(* |2 e| is no more than b.                                                *)
Within(e, b) == 2 * e <= b /\ -b <= 2 * e

LEMMA IsWithin ==
  ASSUME NEW e \in Int, NEW b \in Int
  PROVE  2 * AbsVal(e) <= b <=> Within(e, b)
BY DEF AbsVal, Within

LEMMA WithinScales ==
  ASSUME NEW e \in Int, NEW b \in Int, NEW c \in Nat, Within(e, b)
  PROVE  Within(c * e, c * b)
<1>1. 2 * e \in Int /\ -b \in Int /\ 2 * e <= b /\ -b <= 2 * e
  BY DEF Within
<1>2. c * (2 * e) <= c * b /\ c * (-b) <= c * (2 * e)
  BY <1>1, Scales
<1>3. c * (2 * e) = 2 * (c * e) /\ c * (-b) = -(c * b) /\ c * e \in Int /\ c * b \in Int
  OBVIOUS
<1> QED
  BY <1>2, <1>3 DEF Within

LEMMA WithinAdds ==
  ASSUME NEW d \in Int, NEW a \in Int, NEW e \in Int, NEW b \in Int, Within(d, a), Within(e, b)
  PROVE  Within(d + e, a + b)
BY DEF Within

ExactPositions == [qty : Int, num : Int, den : Nat \ {0}, issued : Nat]

(* The engine's position against the exact one, after the same movements.  *)
Tracks(p, x) ==
  /\ p \in Valuations /\ x \in ExactPositions /\ p.qty >= 0 /\ x.qty = p.qty
  /\ Within(p.value * x.den - x.num, x.issued * x.den)

(* An issue of k units of Q, booked at the rounded average a: the drift    *)
(* that there was shrinks with the stock, and each unit issued adds up to  *)
(* half a unit of the last place.                                          *)
LEMMA IssueDrifts ==
  ASSUME NEW Q \in Nat \ {0}, NEW k \in Nat, k <= Q, NEW v \in Int, NEW a \in Int,
         NEW num \in Int, NEW den \in Nat \ {0}, NEW issued \in Nat,
         Within(v * den - num, issued * den), Within(v - Q * a, Q)
  PROVE  /\ den * Q \in Nat \ {0}
         /\ Within((v - k * a) * (den * Q) - num * (Q - k), (issued + k) * (den * Q))
<1> DEFINE e == v * den - num
           w == v - Q * a
           B == issued * den
<1>1. e \in Int /\ w \in Int /\ B \in Nat /\ Q - k \in Nat /\ k * den \in Nat
  OBVIOUS
<1>2. (v - k * a) * (den * Q) - num * (Q - k) = (Q - k) * e + (k * den) * w
  OBVIOUS
<1>3. (issued + k) * (den * Q) = (Q - k) * B + (k * den) * Q + k * B
  OBVIOUS
<1>4. den * Q \in Nat \ {0}
  <2>1. \A i, j \in Nat \ {0} : i * j \in Nat \ {0}
    OBVIOUS
  <2> QED
    BY <2>1
<1> HIDE DEF e, w, B
<1>5. Within((Q - k) * e, (Q - k) * B)
  <2>1. Within(e, B)
    BY DEF e, B
  <2>2. B \in Int
    BY <1>1
  <2> QED
    BY <1>1, <2>1, <2>2, WithinScales
<1>6. Within((k * den) * w, (k * den) * Q)
  <2>1. Within(w, Q) /\ Q \in Int /\ w \in Int
    BY <1>1 DEF w
  <2> DEFINE c == k * den
  <2>2. c \in Nat
    BY <1>1
  <2> HIDE DEF c
  <2>3. Within(c * w, c * Q)
    BY <2>1, <2>2, WithinScales
  <2> QED
    BY <2>3 DEF c
<1>7. Within((Q - k) * e + (k * den) * w, (Q - k) * B + (k * den) * Q)
  <2>1. /\ (Q - k) * e \in Int /\ (Q - k) * B \in Int
        /\ (k * den) * w \in Int /\ (k * den) * Q \in Int
    BY <1>1
  <2> QED
    BY <1>5, <1>6, <2>1, WithinAdds
<1>8. k * B \in Nat /\ (Q - k) * B \in Int /\ (k * den) * Q \in Int
      /\ (Q - k) * e + (k * den) * w \in Int
  BY <1>1
<1>9. \A x, y \in Int, z \in Nat : Within(x, y) => Within(x, y + z)
  BY DEF Within
<1>10. Within((Q - k) * e + (k * den) * w, ((Q - k) * B + (k * den) * Q) + k * B)
  <2>1. (Q - k) * B + (k * den) * Q \in Int
    BY <1>8
  <2> QED
    BY <1>7, <1>8, <1>9, <2>1
<1> QED
  BY <1>2, <1>3, <1>4, <1>10

(* A movement that stock backs keeps the two together.                     *)
LEMMA TracksOn ==
  ASSUME NEW p \in Valuations, NEW x, Tracks(p, x), NEW m \in Movements,
         ~Valuation(p, m).provisional
  PROVE  Tracks(Valuation(p, m), ExactStep(x, m))
<1> DEFINE y == ExactStep(x, m)
           r == Valuation(p, m)
<1>1. /\ p.qty \in Nat /\ p.value \in Int /\ m.qty \in Int /\ m.cost \in Int
      /\ x.qty = p.qty /\ x.num \in Int /\ x.den \in Nat \ {0} /\ x.issued \in Nat
      /\ Within(p.value * x.den - x.num, x.issued * x.den)
  BY DEF Tracks, Valuations, ExactPositions, Movements
<1>2. r \in Valuations /\ r.qty = p.qty + m.qty
  BY ValuationType
<1> HIDE DEF y, r
<1>3. CASE m.qty # 0 /\ p.qty + m.qty = 0
  <2>1. y = ExactlyNothing /\ y.qty = 0 /\ y.num = 0 /\ y.den = 1 /\ y.issued = 0
    BY <1>1, <1>3 DEF y, ExactStep, ExactlyNothing
  <2>2. r.value = 0
    <3>1. Booked(p, m).qty = p.qty + m.qty
      BY <1>1 DEF Booked, Inbound, Outbound, CostCorrection
    <3>2. DOMAIN Booked(p, m) = {"qty", "value", "unitCost", "provisional"}
      BY <1>1 DEF Booked, Inbound, Outbound, CostCorrection
    <3>3. r = [Booked(p, m) EXCEPT !.value = 0]
      BY <1>3, <3>1 DEF r, Valuation, ClearedAtZero
    <3> QED
      BY <3>2, <3>3
  <2>3. Within(r.value * y.den - y.num, y.issued * y.den)
    BY <2>1, <2>2 DEF Within
  <2>4. y \in ExactPositions
    BY <2>1 DEF ExactPositions, ExactlyNothing
  <2> QED
    BY <1>2, <1>3, <2>1, <2>3, <2>4 DEF Tracks, y, r
<1>4. CASE m.qty > 0
  <2> DEFINE z == m.qty * m.cost
  <2>1. r.value = p.value + z
    BY <1>1, <1>4 DEF r, Valuation, Booked, Inbound, ClearedAtZero
  <2>2. y = [qty |-> x.qty + m.qty, num |-> x.num + z * x.den, den |-> x.den, issued |-> x.issued]
    BY <1>1, <1>4 DEF y, ExactStep, ExactBooked
  <2>3. z \in Int
    BY <1>1
  <2> HIDE DEF z
  <2>4. z * x.den \in Int
    BY <1>1, <2>3
  <2>5. /\ y \in ExactPositions /\ y.qty = p.qty + m.qty /\ y.num = x.num + z * x.den
        /\ y.den = x.den /\ y.issued = x.issued
    <3>1. x.qty + m.qty \in Int /\ x.num + z * x.den \in Int
      BY <1>1, <2>4
    <3> QED
      BY <1>1, <2>2, <3>1 DEF ExactPositions
  <2>6. r.value * y.den - y.num = p.value * x.den - x.num
    <3>1. (p.value + z) * x.den = p.value * x.den + z * x.den /\ p.value * x.den \in Int
      BY <1>1, <2>3
    <3> QED
      BY <1>1, <2>1, <2>4, <2>5, <3>1
  <2> QED
    BY <1>1, <1>2, <1>4, <2>5, <2>6 DEF Tracks, y, r
<1>5. CASE m.qty = 0
  <2>1. r.value = p.value + m.cost
    BY <1>1, <1>5 DEF r, Valuation, Booked, CostCorrection, ClearedAtZero
  <2>2. y = [x EXCEPT !.num = @ + m.cost * x.den]
    BY <1>1, <1>5 DEF y, ExactStep, ExactBooked
  <2>4. m.cost * x.den \in Int
    BY <1>1
  <2>5. /\ y \in ExactPositions /\ y.qty = p.qty /\ y.num = x.num + m.cost * x.den
        /\ y.den = x.den /\ y.issued = x.issued
    BY <1>1, <2>2, <2>4 DEF Tracks, ExactPositions
  <2>6. r.value * y.den - y.num = p.value * x.den - x.num
    <3>1. (p.value + m.cost) * x.den = p.value * x.den + m.cost * x.den /\ p.value * x.den \in Int
      BY <1>1
    <3> QED
      BY <1>1, <2>1, <2>4, <2>5, <3>1
  <2> QED
    BY <1>1, <1>2, <1>5, <2>5, <2>6 DEF Tracks, y, r
<1>6. CASE m.qty < 0 /\ p.qty + m.qty # 0
  <2> DEFINE k == -m.qty
             Q == p.qty
             v == p.value
             a == average(Q, v)
  <2>1. Q > 0 /\ Q + m.qty > 0
    <3>1. ~(p.qty <= 0 \/ p.qty + m.qty < 0)
      BY <1>6, IssuesAreFlagged
    <3> QED
      BY <1>1, <1>6, <3>1
  <2>2. Q \in Nat \ {0} /\ k \in Nat /\ k <= Q /\ v \in Int /\ Q + m.qty = Q - k /\ m.qty = -k
    <3>1. Q \in Nat /\ m.qty \in Int /\ v \in Int /\ m.qty < 0 /\ Q > 0 /\ Q + m.qty > 0
      BY <1>1, <1>6, <2>1
    <3> HIDE DEF Q, v
    <3> QED
      BY <3>1
  <2>3. a \in Int /\ Within(v - Q * a, Q)
    <3>1. a = DivRound(v, Q)
      BY <2>2 DEF average
    <3> QED
      BY <2>2, <3>1, RoundsToNearest DEF Within
  <2>4. r.value = v + m.qty * a
    BY <1>1, <1>6 DEF r, Valuation, Booked, Outbound, ClearedAtZero
  <2>5. y = [qty |-> Q + m.qty, num |-> x.num * (Q + m.qty), den |-> x.den * Q,
             issued |-> x.issued - m.qty]
    BY <1>1, <1>6 DEF y, ExactStep, ExactBooked
  <2> HIDE DEF a, v, Q, k
  <2>6. m.qty * a = -(k * a) /\ k * a \in Int
    BY <2>2, <2>3
  <2>7. r.value = v - k * a
    BY <2>2, <2>4, <2>6
  <2>8. /\ x.den * Q \in Nat \ {0}
        /\ Within((v - k * a) * (x.den * Q) - x.num * (Q - k), (x.issued + k) * (x.den * Q))
    <3>1. Within(v * x.den - x.num, x.issued * x.den)
      BY <1>1 DEF v
    <3> QED
      BY <1>1, <2>2, <2>3, <3>1, IssueDrifts
  <2>9. y.qty = Q - k /\ y.num = x.num * (Q - k) /\ y.den = x.den * Q /\ y.issued = x.issued + k
    BY <1>1, <2>2, <2>5
  <2>10. y \in ExactPositions
    <3>1. Q - k \in Int /\ x.num * (Q - k) \in Int /\ x.issued + k \in Nat
      BY <1>1, <2>2
    <3>2. y = [qty |-> Q - k, num |-> x.num * (Q - k), den |-> x.den * Q, issued |-> x.issued + k]
      BY <1>1, <2>2, <2>5
    <3> QED
      BY <2>8, <3>1, <3>2 DEF ExactPositions
  <2>11. r.qty = Q - k /\ r.qty >= 0
    BY <1>2, <2>1, <2>2 DEF Q
  <2> QED
    BY <1>2, <2>7, <2>8, <2>9, <2>10, <2>11 DEF Tracks, y, r
<1> QED
  BY <1>1, <1>3, <1>4, <1>5, <1>6

LEMMA TracksAll == TypeInv => ValueTracksExact
<1> SUFFICES ASSUME TypeInv, NeverProvisional, ordered # <<>>
             PROVE  LET got == valuations[Len(ordered)] IN
                    2 * AbsVal(got.value * Exact.den - Exact.num) <= Exact.issued * Exact.den
  BY DEF ValueTracksExact
<1> DEFINE n == Len(ordered)
           P == {i \in Nat : Tracks(Positions(ordered)[i], Exactly(ordered)[i])}
<1>0. ordered \in Journals
  BY DEF TypeInv
<1>1. n \in Nat \ {0} /\ DOMAIN valuations = 1..n
  <2>1. n # 0
    BY <1>0 DEF Journals
  <2> QED
    BY <1>0, <2>1, ValuationsFollow
<1> HIDE DEF n
<1>2. 0 \in P
  <2>1. Tracks(NoStock, ExactlyNothing)
    BY DEF Tracks, NoStock, ExactlyNothing, Valuations, ExactPositions, Within
  <2> QED
    BY <1>0, <2>1, PositionsGoOn, ExactGoesOn
<1>3. ASSUME NEW i \in 1..n, i - 1 \in P
      PROVE  i \in P
  <2> DEFINE p == Positions(ordered)[i - 1]
             x == Exactly(ordered)[i - 1]
             m == ordered[i]
  <2>1. i \in Nat /\ Tracks(p, x)
    BY <1>1, <1>3
  <2>2. /\ Positions(ordered)[i] = Valuation(p, m) /\ Exactly(ordered)[i] = ExactStep(x, m)
        /\ valuations[i] = Positions(ordered)[i] /\ m \in Movements
    BY <1>0, PositionsGoOn, ExactGoesOn, ValuationsFollow DEF n
  <2>3. ~valuations[i].provisional
    BY <1>1 DEF NeverProvisional
  <2> HIDE DEF p, x, m
  <2>4. p \in Valuations
    BY <2>1 DEF Tracks
  <2>5. Tracks(Valuation(p, m), ExactStep(x, m))
    BY <2>1, <2>2, <2>3, <2>4, TracksOn
  <2> QED
    BY <2>1, <2>2, <2>5
<1>4. n \in P
  <2>1. \A i \in 0..n : i \in P
    <3> HIDE DEF P
    <3> QED
      BY <1>1, <1>2, <1>3, Throughout
  <2> QED
    BY <1>1, <2>1
<1>5. valuations[n] = Positions(ordered)[n] /\ Exact = Exactly(ordered)[n]
  <2>1. n \in 1..n
    BY <1>1
  <2> QED
    BY <1>0, <2>1, ValuationsFollow, ExactIs DEF n
<1>6. Tracks(valuations[n], Exact)
  BY <1>4, <1>5
<1> DEFINE e == valuations[n].value * Exact.den - Exact.num
           b == Exact.issued * Exact.den
<1>7. Within(e, b) /\ e \in Int /\ b \in Int
  <2>1. valuations[n].value \in Int /\ Exact.den \in Int /\ Exact.num \in Int /\ Exact.issued \in Int
    BY <1>6 DEF Tracks, Valuations, ExactPositions
  <2> QED
    BY <1>6, <2>1 DEF Tracks
<1> HIDE DEF e, b
<1>8. 2 * AbsVal(e) <= b
  BY <1>7, IsWithin
<1> QED
  BY <1>8 DEF e, b, n

(* The value on hand is within half a last place of the exact weighted     *)
(* average for every unit issued since the position was last empty, in     *)
(* every journal that backs each of its issues: rounding does not add up   *)
(* any faster, however long the journal.                                   *)
THEOREM ValuesTrackExact == Spec => []ValueTracksExact
<1>1. Spec => []TypeInv
  BY JournalBegins, JournalStep, PTL DEF Spec
<1> QED
  BY <1>1, TracksAll, PTL

-----------------------------------------------------------------------------
(* The level of a key.                                                     *)

(* Every position has the quantities of the movements up to it.            *)
LEMMA PositionsAddUp ==
  ASSUME NEW s \in Journals, NEW f, f = [j \in 1..Len(s) |-> s[j].qty]
  PROVE  \A i \in 0..Len(s) : Positions(s)[i].qty = Sum(f, 1..i)
<1> DEFINE n == Len(s)
           P == {i \in Nat : i <= n => Positions(s)[i].qty = Sum(f, 1..i)}
<1>1. n \in Nat /\ \A i \in 1..n : s[i] \in Movements
  BY DEF Journals
<1>2. \A i \in 1..n : f[i] = s[i].qty /\ f[i] \in Int
  BY <1>1 DEF Movements
<1>3. 0 \in P
  <2>1. 1..0 = {} /\ NoStock.qty = 0
    BY DEF NoStock
  <2> QED
    BY <2>1, PositionsGoOn, SumEmpty
<1>4. ASSUME NEW i \in 1..n, i - 1 \in P
      PROVE  i \in P
  <2>1. i \in Nat /\ i - 1 \in 0..n /\ i - 1 <= n /\ i - 1 \in Nat
    BY <1>1
  <2>2. Positions(s)[i - 1].qty = Sum(f, 1..(i - 1)) /\ Positions(s)[i - 1] \in Valuations
    BY <1>4, <2>1, PositionsType
  <2>3. Positions(s)[i] = Valuation(Positions(s)[i - 1], s[i])
    BY PositionsGoOn
  <2>4. Positions(s)[i].qty = Positions(s)[i - 1].qty + s[i].qty
    BY <1>1, <2>2, <2>3, ValuationType
  <2>5. IsFiniteSet(1..i) /\ i \in 1..i /\ (1..i) \ {i} = 1..(i - 1) /\ \A x \in 1..i : x \in 1..n
    <3>1. IsFiniteSet(1..i)
      BY <2>1, FS_Interval
    <3> QED
      BY <1>1, <2>1, <3>1
  <2>6. Sum(f, 1..i) = f[i] + Sum(f, 1..(i - 1))
    BY <1>2, <2>5, SumTakes
  <2>7. Sum(f, 1..(i - 1)) \in Int
    BY <2>2 DEF Valuations
  <2>8. Positions(s)[i].qty = Sum(f, 1..i)
    BY <1>2, <2>2, <2>4, <2>6, <2>7
  <2> QED
    BY <2>1, <2>8
<1>5. \A i \in 0..n : i \in P
  <2> HIDE DEF P
  <2> QED
    BY <1>1, <1>3, <1>4, Throughout
<1>6. \A i \in 0..n : i <= n
  BY <1>1
<1> QED
  BY <1>5, <1>6

LEMMA FinalLevelAddsUp ==
  ASSUME NEW s \in Journals, NEW f, f = [j \in 1..Len(s) |-> s[j].qty]
  PROVE  /\ FinalLevel(s).qty = Sum(f, 1..Len(s))
         /\ FinalLevel(s).qty \in Int /\ FinalLevel(s).avg \in Int
<1> DEFINE n == Len(s)
           final == IF s = <<>> THEN NoStock ELSE Cost(s)[n]
<1>1. n \in Nat /\ n \in 0..n /\ (s = <<>> <=> n = 0) /\ (s # <<>> => n \in 1..n)
  BY DEF Journals
<1>2. final = Positions(s)[n]
  <2>1. CASE s = <<>>
    BY <1>1, <2>1, PositionsGoOn
  <2>2. CASE s # <<>>
    <3>1. Cost(s) = [i \in 1..n |-> Positions(s)[i]]
      BY CostIs
    <3> QED
      BY <1>1, <2>2, <3>1
  <2> QED
    BY <2>1, <2>2
<1>3. Positions(s)[n].qty = Sum(f, 1..n) /\ Positions(s)[n] \in Valuations
  BY <1>1, PositionsAddUp, PositionsType
<1>4. FinalLevel(s) = [qty |-> final.qty, avg |-> average(final.qty, final.value)]
  BY DEF FinalLevel
<1> HIDE DEF final, n
<1>5. final.qty \in Int /\ final.value \in Int
  BY <1>2, <1>3 DEF Valuations
<1>6. average(final.qty, final.value) \in Int
  BY <1>5, AverageType
<1> QED
  BY <1>2, <1>3, <1>4, <1>5, <1>6 DEF n

-----------------------------------------------------------------------------
(* The order of the journal.                                               *)

(* The rows of a key, all in numbers.                                      *)
InNumbers(rows) ==
  /\ IsFiniteSet(rows)
  /\ \A m \in rows : /\ m.seq \in Int /\ m.move.date \in Int
                     /\ m.move.qty \in Int /\ m.move.cost \in Int

(* No two rows have one sequence number.                                   *)
Numbered(rows) == \A m, n \in rows : m.seq = n.seq => m = n

Below(rows, m) == {n \in rows : InJournalOrder(n, m)}

NotAbove(rows, m) == {n \in rows : ~InJournalOrder(m, n)}

LEMMA OrderFacts ==
  ASSUME NEW rows, InNumbers(rows)
  PROVE  /\ \A m \in rows : ~InJournalOrder(m, m)
         /\ \A m, n, o \in rows : InJournalOrder(m, n) /\ InJournalOrder(n, o) => InJournalOrder(m, o)
         /\ Numbered(rows) =>
              \A m, n \in rows : m # n => InJournalOrder(m, n) \/ InJournalOrder(n, m)
<1>1. \A m \in rows : m.seq \in Int /\ m.move.date \in Int
  BY DEF InNumbers
<1> QED
  BY <1>1 DEF InJournalOrder, Numbered

(* A finite set has a member that none of it precedes.                     *)
LEMMA FirstExists ==
  ASSUME NEW S, IsFiniteSet(S), S # {}, NEW R,
         \A x \in S : <<x, x>> \notin R,
         \A x, y, z \in S : <<x, y>> \in R /\ <<y, z>> \in R => <<x, z>> \in R
  PROVE  \E x \in S : \A y \in S : <<y, x>> \notin R
<1> DEFINE P == {T \in SUBSET S : T # {} => \E x \in T : \A y \in T : <<y, x>> \notin R}
<1>1. {} \in P
  OBVIOUS
<1>2. ASSUME NEW T \in SUBSET S, T # {}, \A x \in T : T \ {x} \in P
      PROVE  T \in P
  <2>1. PICK z \in T : TRUE
    BY <1>2
  <2>2. CASE T \ {z} = {}
    <3>1. \A y \in T : y = z
      BY <2>2
    <3> QED
      BY <2>1, <3>1
  <2>3. CASE T \ {z} # {}
    <3>1. PICK x \in T \ {z} : \A y \in T \ {z} : <<y, x>> \notin R
      BY <1>2, <2>3
    <3>2. CASE <<z, x>> \notin R
      BY <3>1, <3>2
    <3>3. CASE <<z, x>> \in R
      <4>1. \A y \in T : <<y, z>> \notin R
        BY <3>1, <3>3
      <4> QED
        BY <2>1, <4>1
    <3> QED
      BY <3>2, <3>3
  <2> QED
    BY <2>2, <2>3
<1>3. S \in P
  <2> HIDE DEF P
  <2> QED
    BY <1>1, <1>2, FiniteInduction
<1> QED
  BY <1>3

(* So has the journal order, at either end.                                *)
LEMMA FirstAndLast ==
  ASSUME NEW rows, InNumbers(rows), NEW S \in SUBSET rows, S # {}
  PROVE  /\ \E m \in S : \A n \in S : ~InJournalOrder(n, m)
         /\ \E m \in S : \A n \in S : ~InJournalOrder(m, n)
<1> DEFINE before_ == {p \in rows \X rows : InJournalOrder(p[1], p[2])}
           after == {p \in rows \X rows : InJournalOrder(p[2], p[1])}
<1>1. IsFiniteSet(S)
  BY FS_Subset DEF InNumbers
<1>2. \A m, n \in rows :
        /\ <<m, n>> \in before_ <=> InJournalOrder(m, n)
        /\ <<m, n>> \in after <=> InJournalOrder(n, m)
  OBVIOUS
<1> HIDE DEF before_, after
<1>3. ASSUME NEW x \in S, NEW y \in S, NEW z \in S
      PROVE  /\ <<x, x>> \notin before_ /\ <<x, x>> \notin after
             /\ <<x, y>> \in before_ /\ <<y, z>> \in before_ => <<x, z>> \in before_
             /\ <<x, y>> \in after /\ <<y, z>> \in after => <<x, z>> \in after
  <2>1. x \in rows /\ y \in rows /\ z \in rows
    OBVIOUS
  <2>2. /\ <<x, x>> \in before_ <=> InJournalOrder(x, x)
        /\ <<x, y>> \in before_ <=> InJournalOrder(x, y)
        /\ <<y, z>> \in before_ <=> InJournalOrder(y, z)
        /\ <<x, z>> \in before_ <=> InJournalOrder(x, z)
        /\ <<x, x>> \in after <=> InJournalOrder(x, x)
        /\ <<x, y>> \in after <=> InJournalOrder(y, x)
        /\ <<y, z>> \in after <=> InJournalOrder(z, y)
        /\ <<x, z>> \in after <=> InJournalOrder(z, x)
    BY <1>2, <2>1
  <2> QED
    BY <2>1, <2>2, OrderFacts
<1>5. \E m \in S : \A n \in S : <<n, m>> \notin before_
  BY <1>1, <1>3, FirstExists
<1>6. \E m \in S : \A n \in S : <<n, m>> \notin after
  BY <1>1, <1>3, FirstExists
<1>7. ASSUME NEW m \in S, NEW n \in S
      PROVE  /\ <<n, m>> \in before_ <=> InJournalOrder(n, m)
             /\ <<n, m>> \in after <=> InJournalOrder(m, n)
  BY <1>2
<1> QED
  BY <1>5, <1>6, <1>7

(* Every place in the order has a row: the last of those that fewer rows   *)
(* than places precede.                                                    *)
LEMMA PlaceIsTaken ==
  ASSUME NEW rows, InNumbers(rows), NEW i \in 1..Cardinality(rows)
  PROVE  \E m \in rows : Cardinality(Below(rows, m)) < i /\ i <= Cardinality(NotAbove(rows, m))
<1> DEFINE A == {m \in rows : Cardinality(Below(rows, m)) < i}
<1>1. /\ IsFiniteSet(rows) /\ Cardinality(rows) \in Nat /\ i \in Nat \ {0} /\ i <= Cardinality(rows)
      /\ \A S \in SUBSET rows : IsFiniteSet(S) /\ Cardinality(S) \in Nat
  BY FS_Subset, FS_CardinalityType DEF InNumbers
<1>2. rows # {}
  BY <1>1, FS_EmptySet
<1>3. A # {}
  <2>1. PICK m \in rows : \A n \in rows : ~InJournalOrder(n, m)
    BY <1>2, FirstAndLast
  <2>2. Below(rows, m) = {}
    BY <2>1 DEF Below
  <2>3. Cardinality(Below(rows, m)) = 0
    BY <2>2, FS_EmptySet
  <2> QED
    BY <1>1, <2>3
<1>4. PICK m \in A : \A n \in A : ~InJournalOrder(m, n)
  <2>1. A \in SUBSET rows
    OBVIOUS
  <2> HIDE DEF A
  <2> QED
    BY <1>3, <2>1, FirstAndLast
<1> DEFINE B == {n \in rows : InJournalOrder(m, n)}
<1>5. CASE B = {}
  <2>1. NotAbove(rows, m) = rows
    BY <1>5 DEF NotAbove
  <2> QED
    BY <1>1, <1>4, <2>1
<1>6. CASE B # {}
  <2>1. PICK n \in B : \A x \in B : ~InJournalOrder(x, n)
    <3>1. B \in SUBSET rows
      OBVIOUS
    <3> HIDE DEF B
    <3> QED
      BY <1>6, <3>1, FirstAndLast
  <2>2. n \in rows /\ n \notin A
    BY <1>4, <2>1
  <2>3. Below(rows, n) \in SUBSET NotAbove(rows, m) /\ NotAbove(rows, m) \in SUBSET rows
    BY <2>1 DEF Below, NotAbove
  <2>4. Cardinality(Below(rows, n)) <= Cardinality(NotAbove(rows, m))
    BY <1>1, <2>3, FS_Subset
  <2>5. i <= Cardinality(Below(rows, n))
    <3>1. Cardinality(Below(rows, n)) \in Nat
      BY <1>1 DEF Below
    <3> QED
      BY <1>1, <2>2, <3>1
  <2>6. Cardinality(Below(rows, n)) \in Nat /\ Cardinality(NotAbove(rows, m)) \in Nat
    BY <1>1 DEF Below, NotAbove
  <2>7. i <= Cardinality(NotAbove(rows, m))
    BY <1>1, <2>4, <2>5, <2>6
  <2> QED
    BY <1>4, <2>7
<1> QED
  BY <1>5, <1>6

LEMMA OrderedRows ==
  ASSUME NEW rows, InNumbers(rows)
  PROVE  /\ Cardinality(rows) \in Nat /\ DOMAIN JournalOrder(rows) = 1..Cardinality(rows)
         /\ \A i \in 1..Cardinality(rows) :
              LET m == JournalOrder(rows)[i]
              IN  /\ m \in rows /\ Cardinality(Below(rows, m)) < i
                  /\ i <= Cardinality(NotAbove(rows, m))
<1> DEFINE At(i) == CHOOSE m \in rows : /\ Cardinality(Below(rows, m)) < i
                                        /\ i <= Cardinality(NotAbove(rows, m))
<1>1. JournalOrder(rows) = [i \in 1..Cardinality(rows) |-> At(i)]
  BY DEF JournalOrder, Below, NotAbove
<1>2. ASSUME NEW i \in 1..Cardinality(rows)
      PROVE  /\ At(i) \in rows /\ Cardinality(Below(rows, At(i))) < i
             /\ i <= Cardinality(NotAbove(rows, At(i)))
  BY PlaceIsTaken
<1> HIDE DEF At
<1>3. Cardinality(rows) \in Nat
  BY FS_CardinalityType DEF InNumbers
<1> QED
  BY <1>1, <1>2, <1>3

(* Numbered rows are gone through once each: at every place is the row     *)
(* that one row fewer than that precede.                                   *)
LEMMA OrderIsBijection ==
  ASSUME NEW rows, InNumbers(rows), Numbered(rows)
  PROVE  JournalOrder(rows) \in Bijection(1..Cardinality(rows), rows)
<1> DEFINE n == Cardinality(rows)
           order == JournalOrder(rows)
<1>1. /\ n \in Nat /\ DOMAIN order = 1..n
      /\ \A i \in 1..n : /\ order[i] \in rows /\ Cardinality(Below(rows, order[i])) < i
                         /\ i <= Cardinality(NotAbove(rows, order[i]))
  BY OrderedRows
<1>2. ASSUME NEW m \in rows
      PROVE  /\ Cardinality(Below(rows, m)) \in Nat
             /\ Cardinality(NotAbove(rows, m)) = Cardinality(Below(rows, m)) + 1
  <2>1. NotAbove(rows, m) = Below(rows, m) \cup {m} /\ m \notin Below(rows, m)
    <3>1. \A x \in rows : InJournalOrder(x, m) => ~InJournalOrder(m, x)
      BY OrderFacts
    <3>2. \A x \in rows : x # m => InJournalOrder(x, m) \/ InJournalOrder(m, x)
      BY OrderFacts
    <3>3. ~InJournalOrder(m, m)
      BY OrderFacts
    <3>4. ASSUME NEW x \in rows
          PROVE  ~InJournalOrder(m, x) <=> InJournalOrder(x, m) \/ x = m
      BY <3>1, <3>2, <3>3
    <3> QED
      BY <3>3, <3>4 DEF NotAbove, Below
  <2>2. IsFiniteSet(Below(rows, m))
    BY FS_Subset DEF InNumbers, Below
  <2> QED
    BY <2>1, <2>2, FS_AddElement, FS_CardinalityType
<1> HIDE DEF n, order
<1>3. order \in [1..n -> rows]
  <2> DEFINE At(i) == CHOOSE m \in rows : /\ Cardinality(Below(rows, m)) < i
                                          /\ i <= Cardinality(NotAbove(rows, m))
  <2>1. order = [i \in 1..n |-> At(i)]
    BY DEF order, n, JournalOrder, Below, NotAbove
  <2> HIDE DEF At
  <2>2. \A i \in 1..n : At(i) \in rows
    <3>1. \A i \in 1..n : order[i] = At(i)
      BY <2>1
    <3> QED
      BY <1>1, <3>1
  <2> QED
    BY <2>1, <2>2
<1>4. ASSUME NEW i \in 1..n, NEW j \in 1..n, order[i] = order[j]
      PROVE  i = j
  <2> DEFINE c == Cardinality(Below(rows, order[i]))
  <2>1. c \in Nat /\ c < i /\ i <= c + 1 /\ c < j /\ j <= c + 1
    BY <1>1, <1>2, <1>4
  <2> HIDE DEF c
  <2> QED
    BY <1>1, <2>1
<1>5. order \in Injection(1..n, rows)
  BY <1>3, <1>4 DEF Injection, IsInjective
<1>6. IsFiniteSet(1..n) /\ Cardinality(1..n) = n /\ IsFiniteSet(rows)
  BY <1>1, FS_Interval DEF InNumbers
<1>7. order \in Surjection(1..n, rows)
  BY <1>5, <1>6, FS_Injection DEF n
<1> QED
  BY <1>5, <1>7 DEF Bijection, n, order

(* The journal that AverageLevel folds.                                    *)
LEMMA FoldedJournal ==
  ASSUME NEW rows, InNumbers(rows)
  PROVE  \E s \in Journals :
           /\ Len(s) = Cardinality(rows) /\ AverageLevel(rows) = FinalLevel(s)
           /\ \A i \in 1..Len(s) : s[i].qty = JournalOrder(rows)[i].move.qty
<1> DEFINE order == JournalOrder(rows)
           s == [i \in DOMAIN order |-> [qty |-> order[i].move.qty, cost |-> order[i].move.cost]]
<1>1. /\ Cardinality(rows) \in Nat /\ DOMAIN order = 1..Cardinality(rows)
      /\ \A i \in 1..Cardinality(rows) : order[i] \in rows
  BY OrderedRows
<1>2. AverageLevel(rows) = FinalLevel(s)
  BY DEF AverageLevel
<1>3. \A i \in 1..Cardinality(rows) : order[i].move.qty \in Int /\ order[i].move.cost \in Int
  BY <1>1 DEF InNumbers
<1> DEFINE n == Cardinality(rows)
<1>4. \A i \in 1..n : s[i] \in Movements /\ s[i].qty = order[i].move.qty
  BY <1>1, <1>3 DEF Movements
<1>5. s \in [1..n -> Movements]
  <2>1. s = [i \in 1..n |-> s[i]]
    BY <1>1
  <2> HIDE DEF s, n
  <2> QED
    BY <1>4, <2>1
<1> HIDE DEF s, n, order
<1>6. s \in Journals /\ Len(s) = n
  BY <1>1, <1>5 DEF Journals, n
<1> QED
  BY <1>2, <1>4, <1>6 DEF n, order

(* The costing engine answers in numbers for any rows in numbers, however  *)
(* many, in whatever order they were booked, and of whatever dates: it is  *)
(* an engine of the kind that the theorems about documents assume.         *)
THEOREM LevelsAreNumbers ==
  ASSUME NEW rows, InNumbers(rows)
  PROVE  AverageLevel(rows).qty \in Int /\ AverageLevel(rows).avg \in Int
<1>1. PICK s \in Journals :
        /\ Len(s) = Cardinality(rows) /\ AverageLevel(rows) = FinalLevel(s)
        /\ \A i \in 1..Len(s) : s[i].qty = JournalOrder(rows)[i].move.qty
  BY FoldedJournal
<1> DEFINE f == [j \in 1..Len(s) |-> s[j].qty]
<1>2. f = [j \in 1..Len(s) |-> s[j].qty]
  OBVIOUS
<1> HIDE DEF f
<1> QED
  BY <1>1, <1>2, FinalLevelAddsUp

(* What is on hand of a key is the sum of what its rows moved: neither the *)
(* order of their dates nor the clearing of the value at zero loses any.   *)
THEOREM OnHandIsTheSum ==
  ASSUME NEW rows, InNumbers(rows), Numbered(rows)
  PROVE  AverageLevel(rows).qty = SumFunction([m \in rows |-> m.move.qty])
<1>1. PICK s \in Journals :
        /\ Len(s) = Cardinality(rows) /\ AverageLevel(rows) = FinalLevel(s)
        /\ \A i \in 1..Len(s) : s[i].qty = JournalOrder(rows)[i].move.qty
  BY FoldedJournal
<1> DEFINE n == Cardinality(rows)
           order == JournalOrder(rows)
           f == [j \in 1..Len(s) |-> s[j].qty]
           g == [m \in rows |-> m.move.qty]
<1>2. order \in Bijection(1..n, rows) /\ n \in Nat
  BY OrderIsBijection, FS_CardinalityType DEF InNumbers
<1>3. AverageLevel(rows).qty = Sum(f, 1..n)
  <2>1. f = [j \in 1..Len(s) |-> s[j].qty]
    OBVIOUS
  <2> HIDE DEF f
  <2> QED
    BY <1>1, <2>1, FinalLevelAddsUp
<1>4. IsFiniteSet(1..n) /\ IsFiniteSet(rows)
  BY <1>2, FS_Interval DEF InNumbers
<1>5. \A i \in 1..n : order[i] \in rows
  BY <1>2 DEF Bijection, Injection
<1>6. \A i \in 1..n : f[i] \in Int /\ f[i] = g[order[i]]
  <2>1. \A i \in 1..n : f[i] = order[i].move.qty
    BY <1>1
  <2>2. \A m \in rows : g[m] = m.move.qty /\ m.move.qty \in Int
    BY DEF InNumbers
  <2> HIDE DEF f, g, order
  <2> QED
    BY <1>5, <2>1, <2>2
<1> HIDE DEF f, n, order
<1>7. Sum(f, 1..n) = Sum(g, rows)
  <2> HIDE DEF g
  <2> QED
    BY <1>2, <1>4, <1>6, SumMatches
<1> QED
  BY <1>3, <1>7 DEF Sum, SumFunction
=============================================================================
