--------------------- MODULE CandidateInspectionProofs ----------------------
(***************************************************************************)
(* The arithmetic of the supply rate is exact and on the safe side, for    *)
(* words of any width, and a verdict of an inspection is right.            *)
(*                                                                         *)
(* MulDivIsExact comes first: a division of two words, a bit at a time, is *)
(* the division of the integers.  A round is a step of an induction over   *)
(* the bits that came down; the induction is a least counterexample.  Each *)
(* operation of the rate then rounds down, and the roundings compose.      *)
(*                                                                         *)
(* The inspection is an induction over its reads (InspectionInv): what it  *)
(* holds is the account as it was, and the clocks are those of the end.    *)
(***************************************************************************)
EXTENDS CandidateInspection, WellFoundedInduction, TLAPS

\* A set of naturals that is not empty has a least member: induction, in a form
\* that takes no operator.
LEMMA Least ==
    ASSUME NEW some, some \subseteq Nat, some # {}
    PROVE  \E k \in some : \A j \in some : k <= j
<1>1. PICK k \in some : \A j \in some : <<j, k>> \notin OpToRel(<, Nat)
    BY NatLessThanWellFounded, WFMin
<1>2. ASSUME NEW j \in some PROVE ~(j < k)
    BY <1>1, Zenon DEF OpToRel
<1>3. ASSUME NEW j \in some PROVE k <= j
    BY <1>2
<1> QED  BY <1>3

-----------------------------------------------------------------------------
(* Powers of two. *)

Width == 4 * HalfBits

Doubles(f, m) ==
    /\ f \in [0 .. m -> Nat \ {0}]
    /\ f[0] = 1
    /\ \A n \in 1 .. m : f[n] = 2 * f[n - 1]

\* Up to any exponent there are powers.
LEMMA DoublingExists ==
    ASSUME NEW m \in Nat
    PROVE  \E f : Doubles(f, m)
<1> DEFINE without == {n \in Nat : ~\E f : Doubles(f, n)}
<1> SUFFICES ASSUME without # {} PROVE FALSE
    OBVIOUS
<1>1. PICK k \in without : \A j \in without : k <= j
    BY Least
<1>2. CASE k = 0
    <2>1. Doubles([n \in 0 .. 0 |-> 1], 0)
        BY DEF Doubles
    <2> QED  BY <1>2, <2>1
<1>3. CASE k # 0
    <2>1. k - 1 \in Nat /\ k - 1 \notin without
        BY <1>1, <1>3
    <2>2. PICK f : Doubles(f, k - 1)
        BY <2>1
    <2> DEFINE g == [n \in 0 .. k |-> IF n = k THEN 2 * f[k - 1] ELSE f[n]]
    <2>3. g \in [0 .. k -> Nat \ {0}]
        BY <2>1, <2>2 DEF Doubles
    <2>4. g[0] = 1
        BY <2>1, <2>2, <1>3 DEF Doubles
    <2>5. ASSUME NEW n \in 1 .. k PROVE g[n] = 2 * g[n - 1]
        <3>1. CASE n = k
            BY <3>1, <2>1, <2>2
        <3>2. CASE n # k
            <4>1. n \in 1 .. k - 1 /\ n - 1 \in 0 .. k /\ n - 1 # k /\ n \in 0 .. k
                BY <3>2, <2>1
            <4>2. f[n] = 2 * f[n - 1]
                BY <4>1, <2>2 DEF Doubles
            <4> QED  BY <4>1, <4>2, <3>2
        <3> QED  BY <3>1, <3>2
    <2>6. Doubles(g, k)
        BY <2>3, <2>4, <2>5 DEF Doubles
    <2> QED  BY <2>6
<1> QED  BY <1>2, <1>3

\* The widths are numbers, one of them twice and four times the other.
LEMMA WidthTypes == /\ HalfBits \in Nat \ {0} /\ Width \in Nat
                    /\ HalfBits \in 1 .. Width /\ 2 * HalfBits \in 1 .. Width
BY WadAssumption DEF Width

\* The recursive function is what its definition says.
LEMMA Powers == Doubles(pow2, Width)
<1> DEFINE Is(f) == f = [n \in 0 .. Width |-> IF n = 0 THEN 1 ELSE 2 * f[n - 1]]
<1>1. PICK f : Doubles(f, Width)
    BY DoublingExists, WidthTypes
<1>2. Is(f)
    <2> DEFINE body == [n \in 0 .. Width |-> IF n = 0 THEN 1 ELSE 2 * f[n - 1]]
    <2>1. ASSUME NEW n \in 0 .. Width PROVE f[n] = body[n]
        BY <1>1, WidthTypes DEF Doubles
    <2>2. DOMAIN f = 0 .. Width /\ f = [n \in 0 .. Width |-> f[n]]
        BY <1>1 DEF Doubles
    <2> QED  BY <2>1, <2>2
<1>3. Is(pow2)
    <2>1. pow2 = CHOOSE g : Is(g)
        BY DEF pow2, Width
    <2> HIDE DEF Is
    <2> QED  BY <1>2, <2>1
<1> DEFINE wrong == {n \in 0 .. Width : pow2[n] \notin Nat \ {0}}
<1>4. wrong = {}
    <2> SUFFICES ASSUME wrong # {} PROVE FALSE
        OBVIOUS
    <2>s. wrong \subseteq Nat
        BY WidthTypes
    <2>1. PICK k \in wrong : \A j \in wrong : k <= j
        <3> HIDE DEF wrong
        <3> QED  BY <2>s, Least
    <2>2. k # 0
        BY <1>3, <2>1
    <2>3. k - 1 \in 0 .. Width /\ k - 1 \notin wrong
        BY <2>1, <2>2, WidthTypes
    <2>4. pow2[k] = 2 * pow2[k - 1]
        BY <1>3, <2>1, <2>2
    <2> QED  BY <2>1, <2>3, <2>4
<1>5. \A n \in 0 .. Width : pow2[n] = IF n = 0 THEN 1 ELSE 2 * pow2[n - 1]
    BY <1>3
<1>6. DOMAIN pow2 = 0 .. Width /\ pow2 = [n \in 0 .. Width |-> pow2[n]]
    BY <1>3
<1>7. pow2 \in [0 .. Width -> Nat \ {0}]
    BY <1>4, <1>6
<1> QED
    BY <1>5, <1>7, WidthTypes DEF Doubles

\* Powers add up.
LEMMA PowersAdd ==
    ASSUME NEW a \in 0 .. Width, NEW b \in 0 .. Width, a + b <= Width
    PROVE  pow2[a + b] = pow2[a] * pow2[b]
<1> DEFINE wrong == {n \in 0 .. Width : a + n <= Width /\ pow2[a + n] # pow2[a] * pow2[n]}
<1> SUFFICES ASSUME wrong # {} PROVE FALSE
    BY WidthTypes
<1>s. wrong \subseteq Nat
    BY WidthTypes
<1>1. PICK k \in wrong : \A j \in wrong : k <= j
    <2> HIDE DEF wrong
    <2> QED  BY <1>s, Least
<1>0. pow2[a] \in Nat
    BY Powers DEF Doubles
<1>2. k # 0
    BY <1>1, <1>0, Powers DEF Doubles
<1>3. k - 1 \in 0 .. Width /\ k - 1 \notin wrong /\ a + (k - 1) <= Width
    BY <1>1, <1>2, WidthTypes
<1>4. pow2[a + (k - 1)] = pow2[a] * pow2[k - 1]
    BY <1>3
<1>5. a + k \in 1 .. Width /\ k \in 1 .. Width /\ (a + k) - 1 = a + (k - 1)
    BY <1>1, <1>2, WidthTypes
<1>6. pow2[a + k] = 2 * pow2[(a + k) - 1] /\ pow2[k] = 2 * pow2[k - 1]
    BY <1>5, Powers DEF Doubles
<1>7. pow2[a + k] = 2 * (pow2[a] * pow2[k - 1])
    BY <1>4, <1>5, <1>6
<1>8. pow2[k - 1] \in Nat
    BY <1>3, Powers DEF Doubles
<1>9. pow2[a + k] = pow2[a] * pow2[k]
    BY <1>0, <1>6, <1>7, <1>8
<1> QED  BY <1>1, <1>9

\* There are as many words as pairs of half words, an even number.
LEMMA Words ==
    /\ U64 \in Nat \ {0} /\ U128 \in Nat \ {0}
    /\ U128 = U64 * U64
    /\ pow2[Width] = U128 * U128
    /\ U128 % 2 = 0 /\ U64 > 1
<1>1. HalfBits + HalfBits = 2 * HalfBits /\ 2 * HalfBits + 2 * HalfBits = Width
    BY WidthTypes DEF Width
<1>2. U128 = U64 * U64
    BY <1>1, WidthTypes, PowersAdd DEF U64, U128
<1>3. pow2[Width] = U128 * U128
    BY <1>1, WidthTypes, PowersAdd DEF U128
<1>4. U64 = 2 * pow2[HalfBits - 1] /\ U128 = 2 * pow2[2 * HalfBits - 1]
    BY WidthTypes, Powers DEF U64, U128, Doubles
<1>5. pow2[HalfBits - 1] \in Nat \ {0} /\ pow2[2 * HalfBits - 1] \in Nat \ {0}
    BY WidthTypes, Powers DEF Doubles
<1> QED
    BY <1>2, <1>3, <1>4, <1>5
-----------------------------------------------------------------------------
(* Division of naturals. *)

\* What division with a remainder means.
LEMMA Division ==
    ASSUME NEW x \in Nat, NEW d \in Nat \ {0}
    PROVE  /\ x \div d \in Nat /\ x % d \in Nat /\ x % d < d
           /\ x = (x \div d) * d + (x % d)
OBVIOUS

\* A quotient and a remainder are the only ones.
LEMMA DivisionIsUnique ==
    ASSUME NEW x \in Nat, NEW d \in Nat \ {0}, NEW q \in Nat, NEW r \in Nat,
           r < d, x = q * d + r
    PROVE  x \div d = q /\ x % d = r
OBVIOUS

\* A product grows with each factor.
LEMMA TimesMonotone ==
    ASSUME NEW x \in Nat, NEW y \in Nat, NEW z \in Nat, x <= y
    PROVE  x * z <= y * z /\ z * x <= z * y /\ x * z \in Nat /\ y * z \in Nat
OBVIOUS

\* A factor cancels from a comparison.
LEMMA TimesCancels ==
    ASSUME NEW x \in Nat, NEW y \in Nat, NEW z \in Nat \ {0}, x * z <= y * z
    PROVE  x <= y
OBVIOUS

\* The same where the comparison is strict.
LEMMA TimesCancelsStrictly ==
    ASSUME NEW x \in Nat, NEW y \in Nat, NEW z \in Nat \ {0}, x * z < y * z
    PROVE  x < y
OBVIOUS

\* The quotient is the largest number that goes into x.
LEMMA QuotientBound ==
    ASSUME NEW x \in Nat, NEW d \in Nat \ {0}, NEW y \in Nat
    PROVE  /\ (x \div d) * d <= x
           /\ x <= y * d => x \div d <= y
           /\ x < y * d => x \div d < y
<1> DEFINE q == x \div d
           r == x % d
<1>1. q \in Nat /\ r \in Nat /\ r < d /\ x = q * d + r
    BY Division
<1> HIDE DEF q, r
<1>2. q * d <= x
    BY <1>1
<1>3. x <= y * d => q <= y
    <2> SUFFICES ASSUME x <= y * d PROVE q <= y
        OBVIOUS
    <2>1. q * d <= y * d
        BY <1>1
    <2> QED  BY <1>1, <2>1, TimesCancels
<1>4. x < y * d => q < y
    <2> SUFFICES ASSUME x < y * d PROVE q < y
        OBVIOUS
    <2>1. q * d < y * d
        BY <1>1
    <2> QED  BY <1>1, <2>1, TimesCancelsStrictly
<1> QED  BY <1>2, <1>3, <1>4 DEF q

\* Dividing by a product is dividing twice.
LEMMA DivisionTwice ==
    ASSUME NEW x \in Nat, NEW a \in Nat \ {0}, NEW b \in Nat \ {0}
    PROVE  (x \div a) \div b = x \div (a * b)
<1> DEFINE q == x \div a
           r == x % a
           q2 == q \div b
           r2 == q % b
<1>1. q \in Nat /\ r \in Nat /\ r < a /\ x = q * a + r
    BY Division
<1>2. q2 \in Nat /\ r2 \in Nat /\ r2 < b /\ q = q2 * b + r2
    BY <1>1, Division
<1> HIDE DEF q, r, q2, r2
<1>3. x = q2 * (a * b) + (r2 * a + r)
    BY <1>1, <1>2
<1>4. r2 * a + r < a * b /\ r2 * a + r \in Nat
    <2>1. (r2 + 1) * a <= b * a
        BY <1>2, TimesMonotone
    <2> QED  BY <1>1, <1>2, <2>1
<1>5. a * b \in Nat \ {0}
    OBVIOUS
<1>6. x \div (a * b) = q2
    BY <1>2, <1>3, <1>4, <1>5, DivisionIsUnique
<1> QED  BY <1>6 DEF q, q2

-----------------------------------------------------------------------------
(* The product in two words. *)

Word == 0 .. U128 - 1

\* A word is its two halves.
LEMMA Halves ==
    ASSUME NEW x \in Word
    PROVE  /\ x \div U64 \in 0 .. U64 - 1 /\ x % U64 \in 0 .. U64 - 1
           /\ x = (x \div U64) * U64 + (x % U64)
<1>1. x \in Nat /\ x < U64 * U64
    BY Words DEF Word
<1>2. x % U64 \in Nat /\ x % U64 < U64 /\ x \div U64 \in Nat
      /\ x = (x \div U64) * U64 + (x % U64)
    BY <1>1, Division, Words
<1>3. x \div U64 < U64
    BY <1>1, QuotientBound, Words
<1> DEFINE q == x \div U64
           r == x % U64
<1> HIDE DEF q, r
<1>4. q \in 0 .. U64 - 1 /\ r \in 0 .. U64 - 1
    BY <1>2, <1>3, Words DEF q, r
<1> QED  BY <1>2, <1>4 DEF q, r

\* The product of two half words is a word, with room for two half words more.
LEMMA HalfProduct ==
    ASSUME NEW x \in 0 .. U64 - 1, NEW y \in 0 .. U64 - 1
    PROVE  x * y \in Nat /\ x * y <= (U64 - 1) * (U64 - 1) /\ x * y + 2 * U64 - 1 <= U128
<1>0. U64 \in Nat \ {0} /\ U64 - 1 \in Nat /\ x \in Nat /\ y \in Nat
    BY Words
<1>1. x * y <= (U64 - 1) * y
    BY <1>0, TimesMonotone
<1>2. (U64 - 1) * y <= (U64 - 1) * (U64 - 1)
    BY <1>0, TimesMonotone
<1>3. (U64 - 1) * (U64 - 1) = U128 - 2 * U64 + 1
    BY <1>0, Words
<1> QED  BY <1>0, <1>1, <1>2, <1>3, Words

\* Both words are words, so no checked addition of their parts fails, and they
\* are the product.
LEMMA ProductInWords ==
    ASSUME NEW left \in Word, NEW right \in Word
    PROVE  LET wide == WideProduct(left, right)
           IN  wide.low \in Word /\ wide.high \in Word
               /\ wide.high * U128 + wide.low = left * right
<1> DEFINE a1 == left \div U64
           a0 == left % U64
           b1 == right \div U64
           b0 == right % U64
           low_low   == a0 * b0
           low_high  == a0 * b1
           high_low  == a1 * b0
           high_high == a1 * b1
           middle    == (low_high + high_low) % U128
           carry     == IF middle < low_high THEN U64 ELSE 0
           m1 == middle \div U64
           m0 == middle % U64
           low       == low_low + ((middle * U64) % U128)
           l1 == low \div U128
           l0 == low % U128
           high == high_high + m1 + l1 + carry
<1>1. /\ a1 \in 0 .. U64 - 1 /\ a0 \in 0 .. U64 - 1 /\ left = a1 * U64 + a0
      /\ b1 \in 0 .. U64 - 1 /\ b0 \in 0 .. U64 - 1 /\ right = b1 * U64 + b0
    BY Halves
<1>W. WideProduct(left, right) = [high |-> high, low |-> l0]
    BY DEF WideProduct
<1> HIDE DEF a1, a0, b1, b0
<1>2. /\ low_low \in Nat /\ low_high \in Nat /\ high_low \in Nat /\ high_high \in Nat
      /\ low_low + 2 * U64 - 1 <= U128 /\ low_high + 2 * U64 - 1 <= U128
      /\ high_low + 2 * U64 - 1 <= U128
    BY <1>1, HalfProduct
<1>P. left * right = high_high * U128 + (low_high + high_low) * U64 + low_low
    <2>0. a1 \in Nat /\ a0 \in Nat /\ b1 \in Nat /\ b0 \in Nat /\ U64 \in Nat
        BY <1>1, Words
    <2>1. left * right = (a1 * U64 + a0) * (b1 * U64 + b0)
        BY <1>1
    <2>2. @ = (a1 * b1) * (U64 * U64) + (a0 * b1 + a1 * b0) * U64 + a0 * b0
        BY <2>0
    <2> QED  BY <2>1, <2>2, Words
<1> HIDE DEF low_low, low_high, high_low, high_high
<1>3. /\ middle \in Word
      /\ (low_high + high_low) * U64 = (middle + carry * U64) * U64
    <2>1. CASE low_high + high_low < U128
        <3>1. middle = low_high + high_low
            BY <1>2, <2>1, DivisionIsUnique, Words
        <3>2. carry = 0
            BY <1>2, <3>1
        <3> QED  BY <1>2, <2>1, <3>1, <3>2, Words DEF Word
    <2>2. CASE low_high + high_low >= U128
        <3>1. /\ low_high + high_low - U128 \in Nat /\ low_high + high_low - U128 < U128
              /\ low_high + high_low = 1 * U128 + (low_high + high_low - U128)
            BY <1>2, <2>2, Words
        <3>2. middle = low_high + high_low - U128
            BY <1>2, <3>1, DivisionIsUnique, Words
        <3>3. carry = U64
            BY <1>2, <3>2, Words
        <3> QED  BY <1>2, <3>1, <3>2, <3>3, Words DEF Word
    <2> QED  BY <2>1, <2>2, <1>2, Words
<1>C. carry \in {0, U64}
    OBVIOUS
<1>4. m1 \in 0 .. U64 - 1 /\ m0 \in 0 .. U64 - 1 /\ middle = m1 * U64 + m0
    BY <1>3, Halves
<1>5. middle \in Nat
    BY <1>3, Words DEF Word
<1> HIDE DEF middle, carry, m1, m0
<1>6. (middle * U64) % U128 = m0 * U64
    <2>0. m1 \in Nat /\ m0 \in Nat /\ U64 \in Nat /\ middle * U64 \in Nat
        BY <1>4, <1>5, Words
    <2>1. middle * U64 = m1 * U128 + m0 * U64
        <3>1. middle * U64 = m1 * (U64 * U64) + m0 * U64
            BY <1>4, <2>0
        <3> QED  BY <3>1, Words
    <2>2. m0 * U64 < U128 /\ m0 * U64 \in Nat
        <3>1. (m0 + 1) * U64 <= U64 * U64
            BY <1>4, <2>0, TimesMonotone
        <3> QED  BY <2>0, <3>1, Words
    <2> QED  BY <2>0, <2>1, <2>2, DivisionIsUnique, Words
<1>7. low = low_low + m0 * U64 /\ low \in Nat
    BY <1>2, <1>4, <1>6, Words
<1> HIDE DEF low
<1>8. l1 \in Nat /\ l0 \in Word /\ low = l1 * U128 + l0
    <2>1. l1 \in Nat /\ l0 \in Nat /\ l0 < U128 /\ low = l1 * U128 + l0
        BY <1>7, Division, Words
    <2> HIDE DEF l1, l0
    <2> QED  BY <2>1, Words DEF Word
<1> HIDE DEF l1, l0
<1>9. high * U128 + l0 = left * right /\ high \in Nat
    <2>0. /\ m1 \in Nat /\ m0 \in Nat /\ U64 \in Nat /\ carry \in Nat /\ l0 \in Nat
          /\ U128 \in Nat
        BY <1>4, <1>C, <1>8, Words DEF Word
    <2>1. left * right = high_high * U128 + (middle + carry * U64) * U64 + low_low
        BY <1>P, <1>3
    <2>2. (middle + carry * U64) * U64 = (m1 + carry) * (U64 * U64) + m0 * U64
        BY <1>4, <2>0
    <2>3. left * right = high_high * U128 + (m1 + carry) * U128 + low
        BY <2>0, <2>1, <2>2, <1>2, <1>7, Words
    <2>4. left * right = high_high * U128 + (m1 + carry) * U128 + l1 * U128 + l0
        BY <2>0, <2>3, <1>2, <1>8
    <2> QED  BY <2>0, <2>4, <1>2, <1>8
<1> HIDE DEF high
<1>10. high < U128
    <2>1. left \in Nat /\ right \in Nat /\ U128 \in Nat \ {0} /\ l0 \in Nat
        BY <1>8, Words DEF Word
    <2>2. left * right <= left * U128 /\ left + 1 <= U128
        BY <2>1, Words, TimesMonotone DEF Word
    <2>3. high * U128 <= left * U128
        BY <2>1, <2>2, <1>9
    <2>4. high <= left
        BY <2>1, <2>3, <1>9, TimesCancels
    <2> QED  BY <2>1, <2>2, <2>4, <1>9
<1>11. high \in Word
    BY <1>9, <1>10, Words DEF Word
<1> QED  BY <1>W, <1>8, <1>9, <1>11
-----------------------------------------------------------------------------
(* Long division. *)

\* Where long division is after the bits of t came down.
Reached(t, divisor) ==
    [quotient  |-> (t \div divisor) % U128,
     overflow  |-> t \div divisor >= U128,
     remainder |-> t % divisor]

\* A round takes the division of t to that of t with one more bit.
LEMMA RoundDivides ==
    ASSUME NEW t \in Nat, NEW bit \in {0, 1}, NEW d \in Word \ {0}
    PROVE  DivisionRound(Reached(t, d), bit, d) = Reached(2 * t + bit, d)
<1> DEFINE M == U128
           q == t \div d
           r == t % d
           p == q % M
           s == q \div M
           remainder == ((2 * r) % M) + bit
           subtract  == 2 * r >= M \/ remainder >= d
           one == IF subtract THEN 1 ELSE 0
           left == IF subtract THEN (M + remainder - d) % M ELSE remainder
           h == M \div 2
<1>0. M \in Nat \ {0} /\ M = 2 * h /\ h \in Nat \ {0} /\ d \in Nat \ {0} /\ d < M /\ bit \in Nat
    BY Words DEF Word
<1>1. q \in Nat /\ r \in Nat /\ r < d /\ t = q * d + r
    BY <1>0, Division
<1>2. p \in Nat /\ p < M /\ s \in Nat /\ q = s * M + p
    BY <1>0, <1>1, Division
<1>3. DivisionRound(Reached(t, d), bit, d) =
        [quotient |-> ((2 * p) % M) + one, overflow |-> q >= M \/ 2 * p >= M,
         remainder |-> left]
    BY DEF DivisionRound, Reached
<1> HIDE DEF M, q, r, p, s, h
<1>4. /\ subtract <=> 2 * r + bit >= d
      /\ left = 2 * r + bit - (IF subtract THEN d ELSE 0)
    <2>1. CASE 2 * r < M
        <3>1. (2 * r) % M = 2 * r
            BY <1>0, <1>1, <2>1, DivisionIsUnique
        <3>2. remainder = 2 * r + bit
            BY <3>1
        <3>3. subtract <=> 2 * r + bit >= d
            BY <2>1, <3>2, <1>0, <1>1
        <3>4. CASE subtract
            <4>1. /\ M + remainder - d \in Nat
                  /\ M + remainder - d = 1 * M + (remainder - d)
                  /\ remainder - d \in Nat /\ remainder - d < M
                BY <3>2, <3>3, <3>4, <1>0, <1>1
            <4>2. (M + remainder - d) % M = remainder - d
                BY <4>1, <1>0, DivisionIsUnique
            <4>3. left = remainder - d
                BY <3>4, <4>2
            <4>4. (IF subtract THEN d ELSE 0) = d
                BY <3>4
            <4> HIDE DEF left, remainder, subtract
            <4>5. left = 2 * r + bit - d
                BY <3>2, <4>3, <1>0, <1>1
            <4> QED  BY <3>3, <4>4, <4>5
        <3>5. CASE ~subtract
            BY <3>2, <3>3, <3>5, <1>0, <1>1
        <3> QED  BY <3>4, <3>5
    <2>2. CASE 2 * r >= M
        <3>1. 2 * r = 1 * M + (2 * r - M) /\ 2 * r - M \in Nat /\ 2 * r - M < M /\ 2 * r \in Nat
            BY <1>0, <1>1, <2>2
        <3>2. (2 * r) % M = 2 * r - M
            BY <1>0, <3>1, DivisionIsUnique
        <3>3. subtract /\ 2 * r + bit >= d
            BY <2>2, <1>0, <1>1
        <3>4. /\ M + remainder - d = 2 * r + bit - d /\ 2 * r + bit - d \in Nat
              /\ 2 * r + bit - d = 0 * M + (2 * r + bit - d) /\ 2 * r + bit - d < M
            BY <3>2, <3>3, <1>0, <1>1
        <3>5. (2 * r + bit - d) % M = 2 * r + bit - d
            BY <3>4, <1>0, DivisionIsUnique
        <3> QED  BY <3>3, <3>4, <3>5
    <2> QED  BY <2>1, <2>2, <1>0, <1>1
<1> HIDE DEF subtract, left
<1>5. one \in {0, 1} /\ (one = 1 <=> subtract)
    OBVIOUS
<1> HIDE DEF one
<1>6. left \in Nat /\ left < d /\ 2 * t + bit = (2 * q + one) * d + left
    <2>1. CASE subtract
        <3>1. 2 * t + bit = (2 * q + 1) * d + (2 * r + bit - d)
            BY <1>0, <1>1
        <3> QED  BY <2>1, <1>0, <1>1, <1>4, <1>5, <3>1
    <2>2. CASE ~subtract
        <3>1. 2 * t + bit = (2 * q + 0) * d + (2 * r + bit)
            BY <1>0, <1>1
        <3> QED  BY <2>2, <1>0, <1>1, <1>4, <1>5, <3>1
    <2> QED  BY <2>1, <2>2
<1>7. (2 * t + bit) \div d = 2 * q + one /\ (2 * t + bit) % d = left
    <2>1. 2 * q + one \in Nat /\ 2 * t + bit \in Nat
        BY <1>0, <1>1, <1>5
    <2> QED  BY <1>0, <1>6, <2>1, DivisionIsUnique
<1>8. ((2 * p) % M) + one = (2 * q + one) % M
    <2>1. CASE 2 * p < M
        <3>1. (2 * p) % M = 2 * p
            BY <1>0, <1>2, <2>1, DivisionIsUnique
        <3>2. /\ 2 * q + one = (2 * s) * M + (2 * p + one) /\ 2 * p + one \in Nat
              /\ 2 * p + one < M /\ 2 * q + one \in Nat /\ 2 * s \in Nat
            BY <1>0, <1>1, <1>2, <1>5, <2>1
        <3> QED  BY <3>1, <3>2, <1>0, DivisionIsUnique
    <2>2. CASE 2 * p >= M
        <3>1. 2 * p = 1 * M + (2 * p - M) /\ 2 * p - M \in Nat /\ 2 * p - M < M /\ 2 * p \in Nat
            BY <1>0, <1>2, <2>2
        <3>2. (2 * p) % M = 2 * p - M
            BY <1>0, <3>1, DivisionIsUnique
        <3>3. /\ 2 * q + one = (2 * s + 1) * M + (2 * p - M + one) /\ 2 * p - M + one \in Nat
              /\ 2 * p - M + one < M /\ 2 * q + one \in Nat /\ 2 * s + 1 \in Nat
            BY <1>0, <1>1, <1>2, <1>5, <2>2
        <3>4. (2 * q + one) % M = 2 * p - M + one
            BY <3>3, <1>0, DivisionIsUnique
        <3> QED  BY <3>1, <3>2, <3>4, <1>0, <1>5
    <2> QED  BY <2>1, <2>2, <1>0, <1>2
<1>9. (q >= M \/ 2 * p >= M) <=> 2 * q + one >= M
    <2>1. CASE q >= M
        BY <2>1, <1>0, <1>1, <1>5
    <2>2. CASE q < M
        <3>1. p = q
            BY <2>2, <1>0, <1>1, DivisionIsUnique DEF p
        <3> QED  BY <2>2, <3>1, <1>0, <1>1, <1>5
    <2> QED  BY <2>1, <2>2, <1>0, <1>1
<1> QED
    BY <1>3, <1>7, <1>8, <1>9 DEF Reached, M

Wide == [high : Word, low : Word]
Whole(wide) == wide.high * U128 + wide.low

\* What the two words of a product stand for is a number of double width.
LEMMA WholeTypes ==
    ASSUME NEW wide \in Wide
    PROVE  /\ wide.high \in Nat /\ wide.low \in Nat /\ wide.low < U128
           /\ Whole(wide) \in Nat /\ Whole(wide) < pow2[Width]
<1>1. wide.high \in Nat /\ wide.low \in Nat /\ wide.low < U128 /\ wide.high + 1 <= U128
    BY Words DEF Wide, Word
<1>2. (wide.high + 1) * U128 <= U128 * U128
    BY <1>1, Words, TimesMonotone
<1> QED  BY <1>1, <1>2, Words DEF Whole

\* The bit of the number that the two words are.
LEMMA BitOfWhole ==
    ASSUME NEW wide \in Wide, NEW index \in 0 .. Width - 1
    PROVE  bit_of_u256(wide, index) = (Whole(wide) \div pow2[index]) % 2
<1> DEFINE v == Whole(wide)
           p == pow2[index]
<1>1. v \in Nat /\ wide.high \in Nat /\ wide.low \in Nat /\ wide.low < U128
    BY WholeTypes
<1>2. p \in Nat \ {0} /\ index \in Nat
    BY Powers, WidthTypes DEF Doubles
<1>3. CASE index < 2 * HalfBits
    <2> DEFINE e == 2 * HalfBits - index
               f == pow2[e - 1]
               ql == wide.low \div p
               rl == wide.low % p
    <2>1. e \in 1 .. Width /\ e - 1 \in 0 .. Width /\ index + e = 2 * HalfBits /\ index \in 0 .. Width
        BY <1>2, <1>3, WidthTypes
    <2>2. pow2[e] = 2 * f /\ f \in Nat
        BY <2>1, Powers DEF Doubles
    <2>3. U128 = p * pow2[e]
        <3>1. pow2[index + e] = pow2[index] * pow2[e]
            BY <2>1, WidthTypes, PowersAdd
        <3> QED  BY <2>1, <3>1 DEF U128
    <2>4. ql \in Nat /\ rl \in Nat /\ rl < p /\ wide.low = ql * p + rl
        BY <1>1, <1>2, Division
    <2>5. bit_of_u256(wide, index) = ql % 2
        BY <1>3 DEF bit_of_u256
    <2> DEFINE hi == wide.high
               lo == wide.low
    <2>6. v = hi * (p * (2 * f)) + (ql * p + rl)
        BY <2>2, <2>3, <2>4 DEF Whole
    <2> HIDE DEF v, p, e, f, ql, rl, hi, lo
    <2>7. v = (2 * (hi * f) + ql) * p + rl
        BY <1>1, <1>2, <2>2, <2>4, <2>6 DEF hi
    <2>8. 2 * (hi * f) + ql \in Nat /\ hi * f \in Nat
        BY <1>1, <2>2, <2>4 DEF hi
    <2>9. v \div p = 2 * (hi * f) + ql
        BY <1>1, <1>2, <2>4, <2>7, <2>8, DivisionIsUnique
    <2>10. (2 * (hi * f) + ql) % 2 = ql % 2
        <3> DEFINE x == hi * f
        <3>1. x \in Nat /\ ql \in Nat
            BY <2>8, <2>4
        <3> HIDE DEF x
        <3>2. (2 * x + ql) % 2 = ql % 2
            BY <3>1
        <3> QED  BY <3>2 DEF x
    <2> QED  BY <2>5, <2>9, <2>10 DEF v, p
<1>4. CASE index >= 2 * HalfBits
    <2> DEFINE k == index - 2 * HalfBits
    <2>1. k \in 0 .. Width /\ 2 * HalfBits + k = index /\ 2 * HalfBits \in 0 .. Width /\ index <= Width
        BY <1>2, <1>4, WidthTypes
    <2>2. p = U128 * pow2[k]
        <3>1. pow2[2 * HalfBits + k] = pow2[2 * HalfBits] * pow2[k]
            BY <2>1, WidthTypes, PowersAdd
        <3> QED  BY <2>1, <3>1 DEF U128
    <2>3. v \div U128 = wide.high
        BY <1>1, Words, DivisionIsUnique DEF Whole
    <2>4. pow2[k] \in Nat \ {0}
        BY <2>1, Powers DEF Doubles
    <2>5. (v \div U128) \div pow2[k] = v \div (U128 * pow2[k])
        BY <1>1, <2>4, Words, DivisionTwice
    <2>6. bit_of_u256(wide, index) = (wide.high \div pow2[k]) % 2
        BY <1>2, <1>4, WidthTypes DEF bit_of_u256
    <2> QED  BY <2>2, <2>3, <2>5, <2>6
<1> QED  BY <1>2, <1>3, <1>4, WidthTypes

\* What has come down after n bits.
Down(v, n) == v \div pow2[Width - n]

\* After n rounds the n highest bits have come down.
LEMMA BitsComeDown ==
    ASSUME NEW wide \in Wide
    PROVE  /\ Down(Whole(wide), 0) = 0
           /\ Down(Whole(wide), Width) = Whole(wide)
           /\ \A n \in 0 .. Width : Down(Whole(wide), n) \in Nat
           /\ \A n \in 1 .. Width :
                 /\ bit_of_u256(wide, Width - n) \in {0, 1}
                 /\ Down(Whole(wide), n) =
                       2 * Down(Whole(wide), n - 1) + bit_of_u256(wide, Width - n)
<1> DEFINE v == Whole(wide)
<1>0. v \in Nat /\ v < pow2[Width]
    BY WholeTypes
<1>p. \A n \in 0 .. Width : pow2[Width - n] \in Nat \ {0} /\ Width - n \in 0 .. Width
    BY Powers, WidthTypes DEF Doubles
<1>1. Down(v, 0) = 0
    <2>1. Width - 0 = Width /\ pow2[Width] \in Nat \ {0}
        BY WidthTypes, Powers DEF Doubles
    <2>2. v = 0 * pow2[Width] + v
        BY <1>0, <2>1
    <2>3. v \div pow2[Width] = 0
        BY <1>0, <2>1, <2>2, DivisionIsUnique
    <2> QED  BY <2>1, <2>3 DEF Down
<1>2. Down(v, Width) = v
    <2>1. Width - Width = 0 /\ pow2[0] = 1
        BY WidthTypes, Powers DEF Doubles
    <2> QED  BY <2>1, <1>0 DEF Down
<1>3. ASSUME NEW n \in 0 .. Width PROVE Down(v, n) \in Nat
    BY <1>0, <1>p, Division DEF Down
<1>4. ASSUME NEW n \in 1 .. Width
      PROVE  /\ bit_of_u256(wide, Width - n) \in {0, 1}
             /\ Down(v, n) = 2 * Down(v, n - 1) + bit_of_u256(wide, Width - n)
    <2>1. /\ Width - n \in 0 .. Width - 1 /\ Width - (n - 1) \in 1 .. Width
          /\ (Width - (n - 1)) - 1 = Width - n /\ n \in 0 .. Width
        BY WidthTypes
    <2>2. pow2[Width - (n - 1)] = 2 * pow2[Width - n]
        BY <2>1, Powers DEF Doubles
    <2> DEFINE x == Down(v, n)
    <2>3. bit_of_u256(wide, Width - n) = x % 2
        BY <2>1, BitOfWhole DEF Down
    <2>4. x \in Nat
        BY <1>3, <2>1
    <2>5. Down(v, n - 1) = x \div 2
        <3>1. pow2[Width - n] \in Nat \ {0}
            BY <1>p, <2>1
        <3>2. (v \div pow2[Width - n]) \div 2 = v \div (pow2[Width - n] * 2)
            BY <1>0, <3>1, DivisionTwice
        <3>3. pow2[Width - n] * 2 = 2 * pow2[Width - n]
            BY <3>1
        <3> QED  BY <2>2, <3>2, <3>3 DEF Down
    <2> HIDE DEF x
    <2>6. x = 2 * (x \div 2) + (x % 2) /\ x % 2 \in {0, 1}
        BY <2>4
    <2> QED  BY <2>3, <2>5, <2>6 DEF x
<1> QED  BY <1>1, <1>2, <1>3, <1>4
\* The quotient is computed, or said not to fit.
LEMMA LongDivisionDivides ==
    ASSUME NEW wide \in Wide, NEW d \in Word \ {0}
    PROVE  LongDivision(wide, d) = checked(Whole(wide) \div d)
<1> DEFINE Bit(n) == bit_of_u256(wide, Width - n)
           Start == [quotient |-> 0, overflow |-> FALSE, remainder |-> 0]
           Body(f) == [n \in 0 .. Width |-> IF n = 0 THEN Start
                                            ELSE DivisionRound(f[n - 1], Bit(n), d)]
           Is(f) == f = Body(f)
           v == Whole(wide)
           closed == [n \in 0 .. Width |-> Reached(Down(v, n), d)]
<1>d. d \in Nat \ {0}
    BY Words DEF Word
<1>1. /\ Down(v, 0) = 0 /\ Down(v, Width) = v
      /\ \A n \in 0 .. Width : Down(v, n) \in Nat
      /\ \A n \in 1 .. Width : Bit(n) \in {0, 1} /\ Down(v, n) = 2 * Down(v, n - 1) + Bit(n)
    BY BitsComeDown
<1>2. Reached(0, d) = Start
    <2>1. 0 \div d = 0 /\ 0 % d = 0
        BY <1>d
    <2>2. 0 % U128 = 0 /\ (0 >= U128) = FALSE
        BY Words
    <2>3. Reached(0, d) = [quotient |-> 0 % U128, overflow |-> 0 >= U128, remainder |-> 0]
        BY <2>1, Zenon DEF Reached
    <2> QED  BY <2>2, <2>3, Zenon
<1> HIDE DEF Bit, v, Start
<1>3. ASSUME NEW n \in 1 .. Width
      PROVE  Reached(Down(v, n), d) = DivisionRound(Reached(Down(v, n - 1), d), Bit(n), d)
    <2>1. Down(v, n - 1) \in Nat /\ Bit(n) \in {0, 1}
        BY <1>1, WidthTypes
    <2>2. Down(v, n) = 2 * Down(v, n - 1) + Bit(n)
        BY <1>1
    <2> QED  BY <2>1, <2>2, RoundDivides
<1>4. Is(closed)
    <2>1. ASSUME NEW n \in 0 .. Width PROVE closed[n] = Body(closed)[n]
        <3>1. CASE n = 0
            BY <3>1, <1>1, <1>2
        <3>2. CASE n # 0
            <4>1. n \in 1 .. Width /\ n - 1 \in 0 .. Width
                BY <3>2, WidthTypes
            <4>2. closed[n - 1] = Reached(Down(v, n - 1), d)
                BY <4>1
            <4> QED  BY <3>2, <4>1, <4>2, <1>3
        <3> QED  BY <3>1, <3>2
    <2> QED  BY <2>1
<1> DEFINE round == CHOOSE f : Is(f)
<1>5. Is(round)
    <2> HIDE DEF Is, closed
    <2> QED  BY <1>4
<1>6. LongDivision(wide, d) = IF round[Width].overflow THEN NULL ELSE round[Width].quotient
    BY DEF LongDivision, Width, Bit, Start
<1> HIDE DEF round
<1>7. \A n \in 0 .. Width : round[n] = closed[n]
    <2> DEFINE wrong == {n \in 0 .. Width : round[n] # closed[n]}
    <2> SUFFICES ASSUME wrong # {} PROVE FALSE
        OBVIOUS
    <2>s. wrong \subseteq Nat
        BY WidthTypes
    <2>1. PICK k \in wrong : \A j \in wrong : k <= j
        <3> HIDE DEF wrong
        <3> QED  BY <2>s, Least
    <2>2. k \in 0 .. Width /\ round[k] # closed[k]
        BY <2>1
    <2>3. round[k] = Body(round)[k] /\ closed[k] = Body(closed)[k]
        <3> HIDE DEF Body, closed
        <3> QED  BY <1>4, <1>5
    <2> HIDE DEF closed
    <2>4. CASE k = 0
        BY <2>2, <2>3, <2>4
    <2>5. CASE k # 0
        <3>1. k - 1 \in 0 .. Width /\ k - 1 \notin wrong
            BY <2>1, <2>2, <2>5, WidthTypes
        <3>2. round[k - 1] = closed[k - 1]
            BY <3>1
        <3> QED  BY <2>2, <2>3, <2>5, <3>2
    <2> QED  BY <2>4, <2>5
<1>8. round[Width] = Reached(v, d)
    BY <1>1, <1>7, WidthTypes
<1> DEFINE q == v \div d
<1>9. q \in Nat
    BY <1>d, WholeTypes, Division DEF v
<1>10. LongDivision(wide, d) = IF q >= U128 THEN NULL ELSE q % U128
    <2>1. round[Width].overflow = (q >= U128) /\ round[Width].quotient = q % U128
        <3>1. Reached(v, d).overflow = (q >= U128)
            BY DEF Reached
        <3>2. Reached(v, d).quotient = q % U128
            BY DEF Reached
        <3> QED  BY <1>8, <3>1, <3>2, Zenon
    <2> HIDE DEF q
    <2> QED  BY <1>6, <2>1
<1> HIDE DEF q
<1>11. q < U128 => q % U128 = q
    <2> SUFFICES ASSUME q < U128 PROVE q % U128 = q
        OBVIOUS
    <2>1. q = 0 * U128 + q
        BY <1>9, Words
    <2> QED  BY <2>1, <1>9, Words, DivisionIsUnique
<1>12. LongDivision(wide, d) = checked(q)
    BY <1>9, <1>10, <1>11, Words DEF checked
<1> QED  BY <1>12 DEF q, v

\* Multiplication and division of words agree with those of the integers, and
\* fail only for the divisor 0 or a quotient that is no word
\* (mul_div_floor_u128, whose additions of the high word never overflow).
THEOREM MulDivIsExact ==
    ASSUME NEW left \in Word, NEW right \in Word, NEW divisor \in Word
    PROVE  mul_div_floor_u128(left, right, divisor) =
               IF divisor = 0 THEN NULL ELSE checked((left * right) \div divisor)
<1>0. left \in Nat /\ right \in Nat /\ divisor \in Nat
    BY Words DEF Word
<1>1. CASE divisor = 0
    BY <1>1 DEF mul_div_floor_u128
<1>2. CASE divisor # 0 /\ left * right < U128
    <2> DEFINE x == left * right
    <2>1. x \in Nat /\ x < U128
        BY <1>0, <1>2
    <2>2. x \div divisor \in Nat /\ (x \div divisor) * divisor <= x
        BY <2>1, <1>0, <1>2, Division, QuotientBound
    <2> DEFINE q == x \div divisor
    <2>3. q <= q * divisor
        <3> HIDE DEF q
        <3>1. q \in Nat
            BY <2>2 DEF q
        <3> QED  BY <3>1, <1>0, <1>2
    <2>4. q < U128
        <3> HIDE DEF x
        <3>1. q \in Nat /\ q * divisor <= x
            BY <2>2 DEF q
        <3> HIDE DEF q
        <3> QED  BY <3>1, <2>1, <2>3, <1>0, Words
    <2> QED  BY <2>4, <1>2 DEF mul_div_floor_u128, checked
<1>3. CASE divisor # 0 /\ ~(left * right < U128)
    <2> DEFINE wide == WideProduct(left, right)
    <2>1. wide.low \in Word /\ wide.high \in Word /\ wide.high * U128 + wide.low = left * right
        BY ProductInWords
    <2>2. wide \in Wide
        BY <2>1 DEF Wide, WideProduct
    <2>3. Whole(wide) = left * right
        BY <2>1 DEF Whole
    <2> HIDE DEF wide
    <2>4. LongDivision(wide, divisor) = checked(Whole(wide) \div divisor)
        BY <1>3, <2>2, LongDivisionDivides
    <2> QED  BY <1>3, <2>3, <2>4 DEF mul_div_floor_u128, wide
<1> QED  BY <1>1, <1>2, <1>3

-----------------------------------------------------------------------------
(* Fixed-point operations. *)

\* Shorthands.
W == SOLEND_WAD
Percent == SOLEND_WAD \div Hundred

\* A whole is a hundred percents.
LEMMA WadTypes ==
    /\ W \in Nat \ {0} /\ W \in Word /\ Hundred \in Nat \ {0} /\ Percent \in Nat \ {0}
    /\ W = Hundred * Percent /\ Percent <= U64
<1>1. W \in Nat \ {0} /\ Hundred \in Nat \ {0} /\ W % Hundred = 0
    BY WadAssumption DEF W
<1>2. Percent \in Nat /\ W = Percent * Hundred + (W % Hundred)
    BY <1>1, Division DEF Percent, W
<1>3. W = Hundred * Percent /\ Percent # 0
    <2> HIDE DEF Percent
    <2> QED  BY <1>1, <1>2
<1>4. W \in Word
    BY <1>1, WidthAssumption, Words DEF W, Word
<1> QED  BY <1>1, <1>2, <1>3, <1>4, WidthAssumption DEF Percent

\* A word is a number below the width, and no error.
LEMMA WordTypes ==
    ASSUME NEW x \in Word
    PROVE  x \in Nat /\ x < U128 /\ x # NULL
<1>1. x \in Nat /\ x < U128
    BY Words DEF Word
<1> QED  BY <1>1, ErrorAssumption

\* checked lets exactly the words through.
LEMMA CheckedWord ==
    ASSUME NEW n \in Nat
    PROVE  /\ n < U128 => checked(n) = n /\ n \in Word
           /\ ~(n < U128) => checked(n) = NULL
BY Words DEF checked, Word

\* A percentage that is a u64 converts.
LEMMA PercentIsWord ==
    ASSUME NEW p \in 0 .. U64 - 1
    PROVE  /\ pct_to_wad(p) = p * Percent /\ p * Percent \in Word /\ p * Percent \in Nat
           /\ p <= Hundred => p * Percent <= W
           /\ p < Hundred => p * Percent < W
<1>0. p \in Nat /\ p + 1 <= U64 /\ U64 \in Nat \ {0} /\ Percent \in Nat \ {0} /\ Percent <= U64
    BY Words, WadTypes
<1>1. p * Percent <= p * U64 /\ (p + 1) * U64 <= U64 * U64
    BY <1>0, TimesMonotone
<1>2. p * Percent \in Nat /\ p * Percent < U128
    BY <1>0, <1>1, Words
<1>3. pct_to_wad(p) = p * Percent /\ p * Percent \in Word
    BY <1>2, CheckedWord DEF pct_to_wad, Percent
<1>4. p <= Hundred => p * Percent <= W
    <2> SUFFICES ASSUME p <= Hundred PROVE p * Percent <= W
        OBVIOUS
    <2>1. p * Percent <= Hundred * Percent
        BY <1>0, WadTypes, TimesMonotone
    <2> QED  BY <2>1, WadTypes
<1>5. p < Hundred => p * Percent < W
    <2> SUFFICES ASSUME p < Hundred PROVE p * Percent < W
        OBVIOUS
    <2>1. (p + 1) * Percent <= Hundred * Percent
        BY <1>0, WadTypes, TimesMonotone
    <2> QED  BY <2>1, <1>0, WadTypes
<1> QED  BY <1>2, <1>3, <1>4, <1>5

\* The product with a share is rounded down.
LEMMA MulWad ==
    ASSUME NEW x \in Word, NEW y \in Word, x <= W \/ y <= W
    PROVE  LET m == mul_wad(x, y)
           IN  /\ m \in Word /\ m * W <= x * y
               /\ x <= W => m <= y
               /\ y <= W => m <= x
<1> DEFINE q == (x * y) \div W
<1>0. x \in Nat /\ y \in Nat /\ W \in Nat \ {0} /\ x # NULL /\ y # NULL /\ x < U128 /\ y < U128
    BY WordTypes, WadTypes
<1>1. mul_wad(x, y) = checked(q)
    BY <1>0, MulDivIsExact, WadTypes DEF mul_wad, W
<1>2. x * y \in Nat
    BY <1>0
<1>3. q \in Nat /\ q * W <= x * y
    BY <1>0, <1>2, Division, QuotientBound
<1>4. x <= W => q <= y
    <2> SUFFICES ASSUME x <= W PROVE q <= y
        OBVIOUS
    <2>1. x * y <= y * W
        BY <1>0, TimesMonotone
    <2> QED  BY <2>1, <1>0, <1>2, QuotientBound
<1>5. y <= W => q <= x
    <2> SUFFICES ASSUME y <= W PROVE q <= x
        OBVIOUS
    <2>1. x * y <= x * W
        BY <1>0, TimesMonotone
    <2> QED  BY <2>1, <1>0, <1>2, QuotientBound
<1> HIDE DEF q
<1>6. q < U128
    BY <1>0, <1>3, <1>4, <1>5, Words
<1>7. mul_wad(x, y) = q /\ q \in Word
    BY <1>1, <1>3, <1>6, CheckedWord
<1> QED  BY <1>3, <1>4, <1>5, <1>7

\* A share is rounded down.
LEMMA DivWad ==
    ASSUME NEW x \in Word, NEW y \in Word, y # 0, x <= y
    PROVE  LET m == div_wad(x, y)
           IN  m \in Word /\ m * y <= x * W /\ m <= W
<1> DEFINE q == (x * W) \div y
<1>0. x \in Nat /\ y \in Nat \ {0} /\ W \in Nat \ {0} /\ x # NULL /\ y # NULL /\ W < U128
    BY WordTypes, WadTypes
<1>1. div_wad(x, y) = checked(q)
    BY <1>0, MulDivIsExact, WadTypes DEF div_wad, W
<1>2. x * W \in Nat
    BY <1>0
<1>3. q \in Nat /\ q * y <= x * W
    BY <1>0, <1>2, Division, QuotientBound
<1>4. q <= W
    <2>1. x * W <= W * y
        BY <1>0, TimesMonotone
    <2> QED  BY <2>1, <1>0, <1>2, QuotientBound
<1> HIDE DEF q
<1>5. q < U128
    BY <1>0, <1>3, <1>4, Words
<1>6. div_wad(x, y) = q /\ q \in Word
    BY <1>1, <1>3, <1>5, CheckedWord
<1> QED  BY <1>3, <1>4, <1>6

\* A rate between two rates that are u64.
LEMMA InterpolatedIsWord ==
    ASSUME NEW from \in 0 .. U64 - 1, NEW to \in 0 .. U64 - 1, from <= to,
           NEW weight \in Word, weight <= W
    PROVE  \E m \in Nat :
               /\ Interpolated(from, to, weight) = m + from * Percent
               /\ m + from * Percent \in Word
               /\ m + from * Percent <= to * Percent
               /\ m * W <= weight * ((to - from) * Percent)
<1> DEFINE e == to - from
           m == mul_wad(weight, e * Percent)
<1>0. /\ e \in 0 .. U64 - 1 /\ from \in Nat /\ to \in Nat /\ e \in Nat /\ from + e = to
      /\ Percent \in Nat \ {0}
    BY Words, WadTypes
<1>1. pct_to_wad(e) = e * Percent /\ e * Percent \in Word /\ e * Percent \in Nat
    BY <1>0, PercentIsWord
<1>2. pct_to_wad(from) = from * Percent /\ from * Percent \in Word /\ from * Percent \in Nat
    BY PercentIsWord
<1>3. to * Percent \in Word /\ to * Percent \in Nat
    BY PercentIsWord
<1>4. m \in Word /\ m * W <= weight * (e * Percent) /\ m <= e * Percent
    BY <1>1, MulWad
<1>5. Interpolated(from, to, weight) = checked_add(m, from * Percent)
    BY <1>1, <1>2 DEF Interpolated
<1> HIDE DEF m, e
<1>6. m \in Nat /\ m # NULL /\ from * Percent # NULL
    BY <1>2, <1>4, WordTypes
<1>7. from * Percent + e * Percent = to * Percent
    <2>1. from * Percent + e * Percent = (from + e) * Percent
        BY <1>0
    <2> QED  BY <2>1, <1>0
<1>8. m + from * Percent <= to * Percent /\ m + from * Percent \in Nat
    BY <1>1, <1>2, <1>3, <1>4, <1>6, <1>7
<1>9. m + from * Percent < U128
    BY <1>3, <1>8, WordTypes, Words
<1>10. checked_add(m, from * Percent) = m + from * Percent /\ m + from * Percent \in Word
    BY <1>6, <1>8, <1>9, CheckedWord DEF checked_add
<1> QED  BY <1>4, <1>5, <1>6, <1>8, <1>10 DEF e

-----------------------------------------------------------------------------
(* The curve. *)

\* The part of the curve that an interpolation computes is not above it.
LEMMA BelowLine ==
    ASSUME NEW n \in Nat, NEW d \in Nat \ {0}, NEW u \in Nat, u * d <= n * W,
           NEW left \in Nat, NEW right \in Nat, left < right, left * Percent <= u,
           NEW from \in Nat, NEW to \in Nat, from <= to,
           NEW weight \in Nat, NEW m \in Nat,
           weight * ((right - left) * Percent) <= (u - left * Percent) * W,
           m * W <= weight * ((to - from) * Percent)
    PROVE  LET line == Line([n |-> n, d |-> d], from, to, left, right)
           IN  /\ line.n \in Nat /\ line.d \in Nat \ {0}
               /\ (m + from * Percent) * line.d <= line.n * W
<1> DEFINE g == right - left
           e == to - from
           c == u - left * Percent
           z == n * Hundred - left * d
           k == Percent
           h == Hundred
<1>0. /\ g \in Nat \ {0} /\ e \in Nat /\ c \in Nat /\ k \in Nat \ {0} /\ h \in Nat \ {0}
      /\ W \in Nat \ {0} /\ W = h * k
    BY WadTypes
<1>1. z \in Nat /\ c * d <= k * z
    <2>1. (left * k) * d <= u * d
        BY <1>0, TimesMonotone
    <2>2. (left * d) * k <= (n * h) * k
        <3>1. (left * k) * d = (left * d) * k /\ n * W = (n * h) * k
            BY <1>0
        <3>2. left * d \in Nat /\ n * h \in Nat /\ u * d \in Nat
            BY <1>0
        <3> QED  BY <1>0, <2>1, <3>1, <3>2
    <2>3. left * d <= n * h
        <3>1. left * d \in Nat /\ n * h \in Nat
            BY <1>0
        <3> QED  BY <1>0, <2>2, <3>1, TimesCancels
    <2>4. z \in Nat
        <3>1. left * d \in Nat /\ n * h \in Nat
            BY <1>0
        <3> QED  BY <2>3, <3>1
    <2>5. c * d = u * d - (left * k) * d /\ k * z = (n * h) * k - (left * d) * k
        BY <1>0
    <2>6. (left * k) * d = (left * d) * k /\ n * W = (n * h) * k
        BY <1>0
    <2>7. u * d \in Nat /\ (left * d) * k \in Nat /\ (n * h) * k \in Nat
        BY <1>0
    <2> QED  BY <2>4, <2>5, <2>6, <2>7
<1>L. /\ Line([n |-> n, d |-> d], from, to, left, right).n = from * g * d + e * z
      /\ Line([n |-> n, d |-> d], from, to, left, right).d = h * g * d
    BY DEF Line
<1>W. weight * (g * k) <= c * W /\ m * W <= weight * (e * k)
    OBVIOUS
<1> HIDE DEF g, e, c, z, k, h
<1>2. m * g <= c * e
    <2>1. (m * W) * g <= (weight * (e * k)) * g
        BY <1>0, <1>W, TimesMonotone
    <2>2. (weight * (g * k)) * e <= (c * W) * e
        BY <1>0, <1>W, TimesMonotone
    <2>3. (weight * (e * k)) * g = (weight * (g * k)) * e
        BY <1>0
    <2>4. (m * W) * g = (m * g) * W /\ (c * W) * e = (c * e) * W
        BY <1>0
    <2>5. /\ m * g \in Nat /\ c * e \in Nat /\ (m * g) * W \in Nat /\ (c * e) * W \in Nat
          /\ (weight * (g * k)) * e \in Nat
        BY <1>0
    <2>6. (m * g) * W <= (c * e) * W
        BY <2>1, <2>2, <2>3, <2>4, <2>5
    <2> QED  BY <1>0, <2>5, <2>6, TimesCancels
<1>3. m * g * d <= k * z * e
    <2>1. (m * g) * d <= (c * e) * d
        BY <1>0, <1>2, TimesMonotone
    <2>2. (c * d) * e <= (k * z) * e
        <3>1. c * d \in Nat /\ k * z \in Nat
            BY <1>0, <1>1
        <3> QED  BY <1>0, <1>1, <3>1, TimesMonotone
    <2>3. (c * e) * d = (c * d) * e
        BY <1>0
    <2>4. (m * g) * d \in Nat /\ (c * d) * e \in Nat /\ (k * z) * e \in Nat
        BY <1>0, <1>1
    <2> QED  BY <2>1, <2>2, <2>3, <2>4
<1>4. (m + from * k) * (h * g * d) <= (from * g * d + e * z) * W
    <2>1. (m + from * k) * (h * g * d) = (m * g * d) * h + (from * g * d) * (h * k)
        BY <1>0
    <2>2. (from * g * d + e * z) * (h * k) = (k * z * e) * h + (from * g * d) * (h * k)
        BY <1>0, <1>1
    <2>3. (m * g * d) * h <= (k * z * e) * h
        <3>1. m * g * d \in Nat /\ k * z * e \in Nat
            BY <1>0, <1>1
        <3> QED  BY <1>0, <1>3, <3>1, TimesMonotone
    <2>4. /\ (m * g * d) * h \in Nat /\ (k * z * e) * h \in Nat
          /\ (from * g * d) * (h * k) \in Nat
        BY <1>0, <1>1
    <2> QED  BY <1>0, <2>1, <2>2, <2>3, <2>4
<1>5. from * g * d + e * z \in Nat /\ h * g * d \in Nat \ {0}
    BY <1>0, <1>1
<1> QED  BY <1>L, <1>4, <1>5 DEF k

\* A piece of the curve is nowhere below its left end.
LEMMA LineFromLeft ==
    ASSUME NEW n \in Nat, NEW d \in Nat \ {0},
           NEW left \in Nat, NEW right \in Nat, left < right, left * d <= n * Hundred,
           NEW from \in Nat, NEW to \in Nat, from <= to,
           NEW rate \in Nat, rate <= from * Percent
    PROVE  LET line == Line([n |-> n, d |-> d], from, to, left, right)
           IN  /\ line.n \in Nat /\ line.d \in Nat \ {0}
               /\ rate * line.d <= line.n * W
<1> DEFINE g == right - left
           e == to - from
           z == n * Hundred - left * d
           k == Percent
           h == Hundred
<1>0. /\ g \in Nat \ {0} /\ e \in Nat /\ k \in Nat \ {0} /\ h \in Nat \ {0}
      /\ W \in Nat \ {0} /\ W = h * k
    BY WadTypes
<1>1. z \in Nat
    <2>1. left * d \in Nat /\ n * h \in Nat
        BY <1>0
    <2> QED  BY <2>1
<1>L. /\ Line([n |-> n, d |-> d], from, to, left, right).n = from * g * d + e * z
      /\ Line([n |-> n, d |-> d], from, to, left, right).d = h * g * d
    BY DEF Line
<1> HIDE DEF g, e, z, k, h
<1>2. from * g * d + e * z \in Nat /\ h * g * d \in Nat \ {0} /\ from * k \in Nat
    BY <1>0, <1>1
<1>3. rate * (h * g * d) <= (from * k) * (h * g * d)
    BY <1>2, TimesMonotone DEF k
<1>4. (from * k) * (h * g * d) = (from * g * d) * W
    BY <1>0
<1>5. (from * g * d) * W <= (from * g * d + e * z) * W
    <2>1. from * g * d \in Nat /\ from * g * d <= from * g * d + e * z
        BY <1>0, <1>1
    <2> QED  BY <2>1, <1>0, <1>2, TimesMonotone
<1>6. rate * (h * g * d) \in Nat /\ (from * g * d) * W \in Nat /\ (from * g * d + e * z) * W \in Nat
    BY <1>0, <1>1
<1> QED  BY <1>L, <1>2, <1>3, <1>4, <1>5, <1>6

\* The utilization is the share that is borrowed, rounded down, unless the
\* whole is no word.
LEMMA UtilizationIsBelow ==
    ASSUME NEW reserve, ReserveRateSnapshot(reserve)
    PROVE  LET b == reserve.borrowed
               d == reserve.borrowed + reserve.available * W
               u == utilization_wad(reserve)
           IN  /\ b \in Nat /\ d \in Nat /\ b <= d
               /\ b = 0 => u = 0
               /\ b # 0 /\ ~(d < U128) => u = NULL
               /\ b # 0 /\ d < U128 => u \in Word /\ u * d <= b * W /\ u <= W
<1> DEFINE b == reserve.borrowed
           a == reserve.available
           d == b + a * W
<1>0. b \in Word /\ b \in Nat /\ a \in Nat /\ W \in Nat \ {0} /\ b # NULL
    BY Words, WadTypes, WordTypes DEF ReserveRateSnapshot, Word
<1>U. utilization_wad(reserve) =
          IF b = 0 THEN 0 ELSE div_wad(b, checked_add(b, checked(a * W)))
    BY DEF utilization_wad, W
<1> HIDE DEF a, b
<1>1. a * W \in Nat /\ d \in Nat /\ b <= d /\ a * W <= d
    BY <1>0
<1>2. CASE b # 0 /\ d < U128
    <2>1. checked(a * W) = a * W /\ a * W \in Word
        BY <1>0, <1>1, <1>2, CheckedWord, Words
    <2>2. a * W # NULL
        BY <2>1, WordTypes
    <2>3. checked_add(b, a * W) = d /\ d \in Word
        BY <1>0, <1>1, <1>2, <2>2, CheckedWord DEF checked_add
    <2>4. utilization_wad(reserve) = div_wad(b, d)
        BY <1>2, <1>U, <2>1, <2>3
    <2> HIDE DEF d
    <2>5. d # 0
        BY <1>0, <1>1, <1>2
    <2> QED  BY <1>0, <1>1, <1>2, <2>3, <2>4, <2>5, DivWad DEF b, a, d
<1>3. CASE b # 0 /\ ~(d < U128)
    <2>1. checked_add(b, checked(a * W)) = NULL
        <3>1. CASE a * W < U128
            <4>1. checked(a * W) = a * W /\ a * W # NULL
                BY <3>1, <1>1, CheckedWord, WordTypes
            <4>2. checked(d) = NULL
                BY <1>1, <1>3, CheckedWord
            <4> QED  BY <1>0, <4>1, <4>2 DEF checked_add
        <3>2. CASE ~(a * W < U128)
            BY <3>2, <1>1, CheckedWord DEF checked_add
        <3> QED  BY <3>1, <3>2
    <2>2. utilization_wad(reserve) = NULL
        BY <1>3, <1>U, <2>1 DEF div_wad
    <2> QED  BY <1>0, <1>1, <1>3, <2>2 DEF a, b, d
<1>4. CASE b = 0
    BY <1>0, <1>1, <1>4, <1>U DEF a, b, d
<1> QED  BY <1>2, <1>3, <1>4

\* Where the curve bends.
LEMMA ConfigTypes ==
    ASSUME NEW reserve, ReserveRateSnapshot(reserve), is_reserve_config_valid(reserve)
    PROVE  LET o == reserve.optimalUtilization
               x == reserve.maxUtilization
           IN  /\ o \in Nat /\ x \in Nat /\ o <= x /\ x <= Hundred
               /\ o \in 0 .. U64 - 1 /\ x \in 0 .. U64 - 1
               /\ pct_to_wad(o) = o * Percent /\ pct_to_wad(x) = x * Percent
               /\ o * Percent \in Word /\ x * Percent \in Word
               /\ o * Percent \in Nat /\ x * Percent \in Nat
               /\ o * Percent <= x * Percent /\ x * Percent <= W
               /\ x < Hundred => x * Percent < W
               /\ o < x => o * Percent < x * Percent
<1> DEFINE o == reserve.optimalUtilization
           x == reserve.maxUtilization
<1>1. o \in 0 .. U64 - 1 /\ x \in 0 .. U64 - 1 /\ o <= x /\ x <= Hundred
    BY DEF ReserveRateSnapshot, is_reserve_config_valid
<1> HIDE DEF o, x
<1>2. o \in Nat /\ x \in Nat /\ Percent \in Nat \ {0}
    BY <1>1, Words, WadTypes
<1>3. /\ pct_to_wad(o) = o * Percent /\ pct_to_wad(x) = x * Percent
      /\ o * Percent \in Word /\ x * Percent \in Word
      /\ o * Percent \in Nat /\ x * Percent \in Nat
      /\ x * Percent <= W /\ (x < Hundred => x * Percent < W)
    BY <1>1, PercentIsWord
<1>4. o * Percent <= x * Percent
    BY <1>1, <1>2, TimesMonotone
<1>5. o < x => o * Percent < x * Percent
    BY <1>2
<1> QED  BY <1>1, <1>2, <1>3, <1>4, <1>5 DEF o, x

\* The rates of a valid configuration are ordered.
LEMMA RateTypes ==
    ASSUME NEW reserve, ReserveRateSnapshot(reserve), is_reserve_config_valid(reserve)
    PROVE  /\ {reserve.minRate, reserve.optimalRate, reserve.maxRate, reserve.superMaxRate}
                 \subseteq 0 .. U64 - 1
           /\ {reserve.minRate, reserve.optimalRate, reserve.maxRate, reserve.superMaxRate}
                 \subseteq Nat
           /\ reserve.minRate <= reserve.optimalRate
           /\ reserve.optimalRate <= reserve.maxRate
           /\ reserve.maxRate <= reserve.superMaxRate
BY Words DEF ReserveRateSnapshot, is_reserve_config_valid

\* An interpolation over a piece of the curve, by its end points.
LEMMA PieceIsBelow ==
    ASSUME NEW n \in Nat, NEW d \in Nat \ {0}, NEW u \in Word, u * d <= n * W,
           NEW left \in Nat, NEW right \in Nat, left < right,
           left * Percent \in Word, right * Percent \in Word, right * Percent \in Nat,
           left * Percent \in Nat,
           left * Percent <= u, u <= right * Percent,
           NEW from \in 0 .. U64 - 1, NEW to \in 0 .. U64 - 1, from <= to
    PROVE  LET rate == Interpolated(from, to, div_wad(u - left * Percent,
                                                      right * Percent - left * Percent))
               line == Line([n |-> n, d |-> d], from, to, left, right)
           IN  /\ rate \in Word /\ rate <= to * Percent
               /\ line.n \in Nat /\ line.d \in Nat \ {0}
               /\ rate * line.d <= line.n * W
<1> DEFINE c == u - left * Percent
           y == right * Percent - left * Percent
           weight == div_wad(c, y)
           rate == Interpolated(from, to, weight)
<1>0. /\ u \in Nat /\ Percent \in Nat \ {0} /\ from \in Nat /\ to \in Nat
      /\ right * Percent < U128 /\ u < U128 /\ U128 \in Nat
    BY WordTypes, WadTypes, Words
<1>1. y = (right - left) * Percent
    BY <1>0
<1>2. (right - left) * Percent # 0 /\ right - left \in Nat
    BY <1>0
<1>3. c \in Word /\ y \in Word /\ y # 0 /\ c <= y
    <2>1. c \in Nat /\ y \in Nat /\ c < U128 /\ y < U128 /\ c <= y
        BY <1>0
    <2> HIDE DEF c, y
    <2> QED  BY <2>1, <1>1, <1>2, Words DEF Word
<1>4. weight \in Word /\ weight * y <= c * W /\ weight <= W
    BY <1>3, DivWad
<1> HIDE DEF weight, c, y
<1>5. PICK m \in Nat :
         /\ rate = m + from * Percent
         /\ m + from * Percent \in Word
         /\ m + from * Percent <= to * Percent
         /\ m * W <= weight * ((to - from) * Percent)
    BY <1>4, InterpolatedIsWord
<1>6. weight \in Nat
    BY <1>4, WordTypes
<1>7. LET line == Line([n |-> n, d |-> d], from, to, left, right)
      IN  /\ line.n \in Nat /\ line.d \in Nat \ {0}
          /\ (m + from * Percent) * line.d <= line.n * W
    <2>1. weight * ((right - left) * Percent) <= (u - left * Percent) * W
        BY <1>1, <1>4 DEF c
    <2> QED  BY <1>0, <1>5, <1>6, <2>1, BelowLine
<1>8. rate \in Word /\ rate <= to * Percent
    BY <1>5
<1> HIDE DEF rate
<1> QED  BY <1>5, <1>7, <1>8 DEF rate, weight, c, y

\* The borrow rate is a word, and not above the curve at the true share.
LEMMA BorrowRateIsBelow ==
    ASSUME NEW reserve, ReserveRateSnapshot(reserve), is_reserve_config_valid(reserve),
           reserve.borrowed # 0, reserve.borrowed + reserve.available * W < U128
    PROVE  LET rate == current_borrow_rate_wad(reserve)
               true == BorrowRate(reserve)
           IN  /\ rate \in Word
               /\ true.n \in Nat /\ true.d \in Nat \ {0}
               /\ rate * true.d <= true.n * W
<1> DEFINE n == reserve.borrowed
           d == reserve.borrowed + reserve.available * W
           u == utilization_wad(reserve)
           o == reserve.optimalUtilization
           x == reserve.maxUtilization
           r0 == reserve.minRate
           r1 == reserve.optimalRate
           r2 == reserve.maxRate
           r3 == reserve.superMaxRate
           k == Percent
           share == [n |-> n, d |-> d]
           rate == current_borrow_rate_wad(reserve)
           curve == BorrowRate(reserve)
           Below == /\ rate \in Word
                    /\ curve.n \in Nat /\ curve.d \in Nat \ {0}
                    /\ rate * curve.d <= curve.n * W
<1>1. /\ n \in Nat \ {0} /\ d \in Nat \ {0} /\ n <= d
      /\ u \in Word /\ u * d <= n * W /\ u <= W /\ u \in Nat /\ u # NULL
    <2>1. n \in Nat /\ d \in Nat /\ n <= d /\ u \in Word /\ u * d <= n * W /\ u <= W
        BY UtilizationIsBelow
    <2>2. u \in Nat /\ u # NULL
        BY <2>1, WordTypes
    <2> HIDE DEF d, u
    <2> QED  BY <2>1, <2>2
<1>2. /\ o \in Nat /\ x \in Nat /\ o <= x /\ x <= Hundred
      /\ o \in 0 .. U64 - 1 /\ x \in 0 .. U64 - 1
      /\ pct_to_wad(o) = o * k /\ pct_to_wad(x) = x * k
      /\ o * k \in Word /\ x * k \in Word /\ o * k \in Nat /\ x * k \in Nat
      /\ o * k <= x * k /\ x * k <= W
      /\ (x < Hundred => x * k < W) /\ (o < x => o * k < x * k)
    BY ConfigTypes
<1>3. /\ r0 \in 0 .. U64 - 1 /\ r1 \in 0 .. U64 - 1 /\ r2 \in 0 .. U64 - 1 /\ r3 \in 0 .. U64 - 1
      /\ r0 \in Nat /\ r1 \in Nat /\ r2 \in Nat /\ r3 \in Nat
      /\ r0 <= r1 /\ r1 <= r2 /\ r2 <= r3
    BY RateTypes
<1>4. /\ k \in Nat \ {0} /\ Hundred \in Nat \ {0} /\ W = Hundred * k /\ W \in Nat \ {0} /\ W \in Word
      /\ o * k # NULL /\ x * k # NULL
    BY <1>2, WadTypes, WordTypes
<1>5. rate =
        IF u <= o * k
        THEN IF o * k = 0 THEN pct_to_wad(r0)
             ELSE Interpolated(r0, r1, div_wad(u, o * k))
        ELSE IF u <= x * k
        THEN IF x * k = o * k THEN pct_to_wad(r1)
             ELSE Interpolated(r1, r2, div_wad(u - o * k, x * k - o * k))
        ELSE IF x * k = W THEN pct_to_wad(r3)
        ELSE Interpolated(r2, r3, div_wad(u - x * k, W - x * k))
    BY <1>1, <1>2, <1>4 DEF current_borrow_rate_wad, W
<1>6. curve =
        IF n * Hundred <= o * d
        THEN IF o = 0 THEN [n |-> r0, d |-> Hundred] ELSE Line(share, r0, r1, 0, o)
        ELSE IF n * Hundred <= x * d THEN Line(share, r1, r2, o, x)
        ELSE Line(share, r2, r3, x, Hundred)
    BY DEF BorrowRate, Share, W
<1> HIDE DEF n, d, u, o, x, r0, r1, r2, r3, k, rate, curve
<1>7. n * Hundred \in Nat /\ o * d \in Nat /\ x * d \in Nat /\ o * d <= x * d
    BY <1>1, <1>2, <1>4, TimesMonotone
<1>m. r0 * k <= r1 * k /\ r1 * k <= r2 * k /\ r0 * k \in Nat /\ r1 * k \in Nat /\ r2 * k \in Nat
    BY <1>3, <1>4, TimesMonotone
\* A share that is rounded down to more than a bend is beyond it.
<1>8. ASSUME NEW p \in Nat, n * Hundred <= p * d PROVE u <= p * k
    <2>1. n * W = (n * Hundred) * k /\ (p * d) * k = (p * k) * d
        BY <1>1, <1>4
    <2>2. n * Hundred \in Nat /\ p * d \in Nat /\ p * k \in Nat
        BY <1>1, <1>4
    <2>3. (n * Hundred) * k <= (p * d) * k
        BY <1>4, <1>8, <2>2, TimesMonotone
    <2>4. u * d <= (p * k) * d
        <3>1. u * d \in Nat /\ (n * Hundred) * k \in Nat /\ (p * d) * k \in Nat
            BY <1>1, <1>4, <2>2
        <3> QED  BY <1>1, <2>1, <2>3, <3>1
    <2> QED  BY <1>1, <2>2, <2>4, TimesCancels
<1>9. ~(n * Hundred <= x * d) => x < Hundred
    <2> SUFFICES ASSUME x = Hundred PROVE n * Hundred <= x * d
        BY <1>2, <1>4
    <2>1. n * Hundred <= d * Hundred
        BY <1>1, <1>4, TimesMonotone
    <2>2. d * Hundred = x * d
        BY <1>1, <1>4
    <2> QED  BY <2>1, <2>2
\* The three pieces of the code, each by itself.
<1>10. ASSUME u <= o * k
       PROVE  Below
    <2>1. ASSUME o # 0
          PROVE  LET line == Line(share, r0, r1, 0, o)
                 IN  /\ rate \in Word /\ rate <= r1 * k
                     /\ line.n \in Nat /\ line.d \in Nat \ {0} /\ rate * line.d <= line.n * W
        <3>1. 0 * k = 0 /\ 0 * k \in Word /\ 0 * k <= u /\ 0 < o /\ o * k # 0 /\ 0 * k \in Nat
            BY <1>1, <1>2, <1>4, <2>1, Words DEF Word
        <3>2. u - 0 * k = u /\ o * k - 0 * k = o * k
            BY <1>1, <1>2, <1>4
        <3>3. rate = Interpolated(r0, r1, div_wad(u - 0 * k, o * k - 0 * k))
            BY <1>5, <1>10, <3>1, <3>2
        <3>4. LET r == Interpolated(r0, r1, div_wad(u - 0 * k, o * k - 0 * k))
                  line == Line(share, r0, r1, 0, o)
              IN  /\ r \in Word /\ r <= r1 * k
                  /\ line.n \in Nat /\ line.d \in Nat \ {0} /\ r * line.d <= line.n * W
            BY <1>1, <1>2, <1>3, <1>10, <3>1, PieceIsBelow DEF k
        <3> QED  BY <3>3, <3>4
    <2>2. ASSUME o = 0
          PROVE  rate = r0 * k /\ rate \in Word /\ rate <= r1 * k
        <3>1. o * k = 0
            BY <1>4, <2>2
        <3>2. rate = pct_to_wad(r0)
            BY <1>5, <1>10, <3>1
        <3>3. pct_to_wad(r0) = r0 * k /\ r0 * k \in Word
            BY <1>3, PercentIsWord DEF k
        <3> QED  BY <1>m, <3>2, <3>3
    <2>3. rate \in Word /\ rate <= r1 * k /\ rate \in Nat
        <3>1. rate \in Word /\ rate <= r1 * k
            BY <2>1, <2>2
        <3> QED  BY <3>1, WordTypes
    <2>4. ASSUME n * Hundred <= o * d /\ o = 0
          PROVE  Below
        <3>1. curve = [n |-> r0, d |-> Hundred]
            BY <1>6, <2>4
        <3>2. (r0 * k) * Hundred <= r0 * W
            BY <1>3, <1>4
        <3> QED  BY <1>3, <1>4, <2>2, <2>4, <3>1, <3>2
    <2>5. ASSUME n * Hundred <= o * d /\ o # 0
          PROVE  Below
        <3>1. curve = Line(share, r0, r1, 0, o)
            BY <1>6, <2>5
        <3> QED  BY <2>1, <2>5, <3>1
    <2>6. ASSUME ~(n * Hundred <= o * d) /\ n * Hundred <= x * d
          PROVE  Below
        <3>1. curve = Line(share, r1, r2, o, x)
            BY <1>6, <2>6
        <3>2. o < x /\ o * d <= n * Hundred
            BY <1>2, <1>7, <2>6
        <3>3. LET line == Line(share, r1, r2, o, x)
              IN  line.n \in Nat /\ line.d \in Nat \ {0} /\ rate * line.d <= line.n * W
            BY <1>1, <1>2, <1>3, <2>3, <3>2, LineFromLeft DEF k
        <3> QED  BY <2>3, <3>1, <3>3
    <2>7. ASSUME ~(n * Hundred <= o * d) /\ ~(n * Hundred <= x * d)
          PROVE  Below
        <3>1. curve = Line(share, r2, r3, x, Hundred)
            BY <1>6, <2>7
        <3>2. x < Hundred /\ x * d <= n * Hundred
            BY <1>9, <1>7, <2>7
        <3>4. rate <= r2 * k
            BY <2>3, <1>m
        <3>3. LET line == Line(share, r2, r3, x, Hundred)
              IN  line.n \in Nat /\ line.d \in Nat \ {0} /\ rate * line.d <= line.n * W
            BY <1>1, <1>2, <1>3, <1>4, <2>3, <3>2, <3>4, LineFromLeft DEF k
        <3> QED  BY <2>3, <3>1, <3>3
    <2> QED  BY <2>4, <2>5, <2>6, <2>7
<1>11. ASSUME ~(u <= o * k) /\ u <= x * k
       PROVE  Below
    <2>1. x * k # o * k /\ o < x /\ o * k <= u /\ ~(n * Hundred <= o * d)
        <3>1. x * k # o * k /\ o * k <= u
            BY <1>1, <1>2, <1>11
        <3>2. x # o
            BY <3>1
        <3> QED  BY <1>2, <1>8, <1>11, <3>1, <3>2
    <2>2. rate = Interpolated(r1, r2, div_wad(u - o * k, x * k - o * k))
        BY <1>5, <1>11, <2>1
    <2>3. LET r == Interpolated(r1, r2, div_wad(u - o * k, x * k - o * k))
              line == Line(share, r1, r2, o, x)
          IN  /\ r \in Word /\ r <= r2 * k
              /\ line.n \in Nat /\ line.d \in Nat \ {0} /\ r * line.d <= line.n * W
        BY <1>1, <1>2, <1>3, <1>11, <2>1, PieceIsBelow DEF k
    <2>4. ASSUME n * Hundred <= x * d
          PROVE  Below
        <3>1. curve = Line(share, r1, r2, o, x)
            BY <1>6, <2>1, <2>4
        <3> QED  BY <2>2, <2>3, <3>1
    <2>5. ASSUME ~(n * Hundred <= x * d)
          PROVE  Below
        <3>1. curve = Line(share, r2, r3, x, Hundred)
            BY <1>6, <2>1, <2>5
        <3>2. x < Hundred /\ x * d <= n * Hundred
            BY <1>9, <1>7, <2>5
        <3>4. rate \in Word /\ rate <= r2 * k /\ rate \in Nat
            BY <2>2, <2>3, WordTypes
        <3>3. LET line == Line(share, r2, r3, x, Hundred)
              IN  line.n \in Nat /\ line.d \in Nat \ {0} /\ rate * line.d <= line.n * W
            BY <1>1, <1>2, <1>3, <1>4, <3>2, <3>4, LineFromLeft DEF k
        <3> QED  BY <3>1, <3>3, <3>4
    <2> QED  BY <2>4, <2>5
<1>12. ASSUME ~(u <= o * k) /\ ~(u <= x * k)
       PROVE  Below
    <2>1. ~(n * Hundred <= x * d) /\ ~(n * Hundred <= o * d)
        BY <1>2, <1>8, <1>12
    <2>2. x < Hundred /\ x * k < W /\ x * k <= u
        BY <1>1, <1>2, <1>9, <1>12, <2>1
    <2>3. x * k # W
        BY <1>2, <1>4, <2>2
    <2>4. rate = Interpolated(r2, r3, div_wad(u - x * k, Hundred * k - x * k))
        BY <1>4, <1>5, <1>12, <2>3
    <2>5. Hundred * k \in Word /\ Hundred * k \in Nat /\ u <= Hundred * k
        BY <1>1, <1>4
    <2>6. LET r == Interpolated(r2, r3, div_wad(u - x * k, Hundred * k - x * k))
              line == Line(share, r2, r3, x, Hundred)
          IN  /\ r \in Word
              /\ line.n \in Nat /\ line.d \in Nat \ {0} /\ r * line.d <= line.n * W
        BY <1>1, <1>2, <1>3, <1>4, <2>2, <2>5, PieceIsBelow DEF k
    <2>7. curve = Line(share, r2, r3, x, Hundred)
        BY <1>6, <2>1
    <2> QED  BY <2>4, <2>6, <2>7
<1>13. Below
    BY <1>10, <1>11, <1>12
<1> QED  BY <1>13 DEF rate, curve

\* Without borrowings the rate still computes.
LEMMA BorrowRateUnborrowed ==
    ASSUME NEW reserve, ReserveRateSnapshot(reserve), is_reserve_config_valid(reserve),
           reserve.borrowed = 0
    PROVE  current_borrow_rate_wad(reserve) \in Word
<1> DEFINE o == reserve.optimalUtilization
           x == reserve.maxUtilization
           r0 == reserve.minRate
           r1 == reserve.optimalRate
<1>1. utilization_wad(reserve) = 0
    BY DEF utilization_wad
<1>2. /\ pct_to_wad(o) = o * Percent /\ pct_to_wad(x) = x * Percent
      /\ o * Percent \in Word /\ x * Percent \in Word /\ o * Percent \in Nat
    BY ConfigTypes
<1>3. o * Percent # NULL /\ x * Percent # NULL /\ 0 # NULL
    BY <1>2, WordTypes, ErrorAssumption
<1>4. r0 \in 0 .. U64 - 1 /\ r1 \in 0 .. U64 - 1 /\ r0 <= r1
    BY RateTypes
<1>5. current_borrow_rate_wad(reserve) =
          IF o * Percent = 0 THEN pct_to_wad(r0)
          ELSE Interpolated(r0, r1, div_wad(0, o * Percent))
    BY <1>1, <1>2, <1>3 DEF current_borrow_rate_wad
<1> HIDE DEF o, x, r0, r1
<1>6. pct_to_wad(r0) \in Word
    BY <1>4, PercentIsWord
<1>7. CASE o * Percent # 0
    <2>1. 0 \in Word /\ 0 <= o * Percent
        BY <1>2, Words DEF Word
    <2>2. div_wad(0, o * Percent) \in Word /\ div_wad(0, o * Percent) <= W
        BY <1>2, <1>7, <2>1, DivWad
    <2>3. Interpolated(r0, r1, div_wad(0, o * Percent)) \in Word
        BY <1>4, <2>2, InterpolatedIsWord
    <2> QED  BY <1>5, <1>7, <2>3
<1> QED  BY <1>5, <1>6, <1>7

\* Three roundings down one after the other.
LEMMA RoundingsCompose ==
    ASSUME NEW a \in Nat, NEW r \in Nat, NEW m \in Nat, NEW u \in Nat,
           NEW n \in Nat, NEW d \in Nat, NEW N \in Nat, NEW B \in Nat,
           NEW s \in Nat,
           a * W <= r * m, m * W <= u * (s * Percent), u * d <= n * W, r * B <= N * W
    PROVE  a * (B * d * Hundred) <= N * n * s * W
<1> DEFINE k == Percent
           h == Hundred
<1>0. k \in Nat \ {0} /\ h \in Nat \ {0} /\ W = h * k /\ W \in Nat \ {0}
    BY WadTypes
<1> HIDE DEF k, h
<1>1. m * h <= u * s
    <2>1. m * W = (m * h) * k /\ u * (s * k) = (u * s) * k /\ m * h \in Nat /\ u * s \in Nat
        BY <1>0
    <2>2. (m * h) * k <= (u * s) * k
        BY <2>1 DEF k
    <2> QED  BY <1>0, <2>1, <2>2, TimesCancels
<1>2. /\ a * W \in Nat /\ r * m \in Nat /\ B * d * h \in Nat /\ m * h \in Nat /\ u * s \in Nat
      /\ r * B \in Nat /\ N * W \in Nat /\ u * d \in Nat /\ n * W \in Nat
    BY <1>0
<1>3. (a * W) * (B * d * h) <= (r * m) * (B * d * h)
    BY <1>2, TimesMonotone
<1>4. (r * B) * ((m * h) * d) <= (N * W) * ((m * h) * d) /\ (m * h) * d \in Nat
    <2>1. (m * h) * d \in Nat
        BY <1>2
    <2> QED  BY <1>2, <2>1, TimesMonotone
<1>5. (m * h) * d <= (u * s) * d
    BY <1>1, <1>2, TimesMonotone
<1>6. (u * d) * s <= (n * W) * s
    BY <1>2, TimesMonotone
<1>7. (m * h) * d <= (n * W) * s /\ (n * W) * s \in Nat
    <2>1. (u * s) * d = (u * d) * s /\ (u * s) * d \in Nat /\ (n * W) * s \in Nat
        BY <1>0
    <2> QED  BY <1>4, <1>5, <1>6, <2>1
<1>8. (N * W) * ((m * h) * d) <= (N * W) * ((n * W) * s)
    BY <1>2, <1>4, <1>7, TimesMonotone
<1>9. /\ (r * m) * (B * d * h) = (r * B) * ((m * h) * d)
      /\ (N * W) * ((n * W) * s) = (N * n * s * W) * W
      /\ (a * W) * (B * d * h) = (a * (B * d * h)) * W
      /\ N * n * s * W \in Nat /\ a * (B * d * h) \in Nat
    BY <1>0
<1>10. (a * (B * d * h)) * W <= (N * n * s * W) * W
    <2>1. /\ (a * (B * d * h)) * W \in Nat /\ (r * m) * (B * d * h) \in Nat
          /\ (N * W) * ((m * h) * d) \in Nat /\ (N * n * s * W) * W \in Nat
        BY <1>0, <1>2, <1>4, <1>9
    <2> QED  BY <1>3, <1>4, <1>8, <1>9, <2>1
<1>11. a * (B * d * h) <= N * n * s * W
    BY <1>0, <1>9, <1>10, TimesCancels
<1> QED  BY <1>11 DEF h

\* What is left of a whole.
LEMMA KeptShare ==
    ASSUME NEW reserve, ReserveRateSnapshot(reserve), is_reserve_config_valid(reserve)
    PROVE  LET s == Hundred - reserve.takeRate
               t == W - pct_to_wad(reserve.takeRate)
           IN  s \in Nat /\ t = s * Percent /\ t \in Word /\ t <= W
<1> DEFINE p == reserve.takeRate
<1>1. p \in 0 .. U64 - 1 /\ p <= Hundred
    BY DEF ReserveRateSnapshot, is_reserve_config_valid
<1> HIDE DEF p
<1>2. p \in Nat /\ Hundred \in Nat /\ Percent \in Nat /\ W = Hundred * Percent /\ W \in Nat
      /\ W < U128
    BY <1>1, Words, WadTypes, WordTypes
<1>3. pct_to_wad(p) = p * Percent /\ p * Percent \in Nat /\ p * Percent <= W
    BY <1>1, PercentIsWord
<1>4. Hundred - p \in Nat /\ W - p * Percent = (Hundred - p) * Percent
    BY <1>1, <1>2
<1>5. W - p * Percent \in Nat /\ W - p * Percent <= W /\ W - p * Percent < U128
    BY <1>2, <1>3, Words
<1>6. W - p * Percent \in Word
    BY <1>5, Words DEF Word
<1> QED  BY <1>3, <1>4, <1>5, <1>6 DEF p

\* A rate that computes is not above the true one; one that does not is that
\* of a reserve whose whole is no word.
LEMMA SupplyAprIsBelow ==
    ASSUME NEW reserve, ReserveRateSnapshot(reserve), is_reserve_config_valid(reserve)
    PROVE  LET apr  == supply_apr_wad(reserve)
               rate == SupplyRate(reserve)
           IN  IF apr = NULL THEN reserve.available * W + reserve.borrowed >= U128
               ELSE /\ apr \in Word /\ rate.n \in Nat /\ rate.d \in Nat \ {0}
                    /\ apr * rate.d <= rate.n * W
<1> DEFINE b == reserve.borrowed
           a == reserve.available
           d == b + a * W
           u == utilization_wad(reserve)
           r == current_borrow_rate_wad(reserve)
           s == Hundred - reserve.takeRate
           t == W - pct_to_wad(reserve.takeRate)
           m == mul_wad(u, t)
           apr == mul_wad(r, m)
           N == BorrowRate(reserve).n
           B == BorrowRate(reserve).d
           Sound == IF supply_apr_wad(reserve) = NULL THEN a * W + b >= U128
                    ELSE /\ apr \in Word /\ SupplyRate(reserve).n \in Nat
                         /\ SupplyRate(reserve).d \in Nat \ {0}
                         /\ apr * SupplyRate(reserve).d <= SupplyRate(reserve).n * W
<1>1. supply_apr_wad(reserve) = apr
    BY DEF supply_apr_wad, W
<1>2. s \in Nat /\ t = s * Percent /\ t \in Word /\ t <= W
    BY KeptShare
<1>3. /\ b \in Nat /\ d \in Nat /\ b <= d
      /\ b = 0 => u = 0
      /\ b # 0 /\ ~(d < U128) => u = NULL
      /\ b # 0 /\ d < U128 => u \in Word /\ u * d <= b * W /\ u <= W
    BY UtilizationIsBelow
<1>4. b = 0 => r \in Word
    BY BorrowRateUnborrowed
<1>5. b # 0 /\ d < U128 =>
          r \in Word /\ N \in Nat /\ B \in Nat \ {0} /\ r * B <= N * W
    BY BorrowRateIsBelow
<1>6. SupplyRate(reserve) =
          IF b = 0 THEN [n |-> 0, d |-> 1]
          ELSE [n |-> N * b * s, d |-> B * d * Hundred]
    BY DEF SupplyRate, Share, W
<1>7. a \in Nat
    BY Words DEF ReserveRateSnapshot
<1>8. W \in Nat \ {0} /\ Hundred \in Nat \ {0}
    BY WadTypes
<1> HIDE DEF b, a, u, r, s, t, m, N, B
<1>9. ASSUME u \in Word, u <= W, r \in Word
      PROVE  /\ m \in Word /\ m * W <= u * t /\ m <= W
             /\ apr \in Word /\ apr * W <= r * m
    <2>1. m \in Word /\ m * W <= u * t /\ m <= u
        BY <1>2, <1>9, MulWad DEF m
    <2>2. m <= W
        BY <1>8, <1>9, <2>1, WordTypes
    <2>3. apr \in Word /\ apr * W <= r * m
        BY <1>9, <2>1, <2>2, MulWad
    <2> QED  BY <2>1, <2>2, <2>3
<1> HIDE DEF apr
<1>10. ASSUME b = 0 PROVE Sound
    <2>1. u \in Word /\ u <= W /\ u = 0
        BY <1>3, <1>8, <1>10, Words DEF Word
    <2>2. m \in Word /\ m * W <= u * t /\ apr \in Word /\ apr * W <= r * m
        BY <1>4, <1>9, <1>10, <2>1
    <2>3. m \in Nat /\ apr \in Nat /\ r \in Nat /\ t \in Nat /\ apr # NULL
        BY <1>2, <1>4, <1>10, <2>2, WordTypes
    <2>4. m = 0
        BY <1>8, <2>1, <2>2, <2>3
    <2>5. apr = 0
        BY <1>8, <2>2, <2>3, <2>4
    <2>6. SupplyRate(reserve).n = 0 /\ SupplyRate(reserve).d = 1
        BY <1>6, <1>10
    <2> QED  BY <1>1, <1>8, <2>2, <2>3, <2>5, <2>6
<1>11. ASSUME b # 0, ~(d < U128) PROVE Sound
    <2>1. apr = NULL
        BY <1>3, <1>11 DEF apr, m, mul_wad
    <2>2. a * W + b = d /\ d \in Nat /\ U128 \in Nat
        BY <1>3, <1>7, <1>8, Words
    <2> HIDE DEF d
    <2>3. a * W + b >= U128
        BY <1>11, <2>2
    <2> QED  BY <1>1, <2>1, <2>3
<1>12. ASSUME b # 0, d < U128 PROVE Sound
    <2> HIDE DEF d
    <2>1. u \in Word /\ u * d <= b * W /\ u <= W /\ u \in Nat
        BY <1>3, <1>12, WordTypes
    <2>2. r \in Word /\ N \in Nat /\ B \in Nat \ {0} /\ r * B <= N * W /\ r \in Nat
        BY <1>5, <1>12, WordTypes DEF d
    <2>3. m \in Word /\ m * W <= u * t /\ apr \in Word /\ apr * W <= r * m
        BY <1>9, <2>1, <2>2
    <2>4. m \in Nat /\ apr \in Nat /\ apr # NULL
        BY <2>3, WordTypes
    <2>5. apr * (B * d * Hundred) <= N * b * s * W
        BY <1>2, <1>3, <2>1, <2>2, <2>3, <2>4, RoundingsCompose
    <2>6. SupplyRate(reserve) = [n |-> N * b * s, d |-> B * d * Hundred]
        BY <1>6, <1>12 DEF d
    <2>7. N * b * s \in Nat /\ B * d * Hundred \in Nat \ {0}
        BY <1>2, <1>3, <1>8, <1>12, <2>2
    <2> QED  BY <1>1, <2>3, <2>4, <2>5, <2>6, <2>7
<1>13. Sound
    BY <1>10, <1>11, <1>12
<1> QED  BY <1>1, <1>13 DEF a, b, apr

\* The same for what the market source returns.
LEMMA NativeSupplyAprIsSound ==
    ASSUME NEW reserve, ReserveRateSnapshot(reserve)
    PROVE  LET apr  == native_supply_apr_from_reserve_data(reserve)
               rate == SupplyRate(reserve)
           IN  IF apr # NULL
               THEN /\ apr \in Nat /\ rate.n \in Nat /\ rate.d \in Nat \ {0}
                    /\ apr * rate.d <= rate.n * W
               ELSE \/ ~reserve.decodes \/ ~is_reserve_config_valid(reserve)
                    \/ reserve.available * W + reserve.borrowed >= U128
                    \/ /\ rate.n \in Nat /\ rate.d \in Nat
                       /\ APR_BPS_SANITY_MAX * BPS_WAD * rate.d <= rate.n * W
<1> DEFINE apr == native_supply_apr_from_reserve_data(reserve)
           rate == SupplyRate(reserve)
           code == supply_apr_wad(reserve)
           max == APR_BPS_SANITY_MAX * BPS_WAD
<1>1. apr = IF ~reserve.decodes \/ code = NULL THEN NULL
            ELSE IF code \div BPS_WAD > APR_BPS_SANITY_MAX THEN NULL ELSE code
    BY DEF native_supply_apr_from_reserve_data, apr_bps_from_wad
<1>2. ~is_reserve_config_valid(reserve) => code = NULL
    BY DEF supply_apr_wad
<1>3. is_reserve_config_valid(reserve) =>
         IF code = NULL THEN reserve.available * W + reserve.borrowed >= U128
         ELSE /\ code \in Word /\ rate.n \in Nat /\ rate.d \in Nat \ {0}
              /\ code * rate.d <= rate.n * W
    BY SupplyAprIsBelow
<1>4. APR_BPS_SANITY_MAX \in Nat /\ BPS_WAD \in Nat \ {0} /\ W \in Nat
    BY WadAssumption, WadTypes
<1> HIDE DEF apr, rate, code
<1>5. CASE apr # NULL
    <2>1. apr = code /\ is_reserve_config_valid(reserve) /\ code # NULL
        BY <1>1, <1>2, <1>5
    <2>2. code \in Word
        BY <1>3, <2>1
    <2> QED  BY <1>3, <1>5, <2>1, <2>2, WordTypes DEF apr, rate
<1>6. CASE apr = NULL /\ reserve.decodes /\ is_reserve_config_valid(reserve)
            /\ ~(reserve.available * W + reserve.borrowed >= U128)
    <2>1. /\ code # NULL /\ code \in Word /\ rate.n \in Nat /\ rate.d \in Nat \ {0}
          /\ code * rate.d <= rate.n * W
        BY <1>3, <1>6
    <2>2. code \in Nat
        BY <2>1, WordTypes
    <2>3. code \div BPS_WAD > APR_BPS_SANITY_MAX
        BY <1>1, <1>6, <2>1, <2>2
    <2>4. max \in Nat /\ max <= code
        <3>1. code < max => code \div BPS_WAD < APR_BPS_SANITY_MAX
            BY <1>4, <2>2, QuotientBound
        <3>2. code \div BPS_WAD \in Nat
            BY <1>4, <2>2, Division
        <3>3. max \in Nat
            BY <1>4
        <3> QED  BY <1>4, <2>2, <2>3, <3>1, <3>2, <3>3
    <2> HIDE DEF max
    <2>5. max * rate.d <= code * rate.d
        BY <2>1, <2>2, <2>4, TimesMonotone
    <2>6. max * rate.d <= rate.n * W
        <3>1. max * rate.d \in Nat /\ code * rate.d \in Nat /\ rate.n * W \in Nat
            BY <1>4, <2>1, <2>2, <2>4
        <3> QED  BY <2>1, <2>5, <3>1
    <2> QED  BY <1>6, <2>1, <2>6 DEF apr, rate, max
<1> QED  BY <1>5, <1>6 DEF apr, rate

-----------------------------------------------------------------------------
(* The checks. *)

\* Without findings, no check of a table applies.
LEMMA NothingApplies ==
    ASSUME NEW checks, Applying(checks) = {}
    PROVE  \A code \in DOMAIN checks : ~checks[code]
BY Zenon DEF Applying

\* A rule whose envelope passes is the one that was funded, for the one wallet.
LEMMA EnvelopeIsRight ==
    ASSUME NEW funding, NEW rule, EnvelopeFindings(funding, rule) = {}
    PROVE  /\ {rule.executor, rule.destination} = {rule.delegated}
           /\ {funding.intent, funding.rule} = {rule.id}
           /\ funding.hash = rule
           /\ funding.wallet = rule.delegated
<1> DEFINE checks ==
       [UnsupportedSchemaVersion |-> rule.schema # SCHEMA_V2,
        MultiUseRule             |-> ~rule.oneShot,
        UsedAmountNonZero        |-> rule.used # 0,
        ControlledWalletEnvelopeMismatch |->
            {rule.executor, rule.destination} # {rule.delegated},
        RuleIdMismatch           |-> {funding.intent, funding.rule} # {rule.id},
        CanonicalHashMismatch    |-> funding.hash # canonical_rule_hash(rule),
        ControlledWalletMismatch |-> funding.wallet # rule.delegated]
<1>1. Applying(checks) = {}
    BY Zenon DEF EnvelopeFindings
<1>2. \A code \in DOMAIN checks : ~checks[code]
    <2> HIDE DEF checks
    <2> QED  BY <1>1, NothingApplies, Zenon
<1>3. /\ "ControlledWalletEnvelopeMismatch" \in DOMAIN checks
      /\ "RuleIdMismatch" \in DOMAIN checks
      /\ "CanonicalHashMismatch" \in DOMAIN checks
      /\ "ControlledWalletMismatch" \in DOMAIN checks
    OBVIOUS
<1>4. /\ ~checks["ControlledWalletEnvelopeMismatch"]
      /\ ~checks["RuleIdMismatch"]
      /\ ~checks["CanonicalHashMismatch"]
      /\ ~checks["ControlledWalletMismatch"]
    <2> HIDE DEF checks
    <2> QED  BY <1>2, <1>3, Zenon
<1>5. {rule.executor, rule.destination} = {rule.delegated}
    BY <1>4, Zenon
<1>6. {funding.intent, funding.rule} = {rule.id}
    BY <1>4, Zenon
<1>7. funding.hash = rule /\ funding.wallet = rule.delegated
    BY <1>4, Zenon DEF canonical_rule_hash
<1> QED  BY <1>5, <1>6, <1>7

\* An action that passes is a deposit of the amount that was funded.
LEMMA ActionIsRight ==
    ASSUME NEW funding, NEW rule, funding.amount \in Nat, ActionFindings(funding, rule) = {}
    PROVE  /\ ActionOf(rule) = rule.action /\ ActionOf(rule) # NULL
           /\ {rule.action.amount, rule.max} = {funding.amount}
           /\ funding.amount > 0
<1> DEFINE action == ActionOf(rule)
           checks ==
       [AmountMismatch |-> {action.amount, funding.amount} # {rule.max},
        AmountZero     |-> 0 \in {action.amount, rule.max, funding.amount},
        UnsupportedSolendProgram |-> action.program # audited_solend_program,
        UnsupportedInputMint     |-> action.mint # usdc_mint]
<1>0. action # NULL
    <2>1. action = NULL => ActionFindings(funding, rule) = {"UnsupportedAction"}
        BY Zenon DEF ActionFindings
    <2> QED  BY <2>1
<1>1. Applying(checks) = {}
    BY <1>0, Zenon DEF ActionFindings
<1>2. \A code \in DOMAIN checks : ~checks[code]
    <2> HIDE DEF checks
    <2> QED  BY <1>1, NothingApplies, Zenon
<1>3. "AmountMismatch" \in DOMAIN checks /\ "AmountZero" \in DOMAIN checks
    OBVIOUS
<1>4. ~checks["AmountMismatch"] /\ ~checks["AmountZero"]
    <2> HIDE DEF checks
    <2> QED  BY <1>2, <1>3, Zenon
<1>5. {action.amount, funding.amount} = {rule.max}
    BY <1>4, Zenon
<1>6. 0 \notin {action.amount, rule.max, funding.amount}
    BY <1>4, Zenon
<1>7. action = rule.action
    BY <1>0 DEF ActionOf
<1> QED  BY <1>0, <1>5, <1>6, <1>7

\* A condition that passes is one rate condition, with the funding's threshold.
LEMMA ConditionIsRight ==
    ASSUME NEW candidate \in Candidates, candidate.rule # NULL,
           ActionOf(candidate.rule) # NULL,
           ConditionFindings(candidate.funding, candidate.rule) = {}
    PROVE  LET condition == candidate.rule.conditions[1]
           IN  /\ supported_condition(candidate.rule) = condition
               /\ condition.comparison \in Comparison
               /\ condition.threshold = candidate.funding.threshold
               /\ condition.threshold \in Nat
<1> DEFINE rule == candidate.rule
           funding == candidate.funding
           condition == rule.conditions[1]
           checks == [ConditionFundingMismatch |-> condition.threshold # funding.threshold,
                      ThresholdOutOfRange |->
                          condition.threshold \notin 1 .. MAX_THRESHOLD_BPS]
<1>1. ConditionShapeFindings(rule) = {}
    <2>1. supported_condition(rule) # NULL => ConditionShapeFindings(rule) = {}
        BY DEF supported_condition
    <2>2. supported_condition(rule) = NULL =>
              ConditionFindings(funding, rule) = ConditionShapeFindings(rule)
        BY DEF ConditionFindings
    <2> QED  BY <2>1, <2>2
<1>2. supported_condition(rule) = condition
    BY <1>1 DEF supported_condition
<1>3. Len(rule.conditions) = 1
    <2>1. Len(rule.conditions) # 1 =>
              ConditionShapeFindings(rule) = {"UnsupportedConditionShape"}
        BY DEF ConditionShapeFindings
    <2> QED  BY <1>1, <2>1
<1>4. condition # NULL /\ condition.comparison \in Comparison
    <2>1. /\ DOMAIN rule.conditions = 1 .. Len(rule.conditions)
          /\ \A i \in DOMAIN rule.conditions :
                /\ rule.conditions[i] # NULL
                /\ rule.conditions[i].comparison \in Comparison
        BY ConditionsAssumption
    <2>2. 1 \in DOMAIN rule.conditions
        BY <1>3, <2>1
    <2> QED  BY <2>1, <2>2
<1>5. Applying(checks) = {}
    BY <1>2, <1>4, Zenon DEF ConditionFindings
<1>6. \A code \in DOMAIN checks : ~checks[code]
    <2> HIDE DEF checks
    <2> QED  BY <1>5, NothingApplies, Zenon
<1>7. "ConditionFundingMismatch" \in DOMAIN checks /\ "ThresholdOutOfRange" \in DOMAIN checks
    OBVIOUS
<1>8. ~checks["ConditionFundingMismatch"] /\ ~checks["ThresholdOutOfRange"]
    <2> HIDE DEF checks
    <2> QED  BY <1>6, <1>7, Zenon
<1>9. condition.threshold = funding.threshold
    BY <1>8, Zenon
<1>10. condition.threshold \in 1 .. MAX_THRESHOLD_BPS
    BY <1>8, Zenon
<1>11. condition.threshold \in Nat
    BY <1>10, StalenessAssumption
<1> QED  BY <1>2, <1>4, <1>9, <1>11

\* No deadline has passed for a slot and a time without findings.
LEMMA ClocksAreRight ==
    ASSUME NEW funding, NEW rule, NEW at \in Nat, NEW reported \in Nat,
           funding.expires \in Nat, rule.expires \in Nat,
           ClockFindings(funding, rule, at, reported) = {}
    PROVE  at < funding.expires /\ reported < rule.expires
<1> DEFINE checks ==
       [WallClockExpired         |-> at >= funding.expires,
        SlotExpired              |-> reported # NULL /\ reported >= rule.expires,
        ConfirmedSlotUnavailable |-> reported = NULL]
<1>1. Applying(checks) = {}
    BY Zenon DEF ClockFindings
<1>2. \A code \in DOMAIN checks : ~checks[code]
    <2> HIDE DEF checks
    <2> QED  BY <1>1, NothingApplies, Zenon
<1>3. "WallClockExpired" \in DOMAIN checks /\ "SlotExpired" \in DOMAIN checks
    OBVIOUS
<1>4. ~checks["WallClockExpired"] /\ ~checks["SlotExpired"]
    <2> HIDE DEF checks
    <2> QED  BY <1>2, <1>3, Zenon
<1>5. ~(at >= funding.expires)
    BY <1>4, Zenon
<1>6. ~(reported # NULL /\ reported >= rule.expires)
    BY <1>4, Zenon
<1> QED  BY <1>5, <1>6, ErrorAssumption

\* A reserve and an obligation that pass are those of the action.
LEMMA IdentityIsRight ==
    ASSUME NEW action, NEW wallet, NEW facts, IdentityFindings(action, wallet, facts) = {}
    PROVE  /\ facts.reserve.address = action.reserve
           /\ facts.obligation.address = action.obligation
           /\ facts.obligation.authority = wallet
<1> DEFINE checks ==
       [ReserveIdentityMismatch |->
            \/ facts.reserve.address # action.reserve
            \/ facts.reserve.owner # action.program
            \/ facts.reserve.market # action.market
            \/ facts.reserve.mint # action.mint,
        UnsupportedMintDecimals |->
            facts.reserve.decimals # REQUIRED_LIQUIDITY_MINT_DECIMALS,
        ObligationIdentityMismatch |->
            \/ facts.obligation.address # action.obligation
            \/ facts.obligation.owner # action.program
            \/ facts.obligation.market # action.market
            \/ facts.obligation.authority # wallet]
<1>1. Applying(checks) = {}
    BY Zenon DEF IdentityFindings
<1>2. \A code \in DOMAIN checks : ~checks[code]
    <2> HIDE DEF checks
    <2> QED  BY <1>1, NothingApplies, Zenon
<1>3. "ReserveIdentityMismatch" \in DOMAIN checks /\ "ObligationIdentityMismatch" \in DOMAIN checks
    OBVIOUS
<1>4. ~checks["ReserveIdentityMismatch"] /\ ~checks["ObligationIdentityMismatch"]
    <2> HIDE DEF checks
    <2> QED  BY <1>2, <1>3, Zenon
<1>5. facts.reserve.address = action.reserve
    BY <1>4, Zenon
<1>6. facts.obligation.address = action.obligation /\ facts.obligation.authority = wallet
    BY <1>4, Zenon
<1> QED  BY <1>5, <1>6

\* A source account that passes is the wallet's own, with enough in it.
LEMMA SourceIsRight ==
    ASSUME NEW funding, NEW action, NEW wallet, NEW source,
           SourceFindings(funding, action, wallet, source) = {}
    PROVE  /\ source # NULL /\ source.address = Ata(wallet, action.mint)
           /\ source.authority = wallet
           /\ ~(source.amount < action.amount)
<1> DEFINE ata == Ata(wallet, action.mint)
           checks ==
       [SourceAtaMismatch |-> ata # funding.ata \/ (source # NULL /\ source.address # ata),
        UnsupportedTokenProgram   |-> token_program # classic_token_program,
        AccountMissing            |-> source = NULL,
        SourceTokenMismatch       |->
            source # NULL /\ ~TokenIsUsable(source, action.mint, wallet),
        SourceBalanceInsufficient |->
            source # NULL /\ source.amount < action.amount]
<1>1. Applying(checks) = {}
    BY Zenon DEF SourceFindings
<1>2. \A code \in DOMAIN checks : ~checks[code]
    <2> HIDE DEF checks
    <2> QED  BY <1>1, NothingApplies, Zenon
<1>3. /\ "SourceAtaMismatch" \in DOMAIN checks /\ "AccountMissing" \in DOMAIN checks
      /\ "SourceTokenMismatch" \in DOMAIN checks
      /\ "SourceBalanceInsufficient" \in DOMAIN checks
    OBVIOUS
<1>4. /\ ~checks["SourceAtaMismatch"] /\ ~checks["AccountMissing"]
      /\ ~checks["SourceTokenMismatch"] /\ ~checks["SourceBalanceInsufficient"]
    <2> HIDE DEF checks
    <2> QED  BY <1>2, <1>3, Zenon
<1>5. source # NULL
    BY <1>4, Zenon
<1>6. source.address = ata
    BY <1>4, <1>5, Zenon
<1>7. TokenIsUsable(source, action.mint, wallet)
    BY <1>4, <1>5, Zenon
<1>8. ~(source.amount < action.amount)
    BY <1>4, <1>5, Zenon
<1>9. source.authority = wallet
    BY <1>7, Zenon DEF TokenIsUsable
<1> QED  BY <1>5, <1>6, <1>8, <1>9, Zenon

\* A collateral account that passes is the wallet's own.
LEMMA CollateralIsRight ==
    ASSUME NEW reserve, NEW wallet, NEW collateral,
           CollateralFindings(reserve, wallet, collateral) = {}
    PROVE  collateral.address = Ata(wallet, reserve.collateralMint)
<1> DEFINE mint == reserve.collateralMint
           checks ==
       [AtaMissing              |-> collateral = NULL,
        CollateralAtaMismatch   |->
            collateral # NULL /\ collateral.address # Ata(wallet, mint),
        CollateralTokenMismatch |->
            collateral # NULL /\ ~TokenIsUsable(collateral, mint, wallet)]
<1>1. Applying(checks) = {}
    BY Zenon DEF CollateralFindings
<1>2. \A code \in DOMAIN checks : ~checks[code]
    <2> HIDE DEF checks
    <2> QED  BY <1>1, NothingApplies, Zenon
<1>3. "AtaMissing" \in DOMAIN checks /\ "CollateralAtaMismatch" \in DOMAIN checks
    OBVIOUS
<1>4. ~checks["AtaMissing"] /\ ~checks["CollateralAtaMismatch"]
    <2> HIDE DEF checks
    <2> QED  BY <1>2, <1>3, Zenon
<1>5. collateral # NULL
    BY <1>4, Zenon
<1> QED  BY <1>4, <1>5, Zenon

\* A reserve without findings was refreshed within the bound.
LEMMA ReserveIsFresh ==
    ASSUME NEW reserve, NEW reported \in Nat, reserve.updated \in Nat,
           FreshnessFindings(reserve, reported) = {}
    PROVE  reported <= reserve.updated + MAX_STALENESS
<1> DEFINE checks ==
       [ReserveSlotAhead       |-> reserve.updated > reported,
        ReserveExplicitlyStale |-> reserve.stale,
        ReserveTooOld          |->
            reserve.updated <= reported /\ reported - reserve.updated > MAX_STALENESS]
<1>1. Applying(checks) = {}
    BY Zenon DEF FreshnessFindings
<1>2. \A code \in DOMAIN checks : ~checks[code]
    <2> HIDE DEF checks
    <2> QED  BY <1>1, NothingApplies, Zenon
<1>3. "ReserveSlotAhead" \in DOMAIN checks /\ "ReserveTooOld" \in DOMAIN checks
    OBVIOUS
<1>4. ~checks["ReserveSlotAhead"] /\ ~checks["ReserveTooOld"]
    <2> HIDE DEF checks
    <2> QED  BY <1>2, <1>3, Zenon
<1>5. ~(reserve.updated > reported)
    BY <1>4, Zenon
<1>6. ~(reserve.updated <= reported /\ reported - reserve.updated > MAX_STALENESS)
    BY <1>4, Zenon
<1>7. MAX_STALENESS \in Nat
    BY StalenessAssumption
<1> QED  BY <1>5, <1>6, <1>7

\* A chain without findings has none of any kind, and meets the condition.
LEMMA ChainIsRight ==
    ASSUME NEW funding, NEW rule, NEW facts, NEW at, NEW reported,
           validate_chain(funding, rule, facts, at, reported) = {}
    PROVE  LET action    == ActionOf(rule)
               condition == supported_condition(rule)
           IN  /\ ClockFindings(funding, rule, at, reported) = {}
               /\ IdentityFindings(action, rule.delegated, facts) = {}
               /\ SourceFindings(funding, action, rule.delegated, facts.source) = {}
               /\ CollateralFindings(facts.reserve, rule.delegated, facts.collateral) = {}
               /\ FreshnessFindings(facts.reserve, reported) = {}
               /\ compare_wad(facts.rate, condition.comparison, condition.threshold)
<1> DEFINE action == ActionOf(rule)
           condition == supported_condition(rule)
           a == ClockFindings(funding, rule, at, reported)
           b == IdentityFindings(action, rule.delegated, facts)
           c == SourceFindings(funding, action, rule.delegated, facts.source)
           d == CollateralFindings(facts.reserve, rule.delegated, facts.collateral)
           e == FreshnessFindings(facts.reserve, reported)
           other == UNION {a, b, c, d, e}
           met == compare_wad(facts.rate, condition.comparison, condition.threshold)
<1>1. validate_chain(funding, rule, facts, at, reported) =
          IF other \cap Disqualifying = {} /\ ~met
          THEN other \cup {"ConditionNotMet"} ELSE other
    BY Zenon DEF validate_chain
<1> HIDE DEF a, b, c, d, e, met
<1>2. "ConditionNotMet" \in other \cup {"ConditionNotMet"}
    OBVIOUS
<1>3. other = {} /\ ~(other \cap Disqualifying = {} /\ ~met)
    <2> HIDE DEF other
    <2>1. CASE other \cap Disqualifying = {} /\ ~met
        BY <1>1, <1>2, <2>1
    <2>2. CASE ~(other \cap Disqualifying = {} /\ ~met)
        BY <1>1, <2>2
    <2> QED  BY <2>1, <2>2
<1>4. a = {} /\ b = {} /\ c = {} /\ d = {} /\ e = {}
    BY <1>3
<1>5. met
    <2> HIDE DEF other
    <2>1. other \cap Disqualifying = {}
        BY <1>3
    <2> QED  BY <1>3, <2>1, Zenon
<1> QED  BY <1>4, <1>5, Zenon DEF a, b, c, d, e, met

-----------------------------------------------------------------------------
(* The classes of findings. *)

\* The codes that a class stands for.
Codes == UNION {Classes[i].of : i \in DOMAIN Classes}

\* No class of findings is named Ready.
LEMMA EighteenClasses ==
    /\ DOMAIN Classes = 1 .. 18
    /\ \A i \in 1 .. 18 : Classes[i].class # "Ready"
<1>1. DOMAIN Classes = 1 .. 18
    BY DEF Classes
<1>2. ASSUME NEW i \in 1 .. 18 PROVE Classes[i].class # "Ready"
    <2>1. \/ i = 1 \/ i = 2 \/ i = 3 \/ i = 4 \/ i = 5 \/ i = 6 \/ i = 7 \/ i = 8 \/ i = 9
          \/ i = 10 \/ i = 11 \/ i = 12 \/ i = 13 \/ i = 14 \/ i = 15 \/ i = 16 \/ i = 17
          \/ i = 18
        OBVIOUS
    <2> QED  BY <2>1 DEF Classes
<1> QED  BY <1>1, <1>2

\* A report of findings, all of known codes, is never Ready.
LEMMA FindingsAreClassified ==
    ASSUME NEW findings, findings # {}, findings \subseteq Codes
    PROVE  primary_classification(findings) # "Ready"
<1> DEFINE found == {i \in DOMAIN Classes : findings \cap Classes[i].of # {}}
           first == CHOOSE i \in found : \A j \in found : i <= j
<1>1. found # {}
    <2>1. PICK code \in findings : code \in Codes
        OBVIOUS
    <2>2. PICK i \in DOMAIN Classes : code \in Classes[i].of
        BY <2>1 DEF Codes
    <2>3. i \in found
        BY <2>1, <2>2
    <2> QED  BY <2>3
<1>2. found \subseteq 1 .. 18
    BY EighteenClasses
<1> HIDE DEF found
<1>3. first \in found
    <2>1. found \subseteq Nat
        BY <1>2
    <2>2. \E i \in found : \A j \in found : i <= j
        BY <1>1, <2>1, Least
    <2> QED  BY <2>2
<1>4. primary_classification(findings) = Classes[first].class
    BY <1>1 DEF primary_classification, found
<1> HIDE DEF first
<1> QED  BY <1>2, <1>3, <1>4, EighteenClasses

\* A report without findings is Ready.
LEMMA NoFindingsAreReady ==
    primary_classification({}) = "Ready"
BY DEF primary_classification

\* What applies is among the codes of its table.
LEMMA ApplyingCodes ==
    ASSUME NEW checks
    PROVE  Applying(checks) \subseteq DOMAIN checks
BY Zenon DEF Applying

PreflightCodes ==
    {"UnsupportedAction", "UnsupportedSchemaVersion", "MultiUseRule", "UsedAmountNonZero",
     "ThresholdOutOfRange", "ControlledWalletEnvelopeMismatch", "UnsupportedSolendProgram",
     "UnsupportedInputMint", "UnsupportedConditionShape", "UnsupportedFormulaVersion",
     "UnsupportedRateKind", "RefreshNotRequired", "CanonicalHashMismatch", "RuleIdMismatch",
     "ConditionActionMismatch", "ConditionFundingMismatch", "ControlledWalletMismatch",
     "AmountMismatch", "AmountZero", "WallClockExpired", "SlotExpired",
     "ConfirmedSlotUnavailable"}

ChainCodes ==
    {"WallClockExpired", "SlotExpired", "ConfirmedSlotUnavailable",
     "ReserveExplicitlyStale", "ReserveSlotAhead", "ReserveTooOld", "AtaMissing",
     "AccountMissing", "ReserveIdentityMismatch", "ObligationIdentityMismatch",
     "SourceAtaMismatch", "SourceTokenMismatch", "CollateralAtaMismatch",
     "CollateralTokenMismatch", "UnsupportedMintDecimals", "UnsupportedTokenProgram",
     "SourceBalanceInsufficient", "ConditionNotMet"}

\* Every code that a check returns has a class.
LEMMA CodesAreClassified ==
    PreflightCodes \subseteq Codes /\ ChainCodes \subseteq Codes
<1>1. ASSUME NEW i \in 1 .. 18 PROVE Classes[i].of \subseteq Codes
    BY EighteenClasses DEF Codes
<1>2. /\ Classes[4].of = {"UnsupportedAction"}
      /\ Classes[5].of = {"UnsupportedSchemaVersion", "MultiUseRule", "UsedAmountNonZero",
               "ThresholdOutOfRange", "ControlledWalletEnvelopeMismatch",
               "UnsupportedSolendProgram", "UnsupportedInputMint"}
      /\ Classes[6].of = {"UnsupportedConditionShape", "UnsupportedFormulaVersion",
               "UnsupportedRateKind", "RefreshNotRequired"}
      /\ Classes[7].of = {"CanonicalHashMismatch"}
      /\ Classes[8].of = {"RuleIdMismatch", "ConditionActionMismatch",
               "ConditionFundingMismatch", "ControlledWalletMismatch"}
      /\ Classes[9].of = {"AmountMismatch", "AmountZero"}
      /\ Classes[10].of = {"WallClockExpired"} /\ Classes[11].of = {"SlotExpired"}
      /\ Classes[12].of = {"ConfirmedSlotUnavailable"}
    BY DEF Classes
<1>3. /\ Classes[13].of = {"ReserveExplicitlyStale", "ReserveSlotAhead", "ReserveTooOld"}
      /\ Classes[14].of = {"AtaMissing"} /\ Classes[15].of = {"AccountMissing"}
      /\ Classes[16].of = {"ReserveIdentityMismatch", "ObligationIdentityMismatch",
               "SourceAtaMismatch", "SourceTokenMismatch", "CollateralAtaMismatch",
               "CollateralTokenMismatch", "UnsupportedMintDecimals",
               "UnsupportedTokenProgram"}
      /\ Classes[17].of = {"SourceBalanceInsufficient"}
      /\ Classes[18].of = {"ConditionNotMet"}
    BY DEF Classes
<1>4. /\ Classes[4].of \subseteq Codes /\ Classes[5].of \subseteq Codes
      /\ Classes[6].of \subseteq Codes /\ Classes[7].of \subseteq Codes
      /\ Classes[8].of \subseteq Codes /\ Classes[9].of \subseteq Codes
      /\ Classes[10].of \subseteq Codes /\ Classes[11].of \subseteq Codes
      /\ Classes[12].of \subseteq Codes /\ Classes[13].of \subseteq Codes
      /\ Classes[14].of \subseteq Codes /\ Classes[15].of \subseteq Codes
      /\ Classes[16].of \subseteq Codes /\ Classes[17].of \subseteq Codes
      /\ Classes[18].of \subseteq Codes
    BY <1>1
<1>5. PreflightCodes \subseteq Codes
    BY <1>2, <1>4 DEF PreflightCodes
<1>6. ChainCodes \subseteq Codes
    BY <1>2, <1>3, <1>4 DEF ChainCodes
<1> QED  BY <1>5, <1>6

\* What the envelope's checks return.
LEMMA EnvelopeCodes ==
    ASSUME NEW funding, NEW rule
    PROVE  EnvelopeFindings(funding, rule) \subseteq PreflightCodes
<1> DEFINE checks ==
       [UnsupportedSchemaVersion |-> rule.schema # SCHEMA_V2,
        MultiUseRule             |-> ~rule.oneShot,
        UsedAmountNonZero        |-> rule.used # 0,
        ControlledWalletEnvelopeMismatch |->
            {rule.executor, rule.destination} # {rule.delegated},
        RuleIdMismatch           |-> {funding.intent, funding.rule} # {rule.id},
        CanonicalHashMismatch    |-> funding.hash # canonical_rule_hash(rule),
        ControlledWalletMismatch |-> funding.wallet # rule.delegated]
<1>1. EnvelopeFindings(funding, rule) = Applying(checks)
    BY Zenon DEF EnvelopeFindings
<1>2. DOMAIN checks \subseteq PreflightCodes
    BY DEF PreflightCodes
<1> HIDE DEF checks
<1> QED  BY <1>1, <1>2, ApplyingCodes

\* What the action's checks return.
LEMMA ActionCodes ==
    ASSUME NEW funding, NEW rule
    PROVE  ActionFindings(funding, rule) \subseteq PreflightCodes
<1> DEFINE action == ActionOf(rule)
           checks ==
       [AmountMismatch |-> {action.amount, funding.amount} # {rule.max},
        AmountZero     |-> 0 \in {action.amount, rule.max, funding.amount},
        UnsupportedSolendProgram |-> action.program # audited_solend_program,
        UnsupportedInputMint     |-> action.mint # usdc_mint]
<1>1. ActionFindings(funding, rule) =
          IF action = NULL THEN {"UnsupportedAction"} ELSE Applying(checks)
    BY Zenon DEF ActionFindings
<1>2. DOMAIN checks \subseteq PreflightCodes /\ "UnsupportedAction" \in PreflightCodes
    BY DEF PreflightCodes
<1> HIDE DEF checks
<1> QED  BY <1>1, <1>2, ApplyingCodes

\* What the deadlines' checks return.
LEMMA ClockCodes ==
    ASSUME NEW funding, NEW rule, NEW at, NEW reported
    PROVE  /\ ClockFindings(funding, rule, at, reported) \subseteq PreflightCodes
           /\ ClockFindings(funding, rule, at, reported) \subseteq ChainCodes
<1> DEFINE checks ==
       [WallClockExpired         |-> at >= funding.expires,
        SlotExpired              |-> reported # NULL /\ reported >= rule.expires,
        ConfirmedSlotUnavailable |-> reported = NULL]
<1>1. ClockFindings(funding, rule, at, reported) = Applying(checks)
    BY Zenon DEF ClockFindings
<1>2. DOMAIN checks \subseteq PreflightCodes /\ DOMAIN checks \subseteq ChainCodes
    BY DEF PreflightCodes, ChainCodes
<1> HIDE DEF checks
<1> QED  BY <1>1, <1>2, ApplyingCodes

\* What the condition's checks return.
LEMMA ConditionCodes ==
    ASSUME NEW funding, NEW rule
    PROVE  ConditionFindings(funding, rule) \subseteq PreflightCodes
<1> DEFINE action    == ActionOf(rule)
           condition == rule.conditions[1]
           supported == supported_condition(rule)
           shape     == [ConditionActionMismatch |->
                           \/ condition.reserve # action.reserve
                           \/ condition.market # action.market
                           \/ condition.program # action.program,
                       UnsupportedRateKind       |-> condition.rateKind # "Apr",
                       UnsupportedFormulaVersion |->
                           condition.formula # SUPPORTED_FORMULA_VERSION,
                       UnsupportedConditionShape |-> condition.staleness # MAX_STALENESS,
                       RefreshNotRequired        |-> ~condition.refresh]
           checks    == [ConditionFundingMismatch |-> supported.threshold # funding.threshold,
                         ThresholdOutOfRange |->
                             supported.threshold \notin 1 .. MAX_THRESHOLD_BPS]
<1>1. ConditionShapeFindings(rule) \in {{}, {"UnsupportedConditionShape"}, Applying(shape)}
    <2>1. \/ ConditionShapeFindings(rule) = {}
          \/ ConditionShapeFindings(rule) = {"UnsupportedConditionShape"}
          \/ ConditionShapeFindings(rule) = Applying(shape)
        BY Zenon DEF ConditionShapeFindings
    <2> HIDE DEF shape
    <2> QED  BY <2>1
<1>2. \/ ConditionFindings(funding, rule) = ConditionShapeFindings(rule)
      \/ ConditionFindings(funding, rule) = Applying(checks)
    BY Zenon DEF ConditionFindings
<1>3. /\ DOMAIN shape \subseteq PreflightCodes /\ DOMAIN checks \subseteq PreflightCodes
      /\ "UnsupportedConditionShape" \in PreflightCodes
    BY DEF PreflightCodes
<1> HIDE DEF shape, checks
<1>4. Applying(shape) \subseteq PreflightCodes /\ Applying(checks) \subseteq PreflightCodes
    BY <1>3, ApplyingCodes
<1> QED  BY <1>1, <1>2, <1>3, <1>4

\* Preflight finds what its four parts find.
LEMMA PreflightParts ==
    ASSUME NEW funding, NEW rule, NEW at, NEW reported, funding # NULL, rule # NULL
    PROVE  preflight_candidate(funding, rule, at, reported) =
              UNION {EnvelopeFindings(funding, rule), ActionFindings(funding, rule),
                     ClockFindings(funding, rule, at, reported),
                     ConditionFindings(funding, rule)}
BY Zenon DEF preflight_candidate

\* All that preflight returns has a class.
LEMMA PreflightFindsCodes ==
    ASSUME NEW funding, NEW rule, NEW at, NEW reported, funding # NULL, rule # NULL
    PROVE  preflight_candidate(funding, rule, at, reported) \subseteq Codes
BY PreflightParts, EnvelopeCodes, ActionCodes, ClockCodes, ConditionCodes, CodesAreClassified

\* What the checks of the accounts' identities return.
LEMMA IdentityCodes ==
    ASSUME NEW action, NEW wallet, NEW facts
    PROVE  IdentityFindings(action, wallet, facts) \subseteq ChainCodes
<1> DEFINE checks ==
       [ReserveIdentityMismatch |->
            \/ facts.reserve.address # action.reserve
            \/ facts.reserve.owner # action.program
            \/ facts.reserve.market # action.market
            \/ facts.reserve.mint # action.mint,
        UnsupportedMintDecimals |->
            facts.reserve.decimals # REQUIRED_LIQUIDITY_MINT_DECIMALS,
        ObligationIdentityMismatch |->
            \/ facts.obligation.address # action.obligation
            \/ facts.obligation.owner # action.program
            \/ facts.obligation.market # action.market
            \/ facts.obligation.authority # wallet]
<1>1. IdentityFindings(action, wallet, facts) = Applying(checks)
    BY Zenon DEF IdentityFindings
<1>2. DOMAIN checks \subseteq ChainCodes
    BY DEF ChainCodes
<1> HIDE DEF checks
<1> QED  BY <1>1, <1>2, ApplyingCodes

\* What the checks of the token accounts return.
LEMMA TokenCodes ==
    ASSUME NEW funding, NEW action, NEW wallet, NEW source, NEW reserve, NEW collateral
    PROVE  /\ SourceFindings(funding, action, wallet, source) \subseteq ChainCodes
           /\ CollateralFindings(reserve, wallet, collateral) \subseteq ChainCodes
<1> DEFINE ata == Ata(wallet, action.mint)
           mint == reserve.collateralMint
           from ==
       [SourceAtaMismatch |-> ata # funding.ata \/ (source # NULL /\ source.address # ata),
        UnsupportedTokenProgram   |-> token_program # classic_token_program,
        AccountMissing            |-> source = NULL,
        SourceTokenMismatch       |->
            source # NULL /\ ~TokenIsUsable(source, action.mint, wallet),
        SourceBalanceInsufficient |->
            source # NULL /\ source.amount < action.amount]
           to ==
       [AtaMissing              |-> collateral = NULL,
        CollateralAtaMismatch   |->
            collateral # NULL /\ collateral.address # Ata(wallet, mint),
        CollateralTokenMismatch |->
            collateral # NULL /\ ~TokenIsUsable(collateral, mint, wallet)]
<1>1. SourceFindings(funding, action, wallet, source) = Applying(from)
    BY Zenon DEF SourceFindings
<1>2. CollateralFindings(reserve, wallet, collateral) = Applying(to)
    BY Zenon DEF CollateralFindings
<1>3. DOMAIN from \subseteq ChainCodes /\ DOMAIN to \subseteq ChainCodes
    BY DEF ChainCodes
<1> HIDE DEF from, to
<1> QED  BY <1>1, <1>2, <1>3, ApplyingCodes

\* What the checks of the reserve's age return.
LEMMA FreshnessCodes ==
    ASSUME NEW reserve, NEW reported
    PROVE  FreshnessFindings(reserve, reported) \subseteq ChainCodes
<1> DEFINE checks ==
       [ReserveSlotAhead       |-> reserve.updated > reported,
        ReserveExplicitlyStale |-> reserve.stale,
        ReserveTooOld          |->
            reserve.updated <= reported /\ reported - reserve.updated > MAX_STALENESS]
<1>1. FreshnessFindings(reserve, reported) = Applying(checks)
    BY Zenon DEF FreshnessFindings
<1>2. DOMAIN checks \subseteq ChainCodes
    BY DEF ChainCodes
<1> HIDE DEF checks
<1> QED  BY <1>1, <1>2, ApplyingCodes

\* All that validate_chain returns has a class.
LEMMA ChainFindsCodes ==
    ASSUME NEW funding, NEW rule, NEW facts, NEW at, NEW reported
    PROVE  validate_chain(funding, rule, facts, at, reported) \subseteq Codes
<1> DEFINE found == validate_chain(funding, rule, facts, at, reported)
           action == ActionOf(rule)
           a == ClockFindings(funding, rule, at, reported)
           b == IdentityFindings(action, rule.delegated, facts)
           c == SourceFindings(funding, action, rule.delegated, facts.source)
           d == CollateralFindings(facts.reserve, rule.delegated, facts.collateral)
           e == FreshnessFindings(facts.reserve, reported)
           other == UNION {a, b, c, d, e}
<1>1. found = other \/ found = other \cup {"ConditionNotMet"}
    BY Zenon DEF validate_chain
<1>2. /\ a \subseteq ChainCodes /\ b \subseteq ChainCodes /\ c \subseteq ChainCodes
      /\ d \subseteq ChainCodes /\ e \subseteq ChainCodes
    BY ClockCodes, IdentityCodes, TokenCodes, FreshnessCodes
<1>3. "ConditionNotMet" \in ChainCodes
    BY DEF ChainCodes
<1> HIDE DEF found, a, b, c, d, e
<1>4. other \subseteq ChainCodes
    BY <1>2
<1> HIDE DEF other
<1>5. found \subseteq Codes
    BY <1>1, <1>3, <1>4, CodesAreClassified
<1> QED  BY <1>5 DEF found

\* A reserve that is observed keeps its numbers.
LEMMA ObservedIsSnapshot ==
    ASSUME NEW reserve, ReserveRateSnapshot(reserve), NEW updated
    PROVE  /\ ReserveRateSnapshot(Observed(reserve, updated))
           /\ Observed(reserve, updated).updated = updated
<1> DEFINE o == Observed(reserve, updated)
<1>1. /\ DOMAIN o = DOMAIN reserve \cup {"updated"}
      /\ o.updated = updated
      /\ \A f \in DOMAIN reserve : f # "updated" => o[f] = reserve[f]
    BY DEF Observed
<1> HIDE DEF o
<1>2. /\ o.borrowed = reserve.borrowed /\ o.available = reserve.available
      /\ o.minRate = reserve.minRate /\ o.optimalRate = reserve.optimalRate
      /\ o.maxRate = reserve.maxRate /\ o.superMaxRate = reserve.superMaxRate
      /\ o.optimalUtilization = reserve.optimalUtilization
      /\ o.maxUtilization = reserve.maxUtilization /\ o.takeRate = reserve.takeRate
    BY <1>1 DEF ReserveRateSnapshot
<1>3. ReserveRateSnapshot(o)
    BY <1>1, <1>2 DEF ReserveRateSnapshot
<1> QED  BY <1>1, <1>3 DEF o

-----------------------------------------------------------------------------
(* The inductive invariant. *)

\* A candidate that preflight has passed, whatever the clocks were.
Preflighted(candidate) ==
    /\ candidate.funding.intent = candidate.funding.rule
    /\ candidate.rule # NULL
    /\ EnvelopeFindings(candidate.funding, candidate.rule) = {}
    /\ ActionFindings(candidate.funding, candidate.rule) = {}
    /\ ConditionFindings(candidate.funding, candidate.rule) = {}

SourceOK(source) == source # NULL => source.amount \in Nat
ReserveOK(reserve) == ReserveRateSnapshot(reserve) /\ reserve.updated \in Nat

ClocksOK == slot \in Nat /\ now \in Nat

ChainOK ==
    /\ DOMAIN chain = {"reserve", "obligation", "source", "collateral"}
    /\ ReserveOK(chain.reserve)
    /\ SourceOK(chain.source)

InspectionTypeOK(i) ==
    /\ DOMAIN i = {"pc", "candidate", "facts", "findings", "status", "at"}
    /\ DOMAIN i.facts = {"reserve", "rate", "obligation", "source", "collateral"}
    /\ i.candidate \in Candidates
    /\ i.pc \in Steps \cup {"done"}

\* An inspection is in one of these steps, or ended well.
Past(i, steps) == i.pc \in steps \/ i.status = "ready"

\* What the inspection knows at each step.
Known(i) ==
    /\ i.pc # "done" => i.status = NULL
    /\ Past(i, Steps \ {"rows"}) => Preflighted(i.candidate)
    /\ Past(i, {"obligation", "source", "collateral", "validate"}) =>
          /\ ReserveOK(i.facts.reserve)
          /\ i.facts.rate # NULL
          /\ i.facts.rate = native_supply_apr_from_reserve_data(i.facts.reserve)
    /\ Past(i, {"collateral", "validate"}) => SourceOK(i.facts.source)

Reported(i) ==
    /\ i.status = "blocked" => i.findings # {} /\ i.findings \subseteq Codes
    /\ i.status = "ready" =>
          /\ i.findings = {}
          /\ i.at.slot \in Nat /\ i.at.now \in Nat
          /\ \E reported \in 0 .. i.at.slot :
                /\ i.at.slot <= reported + Lag
                /\ validate_chain(i.candidate.funding, i.candidate.rule, i.facts,
                                  i.at.now, reported) = {}

InspOK(i) == InspectionTypeOK(i) /\ Known(i) /\ Reported(i)

InspectionInv == ClocksOK /\ ChainOK /\ InspOK(insp)

\* An inspection begins in the invariant.
LEMMA InitInspection == InspectionInit => InspectionInv
<1> SUFFICES ASSUME InspectionInit PROVE InspectionInv
    OBVIOUS
<1>1. PICK accounts \in Chains :
         chain = [accounts EXCEPT !.reserve = Observed(accounts.reserve, 0)]
    BY DEF InspectionInit
<1>2. PICK candidate \in Candidates : insp = [NoInspection EXCEPT !.candidate = candidate]
    BY DEF InspectionInit
<1>3. ClocksOK
    BY DEF InspectionInit, ClocksOK
<1>4. ChainOK
    <2>1. /\ DOMAIN accounts = {"reserve", "obligation", "source", "collateral"}
          /\ ReserveRateSnapshot(accounts.reserve)
          /\ SourceOK(accounts.source)
        BY AccountsAssumption DEF SourceOK
    <2>2. ReserveOK(Observed(accounts.reserve, 0))
        BY <2>1, ObservedIsSnapshot DEF ReserveOK
    <2>3. /\ DOMAIN chain = DOMAIN accounts
          /\ chain.reserve = Observed(accounts.reserve, 0)
          /\ chain.source = accounts.source
        BY <1>1, <2>1
    <2> QED  BY <2>1, <2>2, <2>3 DEF ChainOK
<1>5. /\ DOMAIN insp = {"pc", "candidate", "facts", "findings", "status", "at"}
      /\ DOMAIN insp.facts = {"reserve", "rate", "obligation", "source", "collateral"}
      /\ insp.candidate = candidate /\ insp.pc = "rows" /\ insp.status = NULL
    BY <1>2 DEF NoInspection, NoFacts
<1>6. InspectionTypeOK(insp)
    BY <1>5 DEF InspectionTypeOK, Steps
<1>7. Known(insp) /\ Reported(insp)
    BY <1>5, StatusAssumption DEF Known, Reported, Past, Steps
<1> QED  BY <1>3, <1>4, <1>6, <1>7 DEF InspectionInv, InspOK

\* An inspection that ends keeps what it was about and what it read.
LEMMA Ended ==
    ASSUME InspectionInv, NEW status, NEW findings, End(status, findings)
    PROVE  /\ InspectionTypeOK(insp')
           /\ insp'.pc = "done" /\ insp'.status = status /\ insp'.findings = findings
           /\ insp'.candidate = insp.candidate /\ insp'.facts = insp.facts
           /\ insp'.at = [slot |-> slot, now |-> now]
<1>1. /\ DOMAIN insp = {"pc", "candidate", "facts", "findings", "status", "at"}
      /\ DOMAIN insp.facts = {"reserve", "rate", "obligation", "source", "collateral"}
      /\ insp.candidate \in Candidates
    BY DEF InspectionInv, InspOK, InspectionTypeOK
<1>2. insp' = [insp EXCEPT !.pc = "done", !.status = status, !.findings = findings,
                           !.at = [slot |-> slot, now |-> now]]
    BY DEF End
<1>3. /\ DOMAIN insp' = DOMAIN insp
      /\ insp'.pc = "done" /\ insp'.status = status /\ insp'.findings = findings
      /\ insp'.candidate = insp.candidate /\ insp'.facts = insp.facts
      /\ insp'.at = [slot |-> slot, now |-> now]
    BY <1>1, <1>2
<1> QED  BY <1>1, <1>3 DEF InspectionTypeOK

\* One that ends without a verdict says nothing.
LEMMA EndedWithout ==
    ASSUME InspectionInv, NEW status, NEW findings, End(status, findings),
           status \notin {"ready", "blocked"}
    PROVE  InspectionTypeOK(insp') /\ Known(insp') /\ Reported(insp')
<1>1. InspectionTypeOK(insp') /\ insp'.pc = "done" /\ insp'.status = status
    BY Ended
<1>2. Known(insp') /\ Reported(insp')
    BY <1>1 DEF Known, Reported, Past, Steps
<1> QED  BY <1>1, <1>2

\* The accounts change; what an inspection has read does not.
LEMMA AccountsChangeKeeps ==
    ASSUME InspectionInv, AccountsChange
    PROVE  InspectionInv'
<1>1. ClocksOK' /\ InspOK(insp)'
    BY DEF InspectionInv, AccountsChange, ClocksOK, InspOK, InspectionTypeOK, Known, Reported
<1>2. /\ DOMAIN chain = {"reserve", "obligation", "source", "collateral"}
      /\ ReserveOK(chain.reserve) /\ SourceOK(chain.source) /\ slot \in Nat
    BY DEF InspectionInv, InspOK, ChainOK, ClocksOK
<1>3. ASSUME NEW reserve \in Reserves, chain' = [chain EXCEPT !.reserve = Observed(reserve, slot)]
      PROVE  ChainOK'
    <2>1. ReserveOK(Observed(reserve, slot))
        BY <1>2, AccountsAssumption, ObservedIsSnapshot DEF ReserveOK
    <2>2. /\ DOMAIN chain' = DOMAIN chain /\ chain'.reserve = Observed(reserve, slot)
          /\ chain'.source = chain.source
        BY <1>2, <1>3
    <2> QED  BY <1>2, <2>1, <2>2 DEF ChainOK
<1>4. ASSUME NEW source \in Sources, chain' = [chain EXCEPT !.source = source]
      PROVE  ChainOK'
    <2>1. /\ DOMAIN chain' = DOMAIN chain /\ chain'.reserve = chain.reserve
          /\ chain'.source = source
        BY <1>2, <1>4
    <2>2. SourceOK(source)
        BY AccountsAssumption DEF SourceOK
    <2> QED  BY <1>2, <2>1, <2>2 DEF ChainOK
<1>5. ASSUME NEW collateral \in Collaterals, chain' = [chain EXCEPT !.collateral = collateral]
      PROVE  ChainOK'
    <2>1. /\ DOMAIN chain' = DOMAIN chain /\ chain'.reserve = chain.reserve
          /\ chain'.source = chain.source
        BY <1>2, <1>5
    <2> QED  BY <1>2, <2>1 DEF ChainOK
<1>6. ChainOK'
    BY <1>3, <1>4, <1>5 DEF AccountsChange
<1> QED  BY <1>1, <1>6 DEF InspectionInv, InspOK

\* A step of the inspection leaves the clocks and the accounts alone.
LEMMA ReadKeeps ==
    ASSUME InspectionInv, NEW pc, Read(pc)
    PROVE  ClocksOK' /\ ChainOK' /\ insp.pc = pc
BY DEF InspectionInv, InspOK, Read, ClocksOK, ChainOK

\* The preflight: a row goes on to the chain only without findings.
LEMMA PreflightKeeps ==
    ASSUME InspectionInv, NEW reported, inspect_funding_candidate(reported)
    PROVE  InspOK(insp')
<1> DEFINE funding == insp.candidate.funding
           rule    == insp.candidate.rule
           found   == preflight_candidate(funding, rule, now, reported)
<1>1. insp.pc = "rows" /\ insp.candidate \in Candidates /\ insp.status = NULL
    BY DEF inspect_funding_candidate, Read, InspectionInv, InspOK, InspectionTypeOK, Known
<1>2. funding # NULL
    BY <1>1, CandidatesAssumption
<1>3. \/ End("identity_mismatch", {})
      \/ End("orphan_funding_only", {})
      \/ End("ineligible_rule_lifecycle", {})
      \/ rule # NULL /\ found # {} /\ End("blocked", found)
      \/ /\ funding.intent = funding.rule /\ rule # NULL /\ found = {}
         /\ insp' = [insp EXCEPT !.pc = "reserve"]
    BY Zenon DEF inspect_funding_candidate
<1>4. ASSUME End("identity_mismatch", {}) \/ End("orphan_funding_only", {})
             \/ End("ineligible_rule_lifecycle", {})
      PROVE  InspOK(insp')
    <2>1. PICK status \in {"identity_mismatch", "orphan_funding_only", "ineligible_rule_lifecycle"} :
              End(status, {})
        BY <1>4
    <2>2. status \notin {"ready", "blocked"}
        OBVIOUS
    <2> QED  BY <2>1, <2>2, EndedWithout DEF InspOK
<1>5. ASSUME rule # NULL, found # {}, End("blocked", found)
      PROVE  InspOK(insp')
    <2>1. found \subseteq Codes
        BY <1>2, <1>5, PreflightFindsCodes
    <2> HIDE DEF found
    <2>2. /\ InspectionTypeOK(insp') /\ insp'.pc = "done" /\ insp'.status = "blocked"
          /\ insp'.findings = found
        BY <1>5, Ended
    <2>3. Known(insp') /\ Reported(insp')
        BY <1>5, <2>1, <2>2 DEF Known, Reported, Past, Steps
    <2> QED  BY <2>2, <2>3 DEF InspOK
<1>6. ASSUME funding.intent = funding.rule, rule # NULL, found = {},
             insp' = [insp EXCEPT !.pc = "reserve"]
      PROVE  InspOK(insp')
    <2>1. Preflighted(insp.candidate)
        <3>1. /\ EnvelopeFindings(funding, rule) = {} /\ ActionFindings(funding, rule) = {}
              /\ ConditionFindings(funding, rule) = {}
            BY <1>2, <1>6, PreflightParts
        <3> QED  BY <1>6, <3>1 DEF Preflighted
    <2>2. DOMAIN insp = {"pc", "candidate", "facts", "findings", "status", "at"}
        BY DEF InspectionInv, InspOK, InspectionTypeOK
    <2>3. /\ DOMAIN insp' = DOMAIN insp /\ insp'.pc = "reserve" /\ insp'.status = NULL
          /\ insp'.candidate = insp.candidate /\ insp'.facts = insp.facts
        BY <1>1, <1>6, <2>2
    <2>4. InspectionTypeOK(insp')
        BY <2>3 DEF InspectionInv, InspOK, InspectionTypeOK, Steps
    <2>5. Known(insp') /\ Reported(insp')
        BY <2>1, <2>3, StatusAssumption DEF Known, Reported, Past, Steps
    <2> QED  BY <2>4, <2>5 DEF InspOK
<1> QED  BY <1>3, <1>4, <1>5, <1>6

\* The reserve goes on with the rate of the very account that was read.
LEMMA ReadReserveKeeps ==
    ASSUME InspectionInv, ReadReserve
    PROVE  InspOK(insp')
<1> DEFINE rate == native_supply_apr_from_reserve_data(chain.reserve)
<1>1. /\ insp.pc = "reserve" /\ insp.status = NULL
      /\ Preflighted(insp.candidate) /\ ReserveOK(chain.reserve)
    BY DEF ReadReserve, Read, InspectionInv, InspOK, Known, Past, Steps, ChainOK
<1>2. \/ End("decode_error", {})
      \/ /\ rate # NULL
         /\ insp' = [insp EXCEPT !.pc = "obligation", !.facts.rate = rate,
                                 !.facts.reserve = chain.reserve]
    BY DEF ReadReserve
<1> HIDE DEF rate
<1>3. CASE End("decode_error", {})
    BY <1>3, EndedWithout DEF InspOK
<1>4. CASE /\ rate # NULL
           /\ insp' = [insp EXCEPT !.pc = "obligation", !.facts.rate = rate,
                                   !.facts.reserve = chain.reserve]
    <2>1. /\ DOMAIN insp = {"pc", "candidate", "facts", "findings", "status", "at"}
          /\ DOMAIN insp.facts = {"reserve", "rate", "obligation", "source", "collateral"}
        BY DEF InspectionInv, InspOK, InspectionTypeOK
    <2>2. /\ DOMAIN insp' = DOMAIN insp /\ insp'.pc = "obligation" /\ insp'.status = NULL
          /\ insp'.candidate = insp.candidate
          /\ DOMAIN insp'.facts = DOMAIN insp.facts
          /\ insp'.facts.rate = rate /\ insp'.facts.reserve = chain.reserve
        BY <1>1, <1>4, <2>1
    <2>3. InspectionTypeOK(insp')
        BY <2>2 DEF InspectionInv, InspOK, InspectionTypeOK, Steps
    <2>4. Known(insp') /\ Reported(insp')
        BY <1>1, <1>4, <2>2, StatusAssumption DEF Known, Reported, Past, Steps, rate
    <2> QED  BY <2>3, <2>4 DEF InspOK
<1> QED  BY <1>2, <1>3, <1>4

\* The other accounts are read one after the other.
LEMMA ReadFactKeeps ==
    ASSUME InspectionInv, NEW fact \in {"obligation", "source", "collateral"},
           NEW pc \in {"source", "collateral", "validate"},
           <<fact, pc>> \in {<<"obligation", "source">>, <<"source", "collateral">>,
                             <<"collateral", "validate">>},
           insp.pc = fact,
           insp' = [insp EXCEPT !.pc = pc, !.facts[fact] = chain[fact]]
    PROVE  InspOK(insp')
<1>1. /\ DOMAIN insp = {"pc", "candidate", "facts", "findings", "status", "at"}
      /\ DOMAIN insp.facts = {"reserve", "rate", "obligation", "source", "collateral"}
      /\ insp.candidate \in Candidates
    BY DEF InspectionInv, InspOK, InspectionTypeOK
<1>2. /\ insp.status = NULL /\ Preflighted(insp.candidate)
      /\ ReserveOK(insp.facts.reserve) /\ insp.facts.rate # NULL
      /\ insp.facts.rate = native_supply_apr_from_reserve_data(insp.facts.reserve)
      /\ fact = "collateral" => SourceOK(insp.facts.source)
    BY DEF InspectionInv, InspOK, Known, Past, Steps
<1>3. /\ DOMAIN insp' = DOMAIN insp /\ insp'.pc = pc /\ insp'.status = NULL
      /\ insp'.candidate = insp.candidate
      /\ DOMAIN insp'.facts = DOMAIN insp.facts
      /\ insp'.facts.rate = insp.facts.rate /\ insp'.facts.reserve = insp.facts.reserve
      /\ insp'.facts.source = IF fact = "source" THEN chain.source ELSE insp.facts.source
    BY <1>1, <1>2
<1>4. pc \in {"collateral", "validate"} => SourceOK(insp'.facts.source)
    BY <1>2, <1>3 DEF InspectionInv, InspOK, ChainOK
<1>5. InspectionTypeOK(insp')
    BY <1>1, <1>3 DEF InspectionTypeOK, Steps
<1>6. Known(insp') /\ Reported(insp')
    BY <1>2, <1>3, <1>4, StatusAssumption DEF Known, Reported, Past, Steps
<1> QED  BY <1>5, <1>6 DEF InspOK

\* The obligation.
LEMMA ReadObligationKeeps ==
    ASSUME InspectionInv, ReadObligation
    PROVE  InspOK(insp')
<1>1. \/ End("account_missing", {}) \/ End("decode_error", {})
      \/ insp' = [insp EXCEPT !.pc = "source", !.facts.obligation = chain.obligation]
    BY DEF ReadObligation
<1>2. CASE End("account_missing", {})
    BY <1>2, EndedWithout DEF InspOK
<1>3. CASE End("decode_error", {})
    BY <1>3, EndedWithout DEF InspOK
<1>4. CASE insp' = [insp EXCEPT !.pc = "source", !.facts.obligation = chain.obligation]
    BY <1>4, ReadFactKeeps DEF ReadObligation, Read
<1> QED  BY <1>1, <1>2, <1>3, <1>4

\* The verdict is that of clocks read after the accounts.
LEMMA ValidateKeeps ==
    ASSUME InspectionInv, NEW reported \in fetch_confirmed_slot, ValidateChain(reported)
    PROVE  InspOK(insp')
<1> DEFINE found == validate_chain(insp.candidate.funding, insp.candidate.rule,
                                   insp.facts, now, reported)
           status == IF found = {} THEN "ready" ELSE "blocked"
<1>1. insp.pc = "validate" /\ End(status, found)
    BY Zenon DEF ValidateChain, Read
<1>2. /\ Preflighted(insp.candidate)
      /\ ReserveOK(insp.facts.reserve) /\ insp.facts.rate # NULL
      /\ insp.facts.rate = native_supply_apr_from_reserve_data(insp.facts.reserve)
      /\ SourceOK(insp.facts.source)
      /\ slot \in Nat /\ now \in Nat
    BY <1>1 DEF InspectionInv, InspOK, Known, Past, Steps, ClocksOK
<1>3. reported \in 0 .. slot /\ slot <= reported + Lag
    BY DEF fetch_confirmed_slot
<1>4. found \subseteq Codes
    BY ChainFindsCodes
<1>5. found = {} => validate_chain(insp.candidate.funding, insp.candidate.rule, insp.facts,
                                   now, reported) = {}
    OBVIOUS
<1> HIDE DEF found
<1>6. /\ InspectionTypeOK(insp') /\ insp'.pc = "done" /\ insp'.status = status
      /\ insp'.findings = found /\ insp'.candidate = insp.candidate
      /\ insp'.facts = insp.facts /\ insp'.at = [slot |-> slot, now |-> now]
    BY <1>1, Ended
<1>7. insp'.at.slot = slot /\ insp'.at.now = now
    BY <1>6
<1>8. Known(insp')
    BY <1>2, <1>6 DEF Known
<1>9. Reported(insp')
    <2>1. CASE found = {}
        BY <1>2, <1>3, <1>5, <1>6, <1>7, <2>1 DEF Reported
    <2>2. CASE found # {}
        BY <1>4, <1>6, <2>2 DEF Reported
    <2> QED  BY <2>1, <2>2
<1> QED  BY <1>6, <1>8, <1>9 DEF InspOK

\* Every step keeps the invariant.
LEMMA NextInspection == InspectionInv /\ [InspectionNext]_inspectionVars => InspectionInv'
<1> SUFFICES ASSUME InspectionInv, [InspectionNext]_inspectionVars PROVE InspectionInv'
    OBVIOUS
<1>0. ASSUME ClocksOK', ChainOK', InspOK(insp') PROVE InspectionInv'
    BY <1>0 DEF InspectionInv, InspOK
<1>1. CASE NextSlot
    BY <1>1 DEF NextSlot, InspectionInv, InspOK, ClocksOK, ChainOK, InspectionTypeOK, Known, Reported
<1>2. CASE Tick
    BY <1>2 DEF Tick, InspectionInv, InspOK, ClocksOK, ChainOK, InspectionTypeOK, Known, Reported
<1>3. CASE AccountsChange
    BY <1>3, AccountsChangeKeeps
<1>4. CASE ReadFails
    <2>1. InspOK(insp')
        BY <1>4, EndedWithout DEF ReadFails, InspOK
    <2>2. ClocksOK' /\ ChainOK'
        BY <1>4, ReadKeeps DEF ReadFails
    <2> QED  BY <1>0, <2>1, <2>2
<1>5. ASSUME NEW reported \in (0 .. slot) \cup {NULL}, inspect_funding_candidate(reported)
      PROVE  InspectionInv'
    BY <1>0, <1>5, PreflightKeeps, ReadKeeps DEF inspect_funding_candidate
<1>6. CASE ReadReserve
    BY <1>0, <1>6, ReadReserveKeeps, ReadKeeps DEF ReadReserve
<1>7. CASE ReadObligation
    BY <1>0, <1>7, ReadObligationKeeps, ReadKeeps DEF ReadObligation
<1>8. CASE ReadSource
    <2>1. InspOK(insp')
        BY <1>8, ReadFactKeeps DEF ReadSource, Read
    <2> QED  BY <1>0, <1>8, <2>1, ReadKeeps DEF ReadSource
<1>9. CASE ReadCollateral
    <2>1. InspOK(insp')
        BY <1>9, ReadFactKeeps DEF ReadCollateral, Read
    <2> QED  BY <1>0, <1>9, <2>1, ReadKeeps DEF ReadCollateral
<1>10. ASSUME NEW reported \in fetch_confirmed_slot, ValidateChain(reported)
       PROVE  InspectionInv'
    BY <1>0, <1>10, ValidateKeeps, ReadKeeps DEF ValidateChain
<1>11. CASE UNCHANGED inspectionVars
    BY <1>11 DEF inspectionVars, InspectionInv, InspOK, ClocksOK, ChainOK, InspectionTypeOK, Known, Reported
<1> QED
    BY <1>1, <1>2, <1>3, <1>4, <1>5, <1>6, <1>7, <1>8, <1>9, <1>10, <1>11 DEF InspectionNext

\* At every step of an inspection, whatever the chain and the clocks did
\* between its reads, the candidate has passed preflight, the rate is that of
\* the reserve that was read, and a verdict is that of validate_chain with the
\* clocks of the end (inspect_candidate).
THEOREM InspectionInvariant == InspectionSpec => []InspectionInv
<1>1. InspectionInit => InspectionInv
    BY InitInspection
<1>2. InspectionInv /\ [InspectionNext]_inspectionVars => InspectionInv'
    BY NextInspection
<1> QED  BY <1>1, <1>2, PTL DEF InspectionSpec

\* The accounts hold reserves whose numbers are words, and that is enough.
LEMMA RateFromInvariant == InspectionInv => RateIsSound
<1> SUFFICES ASSUME InspectionInv PROVE RateIsSound
    OBVIOUS
<1> DEFINE reserve == chain.reserve
           apr  == native_supply_apr_from_reserve_data(reserve)
           rate == SupplyRate(reserve)
           max  == APR_BPS_SANITY_MAX * BPS_WAD
<1>1. ReserveRateSnapshot(reserve)
    BY DEF InspectionInv, InspOK, ChainOK, ReserveOK
<1>2. IF apr # NULL
      THEN /\ apr \in Nat /\ rate.n \in Nat /\ rate.d \in Nat \ {0}
           /\ apr * rate.d <= rate.n * W
      ELSE \/ ~reserve.decodes \/ ~is_reserve_config_valid(reserve)
           \/ reserve.available * W + reserve.borrowed >= U128
           \/ /\ rate.n \in Nat /\ rate.d \in Nat
              /\ max * rate.d <= rate.n * W
    BY <1>1, NativeSupplyAprIsSound
<1>3. W \in Nat /\ max \in Nat
    BY WadTypes, WadAssumption
<1> HIDE DEF rate, apr, max
<1>4. ASSUME NEW y \in Nat, rate.n \in Nat, rate.d \in Nat, y * rate.d <= rate.n * W
      PROVE  AtLeast(rate.n * W, rate.d, y, 1)
    <2>1. rate.n * W \in Nat /\ y * rate.d \in Nat
        BY <1>3, <1>4
    <2>2. (rate.n * W) * 1 = rate.n * W
        BY <2>1
    <2> QED  BY <1>4, <2>1, <2>2 DEF AtLeast
<1>5. IF apr # NULL THEN AtLeast(rate.n * W, rate.d, apr, 1)
      ELSE \/ ~reserve.decodes \/ ~is_reserve_config_valid(reserve)
           \/ reserve.available * W + reserve.borrowed >= U128
           \/ AtLeast(rate.n * W, rate.d, max, 1)
    <2>1. apr # NULL => AtLeast(rate.n * W, rate.d, apr, 1)
        BY <1>2, <1>4
    <2>2. rate.n \in Nat /\ rate.d \in Nat /\ max * rate.d <= rate.n * W =>
              AtLeast(rate.n * W, rate.d, max, 1)
        BY <1>3, <1>4
    <2> QED  BY <1>2, <2>1, <2>2
<1> QED  BY <1>5, Zenon DEF RateIsSound, apr, rate, max, W

\* For words of any width and every reserve whose numbers are words, the rate
\* that the code computes is never above the true one, and it fails only on a
\* configuration that makes no sense, a whole that is no word, or a rate out of
\* every range (supply_apr_wad, mul_div_floor_u128).
THEOREM RateIsSoundAlways == InspectionSpec => []RateIsSound
<1>1. InspectionInv => RateIsSound
    BY RateFromInvariant
<1> QED  BY <1>1, InspectionInvariant, PTL

\* What the inspection says is right, from what it knows.
LEMMA ReadyFromInvariant == InspectionInv => ReadyIsRight
<1> SUFFICES ASSUME InspectionInv PROVE ReadyIsRight
    OBVIOUS
<1> DEFINE funding   == insp.candidate.funding
           rule      == insp.candidate.rule
           facts     == insp.facts
           condition == rule.conditions[1]
           rate      == SupplyRate(facts.reserve)
           threshold == funding.threshold * BPS_WAD
           action    == rule.action
           Taken     == \E taken \in revalidated_candidate(rule.id) :
                          /\ taken.plan.amount = funding.amount
                          /\ taken.plan.reserve = facts.reserve.address
                          /\ taken.plan.obligation = facts.obligation.address
                          /\ taken.plan.source = facts.source.address
                          /\ taken.plan.collateral = facts.collateral.address
           Right     ==
              /\ funding.hash = rule /\ funding.intent = rule.id
              /\ funding.amount = action.amount /\ funding.amount > 0
              /\ {funding.wallet, rule.executor, facts.obligation.authority} = {rule.delegated}
              /\ insp.at.now < funding.expires
              /\ insp.at.slot < rule.expires + Lag
              /\ insp.at.slot <= facts.reserve.updated + MAX_STALENESS + Lag
              /\ facts.source.amount >= funding.amount
              /\ facts.source.authority = funding.wallet
              /\ condition.comparison = "Gt" =>
                    Exceeds(rate.n * SOLEND_WAD, rate.d, threshold, 1)
              /\ condition.comparison = "Gte" =>
                    AtLeast(rate.n * SOLEND_WAD, rate.d, threshold, 1)
           Verdict   == insp.status \in {"ready", "blocked"} =>
              (primary_classification(insp.findings) = "Ready") = (insp.status = "ready")
<1>1. Verdict
    <2>1. CASE insp.status = "ready"
        BY <2>1, NoFindingsAreReady DEF InspectionInv, InspOK, Reported
    <2>2. CASE insp.status = "blocked"
        <3>1. insp.findings # {} /\ insp.findings \subseteq Codes
            BY <2>2 DEF InspectionInv, InspOK, Reported
        <3>2. primary_classification(insp.findings) # "Ready"
            BY <3>1, FindingsAreClassified
        <3> QED  BY <2>2, <3>2
    <2> QED  BY <2>1, <2>2
<1>2. ASSUME insp.status = "ready" PROVE Taken /\ Right
    <2>1. /\ insp.candidate \in Candidates /\ Preflighted(insp.candidate)
          /\ ReserveRateSnapshot(facts.reserve) /\ facts.reserve.updated \in Nat
          /\ facts.rate # NULL
          /\ facts.rate = native_supply_apr_from_reserve_data(facts.reserve)
          /\ SourceOK(facts.source)
          /\ insp.findings = {} /\ insp.at.slot \in Nat /\ insp.at.now \in Nat
        BY <1>2 DEF InspectionInv, InspOK, InspectionTypeOK, Known, Reported, Past, ReserveOK
    <2>2. PICK reported \in 0 .. insp.at.slot :
              /\ insp.at.slot <= reported + Lag
              /\ validate_chain(funding, rule, facts, insp.at.now, reported) = {}
        BY <1>2 DEF InspectionInv, InspOK, Reported
    <2>3. /\ funding.intent = funding.rule /\ rule # NULL
          /\ EnvelopeFindings(funding, rule) = {} /\ ActionFindings(funding, rule) = {}
          /\ ConditionFindings(funding, rule) = {}
        BY <2>1 DEF Preflighted
    <2>4. /\ funding.amount \in Nat /\ funding.expires \in Nat /\ rule.expires \in Nat
          /\ Lag \in Nat /\ MAX_STALENESS \in Nat /\ BPS_WAD \in Nat \ {0} /\ W \in Nat
        BY <2>1, <2>3, CandidatesAssumption, InspectionAssumption, StalenessAssumption,
           WadAssumption, WadTypes
    <2>5. /\ {rule.executor, rule.destination} = {rule.delegated}
          /\ {funding.intent, funding.rule} = {rule.id}
          /\ funding.hash = rule /\ funding.wallet = rule.delegated
        BY <2>3, EnvelopeIsRight
    <2>6. /\ ActionOf(rule) = action /\ ActionOf(rule) # NULL
          /\ {action.amount, rule.max} = {funding.amount} /\ funding.amount > 0
        BY <2>3, <2>4, ActionIsRight
    <2>7. /\ supported_condition(rule) = condition
          /\ condition.threshold = funding.threshold /\ condition.threshold \in Nat
        BY <2>1, <2>3, <2>6, ConditionIsRight
    <2>8. /\ ClockFindings(funding, rule, insp.at.now, reported) = {}
          /\ IdentityFindings(action, rule.delegated, facts) = {}
          /\ SourceFindings(funding, action, rule.delegated, facts.source) = {}
          /\ CollateralFindings(facts.reserve, rule.delegated, facts.collateral) = {}
          /\ FreshnessFindings(facts.reserve, reported) = {}
          /\ compare_wad(facts.rate, condition.comparison, condition.threshold)
        BY <2>2, <2>6, <2>7, ChainIsRight
    <2>9. reported \in Nat /\ insp.at.slot <= reported + Lag
        BY <2>1, <2>2
    <2>10. insp.at.now < funding.expires /\ reported < rule.expires
        BY <2>1, <2>4, <2>8, <2>9, ClocksAreRight
    <2>11. /\ facts.reserve.address = action.reserve
           /\ facts.obligation.address = action.obligation
           /\ facts.obligation.authority = rule.delegated
        BY <2>8, IdentityIsRight
    <2>12. /\ facts.source # NULL /\ facts.source.address = Ata(rule.delegated, action.mint)
           /\ facts.source.authority = rule.delegated
           /\ ~(facts.source.amount < action.amount)
        BY <2>8, SourceIsRight
    <2>13. facts.collateral.address = Ata(rule.delegated, facts.reserve.collateralMint)
        BY <2>8, CollateralIsRight
    <2>14. reported <= facts.reserve.updated + MAX_STALENESS
        BY <2>1, <2>8, <2>9, ReserveIsFresh
    <2>15. action.amount = funding.amount /\ rule.max = funding.amount
           /\ facts.source.amount \in Nat
        BY <2>1, <2>6, <2>12 DEF SourceOK
    <2>16. /\ condition.comparison = "Gt" =>
                 Exceeds(rate.n * SOLEND_WAD, rate.d, threshold, 1)
           /\ condition.comparison = "Gte" =>
                 AtLeast(rate.n * SOLEND_WAD, rate.d, threshold, 1)
        <3>1. /\ condition.comparison = "Gt" => facts.rate > funding.threshold * BPS_WAD
              /\ condition.comparison = "Gte" => facts.rate >= funding.threshold * BPS_WAD
            BY <2>7, <2>8 DEF compare_wad
        <3>2. /\ facts.rate \in Nat /\ rate.n \in Nat /\ rate.d \in Nat \ {0}
              /\ facts.rate * rate.d <= rate.n * W
            BY <2>1, NativeSupplyAprIsSound
        <3> DEFINE y == funding.threshold * BPS_WAD
        <3>3. y \in Nat
            BY <2>4, <2>7
        <3>4. threshold = y /\ SOLEND_WAD = W
            BY DEF W
        <3> HIDE DEF y, rate, threshold
        <3>5. y * rate.d \in Nat /\ facts.rate * rate.d \in Nat /\ rate.n * W \in Nat
            BY <2>4, <3>2, <3>3
        <3>6. ASSUME condition.comparison = "Gte" PROVE AtLeast(rate.n * W, rate.d, y, 1)
            <4>1. y <= facts.rate
                BY <3>1, <3>2, <3>3, <3>6 DEF y
            <4>2. y * rate.d <= facts.rate * rate.d
                BY <3>2, <3>3, <4>1, TimesMonotone
            <4> QED  BY <3>2, <3>5, <4>2 DEF AtLeast
        <3>7. ASSUME condition.comparison = "Gt" PROVE Exceeds(rate.n * W, rate.d, y, 1)
            <4>1. y < facts.rate
                BY <3>1, <3>2, <3>3, <3>7 DEF y
            <4>2. y * rate.d < facts.rate * rate.d
                <5>1. ~(facts.rate * rate.d <= y * rate.d)
                    BY <3>2, <3>3, <4>1, TimesCancels
                <5> QED  BY <3>5, <5>1
            <4> QED  BY <3>2, <3>5, <4>2 DEF Exceeds
        <3> QED  BY <3>4, <3>6, <3>7
    <2>17. Taken
        <3> DEFINE plan == ValidatedSolendPlanInputs(rule, facts)
                   taken == [intent |-> funding.intent, plan |-> plan]
        <3>1. funding.intent = rule.id
            BY <2>5
        <3>2. all_equal_and_nonzero(funding, rule)
            BY <2>4, <2>6 DEF all_equal_and_nonzero
        <3>3. primary_classification(insp.findings) = "Ready"
            BY <2>1, NoFindingsAreReady
        <3>4. revalidated_candidate(rule.id) = {taken}
            BY <1>2, <2>3, <3>1, <3>2, <3>3, Zenon DEF revalidated_candidate
        <3>5. /\ plan.amount = action.amount /\ plan.reserve = action.reserve
              /\ plan.obligation = action.obligation
              /\ plan.source = Ata(rule.delegated, action.mint)
              /\ plan.collateral = Ata(rule.delegated, facts.reserve.collateralMint)
            BY <2>6 DEF ValidatedSolendPlanInputs
        <3> HIDE DEF plan
        <3>6. taken.plan = plan
            OBVIOUS
        <3> HIDE DEF taken
        <3> QED  BY <2>11, <2>12, <2>13, <2>15, <3>4, <3>5, <3>6
    <2>18. insp.at.slot < rule.expires + Lag
        BY <2>1, <2>4, <2>9, <2>10
    <2>19. insp.at.slot <= facts.reserve.updated + MAX_STALENESS + Lag
        BY <2>1, <2>4, <2>9, <2>14
    <2>20. facts.source.amount >= funding.amount
        BY <2>4, <2>12, <2>15
    <2>21. {funding.wallet, rule.executor, facts.obligation.authority} = {rule.delegated}
        BY <2>5, <2>11
    <2>22. funding.intent = rule.id
        BY <2>5
    <2> QED
        BY <2>5, <2>6, <2>10, <2>12, <2>15, <2>16, <2>17, <2>18, <2>19, <2>20, <2>21, <2>22
<1> QED  BY <1>1, <1>2, Zenon DEF ReadyIsRight

\* Whatever the chain and the clocks do between the reads of an inspection, a
\* candidate that is ready is the funded one, within both deadlines but for the
\* lag of the node, over a fresh reserve whose true rate is above the threshold
\* of a Gt rule, or reaches that of a Gte rule, and the executor takes it with
\* a plan for the accounts that were read; a report reads Ready for these only
\* (inspect_candidate, revalidated_candidate).
THEOREM ReadyIsRightAlways == InspectionSpec => []ReadyIsRight
<1>1. InspectionInv => ReadyIsRight
    BY ReadyFromInvariant
<1> QED  BY <1>1, InspectionInvariant, PTL

=============================================================================
