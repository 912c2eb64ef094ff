----------------------- MODULE BalancedTernary_proofs -----------------------
(***************************************************************************)
(* Proofs about balanced ternary data: type correctness, what packing      *)
(* preserves, and that a number arrives although the arithmetic wraps.     *)
(***************************************************************************)
EXTENDS BalancedTernary, TLAPS

-----------------------------------------------------------------------------
(* Arithmetic that wraps. *)

Apart(a, b) == \E q \in Int : a - b = q * (2 * Half)

\* A divisor, a quotient and a remainder.
LEMMA Division ==
    ASSUME NEW x \in Int, NEW m \in Nat \ {0}
    PROVE  /\ x \div m \in Int /\ x % m \in 0 .. m - 1
           /\ x = m * (x \div m) + (x % m)
OBVIOUS

\* Multiples of m that are less than m apart are equal.
LEMMA SmallMultiple ==
    ASSUME NEW m \in Nat \ {0}, NEW q \in Int, -m < q * m, q * m < m
    PROVE  q = 0
<1>1. CASE q >= 1
  <2>1. q * m >= m
    BY <1>1
  <2> QED BY <2>1
<1>2. CASE q <= -1
  <2>1. q * m <= -m
    BY <1>2
  <2> QED BY <2>1
<1> QED BY <1>1, <1>2

LEMMA ModulusType == 2 * Half \in Nat \ {0} /\ Half \in Nat \ {0}
BY WidthAssumption

\* Congruent says what it should.
LEMMA CongruentIsApart ==
    ASSUME NEW a \in Int, NEW b \in Int
    PROVE  Congruent(a, b) <=> Apart(a, b)
<1> DEFINE m == 2 * Half
           d == a - b
<1>1. m \in Nat \ {0} /\ d \in Int
  BY ModulusType
<1>2. d \div m \in Int /\ d % m \in 0 .. m - 1 /\ d = m * (d \div m) + (d % m)
  BY <1>1, Division
<1>3. ASSUME d % m = 0 PROVE Apart(a, b)
  <2>1. d = (d \div m) * m
    BY <1>1, <1>2, <1>3
  <2> QED BY <1>2, <2>1 DEF Apart
<1>4. ASSUME Apart(a, b) PROVE d % m = 0
  <2>1. PICK q \in Int : d = q * m
    BY <1>4 DEF Apart
  <2> DEFINE p == d \div m
             r == d % m
  <2>2. p \in Int /\ r \in 0 .. m - 1 /\ q * m = m * p + r
    BY <1>2, <2>1
  <2> HIDE DEF m, p, r
  <2>3. (q - p) * m = r
    BY <1>1, <2>2
  <2>4. q - p = 0
    BY <1>1, <2>2, <2>3, SmallMultiple
  <2>5. r = 0
    BY <1>1, <2>3, <2>4
  <2> QED BY <2>5 DEF r
<1> QED BY <1>3, <1>4 DEF Congruent

\* Wrapping lands in the range of int64 and keeps the residue.
LEMMA WrapLaw ==
    ASSUME NEW x \in Int
    PROVE  Wrap(x) \in Int64 /\ Apart(x, Wrap(x))
<1> DEFINE m == 2 * Half
           y == x + Half
<1>1. m \in Nat \ {0} /\ y \in Int /\ Half \in Nat
  BY ModulusType
<1>2. y \div m \in Int /\ y % m \in 0 .. m - 1 /\ y = m * (y \div m) + (y % m)
  BY <1>1, Division
<1>3. Wrap(x) = (y % m) - Half
  BY DEF Wrap
<1>4. x - Wrap(x) = (y \div m) * m
  BY <1>1, <1>2, <1>3
<1> QED BY <1>1, <1>2, <1>3, <1>4 DEF Int64, Apart

LEMMA WrapInside ==
    ASSUME NEW x \in Int64
    PROVE  Wrap(x) = x
<1>1. x \in Int /\ Wrap(x) \in Int64 /\ Apart(x, Wrap(x))
  BY WrapLaw, ModulusType DEF Int64
<1>2. PICK q \in Int : x - Wrap(x) = q * (2 * Half)
  BY <1>1 DEF Apart
<1>3. q = 0
  BY <1>1, <1>2, ModulusType, SmallMultiple DEF Int64
<1> QED BY <1>1, <1>2, <1>3, ModulusType DEF Int64

LEMMA ApartSum ==
    ASSUME NEW a \in Int, NEW b \in Int, NEW c \in Int, NEW d \in Int,
           Apart(a, b), Apart(c, d)
    PROVE  Apart(a + c, b + d)
<1> DEFINE m == 2 * Half
<1>0. m \in Nat
  BY ModulusType
<1>1. PICK q \in Int : a - b = q * m
  BY DEF Apart
<1>2. PICK p \in Int : c - d = p * m
  BY DEF Apart
<1> HIDE DEF m
<1>3. (a + c) - (b + d) = (q + p) * m
  BY <1>0, <1>1, <1>2
<1> QED BY <1>3 DEF Apart, m

LEMMA ApartTransitive ==
    ASSUME NEW a \in Int, NEW b \in Int, NEW c \in Int, Apart(a, b), Apart(b, c)
    PROVE  Apart(a, c)
<1>1. Apart(a + b, b + c)
  BY ApartSum
<1> QED BY <1>1 DEF Apart

LEMMA ApartScaled ==
    ASSUME NEW a \in Int, NEW b \in Int, NEW t \in Int, Apart(a, b)
    PROVE  Apart(t * a, t * b)
<1> DEFINE m == 2 * Half
<1>0. m \in Nat
  BY ModulusType
<1>1. PICK q \in Int : a - b = q * m
  BY DEF Apart
<1> HIDE DEF m
<1>2. t * a - t * b = t * (a - b)
  OBVIOUS
<1>3. t * (q * m) = (t * q) * m
  BY <1>0
<1>4. t * a - t * b = (t * q) * m
  BY <1>1, <1>2, <1>3
<1> QED BY <1>4 DEF Apart, m

LEMMA ApartSymmetric ==
    ASSUME NEW a \in Int, NEW b \in Int, Apart(a, b)
    PROVE  Apart(b, a)
<1> DEFINE m == 2 * Half
<1>0. m \in Nat
  BY ModulusType
<1>1. PICK q \in Int : a - b = q * m
  BY DEF Apart
<1> HIDE DEF m
<1>2. b - a = (-q) * m
  BY <1>0, <1>1
<1> QED BY <1>2 DEF Apart, m

\* A residue has one representative in int64.
LEMMA ApartInside ==
    ASSUME NEW a \in Int64, NEW b \in Int64, Apart(a, b)
    PROVE  a = b
<1>1. PICK q \in Int : a - b = q * (2 * Half)
  BY DEF Apart
<1>2. q = 0
  BY <1>1, ModulusType, SmallMultiple DEF Int64
<1> QED BY <1>1, <1>2, ModulusType DEF Int64

-----------------------------------------------------------------------------
(* Packing. *)

LEMMA BitsAtType ==
    ASSUME NEW t, NEW k
    PROVE  BitsAt(t, k) \in 0 .. 2
BY DEF BitsAt, Bits

LEMMA PackedType ==
    ASSUME NEW t \in Seq(Int)
    PROVE  TernaryToBytes(t) \in Seq(Nat)
<1> DEFINE byte(b) == BitsAt(t, 4 * b - 3) + 4 * BitsAt(t, 4 * b - 2)
                        + 16 * BitsAt(t, 4 * b - 1) + 64 * BitsAt(t, 4 * b)
           size == (Len(t) + 3) \div 4
<1>1. size \in Nat
  OBVIOUS
<1>2. ASSUME NEW b \in 1 .. size
      PROVE  byte(b) \in Nat
  <2>1. /\ BitsAt(t, 4 * b - 3) \in 0 .. 2 /\ BitsAt(t, 4 * b - 2) \in 0 .. 2
        /\ BitsAt(t, 4 * b - 1) \in 0 .. 2 /\ BitsAt(t, 4 * b) \in 0 .. 2
    BY BitsAtType
  <2>2. ASSUME NEW w \in 0 .. 2, NEW x \in 0 .. 2, NEW y \in 0 .. 2, NEW z \in 0 .. 2
        PROVE  w + 4 * x + 16 * y + 64 * z \in Nat
    OBVIOUS
  <2> QED BY <2>1, <2>2, Zenon
<1>3. TernaryToBytes(t) = [b \in 1 .. size |-> byte(b)]
  BY DEF TernaryToBytes
<1> HIDE DEF byte, size
<1> QED BY <1>1, <1>2, <1>3

LEMMA UnpackedType ==
    ASSUME NEW packed, NEW numTrits \in Nat
    PROVE  BytesToTernary(packed, numTrits) \in Seq(Trit)
BY DEF BytesToTernary, TritFromBits, Trit

LEMMA QuarterAndRest ==
    ASSUME NEW x \in Nat
    PROVE  x \div 4 \in Nat /\ x % 4 \in 0 .. 3 /\ x = 4 * (x \div 4) + (x % 4)
OBVIOUS

LEMMA BitsInverse ==
    ASSUME NEW trit
    PROVE  TritFromBits(Bits(trit)) = IF trit \in Trit THEN trit ELSE 0
BY DEF TritFromBits, Bits, Trit

\* Every trit comes back, however many are asked for.
LEMMA PackingInverse ==
    ASSUME NEW t \in Seq(Int), NEW numTrits \in Nat, NEW k \in DOMAIN t, k <= numTrits
    PROVE  BytesToTernary(TernaryToBytes(t), numTrits)[k]
               = IF t[k] \in Trit THEN t[k] ELSE 0
<1> DEFINE packed == TernaryToBytes(t)
           b == (k - 1) \div 4
           pos == (k - 1) % 4
<1>1. k \in 1 .. Len(t) /\ Len(t) \in Nat
  OBVIOUS
<1>2. b \in Nat /\ pos \in 0 .. 3 /\ k = 4 * b + pos + 1
  <2>1. k - 1 \in Nat
    BY <1>1
  <2>2. b \in Nat /\ pos \in 0 .. 3 /\ k - 1 = 4 * b + pos
    BY <2>1, QuarterAndRest, Zenon
  <2> HIDE DEF b, pos
  <2> QED BY <1>1, <2>1, <2>2
<1>3. b + 1 \in 1 .. (Len(t) + 3) \div 4
  BY <1>1
<1>4. packed \in Seq(Nat) /\ Len(packed) = (Len(t) + 3) \div 4
  BY PackedType DEF TernaryToBytes
<1> HIDE DEF b, pos
<1>5. packed[b + 1] = BitsAt(t, 4 * b + 1) + 4 * BitsAt(t, 4 * b + 2)
                        + 16 * BitsAt(t, 4 * b + 3) + 64 * BitsAt(t, 4 * b + 4)
  <2>1. /\ 4 * (b + 1) - 3 = 4 * b + 1 /\ 4 * (b + 1) - 2 = 4 * b + 2
        /\ 4 * (b + 1) - 1 = 4 * b + 3 /\ 4 * (b + 1) = 4 * b + 4
    BY <1>2
  <2> QED BY <1>3, <2>1 DEF TernaryToBytes
<1>6. (packed[b + 1] \div Shift[pos + 1]) % 4 = BitsAt(t, 4 * b + pos + 1)
  <2>1. /\ BitsAt(t, 4 * b + 1) \in 0 .. 2 /\ BitsAt(t, 4 * b + 2) \in 0 .. 2
        /\ BitsAt(t, 4 * b + 3) \in 0 .. 2 /\ BitsAt(t, 4 * b + 4) \in 0 .. 2
    BY BitsAtType
  <2>2. /\ (packed[b + 1] \div 1) % 4 = BitsAt(t, 4 * b + 1)
        /\ (packed[b + 1] \div 4) % 4 = BitsAt(t, 4 * b + 2)
        /\ (packed[b + 1] \div 16) % 4 = BitsAt(t, 4 * b + 3)
        /\ (packed[b + 1] \div 64) % 4 = BitsAt(t, 4 * b + 4)
    <3> DEFINE w == BitsAt(t, 4 * b + 1)
               x == BitsAt(t, 4 * b + 2)
               y == BitsAt(t, 4 * b + 3)
               z == BitsAt(t, 4 * b + 4)
               byte == packed[b + 1]
    <3>1. w \in 0 .. 2 /\ x \in 0 .. 2 /\ y \in 0 .. 2 /\ z \in 0 .. 2
      BY <2>1
    <3>2. byte = w + 4 * x + 16 * y + 64 * z
      BY <1>5
    <3> HIDE DEF w, x, y, z, byte
    <3>3. /\ (byte \div 1) % 4 = w /\ (byte \div 4) % 4 = x
          /\ (byte \div 16) % 4 = y /\ (byte \div 64) % 4 = z
      BY <3>1, <3>2
    <3> QED BY <3>3 DEF w, x, y, z, byte
  <2>3. CASE pos = 0
    BY <1>2, <2>2, <2>3 DEF Shift
  <2>4. CASE pos = 1
    BY <1>2, <2>2, <2>4 DEF Shift
  <2>5. CASE pos = 2
    BY <1>2, <2>2, <2>5 DEF Shift
  <2>6. CASE pos = 3
    BY <1>2, <2>2, <2>6 DEF Shift
  <2> QED BY <1>2, <2>3, <2>4, <2>5, <2>6
<1>7. BitsAt(t, 4 * b + pos + 1) = Bits(t[k])
  BY <1>1, <1>2 DEF BitsAt
<1>8. BytesToTernary(packed, numTrits)[k]
          = TritFromBits((packed[b + 1] \div Shift[pos + 1]) % 4)
  BY <1>1, <1>2, <1>3, <1>4 DEF BytesToTernary, b, pos
<1> QED BY <1>6, <1>7, <1>8, BitsInverse

-----------------------------------------------------------------------------
(* The inductive invariant. *)

LEMMA Int64Type ==
    /\ Int64 \subseteq Int /\ 0 \in Int64 /\ 1 \in Int64
    /\ \A x \in Int64 : x >= 0 => x <= Half - 1
BY WidthAssumption DEF Int64

LEMMA InitIInv == Init => IInv
<1> SUFFICES ASSUME Init PROVE IInv
  OBVIOUS
<1>1. TypeOK
  BY Int64Type DEF Init, TypeOK
<1> QED BY <1>1 DEF Init, IInv, SumsExact, NothingLost, TooLarge, Carried, ReadSoFar

\* The numbers that are lost are far from what one trit, or none, can stand for:
\* int64 has room for more than -1, 0 and 1.
LEMMA LargeNumbers == Half >= 5 /\ -Half # 0 /\ (-Half < 0)
BY WidthAssumption

\* The absolute value of a number that has one.
LEMMA AbsoluteValue ==
    ASSUME NEW x \in Int64
    PROVE  LET a == IF x < 0 THEN -x ELSE x
           IN  /\ Wrap(a) \in Int64
               /\ x # -Half => Wrap(a) = a /\ a >= 0
               /\ x = -Half => Wrap(a) = -Half
<1> DEFINE a == IF x < 0 THEN -x ELSE x
<1>1. a \in Int /\ Wrap(a) \in Int64
  BY Int64Type, WrapLaw
<1>2. ASSUME x # -Half PROVE a \in Int64 /\ a >= 0
  BY <1>2, WidthAssumption DEF Int64
<1>3. ASSUME x = -Half PROVE Wrap(a) = -Half
  <2>1. a = Half /\ Half \in Nat /\ Half > 0
    BY <1>3, WidthAssumption
  <2>2. (Half + Half) % (2 * Half) = 0
    <3>1. (Half + Half) - 0 = 1 * (2 * Half)
      BY <2>1
    <3>2. Half + Half \in Int /\ 1 \in Int /\ 0 \in Int
      BY <2>1
    <3>3. Apart(Half + Half, 0)
      BY <3>1, <3>2 DEF Apart
    <3>4. Congruent(Half + Half, 0)
      BY <3>2, <3>3, CongruentIsApart
    <3>5. (Half + Half) - 0 = Half + Half
      BY <2>1
    <3> QED BY <3>4, <3>5 DEF Congruent
  <2> QED BY <2>1, <2>2 DEF Wrap
<1> QED BY <1>1, <1>2, <1>3, WrapInside

LEMMA FromDecimalKeepsIInv ==
    ASSUME IInv, AttachBalancedTernaryFromDecimal
    PROVE  IInv'
<1>1. /\ TypeOK /\ pc = "ready" /\ source = "none" /\ n' \in Int64 /\ source' = "number"
      /\ i = 0 /\ result = 0 /\ power = 1
      /\ UNCHANGED <<text, bytes, received, i, result, power>>
  BY DEF IInv, AttachBalancedTernaryFromDecimal, reading, ReadSoFar, Carried
<1>2. CASE n' = 0
  <2>1. /\ pc' = "attached" /\ digits' = <<0>> /\ abs' = 0
        /\ sums' = <<0, 0>> /\ places' = <<1, 3>>
    BY <1>2 DEF AttachBalancedTernaryFromDecimal
  <2>2. TypeOK'
    BY <1>1, <2>1, Int64Type DEF TypeOK
  <2>3. SumsExact'
    BY <1>2, <2>1 DEF SumsExact, DigitFound, Sign, Trit
  <2>4. NothingLost'
    BY <1>2, <2>1, WidthAssumption DEF NothingLost, Magnitude, Last
  <2>5. TooLarge'
    BY <2>1 DEF TooLarge, Last
  <2> QED BY <1>1, <2>1, <2>2, <2>3, <2>4, <2>5 DEF IInv, Carried, ReadSoFar
<1>3. CASE n' # 0
  <2>1. /\ pc' = "dividing" /\ digits' = <<>>
        /\ abs' = Wrap(IF n' < 0 THEN -n' ELSE n')
        /\ sums' = sums /\ places' = places
    BY <1>3 DEF AttachBalancedTernaryFromDecimal, exact
  <2>2. sums = <<0>> /\ places = <<1>>
    BY <1>1 DEF IInv, Carried
  <2>3. /\ abs' \in Int64
        /\ n' # -Half => abs' = Magnitude' /\ abs' >= 0
        /\ n' = -Half => abs' = -Half
    BY <1>1, <2>1, AbsoluteValue DEF Magnitude
  <2>4. TypeOK'
    BY <1>1, <2>1, <2>3 DEF TypeOK
  <2>5. SumsExact'
    BY <2>1, <2>2 DEF SumsExact
  <2>6. Last(sums') = 0 /\ Last(places') = 1
    BY <2>1, <2>2 DEF Last
  <2>7. NothingLost'
    BY <2>1, <2>3, <2>6, Int64Type DEF NothingLost, Convertible, Magnitude
  <2>8. TooLarge'
    <3>1. ASSUME n' = -Half PROVE abs' <= 0 /\ Last(sums') \in {-1, 0}
      BY <2>3, <2>6, <3>1, LargeNumbers
    <3>2. ASSUME n' # -Half, ~Convertible' PROVE abs' = Half - 3
      BY <2>3, <3>2 DEF Convertible
    <3> QED BY <2>1, <2>6, <3>1, <3>2 DEF TooLarge
  <2> QED BY <1>1, <2>1, <2>4, <2>5, <2>7, <2>8 DEF IInv, Carried, ReadSoFar
<1> QED BY <1>2, <1>3

\* A third of what is left is smaller and still in range.
LEMMA ThirdType ==
    ASSUME NEW x \in Int64
    PROVE  Third(x) \in Int64
<1>1. x \in Int /\ -Half <= x /\ x <= Half - 1 /\ Half \in Nat
  BY WidthAssumption DEF Int64
<1>2. ASSUME NEW y \in Nat PROVE y \div 3 \in Nat /\ y \div 3 <= y
  BY <1>2
<1>3. CASE x >= 0
  BY <1>1, <1>2, <1>3 DEF Third, Int64
<1>4. CASE x < 0
  BY <1>1, <1>2, <1>4 DEF Third, Int64
<1> QED BY <1>1, <1>3, <1>4

\* What a turn of the loop does: a digit, and what is left of what was left.
LEMMA DivideTurn ==
    ASSUME TypeOK, pc = "dividing", Divide
    PROVE  \E digit \in Trit, rest \in Int64 :
              /\ Found(digit, rest)
              /\ abs < Half - 3 \/ abs > Half - 3 =>
                    abs = 3 * Third(rest) + digit /\ Third(rest) >= 0
              /\ abs = Half - 3 => digit = -1 /\ Third(rest) <= 0
<1>1. /\ abs \in Int64 /\ abs \in Nat /\ abs > 0 /\ abs <= Half - 1
      /\ Half \in Nat /\ Half % 3 = 2
  BY Int64Type, WidthAssumption DEF TypeOK, Divide, Int64
<1>0. abs = Half - 3 => abs % 3 = 2
  BY <1>1
<1>2. CASE abs % 3 = 0
  <2>1. Found(0, abs)
    BY <1>1, <1>2 DEF Divide
  <2>2. abs = 3 * Third(abs) + 0 /\ Third(abs) >= 0
    BY <1>1, <1>2 DEF Third
  <2> QED BY <1>0, <1>1, <1>2, <2>1, <2>2 DEF Trit
<1>3. CASE abs % 3 = 1
  <2>1. Found(1, abs)
    BY <1>1, <1>3 DEF Divide
  <2>2. abs = 3 * Third(abs) + 1 /\ Third(abs) >= 0
    BY <1>1, <1>3 DEF Third
  <2> QED BY <1>0, <1>1, <1>3, <2>1, <2>2 DEF Trit
<1>4. CASE abs % 3 = 2
  <2>1. Found(-1, Wrap(abs + 3)) /\ Wrap(abs + 3) \in Int64
    BY <1>1, <1>4, WrapLaw DEF Divide
  <2>2. ASSUME abs < Half - 3 \/ abs > Half - 3
        PROVE  abs = 3 * Third(Wrap(abs + 3)) + (-1) /\ Third(Wrap(abs + 3)) >= 0
    <3>1. abs # Half - 2 /\ abs # Half - 1
      BY <1>1, <1>4
    <3>2. abs + 3 \in Int64
      BY <1>1, <2>2, <3>1 DEF Int64
    <3>3. Wrap(abs + 3) = abs + 3
      BY <3>2, WrapInside
    <3>4. (abs + 3) = 3 * ((abs + 3) \div 3) + 2 /\ (abs + 3) \div 3 >= 0
      BY <1>1, <1>4
    <3> QED BY <1>1, <3>3, <3>4 DEF Third
  <2>3. ASSUME abs = Half - 3 PROVE Third(Wrap(abs + 3)) <= 0
    <3>1. Wrap(abs + 3) = -Half
      <4>1. -Half \in Int64 /\ -(-Half) = Half /\ -Half < 0
        BY <1>1, LargeNumbers DEF Int64
      <4>2. Wrap(Half) = -Half
        BY <4>1, AbsoluteValue
      <4> QED BY <1>1, <2>3, <4>2
    <3>2. Half \div 3 >= 0
      BY <1>1
    <3> QED BY <1>1, <3>1, <3>2, LargeNumbers DEF Third
  <2> QED BY <2>1, <2>2, <2>3 DEF Trit
<1> QED BY <1>1, <1>2, <1>3, <1>4

LEMMA DivideKeepsIInv ==
    ASSUME IInv, Divide
    PROVE  IInv'
<1>1. TypeOK /\ SumsExact /\ NothingLost /\ TooLarge /\ Carried /\ ReadSoFar
  BY DEF IInv
<1>2. pc = "dividing" /\ abs > 0 /\ source = "number"
  BY <1>1 DEF Divide, Carried
<1>3. PICK digit \in Trit, rest \in Int64 :
          /\ Found(digit, rest)
          /\ abs < Half - 3 \/ abs > Half - 3 =>
                abs = 3 * Third(rest) + digit /\ Third(rest) >= 0
          /\ abs = Half - 3 => digit = -1 /\ Third(rest) <= 0
  BY <1>1, <1>2, DivideTurn
<1> DEFINE len == Len(digits)
           sum == Last(sums)
           place == Last(places)
<1>4. /\ digits \in Seq(Int) /\ sums \in Seq(Int) /\ places \in Seq(Int)
      /\ len \in Nat /\ Len(sums) = len + 1 /\ Len(places) = len + 1
      /\ sum = sums[len + 1] /\ place = places[len + 1] /\ sum \in Int /\ place \in Int
  BY <1>1, <1>2 DEF TypeOK, SumsExact, Last
<1>5. /\ digits' = Append(digits, digit) /\ abs' = Third(rest)
      /\ sums' = Append(sums, sum + digit * place)
      /\ places' = Append(places, 3 * place)
      /\ UNCHANGED <<pc, source, n, text, bytes, received, i, result, power>>
  BY <1>3 DEF Found, reading
<1>6. digit \in Int /\ sum + digit * place \in Int /\ 3 * place \in Int
  BY <1>4 DEF Trit
<1>7. TypeOK'
  BY <1>1, <1>4, <1>5, <1>6, ThirdType DEF TypeOK
<1>8. /\ Len(digits') = len + 1 /\ Len(sums') = len + 2 /\ Len(places') = len + 2
      /\ digits'[len + 1] = digit
      /\ sums'[len + 2] = sum + digit * place /\ places'[len + 2] = 3 * place
      /\ \A k \in 1 .. len : digits'[k] = digits[k]
      /\ \A k \in 1 .. len + 1 : sums'[k] = sums[k] /\ places'[k] = places[k]
  BY <1>4, <1>5, <1>6
<1>9. SumsExact'
  <2>1. sums'[1] = 0 /\ places'[1] = 1
    BY <1>1, <1>2, <1>4, <1>8 DEF SumsExact
  <2>2. ASSUME NEW k \in 1 .. len
        PROVE  /\ digits'[k] \in Trit
               /\ sums'[k + 1] = sums'[k] + digits'[k] * places'[k]
               /\ places'[k + 1] = 3 * places'[k]
    <3>1. /\ digits[k] \in Trit /\ sums[k + 1] = sums[k] + digits[k] * places[k]
          /\ places[k + 1] = 3 * places[k]
      <4>1. DOMAIN digits = 1 .. len
        BY <1>4
      <4> QED BY <1>1, <1>2, <4>1 DEF SumsExact, DigitFound
    <3>2. k \in 1 .. len + 1 /\ k + 1 \in 1 .. len + 1
      BY <1>4
    <3> QED BY <1>8, <3>1, <3>2
  <2>3. /\ digits'[len + 1] \in Trit
        /\ sums'[len + 2] = sums'[len + 1] + digits'[len + 1] * places'[len + 1]
        /\ places'[len + 2] = 3 * places'[len + 1]
    BY <1>4, <1>8
  <2>4. DOMAIN digits' = 1 .. len + 1
    BY <1>4, <1>5, <1>6
  <2>5. \A k \in 1 .. len + 1 :
            /\ digits'[k] \in Trit
            /\ sums'[k + 1] = sums'[k] + digits'[k] * places'[k]
            /\ places'[k + 1] = 3 * places'[k]
    BY <1>4, <2>2, <2>3
  <2>6. pc' = "dividing"
    BY <1>2, <1>5
  <2> QED BY <1>4, <1>8, <2>1, <2>4, <2>5, <2>6 DEF SumsExact, DigitFound
<1>10. NothingLost'
  <2> SUFFICES ASSUME Convertible
               PROVE  /\ abs' >= 0 /\ abs' # Half - 3
                      /\ Last(sums') + Last(places') * abs' = Magnitude
    BY <1>2, <1>5 DEF NothingLost, Convertible, Magnitude
  <2> DEFINE left == Third(rest)
  <2>1. abs >= 0 /\ abs # Half - 3 /\ sum + place * abs = Magnitude
    BY <1>1, <1>2 DEF NothingLost
  <2>2. abs \in Nat /\ abs <= Half - 1 /\ Half \in Nat /\ Half > 4
    <3>1. abs \in Int64
      BY <1>1 DEF TypeOK
    <3>2. Half \in Nat /\ Half > 3 /\ Half % 3 = 2
      BY WidthAssumption
    <3>3. Half # 4
      BY <3>2
    <3> QED BY <2>1, <3>1, <3>2, <3>3 DEF Int64
  <2>3. abs = 3 * left + digit /\ left >= 0 /\ left \in Int
    <3>1. left \in Int
      BY ThirdType, Int64Type
    <3>2. abs < Half - 3 \/ abs > Half - 3
      BY <2>1, <2>2
    <3> QED BY <1>3, <3>1, <3>2
  <2>4. abs' = left /\ Last(sums') = sum + digit * place /\ Last(places') = 3 * place
    BY <1>4, <1>5, <1>8 DEF Last
  <2> HIDE DEF left, sum, place
  <2>5. left # Half - 3
    BY <2>2, <2>3 DEF Trit
  <2>6. place * abs = place * (3 * left) + place * digit
    BY <1>4, <1>6, <2>3
  <2>7. place * (3 * left) = (3 * place) * left /\ place * digit = digit * place
    BY <1>4, <1>6, <2>3
  <2> QED BY <1>4, <1>6, <2>1, <2>3, <2>4, <2>5, <2>6, <2>7
<1>11. Carried' /\ ReadSoFar'
  BY <1>1, <1>2, <1>5 DEF Carried, ReadSoFar
<1>12. TooLarge'
  <2> SUFFICES ASSUME ~Convertible
               PROVE  abs' <= 0 /\ Last(sums') \in {-1, 0}
    BY <1>2, <1>5 DEF TooLarge, Convertible, Magnitude
  <2>1. abs = Half - 3 /\ sum = 0 /\ place = 1
    <3>1. abs \in Int
      BY <1>1, Int64Type DEF TypeOK
    <3> QED BY <1>1, <1>2, <3>1 DEF TooLarge
  <2>2. digit = -1 /\ abs' <= 0
    BY <1>3, <1>5, <2>1
  <2>3. Last(sums') = sum + digit * place
    BY <1>4, <1>5, <1>8 DEF Last
  <2> QED BY <2>1, <2>2, <2>3
<1> QED BY <1>7, <1>9, <1>10, <1>11, <1>12 DEF IInv

LEMMA FromDecimalEndKeepsIInv ==
    ASSUME IInv, FromDecimalEnd
    PROVE  IInv'
<1>1. TypeOK /\ SumsExact /\ NothingLost /\ TooLarge /\ Carried /\ ReadSoFar
  BY DEF IInv
<1>2. /\ pc = "dividing" /\ abs <= 0 /\ source = "number" /\ pc' = "attached"
      /\ digits' = Signed(Sign, digits)
      /\ UNCHANGED <<source, n, abs, text, bytes, received, i, result, power, sums, places>>
  BY <1>1 DEF FromDecimalEnd, Carried, Sign, number, reading, exact
<1> DEFINE len == Len(digits)
<1>3. digits \in Seq(Int) /\ len \in Nat /\ DOMAIN digits = 1 .. len /\ Sign \in {-1, 1}
  BY <1>1 DEF TypeOK, Sign
<1>4. \A k \in 1 .. len : digits[k] \in Int /\ Sign * digits[len + 1 - k] \in Int
  BY <1>3
<1>5. /\ digits' \in Seq(Int) /\ Len(digits') = len /\ DOMAIN digits' = 1 .. len
      /\ \A k \in 1 .. len : digits'[k] = Sign * digits[len + 1 - k]
  BY <1>2, <1>3, <1>4 DEF Signed
<1>6. TypeOK'
  BY <1>1, <1>2, <1>5 DEF TypeOK
<1>7. SumsExact'
  <2>1. ASSUME NEW k \in 1 .. len
        PROVE  DigitFound(k)' = DigitFound(k)
    <3>1. len + 1 - k \in 1 .. len /\ len + 1 - (len + 1 - k) = k
      BY <1>3
    <3>2. digits'[len + 1 - k] = Sign * digits[k]
      BY <1>5, <3>1
    <3>3. Sign * (Sign * digits[k]) = digits[k]
      BY <1>3, <1>4
    <3>4. Sign' = Sign
      BY <1>2 DEF Sign
    <3>5. DigitFound(k) = digits[k] /\ DigitFound(k)' = Sign' * digits'[len + 1 - k]
      BY <1>2, <1>5 DEF DigitFound
    <3> QED BY <3>2, <3>3, <3>4, <3>5
  <2>2. \A k \in 1 .. len :
            /\ DigitFound(k)' \in Trit
            /\ sums'[k + 1] = sums'[k] + DigitFound(k)' * places'[k]
            /\ places'[k + 1] = 3 * places'[k]
    BY <1>1, <1>2, <1>3, <2>1 DEF SumsExact
  <2> QED BY <1>1, <1>2, <1>3, <1>5, <2>2 DEF SumsExact
<1>8. NothingLost'
  BY <1>1, <1>2, Int64Type DEF NothingLost, Convertible, Magnitude, Last, TypeOK
<1>9. TooLarge'
  <2>1. abs = Half - 3 => abs > 0
    BY LargeNumbers, WidthAssumption
  <2>2. abs \in Int
    BY <1>1, Int64Type DEF TypeOK
  <2> QED BY <1>1, <1>2, <2>1, <2>2 DEF TooLarge, Convertible, Magnitude, Last
<1> QED BY <1>1, <1>2, <1>6, <1>7, <1>8, <1>9 DEF IInv, Carried, ReadSoFar

LEMMA FromStringKeepsIInv ==
    ASSUME IInv, AttachBalancedTernaryFromString
    PROVE  IInv'
<1>1. TypeOK /\ Carried /\ ReadSoFar
  BY DEF IInv
<1>2. /\ pc = "ready" /\ pc' = "attached" /\ source' = "text"
      /\ text' \in AtMost(Char, MaxLength)
      /\ digits' = NewBalancedTernaryFromString(text')
      /\ UNCHANGED <<n, abs, bytes, received, i, result, power, sums, places>>
  BY DEF AttachBalancedTernaryFromString, number, reading, exact
<1>3. PICK length \in 0 .. MaxLength : text' \in [1 .. length -> Char]
  BY <1>2 DEF AtMost
<1>4. text' \in Seq(Char)
  BY <1>3, LengthAssumption
<1>5. digits' \in Seq(Int)
  <2>1. \A c \in Char : TritOf(c) \in Int
    BY DEF TritOf, Char
  <2> QED BY <1>2, <1>4, <2>1 DEF NewBalancedTernaryFromString
<1>6. TypeOK'
  BY <1>1, <1>2, <1>4, <1>5 DEF TypeOK
<1> QED BY <1>1, <1>2, <1>6 DEF IInv, SumsExact, NothingLost, TooLarge, Carried, ReadSoFar

LEMMA DataKeepsIInv ==
    ASSUME IInv, AttachBalancedTernaryData
    PROVE  IInv'
<1>1. TypeOK /\ Carried /\ ReadSoFar
  BY DEF IInv
<1>2. /\ pc = "ready" /\ pc' = "attached" /\ source' = "data"
      /\ digits' \in AtMost(Trit \cup {2}, MaxLength)
      /\ UNCHANGED <<n, abs, text, bytes, received, i, result, power, sums, places>>
  BY DEF AttachBalancedTernaryData, number, reading, exact
<1>3. PICK length \in 0 .. MaxLength : digits' \in [1 .. length -> Trit \cup {2}]
  BY <1>2 DEF AtMost
<1>4. digits' \in Seq(Int)
  BY <1>3, LengthAssumption DEF Trit
<1>5. TypeOK'
  BY <1>1, <1>2, <1>4 DEF TypeOK
<1> QED BY <1>1, <1>2, <1>5 DEF IInv, SumsExact, NothingLost, TooLarge, Carried, ReadSoFar

LEMMA PublishKeepsIInv ==
    ASSUME IInv, PublishWorldMoment
    PROVE  IInv'
<1>1. TypeOK /\ SumsExact /\ NothingLost /\ TooLarge /\ Carried /\ ReadSoFar
  BY DEF IInv
<1>2. /\ pc = "attached" /\ pc' = "published" /\ bytes' = TernaryToBytes(digits)
      /\ UNCHANGED <<source, digits, text, received, n, abs, i, result, power, sums, places>>
  BY DEF PublishWorldMoment, number, reading, exact
<1>3. TypeOK'
  BY <1>1, <1>2 DEF TypeOK
<1>4. SumsExact'
  BY <1>1, <1>2 DEF SumsExact, DigitFound, Sign
<1>5. NothingLost' /\ TooLarge'
  BY <1>1, <1>2 DEF NothingLost, TooLarge, Convertible, Magnitude, Last
<1> QED BY <1>1, <1>2, <1>3, <1>4, <1>5 DEF IInv, Carried, ReadSoFar

\* What is asked for is what comes, unless there are no bytes.
LEMMA UnpackedLength ==
    ASSUME NEW t \in Seq(Int), NEW numTrits \in {Len(t), 4 * Len(TernaryToBytes(t))}
    PROVE  LET trits == BytesToTernary(TernaryToBytes(t), numTrits)
           IN  /\ numTrits \in Nat /\ Len(trits) >= Len(t)
               /\ trits = BytesToTernary(TernaryToBytes(t), Len(trits))
<1> DEFINE packed == TernaryToBytes(t)
           size == (Len(t) + 3) \div 4
<1>1. packed \in Seq(Nat) /\ Len(packed) = size /\ Len(t) \in Nat
  BY PackedType DEF TernaryToBytes
<1>2. size \in Nat /\ 4 * size >= Len(t)
  BY <1>1
<1> HIDE DEF packed, size
<1>3. numTrits \in Nat /\ numTrits >= Len(t)
  BY <1>1, <1>2 DEF packed
<1>4. CASE packed = <<>>
  <2>1. Len(t) = 0
    BY <1>1, <1>2, <1>4
  <2>2. \A m : BytesToTernary(packed, m) = <<>>
    BY <1>4 DEF BytesToTernary
  <2> QED BY <1>3, <2>1, <2>2 DEF packed
<1>5. CASE packed # <<>>
  <2>1. Len(BytesToTernary(packed, numTrits)) = numTrits
    BY <1>3, <1>5 DEF BytesToTernary
  <2> QED BY <1>3, <2>1 DEF packed
<1> QED BY <1>4, <1>5

LEMMA CongruentToItself ==
    ASSUME NEW a \in Int
    PROVE  Congruent(a, a)
<1>1. a - a = 0 * (2 * Half)
  BY ModulusType
<1>2. Apart(a, a)
  BY <1>1 DEF Apart
<1> QED BY <1>2, CongruentIsApart

LEMMA ReceiveKeepsIInv ==
    ASSUME IInv, Receive
    PROVE  IInv'
<1>1. TypeOK /\ SumsExact /\ NothingLost /\ TooLarge /\ Carried /\ ReadSoFar
  BY DEF IInv
<1>2. pc = "published" /\ bytes = TernaryToBytes(digits) /\ digits \in Seq(Int)
  BY <1>1 DEF Receive, Carried, TypeOK
<1>3. PICK numTrits \in {Len(digits), 4 * Len(bytes)} :
          received' = BytesToTernary(bytes, numTrits) /\ i' = Len(received')
  BY DEF Receive
<1>4. /\ pc' = "reading"
      /\ UNCHANGED <<source, digits, text, bytes, n, abs, result, power, sums, places>>
  BY DEF Receive, number, exact
<1>5. /\ numTrits \in Nat /\ Len(received') >= Len(digits)
      /\ received' = BytesToTernary(bytes, Len(received'))
  BY <1>2, <1>3, UnpackedLength
<1>6. received' \in Seq(Trit)
  BY <1>3, <1>5, UnpackedType
<1>7. TypeOK'
  BY <1>1, <1>3, <1>4, <1>6 DEF TypeOK
<1>8. SumsExact'
  BY <1>1, <1>2, <1>4 DEF SumsExact, DigitFound, Sign
<1>9. NothingLost' /\ TooLarge'
  BY <1>1, <1>2, <1>4 DEF NothingLost, TooLarge, Convertible, Magnitude, Last
<1>10. ReadSoFar'
  <2>1. result' = 0 /\ power' = 1
    BY <1>1, <1>2, <1>4 DEF ReadSoFar
  <2>2. ASSUME source = "number", Len(received') = Len(digits)
        PROVE  LET k == Len(digits') - i' + 1
               IN  Congruent(result', Sign' * sums'[k]) /\ Congruent(power', places'[k])
    <3>1. Len(digits') - i' + 1 = 1
      BY <1>2, <1>3, <1>4, <2>2
    <3>2. sums'[1] = 0 /\ places'[1] = 1 /\ Sign' \in Int
      BY <1>1, <1>4, <2>2 DEF SumsExact, Sign
    <3>3. Sign' * sums'[1] = 0
      BY <3>2 DEF Sign
    <3> QED BY <2>1, <3>1, <3>2, <3>3, CongruentToItself
  <2> QED BY <1>4, <2>2 DEF ReadSoFar, Congruent
<1>11. Carried'
  BY <1>1, <1>2, <1>4, <1>5 DEF Carried
<1> QED BY <1>7, <1>8, <1>9, <1>10, <1>11 DEF IInv

\* One turn of ToDecimal keeps step with the exact sum and weight, modulo 2 * Half.
LEMMA AddDigit ==
    ASSUME NEW r \in Int64, NEW p \in Int64, NEW d \in Trit,
           NEW sum \in Int, NEW place \in Int, Congruent(r, sum), Congruent(p, place)
    PROVE  /\ Congruent(Wrap(r + Wrap(d * p)), sum + d * place)
           /\ Congruent(Wrap(p * 3), 3 * place)
<1>1. r \in Int /\ p \in Int /\ d \in Int /\ d * p \in Int /\ d * place \in Int
  BY Int64Type DEF Trit
<1>2. Apart(r, sum) /\ Apart(p, place)
  BY <1>1, CongruentIsApart
<1> DEFINE w == Wrap(d * p)
           x == Wrap(r + w)
           y == Wrap(p * 3)
<1>3. w \in Int /\ Apart(w, d * p)
  BY <1>1, WrapLaw, ApartSymmetric, Int64Type
<1> HIDE DEF w
<1>4. Apart(d * p, d * place)
  BY <1>1, <1>2, ApartScaled
<1>5. Apart(w, d * place)
  BY <1>1, <1>3, <1>4, ApartTransitive
<1>6. r + w \in Int /\ Apart(r + w, sum + d * place)
  BY <1>1, <1>2, <1>3, <1>5, ApartSum
<1>7. x \in Int /\ Apart(x, r + w)
  BY <1>6, WrapLaw, ApartSymmetric, Int64Type
<1> HIDE DEF x
<1>8. sum + d * place \in Int /\ Apart(x, sum + d * place)
  BY <1>1, <1>6, <1>7, ApartTransitive
<1>9. p * 3 \in Int /\ p * 3 = 3 * p /\ 3 * p \in Int /\ 3 * place \in Int
  BY <1>1
<1>10. y \in Int /\ Apart(y, 3 * p)
  BY <1>9, WrapLaw, ApartSymmetric, Int64Type
<1> HIDE DEF y
<1>11. Apart(y, 3 * place)
  <2>1. Apart(3 * p, 3 * place)
    BY <1>1, <1>2, ApartScaled
  <2> QED BY <1>9, <1>10, <2>1, ApartTransitive
<1>12. Congruent(x, sum + d * place) /\ Congruent(y, 3 * place)
  BY <1>7, <1>8, <1>9, <1>10, <1>11, CongruentIsApart
<1> QED BY <1>12 DEF w, x, y

\* A subscriber who reads all of them reads the digits that were attached.
LEMMA DigitsArrive ==
    ASSUME IInv, pc = "reading"
    PROVE  \A k \in DOMAIN digits :
              /\ k \in DOMAIN received
              /\ received[k] = IF digits[k] \in Trit THEN digits[k] ELSE 0
<1> SUFFICES ASSUME NEW k \in DOMAIN digits
             PROVE  /\ k \in DOMAIN received
                    /\ received[k] = IF digits[k] \in Trit THEN digits[k] ELSE 0
  OBVIOUS
<1>1. /\ digits \in Seq(Int) /\ received \in Seq(Trit)
      /\ received = BytesToTernary(TernaryToBytes(digits), Len(received))
      /\ Len(received) >= Len(digits)
  BY DEF IInv, TypeOK, Carried
<1>2. Len(received) \in Nat /\ k <= Len(received) /\ k \in DOMAIN received
  BY <1>1
<1> QED BY <1>1, <1>2, PackingInverse

LEMMA ToDecimalKeepsIInv ==
    ASSUME IInv, ToDecimal
    PROVE  IInv'
<1>1. TypeOK /\ SumsExact /\ NothingLost /\ TooLarge /\ Carried /\ ReadSoFar
  BY DEF IInv
<1>2. /\ pc = "reading" /\ i > 0 /\ i' = i - 1
      /\ result' = Wrap(result + Wrap(received[i] * power)) /\ power' = Wrap(power * 3)
      /\ UNCHANGED <<pc, source, digits, text, bytes, received, n, abs, sums, places>>
  BY DEF ToDecimal, number, exact
<1>3. /\ received \in Seq(Trit) /\ digits \in Seq(Int) /\ i \in 1 .. Len(received)
      /\ received[i] \in Trit /\ result \in Int64 /\ power \in Int64
  BY <1>1, <1>2 DEF TypeOK
<1>4. TypeOK'
  <2>1. received[i] * power \in Int
    BY <1>3, Int64Type DEF Trit
  <2>2. Wrap(received[i] * power) \in Int
    BY <2>1, WrapLaw, Int64Type
  <2>3. result + Wrap(received[i] * power) \in Int /\ power * 3 \in Int
    BY <1>3, <2>2, Int64Type
  <2>4. result' \in Int64 /\ power' \in Int64
    BY <1>2, <2>3, WrapLaw
  <2> QED BY <1>1, <1>2, <1>3, <2>4 DEF TypeOK
<1>5. SumsExact'
  BY <1>1, <1>2 DEF SumsExact, DigitFound, Sign
<1>6. NothingLost' /\ TooLarge'
  BY <1>1, <1>2 DEF NothingLost, TooLarge, Convertible, Magnitude, Last
<1>7. ReadSoFar'
  <2>1. ASSUME source = "number", Len(received) = Len(digits)
        PROVE  LET k == Len(digits) - i + 2
               IN  Congruent(result', Sign * sums[k]) /\ Congruent(power', places[k])
    <3> DEFINE k == Len(digits) - i + 1
               d == received[i]
    <3>1. k \in 1 .. Len(digits) /\ Len(digits) + 1 - k = i /\ Len(digits) - i + 2 = k + 1
      BY <1>3, <2>1
    <3>2. Congruent(result, Sign * sums[k]) /\ Congruent(power, places[k])
      BY <1>1, <1>2, <2>1 DEF ReadSoFar
    <3>3. DOMAIN digits = 1 .. Len(digits) /\ DigitFound(k) = Sign * digits[i]
      BY <1>2, <1>3, <3>1 DEF DigitFound
    <3>4. /\ Sign * digits[i] \in Trit
          /\ sums[k + 1] = sums[k] + (Sign * digits[i]) * places[k]
          /\ places[k + 1] = 3 * places[k]
      BY <1>1, <2>1, <3>1, <3>3 DEF SumsExact
    <3>5. Sign \in {-1, 1} /\ digits[i] \in Int
      BY <1>3, <2>1 DEF Sign
    <3>6. digits[i] \in Trit
      BY <3>4, <3>5 DEF Trit
    <3>7. d = digits[i]
      <4>1. i \in DOMAIN digits
        BY <1>3, <2>1
      <4> QED BY <1>2, <3>6, <4>1, DigitsArrive
    <3>8. k \in 1 .. Len(sums) /\ k \in 1 .. Len(places)
      BY <1>1, <2>1, <3>1 DEF SumsExact
    <3>9. sums[k] \in Int /\ places[k] \in Int
      BY <1>1, <3>8 DEF TypeOK
    <3>10. Sign * sums[k + 1] = Sign * sums[k] + d * places[k]
      <4> DEFINE u == sums[k]
                 v == places[k]
      <4>1. sums[k + 1] = u + (Sign * d) * v /\ d \in {-1, 0, 1} /\ u \in Int /\ v \in Int
        BY <3>4, <3>6, <3>7, <3>9 DEF Trit
      <4> HIDE DEF u, v, d, k
      <4>2. ASSUME Sign = 1 PROVE Sign * sums[k + 1] = Sign * u + d * v
        BY <4>1, <4>2
      <4>3. ASSUME Sign = -1 PROVE Sign * sums[k + 1] = Sign * u + d * v
        <5>1. (Sign * d) * v = -(d * v)
          BY <4>1, <4>3
        <5> QED BY <4>1, <4>3, <5>1
      <4>4. Sign * sums[k + 1] = Sign * u + d * v
        BY <3>5, <4>2, <4>3
      <4> QED BY <4>4 DEF u, v
    <3>11. Sign * sums[k] \in Int
      BY <3>5, <3>9
    <3>12. /\ Congruent(result', Sign * sums[k] + d * places[k])
           /\ Congruent(power', 3 * places[k])
      BY <1>2, <1>3, <3>2, <3>9, <3>11, AddDigit
    <3> QED BY <3>1, <3>4, <3>10, <3>12
  <2>2. Len(digits') - i' + 1 = Len(digits) - i + 2
    BY <1>2, <1>3
  <2>3. Sign' = Sign /\ sums' = sums /\ places' = places
    BY <1>2 DEF Sign
  <2> QED BY <1>2, <2>1, <2>2, <2>3 DEF ReadSoFar, Congruent
<1>8. Carried'
  BY <1>1, <1>2 DEF Carried
<1> QED BY <1>4, <1>5, <1>6, <1>7, <1>8 DEF IInv

\* The inductive invariant, for every width and every length of data.
THEOREM Invariance == Spec => []IInv
<1>1. IInv /\ [Next]_vars => IInv'
  <2> SUFFICES ASSUME IInv, [Next]_vars PROVE IInv'
    OBVIOUS
  <2>1. CASE UNCHANGED vars
    BY <2>1 DEF vars, number, reading, exact, IInv, TypeOK, SumsExact, DigitFound, Sign,
        NothingLost, TooLarge, Convertible, Magnitude, Last, Carried, ReadSoFar, Congruent
  <2> QED
    BY <2>1, FromDecimalKeepsIInv, DivideKeepsIInv, FromDecimalEndKeepsIInv,
       FromStringKeepsIInv, DataKeepsIInv, PublishKeepsIInv, ReceiveKeepsIInv,
       ToDecimalKeepsIInv
    DEF Next
<1> QED BY InitIInv, <1>1, PTL DEF Spec

\* The types of all variables.
THEOREM TypeCorrect == Spec => []TypeOK
BY Invariance, PTL DEF IInv

\* The sum of ToDecimal, which is in range, is the exact one when that is.
LEMMA SumRead ==
    ASSUME IInv, pc = "reading", i = 0, source = "number", Len(received) = Len(digits),
           Sign * Last(sums) \in Int64
    PROVE  result = Sign * Last(sums)
<1> DEFINE len == Len(digits)
<1>1. TypeOK /\ len \in Nat /\ Len(sums) = len + 1 /\ Last(sums) = sums[len + 1]
  BY DEF IInv, TypeOK, SumsExact, Last
<1>2. len - i + 1 = len + 1
  BY <1>1
<1>3. Congruent(result, Sign * Last(sums))
  BY <1>1, <1>2 DEF IInv, ReadSoFar
<1> QED BY <1>1, <1>3, CongruentIsApart, ApartInside, Int64Type DEF TypeOK

\* FromDecimal, TernaryToBytes, BytesToTernary and ToDecimal in a row give back
\* every number that has an absolute value and needs no carry that overflows, and
\* no other.
THEOREM NumbersArrive == Spec => []NumberArrives
<1>1. IInv => NumberArrives
  <2> SUFFICES ASSUME IInv, pc = "reading", i = 0, source = "number",
                      Len(received) = Len(digits)
               PROVE  result = n <=> Convertible
    BY DEF NumberArrives
  <2> DEFINE len == Len(digits)
  <2>1. /\ TypeOK /\ len \in Nat /\ Len(sums) = len + 1 /\ Last(sums) = sums[len + 1]
        /\ Last(sums) \in Int /\ Last(places) \in Int
    BY DEF IInv, TypeOK, SumsExact, Last
  <2>2. n \in Int64 /\ n \in Int
    BY <2>1, Int64Type DEF TypeOK
  <2>3. ASSUME Convertible PROVE result = n
    <3>1. Last(sums) = Magnitude
      BY <2>1, <2>3 DEF IInv, NothingLost
    <3>2. Sign * Last(sums) = n
      BY <2>2, <3>1 DEF Sign, Magnitude
    <3> QED BY <2>2, <3>2, SumRead
  <2>4. ASSUME ~Convertible PROVE result # n
    <3>1. Last(sums) \in {-1, 0}
      BY <2>4 DEF IInv, TooLarge
    <3>2. Sign * Last(sums) \in {-1, 0, 1}
      BY <3>1 DEF Sign
    <3>3. result \in {-1, 0, 1}
      BY <3>2, SumRead, LargeNumbers, WidthAssumption DEF Int64
    <3>4. n \notin {-1, 0, 1}
      BY <2>2, <2>4, LargeNumbers, WidthAssumption DEF Convertible, Magnitude
    <3> QED BY <3>3, <3>4
  <2> QED BY <2>3, <2>4
<1> QED BY Invariance, <1>1, PTL

\* Packing and unpacking keep every trit at its place.
THEOREM TritsAreKept == Spec => []TritsSurvive
<1>1. IInv => TritsSurvive
  BY DigitsArrive DEF TritsSurvive
<1> QED BY Invariance, <1>1, PTL

\* A text of T, 0 and 1 is what the subscriber reads.
THEOREM TextsArrive == Spec => []TextArrives
<1>1. IInv => TextArrives
  <2> SUFFICES ASSUME IInv, pc = "reading", source = "text", text \in Seq({"T", "0", "1"}),
                      Len(received) = Len(digits)
               PROVE  String(received) = text
    BY DEF TextArrives
  <2>1. digits = NewBalancedTernaryFromString(text) /\ received \in Seq(Trit)
    BY DEF IInv, Carried, TypeOK
  <2>2. Len(digits) = Len(text) /\ \A k \in 1 .. Len(text) : digits[k] = TritOf(text[k])
    BY <2>1 DEF NewBalancedTernaryFromString
  <2>3. ASSUME NEW k \in 1 .. Len(text)
        PROVE  received[k] = TritOf(text[k]) /\ text[k] \in {"T", "0", "1"}
    BY <2>1, <2>2, DigitsArrive DEF TritOf, Trit, NewBalancedTernaryFromString
  <2> QED BY <2>1, <2>2, <2>3 DEF String, TritOf
<1> QED BY Invariance, <1>1, PTL

=============================================================================
