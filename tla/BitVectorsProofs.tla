------------------------- MODULE BitVectorsProofs -------------------------
(***************************************************************************)
(* Lemmas about integers of a bit width, for every width.                  *)
(***************************************************************************)
EXTENDS BitVectors, FiniteSetTheorems, WellFoundedInduction, TLAPS

\* A set of natural numbers that is not empty has a least element.
LEMMA LeastNat ==
  ASSUME NEW T \in SUBSET Nat, T # {}
  PROVE  \E n \in T : \A m \in T : n <= m
<1>1. IsWellFoundedOn(OpToRel(<, Nat), Nat)
  BY NatLessThanWellFounded
<1>2. PICK n \in T : \A m \in T : ~(<<m, n>> \in OpToRel(<, Nat))
  <2> HIDE DEF OpToRel
  <2> DEFINE R == OpToRel(<, Nat)
  <2>1. IsWellFoundedOn(R, Nat) BY <1>1
  <2> HIDE DEF R
  <2>2. \E n \in T : \A m \in T : ~(<<m, n>> \in R)
    BY <2>1, WFMin
  <2> QED BY <2>2 DEF R
<1>3. \A m \in T : n <= m
  <2> SUFFICES ASSUME NEW m \in T, m < n PROVE FALSE
    BY SMT
  <2>1. <<m, n>> \in Nat \X Nat /\ <<m, n>>[1] < <<m, n>>[2]
    BY SMT
  <2>2. <<m, n>> \in OpToRel(<, Nat)
    BY <2>1, Zenon DEF OpToRel
  <2> QED BY <1>2, <2>2
<1> QED BY <1>3

\* Induction, for a property given as the set of the numbers that have it.
LEMMA Induction ==
  ASSUME NEW T, 0 \in T, \A n \in Nat : n \in T => n + 1 \in T
  PROVE  Nat \subseteq T
<1> SUFFICES ASSUME Nat \ T # {} PROVE FALSE
  OBVIOUS
<1> DEFINE missing == Nat \ T
<1>1. PICK n \in missing : \A m \in missing : n <= m
  <2>1. missing \in SUBSET Nat /\ missing # {}
    OBVIOUS
  <2> HIDE DEF missing
  <2> QED BY <2>1, LeastNat
<1>2. n \in Nat /\ n \notin T /\ n # 0
  OBVIOUS
<1>3. n - 1 \in Nat /\ ~(n <= n - 1) /\ (n - 1) + 1 = n
  BY <1>2
<1>4. n - 1 \in T
  BY <1>1, <1>3
<1> QED BY <1>2, <1>3, <1>4


(***************************************************************************)
(* The provers know nothing of 2^n for a variable n, but the library does: *)
(* it is how many subsets a set of n elements has.                         *)
(***************************************************************************)
LEMMA PowerOfTwo ==
  ASSUME NEW n \in Nat
  PROVE  /\ 2^n \in Nat \ {0}
         /\ n < 2^n
         /\ 2^(n + 1) = 2 * 2^n
<1>1. /\ IsFiniteSet(1 .. n) /\ Cardinality(1 .. n) = n
      /\ IsFiniteSet(1 .. n + 1) /\ Cardinality(1 .. n + 1) = n + 1
      /\ IsFiniteSet(0 .. n) /\ Cardinality(0 .. n) = n + 1
  BY FS_Interval
<1> DEFINE A == SUBSET (1 .. n)
           B == {T \cup {n + 1} : T \in SUBSET (1 .. n)}
<1>2. IsFiniteSet(A) /\ Cardinality(A) = 2^n /\ Cardinality(SUBSET (1 .. n + 1)) = 2^(n + 1)
  BY <1>1, FS_SUBSET
<1>3. 2^n \in Nat
  BY <1>2, FS_CardinalityType
<1>4. n + 1 <= 2^n
  <2> DEFINE f == [i \in 0 .. n |-> {i} \ {0}]
  <2>1. f \in [0 .. n -> A]
    OBVIOUS
  <2>2. ASSUME NEW i \in 0 .. n, NEW j \in 0 .. n, f[i] = f[j]
        PROVE  i = j
    <3>1. {i} \ {0} = {j} \ {0}
      BY <2>2
    <3>2. \A k : k = i /\ k # 0 <=> k = j /\ k # 0
      BY <3>1
    <3>3. i = 0 \/ j = 0 => i = j
      BY <3>2, Zenon
    <3> QED BY <3>2, <3>3, Zenon
  <2>3. f \in Injection(0 .. n, A)
    BY <2>1, <2>2 DEF Injection, IsInjective
  <2> HIDE DEF f, A
  <2> QED BY <1>1, <1>2, <2>3, FS_Injection
<1>5. IsFiniteSet(B) /\ Cardinality(B) = Cardinality(A)
  <2> DEFINE f == [T \in A |-> T \cup {n + 1}]
  <2>1. f \in [A -> B] /\ \A U \in B : \E T \in A : f[T] = U
    OBVIOUS
  <2>2. ASSUME NEW T \in A, NEW U \in A, f[T] = f[U]
        PROVE  T = U
    <3>1. n + 1 \notin T /\ n + 1 \notin U
      OBVIOUS
    <3> QED BY <2>2, <3>1
  <2>3. f \in Bijection(A, B)
    BY <2>1, <2>2 DEF Bijection, Injection, Surjection, IsInjective
  <2> HIDE DEF f, A, B
  <2> QED BY <1>2, <2>3, FS_Bijection DEF ExistsBijection
<1>6. A \cap B = {}
  OBVIOUS
<1>7. A \cup B = SUBSET (1 .. n + 1)
  <2>1. ASSUME NEW U \in SUBSET (1 .. n + 1)
        PROVE  U \in A \/ U \in B
    <3>1. U \ {n + 1} \in A
      OBVIOUS
    <3>2. n + 1 \in U => U = (U \ {n + 1}) \cup {n + 1}
      OBVIOUS
    <3>3. n + 1 \notin U => U = U \ {n + 1}
      OBVIOUS
    <3> QED BY <3>1, <3>2, <3>3
  <2>2. A \subseteq SUBSET (1 .. n + 1) /\ B \subseteq SUBSET (1 .. n + 1)
    <3>1. n + 1 \in 1 .. n + 1 /\ \A i \in 1 .. n : i \in 1 .. n + 1
      OBVIOUS
    <3> QED BY <3>1
  <2> QED BY <2>1, <2>2
<1>8. 2^(n + 1) = 2^n + 2^n
  <2> HIDE DEF A, B
  <2>1. Cardinality(A \cup B) = Cardinality(A) + Cardinality(B) - Cardinality(A \cap B)
    BY <1>2, <1>5, FS_Union
  <2>2. Cardinality(A \cap B) = 0
    BY <1>6, FS_EmptySet
  <2> DEFINE p == 2^n
             q == 2^(n + 1)
  <2>3. p \in Nat /\ Cardinality(A) = p /\ Cardinality(B) = p /\ Cardinality(A \cup B) = q
    BY <1>2, <1>3, <1>5, <1>7
  <2> HIDE DEF p, q
  <2>4. q = p + p
    BY <2>1, <2>2, <2>3
  <2> QED BY <2>4 DEF p, q
<1> QED
  BY <1>3, <1>4, <1>8

\* Division makes a number smaller, unless it is by one.
LEMMA DivBounds ==
  ASSUME NEW a \in Nat, NEW b \in Nat \ {0}
  PROVE  /\ a \div b \in Nat
         /\ a \div b <= a
         /\ b = 1 => a \div b = a
         /\ b > 1 /\ a > 0 => a \div b < a
<1>1. a \div b \in Nat /\ b * (a \div b) <= a
  OBVIOUS
<1>2. a \div b <= a
  OBVIOUS
<1>3. b = 1 => a \div b = a
  OBVIOUS
<1>4. b > 1 /\ a > 0 => a \div b < a
  <2> DEFINE q == a \div b
  <2> HIDE DEF q
  <2>1. q \in Nat /\ b * q <= a
    BY <1>1 DEF q
  <2>2. b > 1 => b * q >= 2 * q
    BY <2>1
  <2> QED BY <2>1, <2>2 DEF q
<1> QED
  BY <1>1, <1>2, <1>3, <1>4

\* The numbers that the same bits denote with and without a sign.
LEMMA SignedValue ==
  ASSUME NEW bits \in Nat \ {0}, NEW x \in Domain(bits)
  PROVE  /\ 2^(bits - 1) \in Nat \ {0} /\ 2^bits = 2 * 2^(bits - 1)
         /\ x \in 0 .. 2^bits - 1
         /\ Signed(bits, x) \in -2^(bits - 1) .. 2^(bits - 1) - 1
         /\ Signed(bits, x) = IF x >= 2^(bits - 1) THEN x - 2^bits ELSE x
<1> DEFINE half == 2^(bits - 1)
           size == 2^bits
<1>1. bits - 1 \in Nat /\ (bits - 1) + 1 = bits
  OBVIOUS
<1>2. half \in Nat \ {0} /\ size = 2 * half
  BY <1>1, PowerOfTwo
<1>3. x \in 0 .. size - 1
  BY DEF Domain
<1>4. Signed(bits, x) = IF 2 * x >= size THEN x - size ELSE x
  BY DEF Signed
<1> HIDE DEF half, size
<1>5. Signed(bits, x) = IF x >= half THEN x - size ELSE x
  BY <1>2, <1>3, <1>4
<1>6. Signed(bits, x) \in -half .. half - 1
  BY <1>2, <1>3, <1>5
<1> QED
  BY <1>2, <1>3, <1>5, <1>6 DEF half, size

\* The one quotient of two's complement numbers that is not one.
LEMMA QuotientRepresentable ==
  ASSUME NEW half \in Nat \ {0}, NEW x \in -half .. half - 1, NEW y \in -half .. half - 1, y # 0
  PROVE  Quotient(x, y) \notin -half .. half - 1 <=> x = -half /\ y = -1
<1> DEFINE a == Abs(x)
           b == Abs(y)
           q == a \div b
<1>1. a \in 0 .. half /\ b \in 1 .. half
  BY DEF Abs
<1>2. /\ q \in 0 .. a /\ (b = 1 => q = a) /\ (b > 1 /\ a > 0 => q < a)
  <2> HIDE DEF a, b
  <2>1. a \in Nat /\ b \in Nat \ {0}
    BY <1>1
  <2> QED BY <2>1, DivBounds
<1>3. Quotient(x, y) = IF (x < 0) = (y < 0) THEN q ELSE -q
  BY DEF Quotient
<1>4. q = half <=> a = half /\ b = 1
  <2> HIDE DEF a, b, q
  <2> QED BY <1>1, <1>2
<1>5. (x < 0) = (y < 0) /\ a = half /\ b = 1 <=> x = -half /\ y = -1
  BY DEF Abs
<1> HIDE DEF a, b, q
<1> QED
  BY <1>1, <1>2, <1>3, <1>4, <1>5

\* A wider integer has more values.
LEMMA PowerMonotone ==
  ASSUME NEW m \in Nat, NEW n \in Nat, m <= n
  PROVE  2^m <= 2^n
<1> DEFINE T == {k \in Nat : 2^m <= 2^(m + k)}
<1>1. 0 \in T
  <2>1. m + 0 = m /\ 2^m \in Nat
    BY PowerOfTwo
  <2> QED BY <2>1
<1>2. ASSUME NEW k \in Nat, k \in T PROVE k + 1 \in T
  <2> DEFINE p == 2^m
             q == 2^(m + k)
             r == 2^(m + (k + 1))
  <2>1. m + k \in Nat /\ (m + k) + 1 = m + (k + 1)
    OBVIOUS
  <2>2. q \in Nat /\ r = 2 * q
    BY <2>1, PowerOfTwo
  <2>3. p \in Nat /\ p <= q
    BY <1>2, PowerOfTwo
  <2> HIDE DEF p, q, r
  <2>4. p <= r
    BY <2>2, <2>3
  <2> QED BY <2>4 DEF p, r
<1>3. n - m \in T
  <2> HIDE DEF T
  <2>1. Nat \subseteq T
    BY <1>1, <1>2, Induction
  <2> QED BY <2>1
<1>4. 2^m <= 2^(m + (n - m)) /\ m + (n - m) = n
  BY <1>3
<1> QED BY <1>4

\* Of two numbers, x = (y * (x \div y)) + (x % y).
LEMMA DivisionWithRest ==
  ASSUME NEW x \in Nat, NEW y \in Nat \ {0}
  PROVE  /\ x \div y \in Nat /\ x \div y <= x
         /\ x % y \in 0 .. y - 1 /\ x % y <= x
         /\ x = ((x \div y) * y) + (x % y)
<1>1. x \div y \in Nat /\ x \div y <= x
  BY DivBounds
<1>2. x % y \in 0 .. y - 1
  OBVIOUS
<1>3. x = (y * (x \div y)) + (x % y)
  OBVIOUS
<1>4. (x \div y) * y \in Nat
  BY <1>1
<1>5. x = ((x \div y) * y) + (x % y)
  BY <1>1, <1>2, <1>3
<1> QED BY <1>1, <1>2, <1>4, <1>5

\* What does not change a number of a width.
LEMMA WrapIdentity ==
  ASSUME NEW bits \in Nat, NEW n \in Int
  PROVE  /\ Wrap(bits, n) \in Domain(bits)
         /\ n \in Domain(bits) => Wrap(bits, n) = n
         /\ 2^bits \in Nat \ {0}
<1> DEFINE size == 2^bits
<1>1. size \in Nat \ {0}
  BY PowerOfTwo
<1> HIDE DEF size
<1>2. n % size \in 0 .. size - 1 /\ (n \in 0 .. size - 1 => n % size = n)
  BY <1>1
<1> QED BY <1>1, <1>2 DEF Wrap, Domain, size

\* Dividing by an even number takes no notice of the last bit.
LEMMA DivByEven ==
  ASSUME NEW x \in Nat, NEW b \in {0, 1}, NEW y \in Nat \ {0}
  PROVE  (2 * x + b) \div (2 * y) = x \div y
<1> DEFINE q == x \div y
           r == x % y
<1>1. q \in Nat /\ r \in 0 .. y - 1 /\ x = (q * y) + r
  BY DivisionWithRest
<1> HIDE DEF q, r
<1> DEFINE z == 2 * r + b
<1>2. z \in 0 .. 2 * y - 1 /\ 2 * x + b = (q * (2 * y)) + z
  BY <1>1
<1> HIDE DEF z
<1>3. ((q * (2 * y)) + z) \div (2 * y) = q
  BY <1>1, <1>2
<1> QED BY <1>2, <1>3 DEF q

LEMMA TwoToTheZero == 2^0 = 1
OBVIOUS

(***************************************************************************)
(* Every set of bits is the set of the bits of a number.                   *)
(***************************************************************************)
LEMMA FromOnesType ==
  ASSUME NEW bits \in Nat, NEW S \in SUBSET (0 .. bits - 1)
  PROVE  FromOnes(bits, S) \in Domain(bits) /\ Ones(bits, FromOnes(bits, S)) = S
<1> DEFINE T == {n \in Nat : \A U \in SUBSET (0 .. n - 1) : \E x \in Domain(n) : Ones(n, x) = U}
<1>1. 0 \in T
  <2> SUFFICES ASSUME NEW U \in SUBSET (0 .. 0 - 1)
               PROVE  \E x \in Domain(0) : Ones(0, x) = U
    OBVIOUS
  <2>1. 0 .. 0 - 1 = {}
    OBVIOUS
  <2>2. U = {} /\ Ones(0, 0) = {}
    BY <2>1 DEF Ones
  <2>3. 0 \in Domain(0)
    BY TwoToTheZero DEF Domain
  <2> QED BY <2>2, <2>3
<1>2. ASSUME NEW n \in Nat, n \in T PROVE n + 1 \in T
  <2> SUFFICES ASSUME NEW U \in SUBSET (0 .. (n + 1) - 1)
               PROVE  \E x \in Domain(n + 1) : Ones(n + 1, x) = U
    OBVIOUS
  <2> DEFINE V == {i \in 0 .. n - 1 : i + 1 \in U}
             b == IF 0 \in U THEN 1 ELSE 0
  <2>1. PICK y \in Domain(n) : Ones(n, y) = V
    <3>1. V \in SUBSET (0 .. n - 1)
      OBVIOUS
    <3> HIDE DEF V
    <3> QED BY <1>2, <3>1
  <2> DEFINE x == 2 * y + b
             p == 2^n
             q == 2^(n + 1)
  <2>2. p \in Nat \ {0} /\ q = 2 * p /\ y \in 0 .. p - 1 /\ b \in {0, 1}
    BY PowerOfTwo DEF Domain
  <2>3. x \in Domain(n + 1) /\ x \in Nat /\ y \in Nat
    <3>1. x \in 0 .. q - 1 /\ y \in Nat
      <4> HIDE DEF p, q, b
      <4> QED BY <2>2
    <3> HIDE DEF x
    <3> QED BY <3>1 DEF Domain
  <2>4. (x \div 2^0) % 2 = 1 <=> 0 \in U
    <3>1. x \div 1 = x /\ x % 2 = b
      <4> HIDE DEF b
      <4> QED BY <2>2, <2>3
    <3> HIDE DEF x
    <3> QED BY <3>1, TwoToTheZero
  <2>5. ASSUME NEW j \in 0 .. n - 1
        PROVE  (x \div 2^(j + 1)) % 2 = 1 <=> j + 1 \in U
    <3> DEFINE r == 2^j
               s == 2^(j + 1)
    <3>1. r \in Nat \ {0} /\ s = 2 * r
      BY PowerOfTwo
    <3>2. j \in V <=> (y \div r) % 2 = 1
      BY <2>1 DEF Ones
    <3>3. x \div s = y \div r
      <4> HIDE DEF b, r, s
      <4> QED BY <2>2, <2>3, <3>1, DivByEven
    <3> HIDE DEF r, x
    <3> QED BY <3>2, <3>3
  <2>6. ASSUME NEW i \in 0 .. n
        PROVE  (x \div 2^i) % 2 = 1 <=> i \in U
    <3>1. CASE i = 0
      <4> HIDE DEF x
      <4> QED BY <2>4, <3>1
    <3>2. CASE i # 0
      <4>1. i - 1 \in 0 .. n - 1 /\ (i - 1) + 1 = i
        BY <3>2
      <4> HIDE DEF x
      <4> QED BY <2>5, <4>1
    <3> QED BY <3>1, <3>2
  <2>7. (n + 1) - 1 = n
    OBVIOUS
  <2>8. Ones(n + 1, x) = U
    <3> HIDE DEF x
    <3> QED BY <2>6, <2>7 DEF Ones
  <2> HIDE DEF x
  <2> QED BY <2>3, <2>8
<1>3. \E x \in Domain(bits) : Ones(bits, x) = S
  <2>1. Nat \subseteq T
    <3> HIDE DEF T
    <3> QED BY <1>1, <1>2, Induction
  <2> QED BY <2>1
<1> QED BY <1>3 DEF FromOnes

-----------------------------------------------------------------------------
(***************************************************************************)
(* The operations of a solver of bit vectors against those of LLVM.        *)
(***************************************************************************)
LEMMA MagnitudeAndSign ==
  ASSUME NEW bits \in Nat \ {0}, NEW x \in Domain(bits)
  PROVE  /\ Magnitude(bits, x) = Abs(Signed(bits, x))
         /\ Magnitude(bits, x) \in 0 .. 2^(bits - 1)
         /\ IsNegative(bits, x) <=> Signed(bits, x) < 0
         /\ Signed(bits, x) = IF IsNegative(bits, x) THEN -Magnitude(bits, x) ELSE Magnitude(bits, x)
         /\ x # 0 => Magnitude(bits, x) # 0
<1> DEFINE half == 2^(bits - 1)
           size == 2^bits
           negated == (-x) % size
<1>1. half \in Nat \ {0} /\ size = 2 * half /\ x \in 0 .. size - 1
  BY SignedValue
<1>2. /\ Signed(bits, x) = IF 2 * x >= size THEN x - size ELSE x
      /\ IsNegative(bits, x) <=> 2 * x >= size
      /\ Magnitude(bits, x) = IF 2 * x >= size THEN negated ELSE x
  BY DEF Signed, IsNegative, Magnitude, Negate, Wrap
<1> HIDE DEF half, size
<1>3. 2 * x >= size => negated = size - x
  BY <1>1
<1> HIDE DEF negated
<1>4. /\ Magnitude(bits, x) = Abs(Signed(bits, x))
      /\ Magnitude(bits, x) \in 0 .. half
      /\ IsNegative(bits, x) <=> Signed(bits, x) < 0
      /\ Signed(bits, x) = IF IsNegative(bits, x) THEN -Magnitude(bits, x) ELSE Magnitude(bits, x)
      /\ x # 0 => Magnitude(bits, x) # 0
  BY <1>1, <1>2, <1>3 DEF Abs
<1> QED BY <1>4 DEF half

(***************************************************************************)
(* The signed divisions, which SMT-LIB makes of the unsigned ones, are     *)
(* those of two's complement numbers, rounded towards zero.                *)
(***************************************************************************)
LEMMA SignedDivisionsAgree ==
  ASSUME NEW bits \in Nat \ {0}, NEW x \in Domain(bits), NEW y \in Domain(bits), y # 0
  PROVE  LET quotient == Quotient(Signed(bits, x), Signed(bits, y)) IN
         /\ BvSDiv(bits, x, y) = Wrap(bits, quotient)
         /\ BvSRem(bits, x, y) = Wrap(bits, Signed(bits, x) - quotient * Signed(bits, y))
<1> DEFINE a == Magnitude(bits, x)
           b == Magnitude(bits, y)
           s == Signed(bits, x)
           t == Signed(bits, y)
           q == a \div b
           r == a % b
           half == 2^(bits - 1)
           size == 2^bits
           Q == Quotient(s, t)
<1>1. half \in Nat \ {0} /\ size = 2 * half /\ s \in Int /\ t \in Int
  BY SignedValue
<1>2. /\ a = Abs(s) /\ a \in 0 .. half /\ (IsNegative(bits, x) <=> s < 0) /\ s = IF s < 0 THEN -a ELSE a
      /\ b = Abs(t) /\ b \in 1 .. half /\ (IsNegative(bits, y) <=> t < 0) /\ t = IF t < 0 THEN -b ELSE b
  <2>1. /\ a = Abs(s) /\ a \in 0 .. half /\ (IsNegative(bits, x) <=> s < 0)
        /\ s = IF IsNegative(bits, x) THEN -a ELSE a
    BY MagnitudeAndSign
  <2>2. /\ b = Abs(t) /\ b \in 0 .. half /\ (IsNegative(bits, y) <=> t < 0)
        /\ t = IF IsNegative(bits, y) THEN -b ELSE b
        /\ b # 0
    BY MagnitudeAndSign
  <2> HIDE DEF a, b, s, t, half
  <2> QED BY <1>1, <2>1, <2>2
<1>3. /\ q \in 0 .. half /\ r \in 0 .. half - 1 /\ a = (q * b) + r
  <2> HIDE DEF a, b, half
  <2>1. a \in Nat /\ b \in Nat \ {0}
    BY <1>1, <1>2
  <2>2. q \in Nat /\ q <= a /\ r \in 0 .. b - 1 /\ r <= a /\ a = (q * b) + r
    BY <2>1, DivisionWithRest
  <2> HIDE DEF q, r
  <2> QED BY <1>1, <1>2, <2>2
<1>4. Q = IF (s < 0) = (t < 0) THEN q ELSE -q
  <2> HIDE DEF a, b, s, t
  <2> QED BY <1>2 DEF Quotient
<1>5. /\ BvSDiv(bits, x, y) = IF (s < 0) = (t < 0) THEN q ELSE (-q) % size
      /\ BvSRem(bits, x, y) = IF s < 0 THEN (-r) % size ELSE r
  <2>1. b # 0
    <3> HIDE DEF a, b, half
    <3> QED BY <1>1, <1>2
  <2>2. /\ BvSDiv(bits, x, y) = IF IsNegative(bits, x) = IsNegative(bits, y) THEN q ELSE (-q) % size
        /\ BvSRem(bits, x, y) = IF IsNegative(bits, x) THEN (-r) % size ELSE r
    BY <2>1, Zenon DEF BvSDiv, BvSRem, BvUDiv, BvURem, Negate, Wrap
  <2>3. IsNegative(bits, x) \in BOOLEAN /\ IsNegative(bits, y) \in BOOLEAN
    BY DEF IsNegative
  <2>4. IsNegative(bits, x) = (s < 0) /\ IsNegative(bits, y) = (t < 0)
    BY <1>2, <2>3
  <2> QED BY <2>2, <2>4, Zenon
<1> HIDE DEF a, b, s, t, q, r, half, size, Q
<1>6. s - (Q * t) = IF s < 0 THEN -r ELSE r
  <2>1. CASE s < 0 /\ t < 0
    <3>1. s = -a /\ t = -b /\ Q = q
      BY <1>2, <1>4, <2>1
    <3>2. q * (-b) = -(q * b)
      BY <1>2, <1>3
    <3>3. s - (Q * t) = (-a) + (q * b)
      BY <1>2, <1>3, <3>1, <3>2
    <3> QED BY <1>2, <1>3, <2>1, <3>3
  <2>2. CASE s < 0 /\ ~(t < 0)
    <3>1. s = -a /\ t = b /\ Q = -q
      BY <1>2, <1>4, <2>2
    <3>2. (-q) * b = -(q * b)
      BY <1>2, <1>3
    <3>3. s - (Q * t) = (-a) + (q * b)
      BY <1>2, <1>3, <3>1, <3>2
    <3> QED BY <1>2, <1>3, <2>2, <3>3
  <2>3. CASE ~(s < 0) /\ t < 0
    <3>1. s = a /\ t = -b /\ Q = -q
      BY <1>2, <1>4, <2>3
    <3>2. (-q) * (-b) = q * b
      BY <1>2, <1>3
    <3>3. s - (Q * t) = a - (q * b)
      BY <1>2, <1>3, <3>1, <3>2
    <3> QED BY <1>2, <1>3, <2>3, <3>3
  <2>4. CASE ~(s < 0) /\ ~(t < 0)
    <3>1. s = a /\ t = b /\ Q = q
      BY <1>2, <1>4, <2>4
    <3> QED BY <1>2, <1>3, <2>4, <3>1
  <2> QED BY <2>1, <2>2, <2>3, <2>4
<1>7. q % size = q /\ r % size = r
  BY <1>1, <1>3
<1>8. BvSDiv(bits, x, y) = Q % size
  BY <1>4, <1>5, <1>7
<1>9. BvSRem(bits, x, y) = (s - (Q * t)) % size
  BY <1>5, <1>6, <1>7
<1> QED BY <1>8, <1>9, Zenon DEF Wrap, Q, s, t, size

(***************************************************************************)
(* What an operation computes is a number of its width.                    *)
(***************************************************************************)
LEMMA SolverDivisionType ==
  ASSUME NEW bits \in Nat \ {0}, NEW x \in Domain(bits), NEW y \in Domain(bits)
  PROVE  /\ BvUDiv(bits, x, y) \in Domain(bits) /\ BvURem(x, y) \in Domain(bits)
         /\ BvSDiv(bits, x, y) \in Domain(bits) /\ BvSRem(bits, x, y) \in Domain(bits)
<1> DEFINE size == 2^bits
           half == 2^(bits - 1)
<1>1. half \in Nat \ {0} /\ size = 2 * half /\ x \in 0 .. size - 1 /\ y \in 0 .. size - 1
  BY SignedValue
<1>2. ASSUME NEW a \in 0 .. size - 1, NEW b \in 0 .. size - 1
      PROVE  /\ BvUDiv(bits, a, b) \in 0 .. size - 1
             /\ BvURem(a, b) \in 0 .. size - 1
  <2>1. CASE b = 0
    <3>1. BvUDiv(bits, a, b) = size - 1 /\ BvURem(a, b) = a
      BY <2>1 DEF BvUDiv, BvURem
    <3> HIDE DEF size
    <3> QED BY <1>1, <3>1
  <2>2. CASE b # 0
    <3> HIDE DEF size, half
    <3>1. a \in Nat /\ b \in Nat \ {0}
      BY <2>2, <1>1
    <3>2. a \div b \in Nat /\ a \div b <= a /\ a % b \in 0 .. b - 1 /\ a % b <= a
      BY <3>1, DivisionWithRest
    <3>3. BvUDiv(bits, a, b) = a \div b /\ BvURem(a, b) = a % b
      BY <2>2 DEF BvUDiv, BvURem
    <3> QED BY <1>1, <3>2, <3>3
  <2> QED BY <2>1, <2>2
<1>3. Magnitude(bits, x) \in 0 .. size - 1 /\ Magnitude(bits, y) \in 0 .. size - 1
  <2>1. Magnitude(bits, x) \in 0 .. half /\ Magnitude(bits, y) \in 0 .. half
    BY MagnitudeAndSign
  <2> HIDE DEF half, size
  <2> QED BY <1>1, <2>1
<1>4. \A n \in 0 .. size - 1 : Negate(bits, n) \in 0 .. size - 1
  <2> SUFFICES ASSUME NEW n \in 0 .. size - 1 PROVE Negate(bits, n) \in 0 .. size - 1
    OBVIOUS
  <2>1. Negate(bits, n) = (-n) % size
    BY DEF Negate, Wrap
  <2> HIDE DEF size
  <2> QED BY <1>1, <2>1
<1>5. BvSDiv(bits, x, y) \in 0 .. size - 1
  BY <1>2, <1>3, <1>4 DEF BvSDiv
<1>6. BvSRem(bits, x, y) \in 0 .. size - 1
  BY <1>2, <1>3, <1>4 DEF BvSRem
<1> QED BY <1>1, <1>2, <1>5, <1>6 DEF Domain

LEMMA ResultType ==
  ASSUME NEW op \in BinaryOps \ DivOps,
         NEW bits \in Nat \ {0}, NEW x \in Domain(bits), NEW y \in Domain(bits)
  PROVE  Result(op, bits, x, y) \in Domain(bits)
<1>1. x \in Nat /\ y \in Nat /\ Signed(bits, x) \in Int
  BY SignedValue
<1>2. 2^y \in Nat \ {0}
  BY <1>1, PowerOfTwo
<1>3. Ones(bits, x) \in SUBSET (0 .. bits - 1) /\ Ones(bits, y) \in SUBSET (0 .. bits - 1)
  BY DEF Ones
<1>4. CASE op \in OverflowOps
  <2>1. Exact(op, x, y) \in Int
    BY <1>1, <1>4 DEF Exact, OverflowOps
  <2>2. Result(op, bits, x, y) = Wrap(bits, Exact(op, x, y))
    BY <1>4 DEF Result, OverflowOps
  <2> QED BY <2>1, <2>2, WrapIdentity
<1>5. CASE op = "shl"
  <2>1. Result(op, bits, x, y) = Wrap(bits, x * 2^y)
    BY <1>5 DEF Result, OverflowOps
  <2>2. x * 2^y \in Int
    BY <1>1, <1>2
  <2> QED BY <2>1, <2>2, WrapIdentity
<1>6. CASE op = "lshr"
  <2> DEFINE p == 2^y
  <2>1. Result(op, bits, x, y) = x \div p
    BY <1>6 DEF Result, OverflowOps
  <2>2. x \div p \in Nat /\ x \div p <= x
    <3>1. p \in Nat \ {0}
      BY <1>2
    <3> HIDE DEF p
    <3> QED BY <1>1, <3>1, DivBounds
  <2>3. 2^bits \in Nat /\ x \in 0 .. 2^bits - 1
    BY PowerOfTwo, SignedValue
  <2> HIDE DEF p
  <2> QED BY <2>1, <2>2, <2>3 DEF Domain
<1>7. CASE op = "ashr"
  <2> DEFINE p == 2^y
             s == Signed(bits, x)
  <2>1. Result(op, bits, x, y) = Wrap(bits, s \div p)
    BY <1>7 DEF Result, OverflowOps
  <2>2. s \in Int /\ p \in Nat \ {0}
    BY <1>1, <1>2
  <2> HIDE DEF s, p
  <2>3. s \div p \in Int
    BY <2>2
  <2> QED BY <2>1, <2>3, WrapIdentity
<1>8. CASE op = "and"
  <2>1. Result(op, bits, x, y) = FromOnes(bits, Ones(bits, x) \cap Ones(bits, y))
    BY <1>8 DEF Result, OverflowOps
  <2>2. Ones(bits, x) \cap Ones(bits, y) \in SUBSET (0 .. bits - 1)
    BY <1>3
  <2> QED BY <2>1, <2>2, FromOnesType
<1>9. CASE op = "or"
  <2>1. Result(op, bits, x, y) = FromOnes(bits, Ones(bits, x) \cup Ones(bits, y))
    BY <1>9 DEF Result, OverflowOps
  <2>2. Ones(bits, x) \cup Ones(bits, y) \in SUBSET (0 .. bits - 1)
    BY <1>3
  <2> QED BY <2>1, <2>2, FromOnesType
<1>10. CASE op = "xor"
  <2> DEFINE S == (Ones(bits, x) \cup Ones(bits, y)) \ (Ones(bits, x) \cap Ones(bits, y))
  <2>1. Result(op, bits, x, y) = FromOnes(bits, S)
    BY <1>10 DEF Result, OverflowOps
  <2>2. S \in SUBSET (0 .. bits - 1)
    BY <1>3
  <2> HIDE DEF S
  <2> QED BY <2>1, <2>2, FromOnesType
<1> QED
  BY <1>4, <1>5, <1>6, <1>7, <1>8, <1>9, <1>10
  DEF BinaryOps, CheckedOps, OverflowOps, DivOps, SignedDivOps, ShiftOps

(***************************************************************************)
(* Sign extension, the solver's and LLVM's, and what is kept by an         *)
(* extension with zeros.                                                   *)
(***************************************************************************)
LEMMA Extension ==
  ASSUME NEW bits \in Nat \ {0}, NEW newBits \in Nat \ {0}, bits <= newBits, NEW x \in Domain(bits)
  PROVE  /\ BvSExt(bits, newBits, x) = Wrap(newBits, Signed(bits, x))
         /\ BvSExt(bits, newBits, x) \in Domain(newBits)
         /\ x \in Domain(newBits) /\ Wrap(newBits, x) = x
<1> DEFINE size == 2^bits
           newSize == 2^newBits
           half == 2^(bits - 1)
           s == Signed(bits, x)
<1>1. half \in Nat \ {0} /\ size = 2 * half /\ x \in 0 .. size - 1
  BY SignedValue
<1>2. newSize \in Nat \ {0} /\ size <= newSize
  BY PowerOfTwo, PowerMonotone
<1>3. s = IF 2 * x >= size THEN x - size ELSE x
  BY DEF Signed
<1>4. BvSExt(bits, newBits, x) = IF 2 * x >= size THEN x + newSize - size ELSE x
  BY DEF BvSExt, IsNegative
<1> HIDE DEF size, newSize, half, s
<1>5. /\ BvSExt(bits, newBits, x) = s % newSize
      /\ BvSExt(bits, newBits, x) \in 0 .. newSize - 1
      /\ x \in 0 .. newSize - 1 /\ x % newSize = x
  BY <1>1, <1>2, <1>3, <1>4
<1> QED BY <1>5, Zenon DEF Wrap, Domain, newSize, s

\* Multiples of the size of a width are of no account.
LEMMA WrapMultiple ==
  ASSUME NEW bits \in Nat, NEW n \in Int, NEW d \in Int
  PROVE  Wrap(bits, n - (d * 2^bits)) = Wrap(bits, n)
<1> DEFINE size == 2^bits
           q == n \div size
           r == n % size
<1>1. size \in Nat \ {0}
  BY PowerOfTwo
<1> HIDE DEF size
<1>2. q \in Int /\ r \in 0 .. size - 1 /\ n = (size * q) + r
  BY <1>1
<1> HIDE DEF q, r
<1>3. n - (d * size) = ((q - d) * size) + r /\ q - d \in Int
  BY <1>1, <1>2
<1> DEFINE e == q - d
<1>4. e \in Int /\ n - (d * size) = (e * size) + r
  BY <1>3
<1> HIDE DEF e
<1>5. ((e * size) + r) % size = r
  BY <1>1, <1>2, <1>4
<1> QED BY <1>4, <1>5, Zenon DEF Wrap, size, r
====
