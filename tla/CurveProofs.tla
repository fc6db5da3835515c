----------------------------- MODULE CurveProofs -----------------------------
(***************************************************************************)
(* Lemmas about the curve of KMSWallet, for every group of odd prime order *)
(* N: arithmetic modulo N, its inverses and square roots, and what signing *)
(* and recovery compute.  The proofs about the wallets cite them by name.  *)
(***************************************************************************)
EXTENDS KMSWallet, FiniteSetTheorems, TLAPS

-----------------------------------------------------------------------------
(***************************************************************************)
(* Integers modulo N.                                                      *)
(***************************************************************************)
LEMMA NType == N \in Int /\ N > 2
BY KmsAssumption

\* Division with remainder.
LEMMA Remainder ==
  ASSUME NEW a \in Int
  PROVE  /\ (a % N) \in 0 .. N - 1
         /\ \E q \in Int : a = (a % N) + N * q
<1>1. (a % N) \in 0 .. N - 1
  BY NType
<1>2. a = (a % N) + N * (a \div N) /\ a \div N \in Int
  BY NType
<1>3. QED
  BY <1>1, <1>2

\* The remainder is the only number below N that differs from a by a multiple.
LEMMA RemainderUnique ==
  ASSUME NEW a \in Int, NEW q \in Int, NEW r \in 0 .. N - 1, a = r + N * q
  PROVE  a % N = r
BY NType

\* Numbers that differ by a multiple of N are the same modulo N.
LEMMA SameModulo ==
  ASSUME NEW a \in Int, NEW b \in Int, NEW q \in Int, a = b + N * q
  PROVE  a % N = b % N
<1>1. PICK d \in Int : b = (b % N) + N * d
  BY Remainder
<1>2. (b % N) \in 0 .. N - 1
  BY Remainder
<1>3. a = (b % N) + N * (d + q)
  <2>1. \A m, r, x, y \in Int : (r + m * x) + m * y = r + m * (x + y)
    OBVIOUS
  <2>2. (b % N) \in Int
    BY <1>2, NType
  <2>3. QED
    BY <1>1, <2>1, <2>2, NType
<1>4. d + q \in Int
  OBVIOUS
<1>5. QED
  BY <1>2, <1>3, <1>4, RemainderUnique

\* Numbers that are the same modulo N differ by a multiple of N.
LEMMA Multiple ==
  ASSUME NEW a \in Int, NEW b \in Int, a % N = b % N
  PROVE  \E q \in Int : a = b + N * q
<1>1. PICK d \in Int : a = (a % N) + N * d
  BY Remainder
<1>2. PICK e \in Int : b = (a % N) + N * e
  BY Remainder
<1>3. a = b + N * (d - e)
  <2>1. \A m, r, x, y \in Int : r + m * x = (r + m * y) + m * (x - y)
    OBVIOUS
  <2>2. (a % N) \in Int
    BY Remainder, NType
  <2>3. QED
    BY <1>1, <1>2, <2>1, <2>2, NType
<1>4. QED
  BY <1>3

LEMMA Small ==
  ASSUME NEW a \in 0 .. N - 1
  PROVE  a % N = a
<1>1. a \in Int /\ a = a + N * 0
  BY NType
<1>2. QED
  BY <1>1, RemainderUnique

\* Products and sums may be reduced in their operands.
LEMMA ProductModulo ==
  ASSUME NEW a \in Int, NEW b \in Int, NEW c \in Int, a % N = b % N
  PROVE  (a * c) % N = (b * c) % N
<1>1. PICK q \in Int : a = b + N * q
  BY Multiple
<1>2. a * c = b * c + N * (q * c)
  <2>1. \A m, x, y, z \in Int : (x + m * y) * z = x * z + m * (y * z)
    OBVIOUS
  <2>2. QED
    BY <1>1, <2>1, NType
<1>3. a * c \in Int /\ b * c \in Int /\ q * c \in Int
  OBVIOUS
<1>4. QED
  BY <1>2, <1>3, SameModulo

LEMMA SumModulo ==
  ASSUME NEW a \in Int, NEW b \in Int, NEW c \in Int, a % N = b % N
  PROVE  (a + c) % N = (b + c) % N /\ (a - c) % N = (b - c) % N
<1>1. PICK q \in Int : a = b + N * q
  BY Multiple
<1>2. a + c = (b + c) + N * q /\ a - c = (b - c) + N * q
  <2>1. \A m, x, y, z \in Int : (x + m * y) + z = (x + z) + m * y /\ (x + m * y) - z = (x - z) + m * y
    OBVIOUS
  <2>2. QED
    BY <1>1, <2>1, NType
<1>3. QED
  BY <1>2, SameModulo

-----------------------------------------------------------------------------
(***************************************************************************)
(* N is a prime.                                                           *)
(***************************************************************************)
\* A product is 0 only when a factor is.
LEMMA NoZeroDivisors ==
  ASSUME NEW a \in Int, NEW b \in Int, (a * b) % N = 0
  PROVE  a % N = 0 \/ b % N = 0
<1> SUFFICES ASSUME a % N # 0, b % N # 0 PROVE FALSE
  OBVIOUS
<1> DEFINE r == a % N
           t == b % N
<1>1. r \in 1 .. N - 1 /\ t \in 1 .. N - 1 /\ r \in Int /\ t \in Int
  BY Remainder, NType
<1>2. r % N = a % N /\ t % N = b % N
  BY <1>1, Small, NType
<1> HIDE DEF r, t
<1>3. (r * t) % N = (a * t) % N
  BY <1>1, <1>2, ProductModulo
<1>4. (t * a) % N = (b * a) % N
  BY <1>1, <1>2, ProductModulo
<1>5. a * t = t * a /\ b * a = a * b
  BY <1>1
<1>6. (r * t) % N = 0
  BY <1>3, <1>4, <1>5
<1>7. QED
  BY <1>1, <1>6, KmsAssumption

\* A factor that is not 0 cancels.
LEMMA Cancel ==
  ASSUME NEW a \in Scalars, NEW x \in Int, NEW y \in Int, (a * x) % N = (a * y) % N
  PROVE  x % N = y % N
<1>1. a \in Int /\ a \in 0 .. N - 1 /\ a # 0
  BY NType DEF Scalars
<1>2. a % N # 0
  BY <1>1, Small
<1>3. (a * (x - y)) % N = 0
  <2>1. PICK q \in Int : a * x = a * y + N * q
    BY <1>1, Multiple
  <2>2. a * (x - y) = 0 + N * q
    <3>1. \A m, u, v, w, z \in Int : u * v = u * w + m * z => u * (v - w) = 0 + m * z
      OBVIOUS
    <3>2. QED
      BY <1>1, <2>1, <3>1, NType
  <2>3. a * (x - y) \in Int /\ 0 \in 0 .. N - 1
    BY <1>1, NType
  <2>4. QED
    BY <2>2, <2>3, RemainderUnique
<1>4. (x - y) % N = 0
  BY <1>1, <1>2, <1>3, NoZeroDivisors
<1>5. 0 % N = 0
  BY NType
<1>6. PICK q \in Int : x - y = 0 + N * q
  BY <1>4, <1>5, Multiple
<1>7. x = y + N * q
  BY <1>6, NType
<1>8. QED
  BY <1>7, SameModulo

\* A scalar is its own remainder, and so is not 0 modulo N.
LEMMA Scalar ==
  ASSUME NEW a \in Scalars
  PROVE  a \in Int /\ a \in 0 .. N - 1 /\ a # 0 /\ a % N = a
<1>1. a \in Int /\ a \in 0 .. N - 1 /\ a # 0
  BY NType DEF Scalars
<1>2. QED
  BY <1>1, Small

LEMMA ScalarProduct ==
  ASSUME NEW a \in Scalars, NEW b \in Scalars
  PROVE  (a * b) % N \in Scalars
<1>1. a \in Int /\ b \in Int /\ a * b \in Int
  BY Scalar
<1>2. (a * b) % N \in 0 .. N - 1
  BY <1>1, Remainder
<1>3. (a * b) % N # 0
  BY <1>1, Scalar, NoZeroDivisors
<1>4. QED
  BY <1>2, <1>3, NType DEF Scalars

\* Multiplication by a scalar permutes the scalars, so one of them is its
\* inverse.
LEMMA InverseExists ==
  ASSUME NEW a \in Scalars
  PROVE  Inverted(a) \in Scalars /\ (a * Inverted(a)) % N = 1
<1> DEFINE f == [b \in Scalars |-> (a * b) % N]
<1>1. f \in [Scalars -> Scalars]
  BY ScalarProduct
<1>2. f \in Injection(Scalars, Scalars)
  <2> SUFFICES ASSUME NEW b \in Scalars, NEW c \in Scalars, f[b] = f[c] PROVE b = c
    BY <1>1 DEF Injection, IsInjective
  <2>1. b \in Int /\ c \in Int /\ (a * b) % N = (a * c) % N
    BY Scalar
  <2>2. b % N = c % N
    BY <2>1, Cancel
  <2>3. QED
    BY <2>2, Scalar
<1>3. IsFiniteSet(Scalars)
  BY FS_Interval, NType DEF Scalars
<1>4. f \in Surjection(Scalars, Scalars)
  BY <1>2, <1>3, FS_Injection
<1>5. 1 \in Scalars
  BY NType DEF Scalars
<1>6. \E b \in Scalars : (a * b) % N = 1
  BY <1>4, <1>5 DEF Surjection
<1>7. QED
  BY <1>6 DEF Inverted

\* Multiplication by the inverse divides.
LEMMA Division ==
  ASSUME NEW a \in Scalars, NEW e \in Int
  PROVE  /\ (e * Inverted(a)) % N \in 0 .. N - 1
         /\ (a * ((e * Inverted(a)) % N)) % N = e % N
<1> DEFINE i == Inverted(a)
<1>1. a \in Int /\ i \in Int /\ (a * i) % N = 1
  BY InverseExists, Scalar
<1> HIDE DEF i
<1>2. PICK q \in Int : a * i = 1 + N * q
  <2>1. 1 % N = 1
    BY Small, NType
  <2>2. QED
    BY <1>1, <2>1, Multiple
<1>3. e * i \in Int
  BY <1>1
<1> DEFINE t == (e * i) % N
<1>4. t \in 0 .. N - 1
  BY <1>3, Remainder
<1>5. PICK z \in Int : e * i = t + N * z
  BY <1>3, Remainder
<1>6. t \in Int
  BY <1>4, NType
<1> HIDE DEF t
<1>7. a * t = e + N * (q * e - a * z)
  <2>1. \A m, aa, ii, ee, tt, qq, zz \in Int :
          aa * ii = 1 + m * qq /\ ee * ii = tt + m * zz => aa * tt = ee + m * (qq * ee - aa * zz)
    <3> SUFFICES ASSUME NEW m \in Int, NEW aa \in Int, NEW ii \in Int, NEW ee \in Int,
                        NEW tt \in Int, NEW qq \in Int, NEW zz \in Int,
                        aa * ii = 1 + m * qq, ee * ii = tt + m * zz
                 PROVE  aa * tt = ee + m * (qq * ee - aa * zz)
      OBVIOUS
    <3>1. tt = ee * ii - m * zz
      OBVIOUS
    <3>2. aa * (ee * ii - m * zz) = (aa * ii) * ee - m * (aa * zz)
      OBVIOUS
    <3>3. (1 + m * qq) * ee - m * (aa * zz) = ee + m * (qq * ee - aa * zz)
      OBVIOUS
    <3>4. QED
      BY <3>1, <3>2, <3>3
  <2>2. QED
    BY <1>1, <1>2, <1>5, <1>6, <2>1, NType
<1>8. a * t \in Int /\ q * e - a * z \in Int
  BY <1>1, <1>6
<1>9. (a * t) % N = e % N
  BY <1>7, <1>8, SameModulo
<1>10. QED
  BY <1>4, <1>9 DEF t, i

-----------------------------------------------------------------------------
(***************************************************************************)
(* Points: k and N - k are the two with the x coordinate of k, and one of  *)
(* them has an even y.                                                     *)
(***************************************************************************)
LEMMA XRange ==
  ASSUME NEW k \in Scalars
  PROVE  XCoordinate(k) \in Scalars
BY ScalarProduct DEF XCoordinate

LEMMA Opposite ==
  ASSUME NEW k \in Scalars
  PROVE  /\ N - k \in Scalars
         /\ XCoordinate(N - k) = XCoordinate(k)
         /\ YIsEven(N - k) <=> ~YIsEven(k)
<1>1. k \in Int /\ N - k \in Scalars
  BY NType DEF Scalars
<1>2. (N - k) * (N - k) = k * k + N * (N - k - k)
  <2>1. \A m, x \in Int : (m - x) * (m - x) = x * x + m * (m - x - x)
    OBVIOUS
  <2>2. QED
    BY <1>1, <2>1, NType
<1>3. XCoordinate(N - k) = XCoordinate(k)
  <2>1. (N - k) * (N - k) \in Int /\ k * k \in Int /\ N - k - k \in Int
    BY <1>1, NType
  <2>2. QED
    BY <1>2, <2>1, SameModulo DEF XCoordinate
<1>4. YIsEven(N - k) <=> ~YIsEven(k)
  BY <1>1, NType, KmsAssumption DEF YIsEven
<1>5. QED
  BY <1>1, <1>3, <1>4

LEMMA SquareRoots ==
  ASSUME NEW p \in Scalars, NEW q \in Scalars, XCoordinate(p) = XCoordinate(q)
  PROVE  p = q \/ p = N - q
<1>1. p \in Int /\ q \in Int /\ p * p \in Int /\ q * q \in Int
  BY Scalar
<1>2. PICK z \in Int : p * p = q * q + N * z
  BY <1>1, Multiple DEF XCoordinate
<1>3. (p - q) * (p + q) = 0 + N * z
  <2>1. \A m, x, y, w \in Int : x * x = y * y + m * w => (x - y) * (x + y) = 0 + m * w
    OBVIOUS
  <2>2. QED
    BY <1>1, <1>2, <2>1, NType
<1>4. ((p - q) * (p + q)) % N = 0
  <2>1. (p - q) * (p + q) \in Int /\ 0 \in 0 .. N - 1
    BY <1>1, NType
  <2>2. QED
    BY <1>3, <2>1, RemainderUnique
<1>5. 0 % N = 0
  BY NType
<1>6. CASE (p - q) % N = 0
  <2>1. PICK w \in Int : p - q = 0 + N * w
    BY <1>1, <1>5, <1>6, Multiple
  <2>2. p = q + N * w
    BY <1>1, <2>1, NType
  <2>3. p % N = q % N
    BY <1>1, <2>2, SameModulo
  <2>4. QED
    BY <2>3, Scalar
<1>7. CASE (p + q) % N = 0
  <2>1. PICK w \in Int : p + q = 0 + N * w
    BY <1>1, <1>5, <1>7, Multiple
  <2>2. N - q \in Scalars /\ N - q \in Int
    BY Opposite, Scalar
  <2>3. p = (N - q) + N * (w - 1)
    <3>1. \A m, x, y, u \in Int : x + y = 0 + m * u => x = (m - y) + m * (u - 1)
      OBVIOUS
    <3>2. QED
      BY <1>1, <2>1, <3>1, NType
  <2>4. p % N = (N - q) % N
    BY <1>1, <2>2, <2>3, SameModulo
  <2>5. QED
    BY <2>2, <2>4, Scalar
<1>8. QED
  BY <1>1, <1>4, <1>6, <1>7, NoZeroDivisors

-----------------------------------------------------------------------------
(***************************************************************************)
(* Signing and recovery.                                                   *)
(***************************************************************************)
\* The equation between a recovered key and the point it was recovered from.
Recovers(key, h, r, s, v, point) ==
  /\ XCoordinate(point) = r
  /\ YIsEven(point) = (v = 27)
  /\ (r * key) % N = (s * point - h) % N

LEMMA RecoveredPoint ==
  ASSUME NEW h \in Int, NEW r \in Scalars, NEW s \in Int, NEW v,
         NEW key \in Recovered(h, r, s, v)
  PROVE  key \in Scalars /\ \E p \in Scalars : Recovers(key, h, r, s, v, p)
<1>1. PICK p \in Scalars : /\ XCoordinate(p) = r /\ YIsEven(p) = (v = 27)
                           /\ key = ((s * p - h) * Inverted(r)) % N /\ key # 0
  BY DEF Recovered
<1>2. s * p - h \in Int
  BY Scalar
<1>3. key \in 0 .. N - 1 /\ (r * key) % N = (s * p - h) % N
  BY <1>1, <1>2, Division
<1>4. key \in Scalars
  BY <1>1, <1>3, NType DEF Scalars
<1>5. QED
  BY <1>1, <1>3, <1>4 DEF Recovers

LEMMA PointRecovers ==
  ASSUME NEW h \in Int, NEW r \in Scalars, NEW s \in Int, NEW v,
         NEW key \in Scalars, NEW p \in Scalars, Recovers(key, h, r, s, v, p)
  PROVE  key \in Recovered(h, r, s, v)
<1> DEFINE t == ((s * p - h) * Inverted(r)) % N
<1>1. s * p - h \in Int
  BY Scalar
<1>2. t \in 0 .. N - 1 /\ (r * t) % N = (r * key) % N
  BY <1>1, Division DEF Recovers
<1>3. t \in Int /\ key \in Int
  BY <1>2, Scalar, NType
<1>4. t % N = key % N
  <2> HIDE DEF t
  <2>1. QED
    BY <1>2, <1>3, Cancel
<1>5. t = key
  BY <1>2, <1>4, Small, Scalar
<1>6. XCoordinate(p) = r /\ YIsEven(p) = (v = 27) /\ key # 0
  BY Scalar DEF Recovers
<1>7. QED
  BY <1>5, <1>6 DEF Recovered

\* A signature and a recovery bit lead to at most one key.
LEMMA RecoveredOne ==
  ASSUME NEW h \in Int, NEW r \in Scalars, NEW s \in Int, NEW v,
         NEW key \in Recovered(h, r, s, v), NEW other \in Recovered(h, r, s, v)
  PROVE  key = other
<1>1. key \in Scalars /\ other \in Scalars
  BY RecoveredPoint
<1>2. PICK p \in Scalars : Recovers(key, h, r, s, v, p)
  BY RecoveredPoint
<1>3. PICK q \in Scalars : Recovers(other, h, r, s, v, q)
  BY RecoveredPoint
<1>4. p = q
  <2>1. XCoordinate(p) = XCoordinate(q) /\ YIsEven(p) = YIsEven(q)
    BY <1>2, <1>3 DEF Recovers
  <2>2. YIsEven(N - q) <=> ~YIsEven(q)
    BY Opposite
  <2>3. QED
    BY <2>1, <2>2, SquareRoots
<1>5. (r * key) % N = (r * other) % N
  BY <1>2, <1>3, <1>4 DEF Recovers
<1>6. key % N = other % N
  BY <1>1, <1>5, Cancel, Scalar
<1>7. QED
  BY <1>1, <1>6, Scalar

\* What recovery finds for a signature, verification accepts it for.
LEMMA RecoveredVerifies ==
  ASSUME NEW h \in Int, NEW sig, sig.r \in Scalars, sig.s \in Scalars, NEW v,
         NEW key \in Recovered(h, sig.r, sig.s, v)
  PROVE  Verifies(key, h, sig)
<1> DEFINE r == sig.r
           s == sig.s
           e == h + r * key
           u == (Inverted(s) * e) % N
<1>1. r \in Scalars /\ s \in Scalars /\ r \in Int /\ s \in Int
  BY Scalar
<1>2. key \in Int
  BY <1>1, RecoveredPoint, Scalar
<1>3. PICK p \in Scalars : Recovers(key, h, r, s, v, p)
  BY <1>1, RecoveredPoint
<1>4. p \in Int /\ s * p \in Int /\ s * p - h \in Int /\ r * key \in Int /\ e \in Int
  BY <1>1, <1>2, Scalar
<1>5. e % N = (s * p) % N
  <2>1. (r * key + h) % N = ((s * p - h) + h) % N
    BY <1>3, <1>4, SumModulo DEF Recovers
  <2>2. r * key + h = e /\ (s * p - h) + h = s * p
    BY <1>4
  <2>3. QED
    BY <2>1, <2>2
<1>6. u \in 0 .. N - 1 /\ (s * u) % N = e % N
  <2>1. Inverted(s) * e = e * Inverted(s)
    <3> HIDE DEF e
    <3>1. Inverted(s) \in Int
      BY <1>1, InverseExists, Scalar
    <3>2. QED
      BY <1>4, <3>1
  <2>2. QED
    BY <1>1, <1>4, <2>1, Division
<1>7. u = p
  <2>1. u \in Int /\ (s * u) % N = (s * p) % N
    BY <1>5, <1>6, NType
  <2> HIDE DEF u
  <2>2. u % N = p % N
    BY <1>1, <1>4, <2>1, Cancel
  <2>3. QED
    BY <1>6, <2>2, Small, Scalar
<1>8. u # 0 /\ XCoordinate(u) = r
  BY <1>3, <1>7, Scalar DEF Recovers
<1>9. QED
  BY <1>8 DEF Verifies

\* A signature leads to its signer, with one of the two recovery bits.
LEMMA RecoversSigner ==
  ASSUME NEW d \in Scalars, NEW h \in Int, NEW k \in Scalars
  PROVE  /\ SValue(d, h, k) \in 0 .. N - 1
         /\ \E v \in {27, 28} : d \in Recovered(h, XCoordinate(k), SValue(d, h, k), v)
<1> DEFINE r == XCoordinate(k)
           e == h + r * d
           s == SValue(d, h, k)
<1>1. r \in Scalars /\ r \in Int /\ d \in Int /\ k \in Int
  BY XRange, Scalar
<1>2. r * d \in Int /\ e \in Int
  <2> HIDE DEF r
  <2>1. QED
    BY <1>1
<1>3. s \in 0 .. N - 1 /\ (k * s) % N = e % N
  <2>1. Inverted(k) * e = e * Inverted(k)
    BY <1>2, InverseExists, Scalar
  <2>2. QED
    BY <1>2, <2>1, Division DEF SValue
<1>4. s \in Int /\ k * s \in Int
  <2> HIDE DEF s
  <2>1. QED
    BY <1>1, <1>3, NType
<1>5. (r * d) % N = (s * k - h) % N
  <2> HIDE DEF r, s
  <2>1. (k * s - h) % N = (e - h) % N
    BY <1>2, <1>3, <1>4, SumModulo
  <2>2. k * s = s * k /\ e - h = r * d
    BY <1>1, <1>2, <1>4
  <2>3. QED
    BY <2>1, <2>2
<1> DEFINE v == IF YIsEven(k) THEN 27 ELSE 28
<1>6. Recovers(d, h, r, s, v, k)
  <2> HIDE DEF s
  <2>1. YIsEven(k) = (v = 27)
    BY DEF YIsEven
  <2>2. QED
    BY <1>5, <2>1 DEF Recovers
<1>7. d \in Recovered(h, r, s, v)
  <2> HIDE DEF r, s, v
  <2>1. QED
    BY <1>1, <1>4, <1>6, PointRecovers
<1>8. v \in {27, 28}
  OBVIOUS
<1>9. QED
  BY <1>3, <1>7, <1>8

-----------------------------------------------------------------------------
(***************************************************************************)
(* Normalising s.                                                          *)
(***************************************************************************)
LEMMA LowSRange ==
  ASSUME NEW s \in Scalars
  PROVE  LowS(s) \in Scalars /\ LowS(s) <= N \div 2
BY NType DEF LowS, Scalars

\* Negating s exchanges what the two recovery bits lead to.
LEMMA NegatedRecovers ==
  ASSUME NEW h \in Int, NEW r \in Scalars, NEW s \in Int, NEW v \in {27, 28},
         NEW key \in Recovered(h, r, s, v)
  PROVE  key \in Recovered(h, r, N - s, 55 - v)
<1>1. PICK p \in Scalars : Recovers(key, h, r, s, v, p)
  BY RecoveredPoint
<1>2. key \in Scalars /\ key \in Int /\ r \in Int /\ p \in Int /\ N - s \in Int
  BY RecoveredPoint, Scalar, NType
<1>3. (N - s) * (N - p) - h = (s * p - h) + N * (N - s - p)
  <2>1. \A m, x, y, z \in Int : (m - x) * (m - y) - z = (x * y - z) + m * (m - x - y)
    OBVIOUS
  <2>2. QED
    BY <1>2, <2>1, NType
<1>4. ((N - s) * (N - p) - h) % N = (s * p - h) % N
  <2>1. (N - s) * (N - p) - h \in Int /\ s * p - h \in Int /\ N - s - p \in Int
    BY <1>2, NType
  <2>2. QED
    BY <1>3, <2>1, SameModulo
<1>5. (YIsEven(N - p) = (55 - v = 27)) /\ N - p \in Scalars /\ XCoordinate(N - p) = r
  BY <1>1, Opposite DEF Recovers, YIsEven
<1>6. Recovers(key, h, r, N - s, 55 - v, N - p)
  BY <1>1, <1>4, <1>5 DEF Recovers
<1>7. QED
  BY <1>2, <1>5, <1>6, PointRecovers

\* So the keys a signature leads to are those of its low form.
LEMMA LowSRecovers ==
  ASSUME NEW h \in Int, NEW r \in Scalars, NEW s \in Scalars, NEW v \in {27, 28}
  PROVE  /\ \E w \in {27, 28} : Recovered(h, r, LowS(s), v) = Recovered(h, r, s, w)
         /\ \E w \in {27, 28} : Recovered(h, r, s, v) = Recovered(h, r, LowS(s), w)
<1>1. CASE s > N \div 2
  <2>1. s \in Int /\ N - s \in Int /\ N - (N - s) = s
    BY Scalar, NType
  <2>2. \A w \in {27, 28} : 55 - w \in {27, 28} /\ 55 - (55 - w) = w
    OBVIOUS
  <2>3. ASSUME NEW w \in {27, 28} PROVE Recovered(h, r, N - s, w) = Recovered(h, r, s, 55 - w)
    <3>1. Recovered(h, r, N - s, w) \subseteq Recovered(h, r, s, 55 - w)
      BY <2>1, NegatedRecovers
    <3>2. Recovered(h, r, s, 55 - w) \subseteq Recovered(h, r, N - s, w)
      BY <2>1, <2>2, NegatedRecovers
    <3>3. QED
      BY <3>1, <3>2
  <2>4. LowS(s) = N - s
    BY <1>1 DEF LowS
  <2>5. Recovered(h, r, LowS(s), v) = Recovered(h, r, s, 55 - v)
    BY <2>3, <2>4
  <2>6. Recovered(h, r, s, v) = Recovered(h, r, LowS(s), 55 - v)
    BY <2>2, <2>3, <2>4
  <2>7. QED
    BY <2>2, <2>5, <2>6
<1>2. CASE ~(s > N \div 2)
  BY <1>2 DEF LowS
<1>3. QED
  BY <1>1, <1>2
=============================================================================
