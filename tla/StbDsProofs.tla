------------------------------ MODULE StbDsProofs ------------------------------
(***************************************************************************)
(* Theorems about StbDs, for every set of keys, every hash function, both  *)
(* bucket lengths and tables of every size.                                *)
(***************************************************************************)
EXTENDS StbDs, AccessPointsDataProofs, FiniteSetTheorems

-----------------------------------------------------------------------------
(* Powers of two and triangular numbers.                                   *)

Divides(d, m) == \E q \in Int : m = d * q

Odd(x) == x \in Int /\ \E o \in Int : x = 2 * o + 1

(***************************************************************************)
(* What a search needs of a number of buckets: it divides a product with   *)
(* an odd factor only if it divides the other factor.  Of the positive     *)
(* numbers the powers of two have this property; here it is enough that 1  *)
(* has it, and that doubling and halving keep it.                          *)
(***************************************************************************)
PowerOfTwo(p) ==
  /\ p \in Nat \ {0}
  /\ \A x, y \in Int : Odd(x) /\ Divides(p, x * y) => Divides(p, y)

LEMMA OneIsPower == PowerOfTwo(1)
<1> SUFFICES ASSUME NEW y \in Int PROVE Divides(1, y)
  BY DEF PowerOfTwo
<1>1. y = 1 * y
  OBVIOUS
<1>2. QED
  BY <1>1 DEF Divides

LEMMA DoubleIsPower ==
  ASSUME NEW p, PowerOfTwo(p)
  PROVE  PowerOfTwo(2 * p)
<1>1. p \in Nat \ {0} /\ 2 * p \in Nat \ {0}
  BY DEF PowerOfTwo
<1>2. ASSUME NEW x \in Int, NEW y \in Int, Odd(x), Divides(2 * p, x * y)
      PROVE  Divides(2 * p, y)
  <2>1. PICK o \in Int : x = 2 * o + 1
    BY <1>2 DEF Odd
  <2>2. PICK q \in Int : x * y = (2 * p) * q
    BY <1>2 DEF Divides
  <2> DEFINE pq == p * q
             oy == o * y
             half == pq - oy
  <2>3. pq \in Int /\ oy \in Int /\ half \in Int
    BY <1>1
  <2>4. x * y = 2 * pq
    BY <1>1, <2>2
  <2>5. x * y = 2 * oy + y
    BY <2>1
  <2>6. y = 2 * half
    <3> HIDE DEF pq, oy
    <3>1. QED
      BY <2>3, <2>4, <2>5
  <2> HIDE DEF half
  <2>7. x * half = p * q
    <3>1. x * y = 2 * (x * half)
      BY <2>3, <2>6
    <3>2. x * half \in Int
      BY <2>3
    <3>3. QED
      BY <2>3, <2>4, <3>1, <3>2
  <2>8. PICK r \in Int : half = p * r
    BY <1>2, <2>3, <2>7 DEF PowerOfTwo, Divides
  <2>9. y = (2 * p) * r
    BY <1>1, <2>6, <2>8
  <2>10. QED
    BY <2>9 DEF Divides
<1>3. QED
  BY <1>1, <1>2 DEF PowerOfTwo

LEMMA HalfIsPower ==
  ASSUME NEW p \in Nat \ {0}, PowerOfTwo(2 * p)
  PROVE  PowerOfTwo(p)
<1>1. ASSUME NEW x \in Int, NEW y \in Int, Odd(x), Divides(p, x * y)
      PROVE  Divides(p, y)
  <2>1. PICK q \in Int : x * y = p * q
    BY <1>1 DEF Divides
  <2>2. x * (2 * y) = (2 * p) * q
    BY <2>1
  <2>3. PICK r \in Int : 2 * y = (2 * p) * r
    <3>1. Divides(2 * p, x * (2 * y)) /\ 2 * y \in Int
      BY <2>2 DEF Divides
    <3>2. Divides(2 * p, 2 * y)
      BY <1>1, <3>1 DEF PowerOfTwo
    <3>3. QED
      BY <3>2 DEF Divides
  <2>4. y = p * r
    <3>1. p * r \in Int /\ 2 * y = 2 * (p * r)
      BY <2>3
    <3>2. QED
      BY <3>1
  <2>5. QED
    BY <2>4 DEF Divides
<1>2. QED
  BY <1>1 DEF PowerOfTwo

LEMMA PowerIsEven ==
  ASSUME NEW p, PowerOfTwo(p), p # 1
  PROVE  /\ p \div 2 \in Nat \ {0} /\ p = 2 * (p \div 2)
         /\ PowerOfTwo(p \div 2)
<1>1. p \in Nat \ {0} /\ p \in Int
  BY DEF PowerOfTwo
<1>2. p = 2 * (p \div 2) \/ p = 2 * (p \div 2) + 1
  BY <1>1
<1>3. p # 2 * (p \div 2) + 1
  <2> SUFFICES ASSUME p = 2 * (p \div 2) + 1 PROVE FALSE
    OBVIOUS
  <2>1. Odd(p)
    BY <1>1 DEF Odd
  <2>2. p * 1 = p * 1 /\ 1 \in Int
    OBVIOUS
  <2>3. Divides(p, p * 1)
    BY <2>2 DEF Divides
  <2>4. Divides(p, 1)
    BY <1>1, <2>1, <2>2, <2>3 DEF PowerOfTwo
  <2>5. PICK q \in Int : 1 = p * q
    BY <2>4 DEF Divides
  <2>6. p >= 2
    BY <1>1
  <2>7. CASE q <= 0
    <3>1. p * q <= 0
      BY <1>1, <2>7
    <3>2. QED
      BY <1>1, <2>5, <3>1
  <2>8. CASE q >= 1
    <3>1. p * q >= p
      BY <1>1, <2>8
    <3>2. QED
      BY <1>1, <2>5, <2>6, <3>1
  <2>9. QED
    BY <2>7, <2>8
<1>4. p \div 2 \in Nat \ {0} /\ p = 2 * (p \div 2)
  BY <1>1, <1>2, <1>3
<1>5. QED
  BY <1>4, HalfIsPower

LEMMA DivisionOf ==
  ASSUME NEW m \in Int, NEW n \in Nat \ {0}
  PROVE  /\ m = n * (m \div n) + (m % n)
         /\ m \div n \in Int /\ m % n \in 0..(n - 1)
  OBVIOUS

LEMMA DivisionIs ==
  ASSUME NEW m \in Int, NEW n \in Nat \ {0}, NEW q \in Int, NEW r \in 0..(n - 1),
         m = n * q + r
  PROVE  m \div n = q /\ m % n = r
<1> DEFINE q2 == m \div n
           r2 == m % n
<1>1. m = n * q2 + r2 /\ q2 \in Int /\ r2 \in 0..(n - 1)
  BY DivisionOf
<1> HIDE DEF q2, r2
<1>2. n * q \in Int /\ n * q2 \in Int /\ n * q + r = n * q2 + r2
  BY <1>1
<1>3. ~(q2 >= q + 1)
  <2> SUFFICES ASSUME q2 >= q + 1 PROVE FALSE
    OBVIOUS
  <2>1. n * q2 >= n * q + n
    <3>1. n * q2 >= n * (q + 1)
      BY <1>1
    <3>2. n * (q + 1) = n * q + n
      OBVIOUS
    <3>3. QED
      BY <3>1, <3>2
  <2>2. QED
    BY <1>1, <1>2, <2>1
<1>4. ~(q >= q2 + 1)
  <2> SUFFICES ASSUME q >= q2 + 1 PROVE FALSE
    OBVIOUS
  <2>1. n * q >= n * q2 + n
    <3>1. n * q >= n * (q2 + 1)
      BY <1>1
    <3>2. n * (q2 + 1) = n * q2 + n
      BY <1>1
    <3>3. QED
      BY <3>1, <3>2
  <2>2. QED
    BY <1>1, <1>2, <2>1
<1>5. q2 = q
  BY <1>1, <1>3, <1>4
<1>6. r2 = r
  BY <1>1, <1>2, <1>5
<1>7. QED
  BY <1>5, <1>6 DEF q2, r2

LEMMA SameRest ==
  ASSUME NEW m \in Int, NEW k \in Int, NEW n \in Nat \ {0}, m % n = k % n
  PROVE  \E q \in Int : m - k = n * q
<1> DEFINE qm == m \div n
           qk == k \div n
           r == m % n
<1>1. m = n * qm + r /\ qm \in Int /\ k = n * qk + r /\ qk \in Int /\ r \in Int
  BY DivisionOf
<1> HIDE DEF qm, qk, r
<1>2. n * (qm - qk) = n * qm - n * qk /\ qm - qk \in Int
  BY <1>1
<1>3. n * qm \in Int /\ n * qk \in Int
  BY <1>1
<1>4. m - k = n * (qm - qk)
  BY <1>1, <1>2, <1>3
<1>5. QED
  BY <1>2, <1>4

Triangle(v) == (v * (v + 1)) \div 2

LEMMA TriangleIs ==
  ASSUME NEW v \in Nat
  PROVE  Triangle(v) \in Nat /\ 2 * Triangle(v) = v * (v + 1)
<1> DEFINE k == v \div 2
<1>1. k \in Nat /\ (v = 2 * k \/ v = 2 * k + 1)
  OBVIOUS
<1> HIDE DEF k
<1>2. CASE v = 2 * k
  <2>1. v * (v + 1) = 2 * (k * (v + 1)) /\ k * (v + 1) \in Nat
    BY <1>1, <1>2
  <2>2. Triangle(v) = k * (v + 1)
    BY <2>1 DEF Triangle
  <2>3. QED
    BY <2>1, <2>2
<1>3. CASE v = 2 * k + 1
  <2>1. v * (v + 1) = 2 * (v * (k + 1)) /\ v * (k + 1) \in Nat
    BY <1>1, <1>3
  <2>2. Triangle(v) = v * (k + 1)
    BY <2>1 DEF Triangle
  <2>3. QED
    BY <2>1, <2>2
<1>4. QED
  BY <1>1, <1>2, <1>3

(***************************************************************************)
(* Steps of one bucket, two buckets, three ... never come to a bucket      *)
(* twice within as many steps as there are buckets.                        *)
(***************************************************************************)
LEMMA TrianglesDiffer ==
  ASSUME NEW p, PowerOfTwo(p), NEW a \in Nat,
         NEW v \in 0..(p - 1), NEW w \in 0..(p - 1), v < w
  PROVE  (a + Triangle(v)) % p # (a + Triangle(w)) % p
<1>1. p \in Nat \ {0} /\ v \in Nat /\ w \in Nat
  BY DEF PowerOfTwo
<1>2. SUFFICES ASSUME (a + Triangle(v)) % p = (a + Triangle(w)) % p
               PROVE  FALSE
  OBVIOUS
<1> DEFINE tv == Triangle(v)
           tw == Triangle(w)
           x == w - v
           y == v + w + 1
<1>3. /\ tv \in Nat /\ tw \in Nat
      /\ 2 * tv = v * (v + 1) /\ 2 * tw = w * (w + 1)
  BY <1>1, TriangleIs
<1> HIDE DEF tv, tw
<1>4. PICK q \in Int : tw - tv = p * q
  <2>1. a + tw \in Int /\ a + tv \in Int /\ (a + tw) - (a + tv) = tw - tv
    BY <1>3
  <2>2. (a + tw) % p = (a + tv) % p
    BY <1>2 DEF tv, tw
  <2>3. \E q \in Int : (a + tw) - (a + tv) = p * q
    BY <1>1, <2>1, <2>2, SameRest
  <2>4. QED
    BY <2>1, <2>3
<1>5. x \in Int /\ y \in Int /\ x > 0 /\ x < p /\ y > 0 /\ y < 2 * p
  BY <1>1
<1>6. x * y = (2 * p) * q
  <2>1. x * y = w * (w + 1) - v * (v + 1)
    BY <1>1
  <2>2. 2 * (p * q) = 2 * tw - 2 * tv
    BY <1>1, <1>3, <1>4
  <2>3. (2 * p) * q = 2 * (p * q)
    BY <1>1
  <2>4. QED
    BY <1>3, <2>1, <2>2, <2>3
<1>7. Divides(2 * p, x * y) /\ Divides(2 * p, y * x)
  <2>1. y * x = (2 * p) * q
    BY <1>1, <1>5, <1>6
  <2>2. QED
    BY <1>6, <2>1 DEF Divides
<1>8. PowerOfTwo(2 * p)
  BY DoubleIsPower
<1>9. ASSUME NEW z \in Int, z > 0, z < 2 * p, Divides(2 * p, z)
      PROVE  FALSE
  <2>1. PICK r \in Int : z = (2 * p) * r
    BY <1>9 DEF Divides
  <2>2. CASE r <= 0
    <3>1. (2 * p) * r <= 0
      BY <1>1, <2>2
    <3>2. QED
      BY <1>9, <2>1, <3>1
  <2>3. CASE r >= 1
    <3>1. (2 * p) * r >= 2 * p
      BY <1>1, <2>3
    <3>2. QED
      BY <1>1, <1>9, <2>1, <3>1
  <2>4. QED
    BY <2>2, <2>3
<1>10. CASE Odd(x)
  <2>1. Divides(2 * p, y)
    BY <1>5, <1>7, <1>8, <1>10 DEF PowerOfTwo
  <2>2. QED
    BY <1>5, <1>9, <2>1
<1>11. CASE Odd(y)
  <2>1. Divides(2 * p, x)
    BY <1>5, <1>7, <1>8, <1>11 DEF PowerOfTwo
  <2>2. x < 2 * p
    BY <1>1, <1>5
  <2>3. QED
    BY <1>5, <1>9, <2>1, <2>2
<1>12. Odd(x) \/ Odd(y)
  <2>1. \E o \in Int : x = 2 * o + 1 \/ x = 2 * o
    <3>1. x = 2 * (x \div 2) + 1 \/ x = 2 * (x \div 2)
      BY <1>5
    <3>2. QED
      BY <1>5, <3>1
  <2>2. PICK o \in Int : x = 2 * o + 1 \/ x = 2 * o
    BY <2>1
  <2>3. y = x + 2 * v + 1
    BY <1>1
  <2>4. x = 2 * o => y = 2 * (o + v) + 1 /\ o + v \in Int
    BY <1>1, <2>3
  <2>5. QED
    BY <1>5, <2>2, <2>4 DEF Odd
<1>13. QED
  BY <1>10, <1>11, <1>12

(***************************************************************************)
(* The buckets a search visits, without the positions within them.         *)
(***************************************************************************)
LEMMA VisitedBucketIs ==
  ASSUME NEW p \in Nat \ {0}, NEW h \in Nat, NEW v \in Nat,
         NEW n, n = BucketLength * p
  PROVE  /\ (h % n) \div BucketLength \in Nat
         /\ VisitedBucket(h, n, v) =
              ((h % n) \div BucketLength + Triangle(v)) % p
         /\ VisitedBucket(h, n, v) \in 0..(p - 1)
<1> DEFINE B == BucketLength
           m == h % n
           a == m \div B
           t == Triangle(v)
           bucket == (a + t) % p
<1>1. /\ B \in {4, 8} /\ n = B * p /\ n \in Nat \ {0} /\ m \in Nat /\ a \in Nat
      /\ m = B * a + (m % B) /\ m % B \in 0..(B - 1) /\ t \in Nat
  <2>1. B \in {4, 8} /\ n = B * p /\ n \in Nat \ {0}
    BY BucketAssumption
  <2>2. m \in Nat
    BY <2>1, DivisionOf
  <2> HIDE DEF m
  <2>3. QED
    BY <2>1, <2>2, TriangleIs
<1> HIDE DEF m, a, t
<1>2. bucket \in 0..(p - 1) /\ \E e \in Int : a + t = p * e + bucket
  <2>1. a + t \in Int
    BY <1>1
  <2>2. QED
    BY <2>1, DivisionOf
<1> HIDE DEF bucket
<1>3. PICK e \in Int : a + t = p * e + bucket
  BY <1>2
<1> DEFINE rest == B * bucket + (m % B)
<1>4. rest \in 0..(n - 1)
  BY <1>1, <1>2
<1>5. m + B * t = n * e + rest
  <2>1. n * e = B * (p * e) /\ p * e \in Int
    BY <1>1
  <2>2. m + B * t = B * (a + t) + (m % B)
    BY <1>1
  <2>3. B * (a + t) = B * (p * e) + B * bucket
    BY <1>1, <1>2, <1>3, <2>1
  <2>4. QED
    BY <1>1, <1>2, <2>1, <2>2, <2>3
<1>6. (m + B * t) % n = rest
  <2>1. m + B * t \in Int
    BY <1>1
  <2> HIDE DEF rest, B
  <2>2. QED
    BY <1>1, <1>4, <1>5, <2>1, DivisionIs
<1>7. rest \div B = bucket
  BY <1>1, <1>2
<1>8. VisitedBucket(h, n, v) = ((m + B * t) % n) \div B
  BY DEF VisitedBucket, Triangle, m, t
<1>9. QED
  BY <1>1, <1>2, <1>6, <1>7, <1>8 DEF bucket, a, m, t

(***************************************************************************)
(* A search visits every slot, and none of them twice.                     *)
(***************************************************************************)
VisitsAll(way, n) ==
  /\ way \in [0..(n - 1) -> 0..(n - 1)]
  /\ \A j, k \in 0..(n - 1) : way[j] = way[k] => j = k
  /\ \A x \in 0..(n - 1) : \E k \in 0..(n - 1) : way[k] = x

LEMMA ProbeVisitsAll ==
  ASSUME NEW p, PowerOfTwo(p), NEW h \in Nat, NEW n, n = BucketLength * p
  PROVE  VisitsAll(Probe(h, n), n)
<1> DEFINE B == BucketLength
           bucket(v) == VisitedBucket(h, n, v)
<1>1. p \in Nat \ {0} /\ B \in {4, 8} /\ n \in Nat \ {0} /\ n = B * p
  BY BucketAssumption DEF PowerOfTwo
<1>2. \A v \in Nat : bucket(v) \in 0..(p - 1)
  BY <1>1, VisitedBucketIs
<1>3. ASSUME NEW v \in 0..(p - 1), NEW w \in 0..(p - 1), bucket(v) = bucket(w)
      PROVE  v = w
  <2> DEFINE a == (h % n) \div B
  <2>1. /\ a \in Nat
        /\ bucket(v) = (a + Triangle(v)) % p /\ bucket(w) = (a + Triangle(w)) % p
    <3>1. v \in Nat /\ w \in Nat
      BY <1>1
    <3>2. \A i \in Nat :
            /\ (h % n) \div BucketLength \in Nat
            /\ VisitedBucket(h, n, i) =
                 ((h % n) \div BucketLength + Triangle(i)) % p
      <4>1. p \in Nat \ {0}
        BY <1>1
      <4>2. QED
        BY <4>1, VisitedBucketIs, Zenon
    <3>3. QED
      BY <3>1, <3>2, Zenon DEF a, B
  <2> HIDE DEF a, bucket
  <2>2. ~(v < w)
    BY <1>3, <2>1, TrianglesDiffer
  <2>3. ~(w < v)
    BY <1>3, <2>1, TrianglesDiffer
  <2>4. QED
    BY <1>1, <2>2, <2>3
<1>4. ASSUME NEW k \in 0..(n - 1)
      PROVE  /\ k \div B \in 0..(p - 1) /\ (h + k) % B \in 0..(B - 1)
             /\ Probe(h, n)[k] = B * bucket(k \div B) + ((h + k) % B)
             /\ Probe(h, n)[k] \in 0..(n - 1)
  <2>1. k \div B \in 0..(p - 1) /\ (h + k) % B \in 0..(B - 1)
    BY <1>1
  <2>2. Probe(h, n)[k] = B * bucket(k \div B) + ((h + k) % B)
    BY DEF Probe
  <2>3. bucket(k \div B) \in 0..(p - 1)
    BY <1>2, <2>1
  <2> HIDE DEF bucket
  <2>4. QED
    BY <1>1, <2>1, <2>2, <2>3
<1>5. Probe(h, n) \in [0..(n - 1) -> 0..(n - 1)]
  <2>1. DOMAIN Probe(h, n) = 0..(n - 1) /\ Probe(h, n) = [k \in 0..(n - 1) |-> Probe(h, n)[k]]
    BY DEF Probe
  <2>2. QED
    BY <1>4, <2>1
<1>6. ASSUME NEW j \in 0..(n - 1), NEW k \in 0..(n - 1),
             Probe(h, n)[j] = Probe(h, n)[k]
      PROVE  j = k
  <2> DEFINE bj == bucket(j \div B)
             bk == bucket(k \div B)
             rj == (h + j) % B
             rk == (h + k) % B
  <2>1. bj \in 0..(p - 1) /\ bk \in 0..(p - 1)
    BY <1>2, <1>4
  <2>2. rj \in 0..(B - 1) /\ rk \in 0..(B - 1)
    BY <1>1, <1>4
  <2>3. B * bj + rj = B * bk + rk
    BY <1>4, <1>6
  <2>4. bj = bk /\ rj = rk
    <3> HIDE DEF bj, bk, rj, rk
    <3>1. QED
      BY <1>1, <2>1, <2>2, <2>3
  <2>5. j \div B = k \div B
    BY <1>3, <1>4, <2>4
  <2>6. \E q \in Int : j - k = B * q
    <3>1. h + j \in Int /\ h + k \in Int /\ B \in Nat \ {0}
      BY <1>1
    <3>2. \E q \in Int : (h + j) - (h + k) = B * q
      BY <2>4, <3>1, SameRest
    <3>3. QED
      BY <3>2
  <2>7. j - k < B /\ k - j < B
    BY <1>1, <2>5
  <2>8. QED
    BY <1>1, <2>6, <2>7
<1>7. ASSUME NEW x \in 0..(n - 1)
      PROVE  \E k \in 0..(n - 1) : Probe(h, n)[k] = x
  <2> DEFINE S == 0..(n - 1)
  <2>1. IsFiniteSet(S)
    BY <1>1, FS_Interval
  <2>2. Probe(h, n) \in Injection(S, S)
    BY <1>5, <1>6 DEF Injection, IsInjective
  <2>3. Probe(h, n) \in Surjection(S, S)
    BY <2>1, <2>2, FS_Injection
  <2>4. QED
    BY <2>3 DEF Surjection
<1>8. QED
  BY <1>5, <1>6, <1>7 DEF VisitsAll

LEMMA FirstOfSet ==
  ASSUME NEW S \in SUBSET Nat, NEW s \in S
  PROVE  \E k \in S : \A j \in 0..(k - 1) : j \notin S
<1> SUFFICES ASSUME \A k \in S : \E j \in 0..(k - 1) : j \in S
             PROVE  FALSE
  OBVIOUS
<1> DEFINE T == {n \in Nat : \A k \in 0..n : k \notin S}
<1>1. 0 \in T
  OBVIOUS
<1>2. ASSUME NEW n \in Nat, n \in T PROVE n + 1 \in T
  <2>1. n + 1 \notin S
    BY <1>2
  <2>2. QED
    BY <1>2, <2>1
<1>3. \A n \in Nat : n \in T
  <2> HIDE DEF T
  <2>1. QED
    BY <1>1, <1>2, NatSetInduction
<1>4. QED
  BY <1>3

(***************************************************************************)
(* Tables and what a search finds in them.                                 *)
(***************************************************************************)
TakenSlot == [hash : Nat \ {0, 1}, index : Nat \ {0}]

Tables(n) ==
  [slots : [0..(n - 1) -> TakenSlot \cup {Empty, Deleted}],
   used : Nat, tombstones : Nat]

Sizes == {n \in Nat : \E p : PowerOfTwo(p) /\ n = BucketLength * p}

OnWay(t, h, k) == t.slots[Probe(h, slot_count(t))[k]]

LEMMA SlotCountIs ==
  ASSUME NEW n \in Sizes, NEW t \in Tables(n)
  PROVE  /\ Slots(t) = 0..(n - 1) /\ slot_count(t) = n
         /\ n \in Nat \ {0} /\ n >= 4
<1>1. n \in Nat \ {0} /\ n >= 4
  <2>1. PICK p : PowerOfTwo(p) /\ n = BucketLength * p
    BY DEF Sizes
  <2>2. p \in Nat \ {0}
    BY <2>1 DEF PowerOfTwo
  <2>3. QED
    BY <2>1, <2>2, BucketAssumption
<1>2. Slots(t) = 0..(n - 1)
  BY DEF Tables, Slots
<1>3. QED
  BY <1>1, <1>2, FS_Interval DEF slot_count

LEMMA SearchFinds ==
  ASSUME NEW n \in Sizes, NEW t \in Tables(n), NEW ents, NEW key, NEW ks,
         HashOf(key) \in Nat,
         NEW m \in 0..(n - 1), EndsSearch(OnWay(t, HashOf(key), m), ents, key)
  PROVE  LET s == SearchStep(t, ents, key)
         IN  /\ s \in 0..(n - 1)
             /\ EndsSearch(OnWay(t, HashOf(key), s), ents, key)
             /\ \A j \in 0..(s - 1) : ~EndsSearch(OnWay(t, HashOf(key), j), ents, key)
<1> DEFINE h == HashOf(key)
           S == {k \in 0..(n - 1) : EndsSearch(OnWay(t, h, k), ents, key)}
<1>1. PICK k \in S : \A j \in 0..(k - 1) : j \notin S
  <2>1. S \in SUBSET Nat /\ m \in S
    BY SlotCountIs
  <2> HIDE DEF S
  <2>2. QED
    BY <2>1, FirstOfSet
<1>2. /\ k \in Slots(t) /\ EndsSearch(OnWay(t, h, k), ents, key)
      /\ \A j \in 0..(k - 1) : ~EndsSearch(OnWay(t, h, j), ents, key)
  BY <1>1, SlotCountIs
<1>3. QED
  BY <1>2, SlotCountIs DEF SearchStep, FirstStep, OnWay

LEMMA ProbeIs ==
  ASSUME NEW n \in Sizes, NEW h \in Nat
  PROVE  VisitsAll(Probe(h, n), n)
<1>1. PICK p : PowerOfTwo(p) /\ n = BucketLength * p
  BY DEF Sizes
<1>2. QED
  BY <1>1, ProbeVisitsAll

(***************************************************************************)
(* A table is right for an array of entries: each slot in use is reached   *)
(* by the search for its hash, and the slots in use are those of the       *)
(* entries, one each.                                                      *)
(***************************************************************************)
GoesOn(t, h, k) == \A j \in 0..(k - 1) : OnWay(t, h, j) # Empty

Reached(t, h, x) ==
  \E k \in Slots(t) : Probe(h, slot_count(t))[k] = x /\ GoesOn(t, h, k)

Linked(t) ==
  \A x \in Slots(t) :
    InUse(t.slots[x]) => Reached(t, t.slots[x].hash, x)

Owned(t, ents) ==
  \A x \in Slots(t) : InUse(t.slots[x]) =>
    /\ t.slots[x].index \in DOMAIN ents
    /\ t.slots[x].hash = HashOf(ents[t.slots[x].index].ssid)
    /\ \A y \in Slots(t) : t.slots[y].index = t.slots[x].index => y = x

Led(t, ents) ==
  \A i \in DOMAIN ents : \E x \in Slots(t) : t.slots[x].index = i

UsedSlots(t) == {k \in Slots(t) : InUse(t.slots[k])}

DeletedSlots(t) == {k \in Slots(t) : t.slots[k] = Deleted}

LEMMA SlotIs ==
  ASSUME NEW n \in Sizes, NEW t \in Tables(n), NEW x \in 0..(n - 1)
  PROVE  LET slot == t.slots[x]
         IN  /\ slot.index \in Int /\ slot.hash \in Nat
             /\ InUse(slot) <=> slot \in TakenSlot
             /\ InUse(slot) => slot.hash >= 2 /\ slot.index \in Nat \ {0}
             /\ ~InUse(slot) => slot = Empty \/ slot = Deleted
             /\ slot = Empty <=> slot.hash = Empty.hash
             /\ slot = Empty <=> slot.index = 0
             /\ slot.hash >= 2 => InUse(slot)
             /\ slot = Empty => ~InUse(slot)
             /\ slot = Deleted => ~InUse(slot) /\ slot # Empty
<1>1. t.slots[x] \in TakenSlot \cup {Empty, Deleted}
  BY DEF Tables
<1>2. QED
  BY <1>1 DEF TakenSlot, Empty, Deleted, InUse

LEMMA HashIs ==
  ASSUME hash \in [Ssid -> Nat], NEW key \in Ssid
  PROVE  HashOf(key) \in Nat /\ HashOf(key) >= 2
  BY DEF HashOf

LEMMA CountsOf ==
  ASSUME NEW n \in Sizes, NEW t \in Tables(n), NEW ents, Len(ents) \in Nat,
         DOMAIN ents = 1..Len(ents), Owned(t, ents)
  PROVE  /\ IsFiniteSet(UsedSlots(t)) /\ IsFiniteSet(DeletedSlots(t))
         /\ Cardinality(UsedSlots(t)) <= Len(ents)
         /\ Led(t, ents) => Cardinality(UsedSlots(t)) = Len(ents)
<1>1. Slots(t) = 0..(n - 1) /\ n \in Nat \ {0}
  BY SlotCountIs
<1>2. IsFiniteSet(0..(n - 1))
  BY <1>1, FS_Interval
<1>3. IsFiniteSet(UsedSlots(t)) /\ IsFiniteSet(DeletedSlots(t))
  <2>1. /\ UsedSlots(t) \in SUBSET (0..(n - 1))
        /\ DeletedSlots(t) \in SUBSET (0..(n - 1))
    BY <1>1 DEF UsedSlots, DeletedSlots
  <2>2. QED
    BY <1>2, <2>1, FS_Subset
<1> DEFINE U == UsedSlots(t)
           I == 1..Len(ents)
           f == [x \in U |-> t.slots[x].index]
<1>4. f \in Injection(U, I)
  <2>1. \A x \in U : f[x] \in I /\ \A y \in U : f[x] = f[y] => x = y
    BY DEF UsedSlots, Owned
  <2>2. f \in [U -> I] /\ DOMAIN f = U
    BY <2>1
  <2> HIDE DEF f
  <2>3. QED
    BY <2>1, <2>2 DEF Injection, IsInjective
<1>5. IsFiniteSet(I) /\ Cardinality(I) = Len(ents)
  <2>1. 1 \in Int /\ Len(ents) \in Int
    OBVIOUS
  <2>2. /\ IsFiniteSet(1..Len(ents))
        /\ Cardinality(1..Len(ents)) =
             IF 1 > Len(ents) THEN 0 ELSE Len(ents) - 1 + 1
    BY <2>1, FS_Interval
  <2>3. QED
    BY <2>2
<1>6. ASSUME Led(t, ents) PROVE f \in Surjection(U, I)
  <2>1. ASSUME NEW i \in I PROVE \E x \in U : f[x] = i
    <3>1. PICK x \in Slots(t) : t.slots[x].index = i
      BY <1>6 DEF Led
    <3>2. x \in U
      BY <3>1 DEF UsedSlots, InUse
    <3>3. QED
      BY <3>1, <3>2
  <2>2. f \in [U -> I]
    BY <1>4 DEF Injection
  <2> HIDE DEF f
  <2>3. QED
    BY <2>1, <2>2 DEF Surjection
<1> HIDE DEF f, U, I
<1>7. /\ Cardinality(U) <= Cardinality(I)
      /\ Cardinality(U) = Cardinality(I) <=> f \in Surjection(U, I)
  BY <1>4, <1>5, FS_Injection
<1>8. QED
  BY <1>3, <1>5, <1>6, <1>7 DEF U

(***************************************************************************)
(* A table with less entries and deleted slots than slots has an empty one.*)
(***************************************************************************)
LEMMA HasRoom ==
  ASSUME NEW n \in Sizes, NEW t \in Tables(n), NEW ents, Len(ents) \in Nat,
         DOMAIN ents = 1..Len(ents), Owned(t, ents),
         Len(ents) + Cardinality(DeletedSlots(t)) < n
  PROVE  \E x \in 0..(n - 1) : t.slots[x] = Empty
<1> SUFFICES ASSUME \A x \in 0..(n - 1) : t.slots[x] # Empty
             PROVE  FALSE
  OBVIOUS
<1>1. Slots(t) = 0..(n - 1) /\ n \in Nat \ {0}
  BY SlotCountIs
<1> DEFINE U == UsedSlots(t)
           D == DeletedSlots(t)
<1>2. IsFiniteSet(U) /\ IsFiniteSet(D) /\ Cardinality(U) <= Len(ents)
  BY CountsOf
<1>3. U \cup D = 0..(n - 1)
  BY <1>1, SlotIs DEF UsedSlots, DeletedSlots
<1> HIDE DEF U
<1>4. /\ Cardinality(U \cup D) =
           Cardinality(U) + Cardinality(D) - Cardinality(U \cap D)
      /\ Cardinality(U) \in Nat /\ Cardinality(D) \in Nat
      /\ Cardinality(U \cap D) \in Nat
  <2>1. IsFiniteSet(U \cap D)
    BY <1>2, FS_Intersection
  <2>2. QED
    BY <1>2, <2>1, FS_Union, FS_CardinalityType
<1>5. Cardinality(U \cup D) = n
  <2>1. 0 \in Int /\ n - 1 \in Int /\ ~(0 > n - 1) /\ n - 1 - 0 + 1 = n
    BY <1>1
  <2>2. Cardinality(0..(n - 1)) = IF 0 > n - 1 THEN 0 ELSE n - 1 - 0 + 1
    BY <2>1, FS_Interval
  <2>3. QED
    BY <1>3, <2>1, <2>2
<1>6. Len(ents) + Cardinality(D) < n
  OBVIOUS
<1> HIDE DEF D
<1>7. QED
  BY <1>1, <1>2, <1>4, <1>5, <1>6

(***************************************************************************)
(* What a search returns.                                                  *)
(***************************************************************************)
LEMMA FindsKey ==
  ASSUME hash \in [Ssid -> Nat], NEW n \in Sizes, NEW t \in Tables(n),
         NEW ents \in AccessPointMap,
         Linked(t), Owned(t, ents), Led(t, ents),
         \E x \in 0..(n - 1) : t.slots[x] = Empty,
         NEW key \in Ssid
  PROVE  LET s == SearchStep(t, ents, key)
             x == find_slot(t, ents, key)
             h == HashOf(key)
         IN  /\ s \in 0..(n - 1) /\ x \in 0..(n - 1)
             /\ x = Probe(h, n)[s]
             /\ GoesOn(t, h, s)
             /\ ~HasKey(ents, key) => t.slots[x] = Empty
             /\ t.slots[x].index = find_ssid_in_map(ents, key)
<1> DEFINE s == SearchStep(t, ents, key)
           x == find_slot(t, ents, key)
           h == HashOf(key)
<1>1. /\ Slots(t) = 0..(n - 1) /\ slot_count(t) = n /\ n \in Nat \ {0}
      /\ h \in Nat /\ h >= 2
  BY SlotCountIs, HashIs
<1>3. /\ Probe(h, n) \in [0..(n - 1) -> 0..(n - 1)]
      /\ \A j, k \in 0..(n - 1) : Probe(h, n)[j] = Probe(h, n)[k] => j = k
      /\ \A y \in 0..(n - 1) : \E k \in 0..(n - 1) : Probe(h, n)[k] = y
  <2>1. VisitsAll(Probe(h, n), n)
    BY <1>1, ProbeIs
  <2> HIDE DEF h
  <2>2. QED
    BY <2>1 DEF VisitsAll
<1> HIDE DEF h
<1>4. \A k \in 0..(n - 1) : OnWay(t, h, k) = t.slots[Probe(h, n)[k]]
  BY <1>1 DEF OnWay
<1>5. \E m \in 0..(n - 1) : EndsSearch(OnWay(t, h, m), ents, key)
  <2>1. PICK y \in 0..(n - 1) : t.slots[y] = Empty
    OBVIOUS
  <2>2. PICK m \in 0..(n - 1) : Probe(h, n)[m] = y
    BY <1>3
  <2>3. OnWay(t, h, m) = Empty
    BY <1>4, <2>1, <2>2
  <2>4. QED
    BY <2>3 DEF EndsSearch
<1>6. /\ s \in 0..(n - 1)
      /\ EndsSearch(OnWay(t, h, s), ents, key)
      /\ \A j \in 0..(s - 1) : ~EndsSearch(OnWay(t, h, j), ents, key)
  <2>1. PICK m \in 0..(n - 1) : EndsSearch(OnWay(t, h, m), ents, key)
    BY <1>5
  <2>2. QED
    BY <1>1, <2>1, SearchFinds DEF h
<1>7. x = Probe(h, n)[s] /\ x \in 0..(n - 1) /\ OnWay(t, h, s) = t.slots[x]
  <2>1. x = Probe(h, n)[s]
    BY <1>1 DEF find_slot, h
  <2>2. QED
    BY <1>3, <1>4, <1>6, <2>1
<1> HIDE DEF s, x
<1>8. GoesOn(t, h, s)
  BY <1>6 DEF EndsSearch, GoesOn
<1>9. ASSUME t.slots[x] # Empty
      PROVE  /\ InUse(t.slots[x]) /\ t.slots[x].index \in DOMAIN ents
             /\ ents[t.slots[x].index].ssid = key
  <2>1. t.slots[x].hash = h /\ ents[t.slots[x].index].ssid = key
    <3>1. t.slots[x].hash # Empty.hash
      BY <1>7, <1>9, SlotIs
    <3>2. QED
      BY <1>6, <1>7, <3>1 DEF EndsSearch, h
  <2>2. InUse(t.slots[x])
    BY <1>1, <1>7, <2>1, SlotIs
  <2>3. QED
    BY <1>1, <1>7, <2>1, <2>2 DEF Owned
<1>10. CASE HasKey(ents, key)
  <2> DEFINE i == find_ssid_in_map(ents, key)
  <2>1. i \in DOMAIN ents /\ ents[i].ssid = key
    BY <1>10, FindFinds
  <2> HIDE DEF i
  <2>2. PICK y \in 0..(n - 1) : t.slots[y].index = i
    BY <1>1, <2>1 DEF Led
  <2>3. InUse(t.slots[y])
    <3>1. i \in Nat \ {0}
      BY <2>1 DEF AccessPointMap
    <3>2. QED
      BY <2>2, <3>1 DEF InUse
  <2>4. t.slots[y].hash = h
    BY <1>1, <2>1, <2>2, <2>3 DEF Owned, h
  <2>5. PICK k \in 0..(n - 1) :
          /\ Probe(h, n)[k] = y
          /\ \A j \in 0..(k - 1) : OnWay(t, h, j) # Empty
    BY <1>1, <2>3, <2>4 DEF Linked, Reached, GoesOn
  <2>6. OnWay(t, h, k) = t.slots[y]
    BY <1>4, <2>5
  <2>7. EndsSearch(OnWay(t, h, k), ents, key)
    BY <2>1, <2>2, <2>4, <2>6 DEF EndsSearch, h
  <2>8. s <= k
    BY <1>6, <2>5, <2>7
  <2>9. t.slots[x] # Empty
    <3>1. CASE s = k
      <4>1. t.slots[x] = t.slots[y]
        BY <1>7, <2>6, <3>1
      <4>2. QED
        BY <2>3, <4>1, SlotIs
    <3>2. CASE s # k
      BY <1>1, <1>6, <1>7, <2>5, <2>8, <3>2
    <3>3. QED
      BY <3>1, <3>2
  <2>10. t.slots[x].index = i
    BY <1>9, <2>1, <2>9 DEF AccessPointMap, DistinctKeys
  <2>11. QED
    BY <1>6, <1>7, <1>8, <1>10, <2>10 DEF i, s, x, h
<1>11. CASE ~HasKey(ents, key)
  <2>1. t.slots[x] = Empty
    BY <1>9, <1>11 DEF HasKey
  <2>2. t.slots[x].index = find_ssid_in_map(ents, key)
    BY <1>11, <2>1 DEF find_ssid_in_map, Empty, AP_MAP_NOT_FOUND
  <2>3. QED
    BY <1>6, <1>7, <1>8, <2>1, <2>2 DEF s, x, h
<1>12. QED
  BY <1>10, <1>11

(***************************************************************************)
(* A slot that is filled ends no search early.                             *)
(***************************************************************************)
LEMMA WayStays ==
  ASSUME NEW n \in Sizes, NEW t \in Tables(n), NEW u \in Tables(n),
         \A x \in 0..(n - 1) : t.slots[x] # Empty => u.slots[x] # Empty,
         NEW h \in Nat, NEW k \in 0..(n - 1),
         GoesOn(t, h, k)
  PROVE  GoesOn(u, h, k)
<1> SUFFICES ASSUME NEW j \in 0..(k - 1)
             PROVE  OnWay(u, h, j) # Empty
  BY DEF GoesOn
<1>1. n \in Nat \ {0} /\ slot_count(t) = n /\ slot_count(u) = n
  BY SlotCountIs
<1>2. j \in 0..(n - 1)
  BY <1>1
<1>3. Probe(h, n)[j] \in 0..(n - 1)
  <2>1. VisitsAll(Probe(h, n), n)
    BY ProbeIs
  <2>2. QED
    BY <1>2, <2>1 DEF VisitsAll
<1>4. OnWay(t, h, j) # Empty
  BY DEF GoesOn
<1>5. QED
  BY <1>1, <1>3, <1>4 DEF OnWay

LEMMA PutSlot ==
  ASSUME NEW n \in Sizes, NEW t \in Tables(n), NEW u \in Tables(n), NEW ents,
         Linked(t), Owned(t, ents),
         NEW x \in 0..(n - 1), ~InUse(t.slots[x]), NEW slot \in TakenSlot,
         u.slots = [t.slots EXCEPT ![x] = slot],
         slot.index \in DOMAIN ents,
         slot.hash = HashOf(ents[slot.index].ssid),
         \A y \in 0..(n - 1) : t.slots[y].index # slot.index,
         NEW k \in 0..(n - 1), Probe(slot.hash, n)[k] = x,
         GoesOn(t, slot.hash, k)
  PROVE  Linked(u) /\ Owned(u, ents)
<1>1. /\ Slots(t) = 0..(n - 1) /\ slot_count(t) = n
      /\ Slots(u) = 0..(n - 1) /\ slot_count(u) = n
  BY SlotCountIs
<1>2. /\ u.slots[x] = slot
      /\ \A y \in 0..(n - 1) : y # x => u.slots[y] = t.slots[y]
  BY DEF Tables
<1>3. InUse(slot) /\ slot # Empty /\ slot.hash \in Nat
  BY DEF TakenSlot, InUse, Empty
<1>4. \A y \in 0..(n - 1) : t.slots[y] # Empty => u.slots[y] # Empty
  BY <1>2, <1>3
<1>5. ASSUME NEW y \in 0..(n - 1), InUse(u.slots[y])
      PROVE  Reached(u, u.slots[y].hash, y)
  <2>1. CASE y = x
    <3>1. GoesOn(u, slot.hash, k)
      BY <1>3, <1>4, WayStays
    <3>2. QED
      BY <1>1, <1>2, <2>1, <3>1 DEF Reached
  <2>2. CASE y # x
    <3> DEFINE g == t.slots[y].hash
    <3>1. u.slots[y] = t.slots[y] /\ g \in Nat
      BY <1>2, <2>2, SlotIs
    <3>2. PICK m \in 0..(n - 1) : Probe(g, n)[m] = y /\ GoesOn(t, g, m)
      BY <1>1, <1>5, <3>1 DEF Linked, Reached
    <3>3. GoesOn(u, g, m)
      <4> HIDE DEF g
      <4>1. QED
        BY <1>4, <3>1, <3>2, WayStays
    <3>4. QED
      BY <1>1, <3>1, <3>2, <3>3 DEF Reached
  <2>3. QED
    BY <2>1, <2>2
<1>6. Owned(u, ents)
  <2> SUFFICES ASSUME NEW y \in 0..(n - 1), InUse(u.slots[y])
               PROVE  /\ u.slots[y].index \in DOMAIN ents
                      /\ u.slots[y].hash = HashOf(ents[u.slots[y].index].ssid)
                      /\ \A z \in 0..(n - 1) :
                           u.slots[z].index = u.slots[y].index => z = y
    BY <1>1 DEF Owned
  <2>1. CASE y = x
    BY <1>2, <2>1
  <2>2. CASE y # x
    <3>1. u.slots[y] = t.slots[y] /\ InUse(t.slots[y])
      BY <1>2, <2>2
    <3>2. QED
      BY <1>1, <1>2, <2>2, <3>1 DEF Owned
  <2>3. QED
    BY <2>1, <2>2
<1>7. QED
  BY <1>1, <1>5, <1>6 DEF Linked

(***************************************************************************)
(* One copy into a table without deleted slots.                            *)
(***************************************************************************)
FilledWith(slot, t, u, n) ==
  \E x \in 0..(n - 1) :
    /\ ~InUse(t.slots[x]) /\ u.slots[x] = slot
    /\ \A y \in 0..(n - 1) : y # x => u.slots[y] = t.slots[y]

LEMMA CopyStep ==
  ASSUME NEW n \in Sizes, NEW t \in Tables(n), NEW ents \in AccessPointMap,
         Linked(t), Owned(t, ents), DeletedSlots(t) = {}, Len(ents) < n,
         NEW slot \in TakenSlot, slot.index \in DOMAIN ents,
         slot.hash = HashOf(ents[slot.index].ssid),
         \A y \in 0..(n - 1) : t.slots[y].index # slot.index,
         NEW u, u = Copied(t, slot)
  PROVE  /\ u \in Tables(n) /\ Linked(u) /\ Owned(u, ents)
         /\ DeletedSlots(u) = {}
         /\ u.used = t.used /\ u.tombstones = t.tombstones
         /\ FilledWith(slot, t, u, n)
<1> DEFINE h == slot.hash
           S == {k \in 0..(n - 1) : OnWay(t, h, k).hash = Empty.hash}
           step == FirstStep(t, h, LAMBDA s : s.hash = Empty.hash)
           x == Probe(h, n)[step]
<1>1. /\ Slots(t) = 0..(n - 1) /\ slot_count(t) = n /\ n \in Nat \ {0}
      /\ DOMAIN ents = 1..Len(ents) /\ Len(ents) \in Nat /\ h \in Nat
  BY SlotCountIs DEF AccessPointMap, TakenSlot
<1>2. VisitsAll(Probe(h, n), n)
  BY <1>1, ProbeIs
<1>3. PICK k \in S : \A j \in 0..(k - 1) : j \notin S
  <2>1. PICK y \in 0..(n - 1) : t.slots[y] = Empty
    <3>1. Len(ents) + Cardinality(DeletedSlots(t)) < n
      BY <1>1, FS_EmptySet
    <3>2. QED
      BY <1>1, <3>1, HasRoom
  <2>2. PICK m \in 0..(n - 1) : Probe(h, n)[m] = y
    BY <1>2 DEF VisitsAll
  <2>3. m \in S
    BY <1>1, <2>1, <2>2 DEF OnWay
  <2>4. S \in SUBSET Nat
    BY <1>1
  <2> HIDE DEF S
  <2>5. QED
    BY <2>3, <2>4, FirstOfSet
<1>4. /\ k \in Slots(t) /\ OnWay(t, h, k).hash = Empty.hash
      /\ \A j \in 0..(k - 1) : ~(OnWay(t, h, j).hash = Empty.hash)
  BY <1>1, <1>3
<1>5. /\ step \in 0..(n - 1) /\ OnWay(t, h, step).hash = Empty.hash
      /\ \A j \in 0..(step - 1) : OnWay(t, h, j).hash # Empty.hash
  BY <1>1, <1>4 DEF FirstStep, OnWay
<1>6. u = [t EXCEPT !.slots[x] = slot]
  BY <1>1 DEF Copied
<1> HIDE DEF h, step, S
<1>7. x \in 0..(n - 1) /\ t.slots[x] = Empty
  <2>1. x \in 0..(n - 1)
    BY <1>2, <1>5 DEF VisitsAll
  <2>2. OnWay(t, h, step) = t.slots[x]
    BY <1>1 DEF OnWay
  <2>3. QED
    BY <1>5, <2>1, <2>2, SlotIs
<1> HIDE DEF x
<1>8. /\ u \in Tables(n) /\ u.slots = [t.slots EXCEPT ![x] = slot]
      /\ u.used = t.used /\ u.tombstones = t.tombstones
  <2>1. /\ t.slots \in [0..(n - 1) -> TakenSlot \cup {Empty, Deleted}]
        /\ slot \in TakenSlot \cup {Empty, Deleted}
    BY DEF Tables
  <2>2. [t.slots EXCEPT ![x] = slot]
          \in [0..(n - 1) -> TakenSlot \cup {Empty, Deleted}]
    BY <1>7, <2>1, Zenon
  <2> DEFINE new == [t.slots EXCEPT ![x] = slot]
  <2>3. u = [t EXCEPT !.slots = new]
    BY <1>6
  <2> HIDE DEF new
  <2>4. /\ u.slots = new
        /\ u.used = t.used /\ u.tombstones = t.tombstones
    BY <2>3 DEF Tables
  <2>5. u \in Tables(n)
    BY <2>2, <2>3 DEF Tables, new
  <2>6. QED
    BY <2>4, <2>5 DEF new
<1>9. /\ u.slots[x] = slot
      /\ \A y \in 0..(n - 1) : y # x => u.slots[y] = t.slots[y]
  BY <1>7, <1>8 DEF Tables
<1>10. ~InUse(t.slots[x])
  BY <1>7 DEF InUse, Empty
<1>11. Linked(u) /\ Owned(u, ents)
  <2>1. GoesOn(t, slot.hash, step)
    BY <1>5 DEF GoesOn, h
  <2>2. Probe(slot.hash, n)[step] = x
    BY DEF x, h
  <2>3. QED
    BY <1>5, <1>7, <1>8, <1>10, <2>1, <2>2, PutSlot
<1>12. DeletedSlots(u) = {}
  <2>1. slot # Deleted
    BY DEF TakenSlot, Deleted
  <2>2. Slots(u) = 0..(n - 1)
    BY <1>8, SlotCountIs
  <2>3. QED
    BY <1>1, <1>9, <2>1, <2>2 DEF DeletedSlots
<1>13. QED
  BY <1>7, <1>8, <1>9, <1>10, <1>11, <1>12 DEF FilledWith

(***************************************************************************)
(* stbds_make_hash_index: the tables it makes one after the other, as a    *)
(* function, and what is true of each of them.                             *)
(***************************************************************************)
NextTable(t, slot) == IF InUse(slot) THEN Copied(t, slot) ELSE t

FirstTable(n, ot) == [EmptyTable(n) EXCEPT !.used = ot.used]

IsMaking(after, n, ot, m) ==
  after = [k \in 0..m |-> IF k = 0 THEN FirstTable(n, ot)
                          ELSE NextTable(after[k - 1], ot.slots[k - 1])]

LEMMA MakingExists ==
  ASSUME NEW n, NEW ot
  PROVE  \A m \in Nat : \E after : IsMaking(after, n, ot, m)
<1> DEFINE S == {m \in Nat : \E f : IsMaking(f, n, ot, m)}
<1>1. 0 \in S
  <2>1. IsMaking([k \in 0..0 |-> FirstTable(n, ot)], n, ot, 0)
    BY DEF IsMaking
  <2>2. QED
    BY <2>1
<1>2. ASSUME NEW m \in Nat, m \in S
      PROVE  m + 1 \in S
  <2>1. PICK f : IsMaking(f, n, ot, m)
    BY <1>2
  <2> DEFINE g == [k \in 0..(m + 1) |-> IF k = m + 1
                                          THEN NextTable(f[m], ot.slots[m])
                                          ELSE f[k]]
             Right(k) == g[k] = IF k = 0 THEN FirstTable(n, ot)
                                ELSE NextTable(g[k - 1], ot.slots[k - 1])
  <2>2. ASSUME NEW k \in 0..(m + 1)
        PROVE  Right(k)
    <3>1. CASE k = m + 1
      <4>1. k # 0 /\ k - 1 = m /\ m \in 0..(m + 1) /\ m # m + 1
        BY <3>1
      <4>2. g[m] = f[m] /\ g[k] = NextTable(f[m], ot.slots[m])
        BY <3>1, <4>1
      <4>3. QED
        BY <4>1, <4>2
    <3>2. CASE k # m + 1
      <4>1. k \in 0..m /\ g[k] = f[k]
        BY <3>2
      <4>2. f[k] = IF k = 0 THEN FirstTable(n, ot)
                   ELSE NextTable(f[k - 1], ot.slots[k - 1])
        BY <2>1, <4>1 DEF IsMaking
      <4>3. k # 0 => k - 1 \in 0..(m + 1) /\ k - 1 # m + 1
        BY <4>1
      <4>4. k # 0 => g[k - 1] = f[k - 1]
        BY <4>3
      <4>5. QED
        BY <4>1, <4>2, <4>4
    <3>3. QED
      BY <3>1, <3>2
  <2>3. IsMaking(g, n, ot, m + 1)
    BY <2>2 DEF IsMaking
  <2> HIDE DEF g
  <2>4. m + 1 \in Nat /\ \E h : IsMaking(h, n, ot, m + 1)
    BY <2>3
  <2>5. QED
    BY <2>4
<1> HIDE DEF S
<1>3. \A m \in Nat : m \in S
  BY <1>1, <1>2, NatSetInduction
<1>4. QED
  BY <1>3 DEF S

LEMMA MakingMakes ==
  ASSUME NEW n, NEW ot, NEW m \in Nat, slot_count(ot) = m
  PROVE  \E after : /\ IsMaking(after, n, ot, m)
                    /\ make_hash_index(n, ot) = after[m]
<1> DEFINE g == CHOOSE f : IsMaking(f, n, ot, m)
<1>1. IsMaking(g, n, ot, m)
  BY MakingExists
<1>2. make_hash_index(n, ot) = g[m]
  BY DEF make_hash_index, IsMaking, NextTable, FirstTable
<1>3. QED
  BY <1>1, <1>2

(***************************************************************************)
(* The slots in use of table t are copies of those among the first k of    *)
(* table ot.                                                               *)
(***************************************************************************)
CopiesOf(t, ot, k, n) ==
  /\ \A y \in 0..(n - 1) : InUse(t.slots[y]) =>
       \E x \in 0..(k - 1) : ot.slots[x].index = t.slots[y].index
  /\ \A x \in 0..(k - 1) : InUse(ot.slots[x]) =>
       \E y \in 0..(n - 1) : t.slots[y].index = ot.slots[x].index

RightCopy(t, ents, used, n) ==
  /\ t \in Tables(n) /\ Linked(t) /\ Owned(t, ents)
  /\ DeletedSlots(t) = {} /\ t.used = used /\ t.tombstones = 0

LEMMA MakesFirst ==
  ASSUME NEW n \in Sizes, NEW ot, ot.used \in Nat, NEW ents
  PROVE  /\ RightCopy(FirstTable(n, ot), ents, ot.used, n)
         /\ CopiesOf(FirstTable(n, ot), ot, 0, n)
<1> DEFINE t == FirstTable(n, ot)
<1>1. /\ t \in Tables(n) /\ t.used = ot.used /\ t.tombstones = 0
      /\ \A x \in 0..(n - 1) : t.slots[x] = Empty
  BY DEF FirstTable, EmptyTable, Tables
<1> HIDE DEF t
<1>2. Slots(t) = 0..(n - 1)
  BY <1>1, SlotCountIs
<1>3. \A x \in 0..(n - 1) : ~InUse(t.slots[x]) /\ t.slots[x] # Deleted
  BY <1>1 DEF InUse, Empty, Deleted
<1>4. Linked(t) /\ Owned(t, ents) /\ DeletedSlots(t) = {}
  BY <1>2, <1>3 DEF Linked, Owned, DeletedSlots
<1>5. QED
  BY <1>1, <1>3, <1>4 DEF t, RightCopy, CopiesOf

LEMMA MakesNext ==
  ASSUME NEW n \in Sizes, NEW on \in Sizes, NEW ot \in Tables(on),
         NEW ents \in AccessPointMap, Owned(ot, ents), Len(ents) < n,
         NEW used, NEW t, NEW k \in 0..(on - 1),
         RightCopy(t, ents, used, n), CopiesOf(t, ot, k, n)
  PROVE  LET u == NextTable(t, ot.slots[k])
         IN  RightCopy(u, ents, used, n) /\ CopiesOf(u, ot, k + 1, n)
<1> DEFINE slot == ot.slots[k]
           u == NextTable(t, slot)
<1>1. /\ Slots(t) = 0..(n - 1) /\ Slots(ot) = 0..(on - 1)
      /\ t \in Tables(n) /\ on \in Nat \ {0}
  BY SlotCountIs DEF RightCopy
<1>2. \A x : x \in 0..((k + 1) - 1) <=> x \in 0..(k - 1) \/ x = k
  BY <1>1
<1>3. CASE ~InUse(slot)
  <2>1. u = t
    BY <1>3 DEF NextTable
  <2>2. CopiesOf(t, ot, k + 1, n)
    BY <1>2, <1>3 DEF CopiesOf
  <2>3. QED
    BY <2>1, <2>2
<1>4. CASE InUse(slot)
  <2>1. /\ slot \in TakenSlot /\ slot.index \in DOMAIN ents
        /\ slot.hash = HashOf(ents[slot.index].ssid)
        /\ \A x \in 0..(on - 1) : ot.slots[x].index = slot.index => x = k
    BY <1>1, <1>4, SlotIs DEF Owned
  <2>2. \A y \in 0..(n - 1) : t.slots[y].index # slot.index
    <3> SUFFICES ASSUME NEW y \in 0..(n - 1), t.slots[y].index = slot.index
                 PROVE  FALSE
      OBVIOUS
    <3>1. InUse(t.slots[y])
      BY <1>4 DEF InUse
    <3>2. PICK x \in 0..(k - 1) : ot.slots[x].index = slot.index
      BY <3>1 DEF CopiesOf
    <3>3. x \in 0..(on - 1) /\ x # k
      BY <1>1
    <3>4. QED
      BY <2>1, <3>2, <3>3
  <2>3. u = Copied(t, slot)
    BY <1>4 DEF NextTable
  <2> HIDE DEF slot, u
  <2>4. /\ u \in Tables(n) /\ Linked(u) /\ Owned(u, ents)
        /\ DeletedSlots(u) = {}
        /\ u.used = t.used /\ u.tombstones = t.tombstones
        /\ FilledWith(slot, t, u, n)
    <3>1. t \in Tables(n) /\ Linked(t) /\ Owned(t, ents) /\ DeletedSlots(t) = {}
      BY DEF RightCopy
    <3>2. QED
      BY <2>1, <2>2, <2>3, <3>1, CopyStep
  <2>5. RightCopy(u, ents, used, n)
    BY <2>4 DEF RightCopy
  <2>6. PICK z \in 0..(n - 1) :
          /\ ~InUse(t.slots[z]) /\ u.slots[z] = slot
          /\ \A y \in 0..(n - 1) : y # z => u.slots[y] = t.slots[y]
    BY <2>4 DEF FilledWith
  <2>7. slot = ot.slots[k]
    BY DEF slot
  <2>8. ASSUME NEW y \in 0..(n - 1), InUse(u.slots[y])
        PROVE  \E x \in 0..((k + 1) - 1) : ot.slots[x].index = u.slots[y].index
    <3>1. CASE y = z
      BY <1>2, <2>6, <2>7, <3>1
    <3>2. CASE y # z
      <4>1. u.slots[y] = t.slots[y]
        BY <2>6, <3>2
      <4>2. PICK x \in 0..(k - 1) : ot.slots[x].index = t.slots[y].index
        BY <2>8, <4>1 DEF CopiesOf
      <4>3. x \in 0..((k + 1) - 1)
        BY <1>2
      <4>4. QED
        BY <4>1, <4>2, <4>3
    <3>3. QED
      BY <3>1, <3>2
  <2>9. ASSUME NEW x \in 0..((k + 1) - 1), InUse(ot.slots[x])
        PROVE  \E y \in 0..(n - 1) : u.slots[y].index = ot.slots[x].index
    <3>1. CASE x = k
      BY <2>6, <2>7, <3>1
    <3>2. CASE x # k
      <4>1. x \in 0..(k - 1)
        BY <1>2, <3>2
      <4>2. PICK y \in 0..(n - 1) : t.slots[y].index = ot.slots[x].index
        BY <2>9, <4>1 DEF CopiesOf
      <4>3. y # z
        BY <2>6, <2>9, <4>2 DEF InUse
      <4>4. u.slots[y].index = ot.slots[x].index
        BY <2>6, <4>2, <4>3
      <4>5. QED
        BY <4>4
    <3>3. QED
      BY <3>1, <3>2
  <2>10. CopiesOf(u, ot, k + 1, n)
    BY <2>8, <2>9 DEF CopiesOf
  <2>11. QED
    BY <2>5, <2>10 DEF u, slot
<1>5. QED
  BY <1>3, <1>4

(***************************************************************************)
(* Growing, shrinking and rebuilding keep every entry in reach.            *)
(***************************************************************************)
LEMMA MakesTable ==
  ASSUME NEW n \in Sizes, NEW on \in Sizes, NEW ot \in Tables(on),
         NEW ents \in AccessPointMap, Owned(ot, ents), Led(ot, ents),
         Len(ents) < n
  PROVE  /\ RightCopy(make_hash_index(n, ot), ents, ot.used, n)
         /\ Led(make_hash_index(n, ot), ents)
<1>1. /\ slot_count(ot) = on /\ on \in Nat \ {0} /\ ot.used \in Nat
      /\ Slots(ot) = 0..(on - 1)
  BY SlotCountIs DEF Tables
<1>2. PICK after : /\ IsMaking(after, n, ot, on)
                   /\ make_hash_index(n, ot) = after[on]
  BY <1>1, MakingMakes
<1>3. /\ after[0] = FirstTable(n, ot)
      /\ \A k \in 0..(on - 1) : after[k + 1] = NextTable(after[k], ot.slots[k])
  <2>1. \A k \in 0..on : after[k] = IF k = 0 THEN FirstTable(n, ot)
                                ELSE NextTable(after[k - 1], ot.slots[k - 1])
    BY <1>2 DEF IsMaking
  <2>2. after[0] = FirstTable(n, ot)
    BY <1>1, <2>1
  <2>3. ASSUME NEW k \in 0..(on - 1)
        PROVE  after[k + 1] = NextTable(after[k], ot.slots[k])
    <3>1. k + 1 \in 0..on /\ k + 1 # 0 /\ (k + 1) - 1 = k
      BY <1>1
    <3>2. QED
      BY <2>1, <3>1
  <2>4. QED
    BY <2>2, <2>3
<1> DEFINE Right(k) == /\ RightCopy(after[k], ents, ot.used, n)
                       /\ CopiesOf(after[k], ot, k, n)
           S == {k \in Nat : k <= on => Right(k)}
<1>4. 0 \in S
  BY <1>1, <1>3, MakesFirst
<1>5. ASSUME NEW k \in Nat, k \in S PROVE k + 1 \in S
  <2> SUFFICES ASSUME k + 1 <= on PROVE Right(k + 1)
    OBVIOUS
  <2>1. k \in 0..(on - 1) /\ Right(k)
    BY <1>1, <1>5
  <2>2. after[k + 1] = NextTable(after[k], ot.slots[k])
    BY <1>3, <2>1
  <2>3. QED
    BY <2>1, <2>2, MakesNext
<1> HIDE DEF S, Right
<1>6. \A k \in Nat : k \in S
  BY <1>4, <1>5, NatSetInduction
<1>7. Right(on)
  BY <1>1, <1>6 DEF S
<1>8. Led(after[on], ents)
  <2>1. Slots(after[on]) = 0..(n - 1)
    BY <1>7, SlotCountIs DEF Right, RightCopy
  <2>2. ASSUME NEW i \in DOMAIN ents
        PROVE  \E y \in 0..(n - 1) : after[on].slots[y].index = i
    <3>1. PICK x \in 0..(on - 1) : ot.slots[x].index = i
      BY <1>1 DEF Led
    <3>2. InUse(ot.slots[x])
      BY <3>1 DEF InUse, AccessPointMap
    <3>3. QED
      BY <1>7, <3>1, <3>2 DEF Right, CopiesOf
  <2>3. QED
    BY <2>1, <2>2 DEF Led
<1>9. QED
  BY <1>2, <1>7, <1>8 DEF Right

-----------------------------------------------------------------------------
(* The sizes of tables.                                                    *)

LEMMA FirstSize == BucketLength \in Sizes
<1>1. BucketLength = BucketLength * 1 /\ BucketLength \in Nat
  BY BucketAssumption
<1>2. QED
  BY <1>1, OneIsPower DEF Sizes

LEMMA SizeDoubles ==
  ASSUME NEW n \in Sizes
  PROVE  2 * n \in Sizes
<1>1. PICK p : PowerOfTwo(p) /\ n = BucketLength * p
  BY DEF Sizes
<1>2. p \in Nat /\ PowerOfTwo(2 * p)
  BY <1>1, DoubleIsPower DEF PowerOfTwo
<1>3. 2 * n = BucketLength * (2 * p) /\ 2 * n \in Nat
  BY <1>1, <1>2, BucketAssumption
<1>4. QED
  BY <1>2, <1>3 DEF Sizes

LEMMA SizeHalves ==
  ASSUME NEW n \in Sizes, n > BucketLength
  PROVE  n \div 2 \in Sizes /\ n = 2 * (n \div 2)
<1>1. PICK p : PowerOfTwo(p) /\ n = BucketLength * p
  BY DEF Sizes
<1>2. p \in Nat \ {0} /\ p # 1
  BY <1>1, BucketAssumption DEF PowerOfTwo
<1> DEFINE q == p \div 2
<1>3. q \in Nat \ {0} /\ p = 2 * q /\ PowerOfTwo(q)
  BY <1>1, <1>2, PowerIsEven
<1> HIDE DEF q
<1>4. n \div 2 = BucketLength * q /\ n = 2 * (n \div 2) /\ n \div 2 \in Nat
  BY <1>1, <1>3, BucketAssumption
<1>5. QED
  BY <1>3, <1>4 DEF Sizes

(***************************************************************************)
(* A table that is right but perhaps due for a change of size, and one     *)
(* that is not.                                                            *)
(***************************************************************************)
Serves(t, ents, n) ==
  /\ t \in Tables(n) /\ Linked(t) /\ Owned(t, ents) /\ Led(t, ents)
  /\ t.used = Len(ents)
  /\ t.tombstones = Cardinality(DeletedSlots(t))
  /\ t.used <= used_count_threshold(n)

RightTable(t, ents, n) ==
  /\ Serves(t, ents, n)
  /\ t.tombstones <= tombstone_count_threshold(n)

LEMMA RoomIsLeft ==
  ASSUME NEW n \in Sizes, NEW t, NEW ents \in AccessPointMap,
         RightTable(t, ents, n)
  PROVE  \E x \in 0..(n - 1) : t.slots[x] = Empty
<1>1. /\ n \in Nat /\ n >= 4 /\ t \in Tables(n) /\ Owned(t, ents)
      /\ Len(ents) \in Nat /\ DOMAIN ents = 1..Len(ents)
  BY SlotCountIs DEF RightTable, Serves, AccessPointMap
<1>2. /\ Len(ents) <= n - n \div 4
      /\ Cardinality(DeletedSlots(t)) <= n \div 8 + n \div 16
  BY DEF RightTable, Serves, used_count_threshold, tombstone_count_threshold
<1>3. Cardinality(DeletedSlots(t)) \in Nat
  BY <1>1, CountsOf, FS_CardinalityType
<1>4. n \div 8 + n \div 16 < n \div 4
  BY <1>1
<1> DEFINE d == Cardinality(DeletedSlots(t))
<1>5. Len(ents) + d < n
  <2> HIDE DEF d
  <2>1. d \in Nat /\ d <= n \div 8 + n \div 16
    BY <1>2, <1>3 DEF d
  <2>2. QED
    BY <1>1, <1>2, <1>4, <2>1
<1>6. QED
  BY <1>1, <1>5, HasRoom

LEMMA RemadeIsRight ==
  ASSUME NEW n \in Sizes, NEW on \in Sizes, NEW ot,
         NEW ents \in AccessPointMap, Serves(ot, ents, on),
         Len(ents) <= used_count_threshold(n)
  PROVE  RightTable(make_hash_index(n, ot), ents, n)
<1>1. n \in Nat /\ n >= 4 /\ Len(ents) \in Nat
  <2>1. FirstTable(n, [used |-> 0]) \in Tables(n)
    BY MakesFirst DEF RightCopy
  <2>2. QED
    BY <2>1, SlotCountIs DEF AccessPointMap
<1>2. Len(ents) < n
  BY <1>1 DEF used_count_threshold
<1> DEFINE t == make_hash_index(n, ot)
<1>3. RightCopy(t, ents, ot.used, n) /\ Led(t, ents)
  BY <1>2, MakesTable DEF Serves
<1> HIDE DEF t
<1>4. t.tombstones = 0 /\ t.tombstones = Cardinality(DeletedSlots(t))
  BY <1>3, FS_EmptySet DEF RightCopy
<1>5. 0 <= tombstone_count_threshold(n)
  BY <1>1 DEF tombstone_count_threshold
<1>6. QED
  BY <1>3, <1>4, <1>5 DEF t, RightTable, Serves, RightCopy

(***************************************************************************)
(* shput: what its growing leaves behind has room for one more key.        *)
(***************************************************************************)
LEMMA GrownIsRight ==
  ASSUME NEW n \in Sizes, NEW t, NEW ents \in AccessPointMap,
         RightTable(t, ents, n)
  PROVE  \E m \in Sizes : /\ RightTable(Grown(t), ents, m)
                          /\ Grown(t).used < used_count_threshold(m)
<1>1. /\ n \in Nat /\ n >= 4 /\ slot_count(t) = n /\ t.used = Len(ents)
      /\ Len(ents) \in Nat /\ Len(ents) <= used_count_threshold(n)
      /\ used_count_threshold(n) \in Nat
  <2>1. t \in Tables(n)
    BY DEF RightTable, Serves
  <2>2. n \in Nat /\ n >= 4 /\ slot_count(t) = n
    BY <2>1, SlotCountIs
  <2>3. QED
    BY <2>2 DEF RightTable, Serves, used_count_threshold, AccessPointMap
<1>2. CASE t.used >= used_count_threshold(n)
  <2>1. used_count_threshold(n) < used_count_threshold(2 * n)
    BY <1>1 DEF used_count_threshold
  <2>2. used_count_threshold(2 * n) \in Nat
    BY <1>1 DEF used_count_threshold
  <2>3. Len(ents) < used_count_threshold(2 * n)
    BY <1>1, <2>1, <2>2
  <2>4. 2 * n \in Sizes /\ Grown(t) = make_hash_index(2 * n, t)
    BY <1>1, <1>2, SizeDoubles DEF Grown
  <2>5. RightTable(Grown(t), ents, 2 * n)
    <3> DEFINE k == 2 * n
    <3>1. Serves(t, ents, n) /\ k \in Sizes
      BY <2>4 DEF RightTable
    <3>2. Len(ents) <= used_count_threshold(k)
      BY <1>1, <2>2, <2>3
    <3> HIDE DEF k
    <3>3. RightTable(make_hash_index(k, t), ents, k)
      BY <3>1, <3>2, RemadeIsRight
    <3>4. QED
      BY <2>4, <3>3 DEF k
  <2>6. Grown(t).used = Len(ents)
    BY <2>5 DEF RightTable, Serves
  <2>7. QED
    BY <2>3, <2>4, <2>5, <2>6
<1>3. CASE ~(t.used >= used_count_threshold(n))
  BY <1>1, <1>3 DEF Grown
<1>4. QED
  BY <1>2, <1>3

(***************************************************************************)
(* shdel: shrinking and rebuilding.                                        *)
(***************************************************************************)
LEMMA ResizedIsRight ==
  ASSUME NEW n \in Sizes, NEW t, NEW ents \in AccessPointMap,
         Serves(t, ents, n)
  PROVE  \E m \in Sizes : RightTable(Resized(t), ents, m)
<1>1. /\ n \in Nat /\ n >= 4 /\ slot_count(t) = n /\ t.used = Len(ents)
      /\ Len(ents) \in Nat /\ t.tombstones \in Nat
      /\ Len(ents) <= used_count_threshold(n)
  <2>1. t \in Tables(n) /\ t.tombstones \in Nat
    BY DEF Serves, Tables
  <2>2. QED
    BY <2>1, SlotCountIs DEF Serves, AccessPointMap
<1>2. CASE t.used < used_count_shrink_threshold(n)
  <2>1. n > BucketLength /\ Len(ents) < n \div 4
    BY <1>1, <1>2, BucketAssumption DEF used_count_shrink_threshold
  <2> DEFINE m == n \div 2
  <2>2. m \in Sizes /\ n = 2 * m
    BY <2>1, SizeHalves
  <2>3. Resized(t) = make_hash_index(m, t)
    BY <1>1, <1>2 DEF Resized
  <2>4. m \in Nat
    BY <1>1
  <2> HIDE DEF m
  <2>5. Len(ents) <= used_count_threshold(m)
    BY <1>1, <2>1, <2>2, <2>4 DEF used_count_threshold
  <2>6. QED
    BY <2>2, <2>3, <2>5, RemadeIsRight
<1>3. CASE /\ ~(t.used < used_count_shrink_threshold(n))
           /\ t.tombstones > tombstone_count_threshold(n)
  <2>1. Resized(t) = make_hash_index(n, t)
    BY <1>1, <1>3 DEF Resized
  <2>2. QED
    BY <1>1, <2>1, RemadeIsRight
<1>4. CASE /\ ~(t.used < used_count_shrink_threshold(n))
           /\ ~(t.tombstones > tombstone_count_threshold(n))
  <2>1. Resized(t) = t
    BY <1>1, <1>4 DEF Resized
  <2>2. t.tombstones <= tombstone_count_threshold(n)
    BY <1>1, <1>4 DEF tombstone_count_threshold
  <2>3. QED
    BY <2>1, <2>2 DEF RightTable
<1>5. QED
  BY <1>2, <1>3, <1>4

(***************************************************************************)
(* shput: the slot of a new key.                                           *)
(***************************************************************************)
LEMMA InsertedIsRight ==
  ASSUME hash \in [Ssid -> Nat], NEW n \in Sizes, NEW t,
         entries \in AccessPointMap, RightTable(t, entries, n),
         t.used < used_count_threshold(n),
         NEW ap \in AccessPoint, ~HasKey(entries, ap.ssid)
  PROVE  RightTable(Inserted(t, ap.ssid), Append(entries, ap), n)
<1> DEFINE key == ap.ssid
           h == HashOf(key)
           s == SearchStep(t, entries, key)
           x0 == find_slot(t, entries, key)
           way == DeletedOnTheWay(t, key)
           steps == IF way = {} THEN {s} ELSE way
           first == CHOOSE k \in steps : \A j \in steps : k <= j
           x == Probe(h, n)[first]
           slot == [hash |-> h, index |-> Len(entries) + 1]
           u == Inserted(t, key)
           more == Append(entries, ap)
           D == DeletedSlots(t)
<1>1. /\ t \in Tables(n) /\ Linked(t) /\ Owned(t, entries) /\ Led(t, entries)
      /\ t.used = Len(entries) /\ t.tombstones = Cardinality(D)
      /\ t.tombstones <= tombstone_count_threshold(n)
      /\ key \in Ssid /\ Len(entries) \in Nat
      /\ DOMAIN entries = 1..Len(entries)
  BY DEF RightTable, Serves, AccessPoint, AccessPointMap
<1>2. /\ Slots(t) = 0..(n - 1) /\ slot_count(t) = n /\ n \in Nat /\ n >= 4
      /\ h \in Nat /\ h >= 2
  BY <1>1, SlotCountIs, HashIs
<1>3. /\ s \in 0..(n - 1) /\ x0 \in 0..(n - 1) /\ x0 = Probe(h, n)[s]
      /\ GoesOn(t, h, s) /\ t.slots[x0] = Empty
  <2>1. \E y \in 0..(n - 1) : t.slots[y] = Empty
    BY RoomIsLeft
  <2>2. QED
    BY <1>1, <2>1, FindsKey
<1>4. VisitsAll(Probe(h, n), n)
  BY <1>2, ProbeIs
<1>5. way = {k \in 0..(s - 1) : t.slots[Probe(h, n)[k]] = Deleted}
  BY <1>2 DEF DeletedOnTheWay
<1>6. /\ u = [t EXCEPT !.slots[x] = slot, !.used = @ + 1,
                       !.tombstones = IF way = {} THEN @ ELSE @ - 1]
  BY <1>2 DEF Inserted
<1> HIDE DEF h, s, x0, way, u
<1>7. first \in steps /\ steps \subseteq 0..s
  <2>1. steps \in SUBSET Nat /\ steps # {} /\ steps \subseteq 0..s
    BY <1>3, <1>5
  <2> HIDE DEF steps
  <2>2. PICK k \in steps : \A j \in 0..(k - 1) : j \notin steps
    BY <2>1, FirstOfSet
  <2>3. \A j \in steps : k <= j
    BY <2>1, <2>2
  <2>4. QED
    BY <2>1, <2>2, <2>3
<1> HIDE DEF first
<1>8. first \in 0..(n - 1) /\ first <= s /\ x \in 0..(n - 1)
  <2>1. first \in 0..(n - 1) /\ first <= s
    BY <1>2, <1>3, <1>7
  <2>2. QED
    BY <1>4, <2>1 DEF VisitsAll
<1>9. t.slots[x] = IF way = {} THEN Empty ELSE Deleted
  BY <1>3, <1>5, <1>7
<1> HIDE DEF x, steps
<1>10. GoesOn(t, h, first)
  BY <1>3, <1>8 DEF GoesOn
<1>11. ~InUse(t.slots[x]) /\ (x \in D <=> way # {})
  BY <1>2, <1>8, <1>9 DEF InUse, Empty, Deleted, DeletedSlots
<1>12. slot \in TakenSlot /\ slot.hash = h /\ slot.index = Len(entries) + 1
  BY <1>1, <1>2 DEF TakenSlot
<1>13. IsFiniteSet(D) /\ Cardinality(D) \in Nat
       /\ (way # {} => Cardinality(D) # 0)
  <2>1. IsFiniteSet(D) /\ Cardinality(D) \in Nat
    BY <1>1, CountsOf, FS_CardinalityType
  <2>2. QED
    BY <1>11, <2>1, FS_EmptySet
<1>14. /\ u \in Tables(n) /\ u.slots = [t.slots EXCEPT ![x] = slot]
       /\ u.used = Len(entries) + 1
       /\ u.tombstones = IF way = {} THEN Cardinality(D)
                         ELSE Cardinality(D) - 1
  <2> DEFINE c == Cardinality(D)
             some == way # {}
             Values == TakenSlot \cup {Empty, Deleted}
  <2>1. /\ t \in [slots : [0..(n - 1) -> Values], used : Nat, tombstones : Nat]
        /\ t.used = Len(entries) /\ t.tombstones = c
        /\ c \in Nat /\ (some => c # 0)
        /\ slot \in Values /\ Len(entries) \in Nat
    BY <1>1, <1>12, <1>13 DEF Tables
  <2> HIDE DEF c, Values, slot
  <2>2. [t.slots EXCEPT ![x] = slot] \in [0..(n - 1) -> Values]
    BY <1>8, <2>1
  <2>3. u = [slots |-> [t.slots EXCEPT ![x] = slot], used |-> Len(entries) + 1,
             tombstones |-> IF ~some THEN c ELSE c - 1]
    BY <1>6, <2>1
  <2>4. (IF ~some THEN c ELSE c - 1) \in Nat
    BY <2>1
  <2>5. QED
    BY <2>1, <2>2, <2>3, <2>4 DEF Tables, Values, c
<1>15. /\ more \in Seq(AccessPoint) /\ Len(more) = Len(entries) + 1
       /\ DOMAIN more = 1..(Len(entries) + 1)
       /\ more[Len(entries) + 1] = ap
       /\ \A i \in DOMAIN entries : more[i] = entries[i]
  BY DEF AccessPointMap
<1> HIDE DEF more, slot, D
<1>16. Owned(t, more)
  BY <1>1, <1>15 DEF Owned
<1>17. Linked(u) /\ Owned(u, more)
  <2>1. slot.index \in DOMAIN more /\ slot.hash = HashOf(more[slot.index].ssid)
    BY <1>1, <1>12, <1>15 DEF h
  <2>2. \A y \in 0..(n - 1) : t.slots[y].index # slot.index
    <3> SUFFICES ASSUME NEW y \in 0..(n - 1), t.slots[y].index = slot.index
                 PROVE  FALSE
      OBVIOUS
    <3>1. InUse(t.slots[y])
      BY <1>1, <1>12 DEF InUse
    <3>2. t.slots[y].index \in 1..Len(entries)
      BY <1>1, <1>2, <3>1 DEF Owned
    <3>3. QED
      BY <1>1, <1>12, <3>2
  <2>3. Probe(slot.hash, n)[first] = x /\ GoesOn(t, slot.hash, first)
    BY <1>10, <1>12 DEF x
  <2>4. QED
    BY <1>1, <1>8, <1>11, <1>12, <1>14, <1>16, <2>1, <2>2, <2>3, PutSlot
<1>18. /\ Slots(u) = 0..(n - 1) /\ u.slots[x] = slot
       /\ \A y \in 0..(n - 1) : y # x => u.slots[y] = t.slots[y]
  BY <1>1, <1>8, <1>14, SlotCountIs DEF Tables
<1>19. Led(u, more)
  <2>1. ASSUME NEW i \in DOMAIN more
        PROVE  \E y \in 0..(n - 1) : u.slots[y].index = i
    <3>1. CASE i = Len(entries) + 1
      BY <1>8, <1>12, <1>18, <3>1
    <3>2. CASE i # Len(entries) + 1
      <4>1. i \in DOMAIN entries /\ i \in Nat \ {0}
        BY <1>1, <1>15, <3>2
      <4>2. PICK y \in 0..(n - 1) : t.slots[y].index = i
        BY <1>1, <1>2, <4>1 DEF Led
      <4>3. y # x
        BY <1>11, <4>1, <4>2 DEF InUse
      <4>4. QED
        BY <1>18, <4>2, <4>3
    <3>3. QED
      BY <3>1, <3>2
  <2>2. QED
    BY <1>18, <2>1 DEF Led
<1>20. Cardinality(DeletedSlots(u)) = u.tombstones
  <2>1. DeletedSlots(u) = D \ {x}
    <3>1. slot # Deleted
      BY <1>12 DEF TakenSlot, Deleted
    <3>2. QED
      BY <1>2, <1>8, <1>18, <3>1 DEF DeletedSlots, D
  <2>2. Cardinality(D \ {x}) = IF x \in D THEN Cardinality(D) - 1
                               ELSE Cardinality(D)
    BY <1>13, FS_RemoveElement
  <2>3. QED
    BY <1>11, <1>14, <2>1, <2>2
<1>21. u.used <= used_count_threshold(n)
  BY <1>1, <1>2, <1>14 DEF used_count_threshold
<1>22. u.tombstones <= tombstone_count_threshold(n)
  BY <1>1, <1>2, <1>13, <1>14 DEF tombstone_count_threshold
<1>23. QED
  BY <1>14, <1>15, <1>17, <1>19, <1>20, <1>21, <1>22
     DEF RightTable, Serves, u, more

(***************************************************************************)
(* shdel: the last entry in the place of the one deleted.                  *)
(***************************************************************************)
LEMMA SwapDeletedIs ==
  ASSUME entries \in AccessPointMap, NEW k \in DOMAIN entries,
         NEW left, left = SwapDeleted(k)
  PROVE  /\ left \in AccessPointMap /\ Len(left) = Len(entries) - 1
         /\ DOMAIN left = 1..(Len(entries) - 1)
         /\ \A j \in DOMAIN left :
              left[j] = IF j = k THEN entries[Len(entries)] ELSE entries[j]
         /\ left = Abstract!SwapRemoved(entries, k)
<1> DEFINE m == Len(entries)
           moved == [entries EXCEPT ![k] = entries[m]]
<1>1. /\ entries \in Seq(AccessPoint) /\ DistinctKeys(entries)
      /\ m \in Nat \ {0} /\ DOMAIN entries = 1..m /\ k \in 1..m
  BY DEF AccessPointMap
<1>2. /\ moved \in Seq(AccessPoint) /\ Len(moved) = m
      /\ \A j \in 1..m : moved[j] = IF j = k THEN entries[m] ELSE entries[j]
  BY <1>1
<1>3. left = SubSeq(moved, 1, m - 1)
  BY DEF SwapDeleted
<1> HIDE DEF moved
<1>4. /\ left \in Seq(AccessPoint) /\ Len(left) = m - 1
      /\ DOMAIN left = 1..(m - 1)
      /\ \A j \in 1..(m - 1) : left[j] = moved[j]
  BY <1>1, <1>2, <1>3
<1>5. \A j \in 1..(m - 1) :
        left[j] = IF j = k THEN entries[m] ELSE entries[j]
  BY <1>1, <1>2, <1>4
<1>6. DistinctKeys(left)
  <2> SUFFICES ASSUME NEW i \in 1..(m - 1), NEW j \in 1..(m - 1),
                      left[i].ssid = left[j].ssid
               PROVE  i = j
    BY <1>4 DEF DistinctKeys
  <2> DEFINE from(l) == IF l = k THEN m ELSE l
  <2>1. left[i] = entries[from(i)] /\ left[j] = entries[from(j)]
    BY <1>5
  <2>2. from(i) \in DOMAIN entries /\ from(j) \in DOMAIN entries
    BY <1>1
  <2>3. from(i) = from(j)
    BY <1>1, <2>1, <2>2 DEF DistinctKeys
  <2>4. QED
    BY <1>1, <2>3
<1>7. left = Abstract!SwapRemoved(entries, k)
  <2>1. left = [j \in 1..(m - 1) |-> left[j]]
    BY <1>4
  <2>2. left = [j \in 1..(m - 1) |-> IF j = k THEN entries[m] ELSE entries[j]]
    BY <1>5, <2>1
  <2>3. QED
    BY <2>2 DEF Abstract!SwapRemoved
<1>8. QED
  BY <1>4, <1>5, <1>6, <1>7 DEF AccessPointMap

(***************************************************************************)
(* shdel: the slot of the entry that moved is told its new position, the   *)
(* slot of the key is marked; the slots left are those of the entries left.*)
(***************************************************************************)
Swapped(left, ents, old, m) ==
  /\ m \in Nat /\ old \in 1..m /\ DOMAIN ents = 1..m /\ DOMAIN left = 1..(m - 1)
  /\ \A j \in 1..(m - 1) : left[j] = IF j = old THEN ents[m] ELSE ents[j]

Marked(u, t, x, z, mark, old, m, n) ==
  /\ x \in 0..(n - 1) /\ t.slots[x].index = old
  /\ z \in 0..(n - 1) /\ t.slots[z].index = m
  /\ mark \in TakenSlot /\ mark.index = old /\ mark.hash = t.slots[z].hash
  /\ \A y \in 0..(n - 1) :
       u.slots[y] = IF y = x THEN Deleted
                    ELSE IF y = z THEN mark ELSE t.slots[y]

LEMMA DeletionKeeps ==
  ASSUME NEW n \in Sizes, NEW t, t \in Tables(n), NEW u, u \in Tables(n),
         NEW ents, Linked(t), Owned(t, ents), Led(t, ents),
         NEW left, NEW old, NEW m, Swapped(left, ents, old, m),
         NEW x, NEW z, NEW mark, Marked(u, t, x, z, mark, old, m, n)
  PROVE  /\ Linked(u) /\ Owned(u, left) /\ Led(u, left)
         /\ DeletedSlots(u) = DeletedSlots(t) \cup {x}
         /\ x \notin DeletedSlots(t)
<1>1. /\ m \in Nat /\ old \in 1..m /\ DOMAIN ents = 1..m /\ DOMAIN left = 1..(m - 1)
      /\ \A j \in 1..(m - 1) : left[j] = IF j = old THEN ents[m] ELSE ents[j]
  BY DEF Swapped
<1>2. /\ x \in 0..(n - 1) /\ t.slots[x].index = old
      /\ z \in 0..(n - 1) /\ t.slots[z].index = m
      /\ mark \in TakenSlot /\ mark.index = old /\ mark.hash = t.slots[z].hash
      /\ \A y \in 0..(n - 1) :
           u.slots[y] = IF y = x THEN Deleted
                        ELSE IF y = z THEN mark ELSE t.slots[y]
  BY DEF Marked
<1> USE <1>1, <1>2
<1>3. /\ Slots(t) = 0..(n - 1) /\ slot_count(t) = n /\ n \in Nat
      /\ Slots(u) = 0..(n - 1) /\ slot_count(u) = n
      /\ ~InUse(Deleted) /\ Deleted # Empty /\ mark # Empty /\ mark # Deleted
      /\ InUse(mark)
  BY SlotCountIs DEF InUse, Deleted, Empty, TakenSlot
<1>4. InUse(t.slots[x]) /\ InUse(t.slots[z]) /\ (x = z <=> old = m)
  <2>1. InUse(t.slots[x]) /\ InUse(t.slots[z])
    BY DEF InUse
  <2>2. QED
    BY <1>3, <2>1 DEF Owned
<1>5. Linked(u)
  <2>1. \A y \in 0..(n - 1) : t.slots[y] # Empty => u.slots[y] # Empty
    BY <1>3
  <2> SUFFICES ASSUME NEW y \in 0..(n - 1), InUse(u.slots[y])
               PROVE  Reached(u, u.slots[y].hash, y)
    BY <1>3 DEF Linked
  <2> DEFINE g == t.slots[y].hash
  <2>2. u.slots[y].hash = g /\ InUse(t.slots[y]) /\ g \in Nat
    <3>1. u.slots[y].hash = g /\ InUse(t.slots[y])
      BY <1>4, <1>3
    <3>2. QED
      BY <1>3, <3>1, SlotIs
  <2>3. PICK k \in 0..(n - 1) : Probe(g, n)[k] = y /\ GoesOn(t, g, k)
    BY <1>3, <2>2 DEF Linked, Reached
  <2>4. GoesOn(u, g, k)
    <3> HIDE DEF g
    <3>1. QED
      BY <2>1, <2>2, <2>3, WayStays
  <2>5. QED
    BY <1>3, <2>2, <2>3, <2>4 DEF Reached
<1>6. ASSUME InUse(u.slots[z])
      PROVE  /\ z # x /\ old \in 1..(m - 1)
             /\ u.slots[z].index = old
             /\ u.slots[z].hash = HashOf(left[old].ssid)
  <2>1. z # x
    BY <1>3, <1>6
  <2>2. old \in 1..(m - 1)
    BY <1>4, <2>1
  <2>3. t.slots[z].hash = HashOf(ents[m].ssid)
    BY <1>3, <1>4 DEF Owned
  <2>4. QED
    BY <2>1, <2>2, <2>3
<1>7. ASSUME NEW y \in 0..(n - 1), InUse(u.slots[y]), y # z
      PROVE  /\ y # x /\ u.slots[y] = t.slots[y] /\ InUse(t.slots[y])
             /\ t.slots[y].index \in 1..(m - 1) /\ t.slots[y].index # old
             /\ t.slots[y].hash = HashOf(left[t.slots[y].index].ssid)
  <2>1. y # x
    BY <1>3, <1>7
  <2>2. u.slots[y] = t.slots[y]
    BY <1>7, <2>1
  <2> DEFINE i == t.slots[y].index
  <2>3. i \in 1..m /\ t.slots[y].hash = HashOf(ents[i].ssid)
    BY <1>3, <1>7, <2>2 DEF Owned
  <2>4. i # m
    BY <1>3, <1>4, <1>7 DEF Owned
  <2>5. i # old
    <3>1. \A w \in 0..(n - 1) : t.slots[w].index = t.slots[x].index => w = x
      BY <1>3, <1>4 DEF Owned
    <3>2. QED
      BY <2>1, <3>1
  <2>6. i \in 1..(m - 1)
    BY <2>3, <2>4
  <2>7. left[i] = ents[i]
    BY <2>5, <2>6
  <2>8. QED
    BY <1>7, <2>1, <2>2, <2>3, <2>5, <2>6, <2>7
<1>8. ASSUME NEW y \in 0..(n - 1), InUse(u.slots[y])
      PROVE  /\ u.slots[y].index \in DOMAIN left
             /\ u.slots[y].hash = HashOf(left[u.slots[y].index].ssid)
             /\ \A w \in 0..(n - 1) :
                  u.slots[w].index = u.slots[y].index => w = y
  <2>1. /\ u.slots[y].index \in DOMAIN left
        /\ u.slots[y].hash = HashOf(left[u.slots[y].index].ssid)
    <3>1. CASE y = z
      BY <1>6, <1>8, <3>1
    <3>2. CASE y # z
      BY <1>7, <1>8, <3>2
    <3>3. QED
      BY <3>1, <3>2
  <2>2. ASSUME NEW w \in 0..(n - 1), u.slots[w].index = u.slots[y].index
        PROVE  w = y
    <3>1. InUse(u.slots[w])
      BY <1>8, <2>2 DEF InUse
    <3>2. CASE y = z
      BY <1>6, <1>7, <1>8, <2>2, <3>1, <3>2
    <3>3. CASE y # z
      <4>1. w # z
        BY <1>6, <1>7, <1>8, <2>2, <3>1, <3>3
      <4>2. /\ t.slots[w].index = t.slots[y].index
            /\ InUse(t.slots[w]) /\ InUse(t.slots[y])
        BY <1>7, <1>8, <2>2, <3>1, <3>3, <4>1
      <4>3. QED
        BY <1>3, <4>2 DEF Owned
    <3>4. QED
      BY <3>2, <3>3
  <2>3. QED
    BY <2>1, <2>2
<1>9. Owned(u, left)
  BY <1>3, <1>8 DEF Owned
<1>10. Led(u, left)
  <2> SUFFICES ASSUME NEW i \in 1..(m - 1)
               PROVE  \E y \in 0..(n - 1) : u.slots[y].index = i
    BY <1>3 DEF Led
  <2>1. CASE i = old
    <3>1. x # z
      BY <1>3, <1>4, <2>1
    <3>2. QED
      BY <1>3, <2>1, <3>1
  <2>2. CASE i # old
    <3>1. i \in 1..m /\ i # m
      OBVIOUS
    <3>2. PICK y \in 0..(n - 1) : t.slots[y].index = i
      BY <1>3, <3>1 DEF Led
    <3>3. y # x /\ y # z
      BY <2>2, <3>1, <3>2
    <3>4. u.slots[y] = t.slots[y]
      BY <3>3
    <3>5. QED
      BY <3>2, <3>4
  <2>3. QED
    BY <2>1, <2>2
<1>11. x \notin DeletedSlots(t) /\ z \notin DeletedSlots(t)
  BY <1>3, <1>4 DEF DeletedSlots
<1>12. DeletedSlots(u) = DeletedSlots(t) \cup {x}
  <2>1. \A y \in 0..(n - 1) :
          u.slots[y] = Deleted <=> y = x \/ t.slots[y] = Deleted
    BY <1>3, <1>4
  <2>2. QED
    BY <1>3, <2>1 DEF DeletedSlots
<1>13. QED
  BY <1>5, <1>9, <1>10, <1>11, <1>12

IsDeletion(t, key, x, old, z, told, u, left) ==
  /\ x = find_slot(t, entries, key)
  /\ old = t.slots[x].index
  /\ z = find_slot(t, entries, entries[Len(entries)].ssid)
  /\ told = [t EXCEPT !.slots[z].index = old]
  /\ u = [told EXCEPT !.slots[x] = Deleted, !.used = @ - 1,
                      !.tombstones = @ + 1]
  /\ left = SwapDeleted(old)

LEMMA DeletedServes ==
  ASSUME hash \in [Ssid -> Nat], NEW n \in Sizes, NEW t,
         entries \in AccessPointMap, RightTable(t, entries, n),
         NEW key \in Ssid, HasKey(entries, key),
         NEW x, NEW old, NEW z, NEW told, NEW u, NEW left,
         IsDeletion(t, key, x, old, z, told, u, left)
  PROVE  old = find_ssid_in_map(entries, key) /\ Serves(u, left, n)
<1>0. /\ x = find_slot(t, entries, key)
      /\ old = t.slots[x].index
      /\ z = find_slot(t, entries, entries[Len(entries)].ssid)
      /\ told = [t EXCEPT !.slots[z].index = old]
      /\ u = [told EXCEPT !.slots[x] = Deleted, !.used = @ - 1,
                          !.tombstones = @ + 1]
      /\ left = SwapDeleted(old)
  BY DEF IsDeletion
<1> DEFINE m == Len(entries)
           D == DeletedSlots(t)
<1>1. /\ t \in Tables(n) /\ Linked(t) /\ Owned(t, entries) /\ Led(t, entries)
      /\ t.used = m /\ t.tombstones = Cardinality(D)
      /\ t.used <= used_count_threshold(n)
      /\ m \in Nat /\ DOMAIN entries = 1..m
      /\ Slots(t) = 0..(n - 1) /\ n \in Nat /\ n >= 4 /\ slot_count(t) = n
  <2>1. t \in Tables(n)
    BY DEF RightTable, Serves
  <2>2. QED
    BY <2>1, SlotCountIs DEF RightTable, Serves, AccessPointMap
<1>2. \E y \in 0..(n - 1) : t.slots[y] = Empty
  BY RoomIsLeft
<1>3. /\ x \in 0..(n - 1) /\ old = find_ssid_in_map(entries, key)
      /\ old \in 1..m
  <2>1. find_slot(t, entries, key) \in 0..(n - 1)
        /\ t.slots[find_slot(t, entries, key)].index =
             find_ssid_in_map(entries, key)
    <3>1. t \in Tables(n) /\ Linked(t) /\ Owned(t, entries) /\ Led(t, entries)
      BY <1>1
    <3> HIDE DEF m
    <3>2. QED
      BY <1>2, <3>1, FindsKey
  <2>2. x \in 0..(n - 1) /\ old = find_ssid_in_map(entries, key)
    BY <1>0, <2>1
  <2>3. QED
    BY <1>1, <2>2, FindFinds
<1>4. z \in 0..(n - 1) /\ t.slots[z].index = m
  <2>1. m \in DOMAIN entries
    BY <1>1, <1>3
  <2>2. entries[m].ssid \in Ssid /\ find_ssid_in_map(entries, entries[m].ssid) = m
    BY <2>1, EntryIsAccessPoint, FindInverts
  <2> DEFINE last == entries[m].ssid
  <2>3. find_slot(t, entries, last) \in 0..(n - 1)
        /\ t.slots[find_slot(t, entries, last)].index =
             find_ssid_in_map(entries, last)
    <3>1. last \in Ssid
      BY <2>2
    <3>2. t \in Tables(n) /\ Linked(t) /\ Owned(t, entries) /\ Led(t, entries)
      BY <1>1
    <3> HIDE DEF last, m
    <3>3. QED
      BY <1>2, <3>1, <3>2, FindsKey
  <2>4. QED
    BY <1>0, <2>2, <2>3
<1>5. InUse(t.slots[x]) /\ InUse(t.slots[z]) /\ (x = z <=> old = m)
  <2>1. t.slots[x].index = old
    BY <1>0
  <2> HIDE DEF m
  <2>2. InUse(t.slots[x]) /\ InUse(t.slots[z])
    <3>1. old > 0 /\ m > 0
      BY <1>1, <1>3 DEF m
    <3>2. QED
      BY <1>4, <2>1, <3>1, Zenon DEF InUse
  <2>3. t.slots[x].index = t.slots[z].index => x = z
    BY <1>1, <1>3, <1>4, <2>2, Zenon DEF Owned
  <2>4. QED
    BY <1>4, <2>1, <2>2, <2>3
<1>6. IsFiniteSet(D) /\ Cardinality(D) \in Nat
  BY <1>1, CountsOf, FS_CardinalityType
<1>7. /\ left \in AccessPointMap /\ Len(left) = m - 1 /\ DOMAIN left = 1..(m - 1)
      /\ \A j \in 1..(m - 1) : left[j] = IF j = old THEN entries[m] ELSE entries[j]
  <2>1. old \in DOMAIN entries
    BY <1>1, <1>3
  <2>2. left = SwapDeleted(old)
    BY <1>0
  <2>3. /\ left \in AccessPointMap /\ Len(left) = Len(entries) - 1
        /\ DOMAIN left = 1..(Len(entries) - 1)
        /\ \A j \in DOMAIN left :
             left[j] = IF j = old THEN entries[Len(entries)] ELSE entries[j]
    BY <2>1, <2>2, SwapDeletedIs
  <2>4. QED
    BY <2>3
<1> HIDE DEF D
<1> DEFINE Values == TakenSlot \cup {Empty, Deleted}
           c == Cardinality(D)
           mark == [t.slots[z] EXCEPT !.index = old]
           told_slots == [t.slots EXCEPT ![z] = mark]
           slots == [told_slots EXCEPT ![x] = Deleted]
<1>8. t.slots[z] \in TakenSlot /\ mark \in TakenSlot /\ mark.index = old
      /\ mark.hash = t.slots[z].hash /\ InUse(mark)
  <2>1. t.slots[z] \in TakenSlot
    BY <1>1, <1>4, <1>5, SlotIs
  <2>2. QED
    BY <1>3, <2>1 DEF TakenSlot, InUse
<1>9. /\ t \in [slots : [0..(n - 1) -> Values], used : Nat, tombstones : Nat]
      /\ mark \in Values /\ Deleted \in Values
  BY <1>1, <1>8 DEF Tables
<1> HIDE DEF Values, c
<1>10. told = [slots |-> told_slots, used |-> t.used, tombstones |-> t.tombstones]
  BY <1>0, <1>4, <1>9
<1> HIDE DEF mark
<1>11. told_slots \in [0..(n - 1) -> Values]
  BY <1>4, <1>9
<1>12. /\ u.slots = slots /\ u.used = m - 1 /\ u.tombstones = c + 1
       /\ u = [slots |-> u.slots, used |-> u.used, tombstones |-> u.tombstones]
  <2>1. /\ told.slots = told_slots /\ told.used = t.used
        /\ told.tombstones = t.tombstones
        /\ DOMAIN told = {"slots", "used", "tombstones"}
    <3> HIDE DEF told_slots
    <3>1. QED
      BY <1>10
  <2> HIDE DEF told_slots, c
  <2>2. /\ u.slots = slots
        /\ u.used = t.used - 1 /\ u.tombstones = t.tombstones + 1
    BY <1>0, <2>1
  <2>3. u = [slots |-> u.slots, used |-> u.used, tombstones |-> u.tombstones]
    BY <1>0, <2>1
  <2>4. QED
    BY <1>1, <2>2, <2>3 DEF c
<1>13. slots \in [0..(n - 1) -> Values]
  <2> HIDE DEF told_slots
  <2>1. QED
    BY <1>3, <1>9, <1>11
<1>14. u \in Tables(n) /\ u.slots = slots /\ u.used = m - 1 /\ u.tombstones = c + 1
  <2> HIDE DEF slots
  <2>1. m - 1 \in Nat /\ c + 1 \in Nat
    BY <1>1, <1>3, <1>6 DEF c
  <2>2. u.slots \in [0..(n - 1) -> Values] /\ u.used \in Nat /\ u.tombstones \in Nat
    BY <1>12, <1>13, <2>1
  <2>3. u \in Tables(n)
    BY <1>12, <2>2 DEF Tables, Values
  <2>4. QED
    BY <1>12, <2>3
<1>15. \A y \in 0..(n - 1) :
         u.slots[y] = IF y = x THEN Deleted ELSE IF y = z THEN mark ELSE t.slots[y]
  BY <1>3, <1>4, <1>9, <1>14
<1> HIDE DEF slots, told_slots
<1>16. /\ Linked(u) /\ Owned(u, left) /\ Led(u, left)
       /\ DeletedSlots(u) = D \cup {x} /\ x \notin D
  <2>1. Swapped(left, entries, old, m)
    BY <1>1, <1>3, <1>7 DEF Swapped
  <2>2. Marked(u, t, x, z, mark, old, m, n)
    BY <1>0, <1>3, <1>4, <1>8, <1>15 DEF Marked
  <2>3. u \in Tables(n)
    BY <1>14
  <2> HIDE DEF m
  <2>4. QED
    BY <1>1, <2>1, <2>2, <2>3, DeletionKeeps DEF D
<1>17. Cardinality(DeletedSlots(u)) = c + 1
  BY <1>6, <1>16, FS_AddElement DEF c
<1>18. u.used <= used_count_threshold(n)
  BY <1>1, <1>14 DEF used_count_threshold
<1>19. QED
  BY <1>3, <1>7, <1>14, <1>16, <1>17, <1>18 DEF Serves

-----------------------------------------------------------------------------
(***************************************************************************)
(* The inductive invariant: there is no map, and no entry, or a table of a *)
(* legal size that is right for the entries, with room for the array.      *)
(***************************************************************************)
HasMap ==
  /\ \E n \in Sizes : RightTable(table, entries, n)
  /\ Len(entries) + 1 <= capacity

MapInv ==
  /\ hash \in [Ssid -> Nat] /\ entries \in AccessPointMap /\ capacity \in Nat
  /\ KeysAreOwned
  /\ (table = NoTable /\ entries = << >>) \/ HasMap

LEMMA NoTableIsNone ==
  ASSUME NEW n \in Sizes
  PROVE  NoTable \notin Tables(n)
<1>1. 0 \in 0..(n - 1)
  <2>1. FirstTable(n, [used |-> 0]) \in Tables(n)
    BY MakesFirst DEF RightCopy
  <2>2. QED
    BY <2>1, SlotCountIs
<1>2. SUFFICES ASSUME NoTable \in Tables(n) PROVE FALSE
  OBVIOUS
<1>3. DOMAIN NoTable.slots = 0..(n - 1)
  BY <1>2 DEF Tables
<1>4. DOMAIN NoTable.slots = {}
  BY DEF NoTable
<1>5. QED
  BY <1>1, <1>3, <1>4

LEMMA HasMapOrNot ==
  ASSUME MapInv
  PROVE  /\ table # NoTable => HasMap
         /\ table = NoTable => entries = << >> /\ ~HasMap
<1>1. HasMap => table # NoTable
  BY NoTableIsNone DEF HasMap, RightTable, Serves
<1>2. QED
  BY <1>1 DEF MapInv

(***************************************************************************)
(* A search in a map the invariant describes.                              *)
(***************************************************************************)
LEMMA TableFinds ==
  ASSUME hash \in [Ssid -> Nat], NEW n \in Sizes, NEW t,
         NEW ents \in AccessPointMap, RightTable(t, ents, n),
         NEW key \in Ssid
  PROVE  hmget_key(t, ents, key) = find_ssid_in_map(ents, key)
<1>1. \E x \in 0..(n - 1) : t.slots[x] = Empty
  BY RoomIsLeft
<1>2. t.slots[find_slot(t, ents, key)].index = find_ssid_in_map(ents, key)
  BY <1>1, FindsKey DEF RightTable, Serves
<1>3. QED
  BY <1>2 DEF hmget_key

LEMMA GrowthIsEnough ==
  ASSUME NEW length \in Nat, NEW cap \in Nat
  PROVE  arrgrowf(length, cap) \in Nat /\ length + 1 <= arrgrowf(length, cap)
  BY DEF arrgrowf

(***************************************************************************)
(* An entry that is overwritten keeps its key.                             *)
(***************************************************************************)
LEMMA SameKeys ==
  ASSUME NEW n \in Sizes, NEW t, NEW ents, NEW more,
         RightTable(t, ents, n), DOMAIN more = DOMAIN ents, Len(more) = Len(ents),
         \A k \in DOMAIN ents : more[k].ssid = ents[k].ssid
  PROVE  RightTable(t, more, n)
<1>1. Owned(t, more) /\ Led(t, more)
  BY DEF RightTable, Serves, Owned, Led
<1>2. QED
  BY <1>1 DEF RightTable, Serves

LEMMA HashStays ==
  ASSUME NEW n, hash' = hash, RightTable(table', entries', n)
  PROVE  RightTable(table, entries, n)'
  BY DEF RightTable, Serves, Owned, HashOf

-----------------------------------------------------------------------------
(* The steps.                                                              *)

LEMMA InitMap == Init => MapInv
<1> SUFFICES ASSUME Init PROVE MapInv
  OBVIOUS
<1>1. /\ hash \in [Ssid -> Nat] /\ entries = << >> /\ capacity = 0
      /\ table = NoTable /\ heap = {}
  BY HashAssumption DEF Init, create_access_point_map
<1>2. QED
  BY <1>1, EmptyMap DEF MapInv, KeysAreOwned

LEMMA ResetUsed ==
  ASSUME NEW slots
  PROVE  [slots |-> slots, used |-> 0, tombstones |-> 0]
           = [[slots |-> slots, used |-> 0, tombstones |-> 0] EXCEPT !.used = 0]
OBVIOUS

LEMMA ModeStep ==
  ASSUME MapInv, shmode_func
  PROVE  MapInv' /\ entries' = entries
<1>1. /\ table = NoTable /\ entries = << >> /\ entries' = entries /\ heap' = heap
      /\ hash' = hash /\ hash \in [Ssid -> Nat] /\ KeysAreOwned
      /\ table' = EmptyTable(BucketLength) /\ capacity' = arrgrowf(0, 0)
      /\ entries \in AccessPointMap
  BY HasMapOrNot DEF shmode_func, MapInv
<1> DEFINE B == BucketLength
           t == EmptyTable(B)
<1>2. B \in Sizes /\ B \in {4, 8}
  BY FirstSize, BucketAssumption
<1>3. t = FirstTable(B, [used |-> 0])
  <2>1. [used |-> 0].used = 0
    OBVIOUS
  <2> HIDE DEF B
  <2>2. QED
    BY <2>1, ResetUsed DEF FirstTable, EmptyTable
<1>4. RightCopy(t, << >>, 0, B)
  <2>1. [used |-> 0].used = 0 /\ 0 \in Nat
    OBVIOUS
  <2> HIDE DEF t, B
  <2>2. QED
    BY <1>2, <1>3, <2>1, MakesFirst
<1> HIDE DEF t, B
<1>5. RightTable(t, << >>, B)
  <2>1. Len(<< >>) = 0 /\ DOMAIN << >> = {}
    OBVIOUS
  <2>2. Led(t, << >>)
    BY <2>1 DEF Led
  <2>3. 0 <= used_count_threshold(B) /\ 0 <= tombstone_count_threshold(B)
    BY <1>2 DEF used_count_threshold, tombstone_count_threshold
  <2>4. QED
    BY <1>4, <2>1, <2>2, <2>3, FS_EmptySet DEF RightCopy, RightTable, Serves
<1>6. RightTable(table, entries, B)'
  BY <1>1, <1>5, HashStays DEF t, B
<1>7. capacity' \in Nat /\ Len(entries') + 1 <= capacity'
  BY <1>1, GrowthIsEnough
<1>8. HasMap'
  BY <1>2, <1>6, <1>7 DEF HasMap
<1>9. KeysAreOwned'
  BY <1>1 DEF KeysAreOwned
<1>10. QED
  BY <1>1, <1>7, <1>8, <1>9 DEF MapInv

LEMMA PutStep ==
  ASSUME MapInv, NEW ap \in AccessPoint, shput(ap)
  PROVE  MapInv' /\ entries' = add_to_map(entries, ap)
<1> DEFINE t == Grown(table)
           found == hmget_key(t, entries, ap.ssid)
<1>1. /\ hash \in [Ssid -> Nat] /\ entries \in AccessPointMap
      /\ capacity \in Nat /\ KeysAreOwned /\ hash' = hash
      /\ Len(entries) + 1 <= capacity /\ Len(entries) \in Nat
      /\ ap.ssid \in Ssid /\ DOMAIN entries = 1..Len(entries)
  BY HasMapOrNot DEF shput, MapInv, HasMap, AccessPointMap, AccessPoint
<1>2. PICK n \in Sizes : RightTable(table, entries, n)
  BY HasMapOrNot DEF shput, HasMap
<1>3. PICK m \in Sizes : /\ RightTable(t, entries, m)
                         /\ t.used < used_count_threshold(m)
  BY <1>1, <1>2, GrownIsRight
<1>4. found = find_ssid_in_map(entries, ap.ssid)
  BY <1>1, <1>3, TableFinds
<1>5. \/ /\ found > 0
         /\ entries' = [entries EXCEPT ![found] = ap]
         /\ table' = t
         /\ UNCHANGED <<capacity, heap>>
      \/ /\ found = 0
         /\ entries' = Append(entries, ap)
         /\ heap' = heap \cup {ap.ssid}
         /\ capacity' = arrgrowf(Len(entries) + 1, capacity)
         /\ table' = Inserted(t, ap.ssid)
  BY DEF shput
<1> HIDE DEF t, found
<1>6. add_to_map(entries, ap) \in AccessPointMap
  BY <1>1, AddToMap
<1>7. CASE found > 0
  <2>1. /\ HasKey(entries, ap.ssid) /\ found \in DOMAIN entries
        /\ entries[found].ssid = ap.ssid
    BY <1>1, <1>4, <1>7, FindFinds DEF AP_MAP_NOT_FOUND
  <2>2. /\ entries' = [entries EXCEPT ![found] = ap] /\ table' = t
        /\ capacity' = capacity /\ heap' = heap
    BY <1>5, <1>7
  <2>3. entries' = add_to_map(entries, ap)
    BY <1>4, <1>7, <2>2 DEF add_to_map, AP_MAP_NOT_FOUND
  <2>4. /\ DOMAIN entries' = DOMAIN entries /\ Len(entries') = Len(entries)
        /\ \A k \in DOMAIN entries : entries'[k].ssid = entries[k].ssid
    <3>1. entries \in Seq(AccessPoint)
      BY <1>1 DEF AccessPointMap
    <3>2. QED
      BY <2>1, <2>2, <3>1
  <2>5. RightTable(table', entries', m)
    BY <1>3, <2>2, <2>4, SameKeys
  <2>6. HasMap'
    BY <1>1, <2>2, <2>4, <2>5, HashStays DEF HasMap
  <2>7. KeysAreOwned'
    BY <1>1, <2>2, <2>4 DEF KeysAreOwned
  <2>8. QED
    BY <1>1, <1>6, <2>2, <2>3, <2>6, <2>7 DEF MapInv
<1>8. CASE found = 0
  <2>1. ~HasKey(entries, ap.ssid)
    BY <1>1, <1>4, <1>8, FindFinds DEF AP_MAP_NOT_FOUND
  <2>2. /\ entries' = Append(entries, ap) /\ table' = Inserted(t, ap.ssid)
        /\ capacity' = arrgrowf(Len(entries) + 1, capacity)
        /\ heap' = heap \cup {ap.ssid}
    BY <1>5, <1>8
  <2>3. entries' = add_to_map(entries, ap)
    BY <1>4, <1>8, <2>2 DEF add_to_map, AP_MAP_NOT_FOUND
  <2>4. RightTable(table', entries', m)
    BY <1>1, <1>3, <2>1, <2>2, InsertedIsRight
  <2>5. /\ DOMAIN entries' = 1..(Len(entries) + 1)
        /\ Len(entries') = Len(entries) + 1
        /\ entries'[Len(entries) + 1] = ap
        /\ \A k \in DOMAIN entries : entries'[k] = entries[k]
    <3>1. entries \in Seq(AccessPoint)
      BY <1>1 DEF AccessPointMap
    <3>2. QED
      BY <1>1, <2>2, <3>1
  <2>6. capacity' \in Nat /\ Len(entries') + 1 <= capacity'
    BY <1>1, <2>2, <2>5, GrowthIsEnough
  <2>7. HasMap'
    BY <1>1, <2>4, <2>6, HashStays DEF HasMap
  <2>8. KeysAreOwned'
    BY <1>1, <2>2, <2>5 DEF KeysAreOwned
  <2>9. QED
    BY <1>1, <1>6, <2>3, <2>6, <2>7, <2>8 DEF MapInv
<1>9. QED
  BY <1>5, <1>7, <1>8

LEMMA DeleteStep ==
  ASSUME MapInv, NEW key \in Ssid, shdel(key)
  PROVE  /\ MapInv' /\ HasKey(entries, key)
         /\ entries' = Abstract!SwapRemoved(entries,
                                            find_ssid_in_map(entries, key))
<1> DEFINE x == find_slot(table, entries, key)
           old == table.slots[x].index
           moved == entries[Len(entries)].ssid
           z == find_slot(table, entries, moved)
           told == [table EXCEPT !.slots[z].index = old]
           u == [told EXCEPT !.slots[x] = Deleted, !.used = @ - 1,
                             !.tombstones = @ + 1]
           left == SwapDeleted(old)
<1>1. /\ hash \in [Ssid -> Nat] /\ entries \in AccessPointMap
      /\ capacity \in Nat /\ KeysAreOwned /\ hash' = hash
      /\ Len(entries) + 1 <= capacity /\ Len(entries) \in Nat
      /\ capacity' = capacity /\ DOMAIN entries = 1..Len(entries)
  BY HasMapOrNot DEF shdel, MapInv, HasMap, AccessPointMap
<1>2. PICK n \in Sizes : RightTable(table, entries, n)
  BY HasMapOrNot DEF shdel, HasMap
<1>3. /\ hmget_key(table, entries, key) > 0
      /\ table' = Resized(u) /\ entries' = left /\ heap' = heap \ {key}
  BY DEF shdel
<1>4. HasKey(entries, key)
  BY <1>1, <1>2, <1>3, TableFinds, FindFinds DEF AP_MAP_NOT_FOUND
<1> HIDE DEF x, old, moved, z, told, u, left
<1>5. old = find_ssid_in_map(entries, key) /\ Serves(u, left, n)
  <2>1. IsDeletion(table, key, x, old, z, told, u, left)
    BY Zenon DEF IsDeletion, x, old, z, told, u, left, moved
  <2>2. QED
    BY <1>1, <1>2, <1>4, <2>1, DeletedServes
<1>6. old \in DOMAIN entries /\ entries[old].ssid = key
  BY <1>1, <1>4, <1>5, FindFinds
<1>7. /\ left \in AccessPointMap /\ Len(left) = Len(entries) - 1
      /\ DOMAIN left = 1..(Len(entries) - 1)
      /\ \A j \in DOMAIN left :
           left[j] = IF j = old THEN entries[Len(entries)] ELSE entries[j]
      /\ left = Abstract!SwapRemoved(entries, old)
  BY <1>1, <1>6, SwapDeletedIs DEF left
<1>8. \E m \in Sizes : RightTable(table', entries', m)
  BY <1>3, <1>5, <1>7, ResizedIsRight
<1>9. HasMap'
  <2>1. Len(entries') + 1 <= capacity'
    BY <1>1, <1>3, <1>7
  <2>2. QED
    BY <1>1, <1>8, <2>1, HashStays DEF HasMap
<1>10. {left[j].ssid : j \in DOMAIN left}
         = {entries[k].ssid : k \in DOMAIN entries} \ {key}
  <2>1. ASSUME NEW j \in DOMAIN left
        PROVE  \E k \in DOMAIN entries : /\ left[j] = entries[k]
                                         /\ entries[k].ssid # key
    <3> DEFINE k == IF j = old THEN Len(entries) ELSE j
    <3>1. k \in DOMAIN entries /\ k # old /\ left[j] = entries[k]
      BY <1>1, <1>6, <1>7
    <3>2. entries[k].ssid # key
      BY <1>1, <1>6, <3>1 DEF AccessPointMap, DistinctKeys
    <3>3. QED
      BY <3>1, <3>2
  <2>2. ASSUME NEW k \in DOMAIN entries, entries[k].ssid # key
        PROVE  \E j \in DOMAIN left : left[j] = entries[k]
    <3> DEFINE j == IF k = Len(entries) THEN old ELSE k
    <3>1. k # old
      BY <1>6, <2>2
    <3>2. j \in DOMAIN left /\ left[j] = entries[k]
      BY <1>1, <1>6, <1>7, <3>1
    <3>3. QED
      BY <3>2
  <2>3. QED
    BY <2>1, <2>2
<1>11. KeysAreOwned'
  BY <1>1, <1>3, <1>10 DEF KeysAreOwned
<1>12. QED
  BY <1>1, <1>3, <1>4, <1>5, <1>7, <1>9, <1>11 DEF MapInv

LEMMA FreeStep ==
  ASSUME MapInv, shfree
  PROVE  MapInv' /\ entries' = << >>
<1>1. /\ hash' \in [Ssid -> Nat] /\ entries' = << >> /\ capacity' = 0
      /\ table' = NoTable /\ heap' = {}
  BY HashAssumption DEF shfree, create_access_point_map, MapInv, KeysAreOwned
<1>2. QED
  BY <1>1, EmptyMap DEF MapInv, KeysAreOwned

LEMMA StepMap == MapInv /\ [Next]_vars => MapInv'
<1> SUFFICES ASSUME MapInv, [Next]_vars PROVE MapInv'
  OBVIOUS
<1>1. CASE shmode_func
  BY <1>1, ModeStep
<1>2. ASSUME NEW ap \in Points, shput(ap) PROVE MapInv'
  BY <1>2, PointsAssumption, PutStep
<1>3. ASSUME NEW key \in Ssid, shdel(key) PROVE MapInv'
  BY <1>3, DeleteStep
<1>4. CASE shfree
  BY <1>4, FreeStep
<1>5. CASE UNCHANGED vars
  <2>1. /\ hash' = hash /\ entries' = entries /\ capacity' = capacity
        /\ table' = table /\ heap' = heap
    BY <1>5 DEF vars
  <2>2. HasMap => HasMap'
    BY <2>1, HashStays DEF HasMap
  <2>3. KeysAreOwned'
    BY <2>1 DEF MapInv, KeysAreOwned
  <2>4. QED
    BY <2>1, <2>2, <2>3 DEF MapInv
<1>6. QED
  BY <1>1, <1>2, <1>3, <1>4, <1>5 DEF Next

LEMMA MapInvariant == Spec => []MapInv
  BY InitMap, StepMap, PTL DEF Spec

-----------------------------------------------------------------------------
(***************************************************************************)
(* Whatever the keys and their hashes, and however often the table grew,   *)
(* shrank or was rebuilt: every key is found, and no key that is not there.*)
(***************************************************************************)
THEOREM KeysAreFound == Spec => []FindsEveryKey
<1>1. MapInv => FindsEveryKey
  BY HasMapOrNot, TableFinds DEF FindsEveryKey, HasMap, MapInv
<1>2. QED
  BY <1>1, MapInvariant, PTL

(***************************************************************************)
(* The promise of lines 934 and 935 of stb_ds.h: a search ends.            *)
(***************************************************************************)
THEOREM SearchesTerminate == Spec => []SearchesEnd
<1>1. ASSUME MapInv, table # NoTable, NEW key \in Ssid
      PROVE  \E k \in Slots(table) :
               table.slots[Probe(HashOf(key), slot_count(table))[k]] = Empty
  <2>1. PICK n \in Sizes : RightTable(table, entries, n)
    BY <1>1, HasMapOrNot DEF HasMap
  <2>2. PICK x \in 0..(n - 1) : table.slots[x] = Empty
    BY <1>1, <2>1, RoomIsLeft DEF MapInv
  <2>3. Slots(table) = 0..(n - 1) /\ slot_count(table) = n
    BY <2>1, SlotCountIs DEF RightTable, Serves
  <2>4. HashOf(key) \in Nat
    BY <1>1, HashIs DEF MapInv
  <2>5. VisitsAll(Probe(HashOf(key), n), n)
    BY <2>4, ProbeIs
  <2>6. PICK k \in 0..(n - 1) : Probe(HashOf(key), n)[k] = x
    BY <2>5 DEF VisitsAll
  <2>7. QED
    BY <2>2, <2>3, <2>6
<1>2. MapInv => SearchesEnd
  BY <1>1 DEF SearchesEnd
<1>3. QED
  BY <1>2, MapInvariant, PTL

(***************************************************************************)
(* The counters that decide when a table is replaced are what they count.  *)
(***************************************************************************)
THEOREM CountersCount == Spec => []CountsAreRight
<1>1. ASSUME MapInv PROVE CountsAreRight
  <2>1. CASE table = NoTable
    <3>1. entries = << >> /\ Len(<< >>) = 0 /\ table.used = 0
          /\ table.tombstones = 0 /\ Slots(table) = {}
      BY <1>1, <2>1, HasMapOrNot DEF NoTable, Slots
    <3>2. QED
      BY <3>1, FS_EmptySet DEF CountsAreRight
  <2>2. CASE table # NoTable
    <3>1. PICK n \in Sizes : RightTable(table, entries, n)
      BY <1>1, <2>2, HasMapOrNot DEF HasMap
    <3>2. Len(entries) \in Nat /\ DOMAIN entries = 1..Len(entries)
      BY <1>1 DEF MapInv, AccessPointMap
    <3>3. Cardinality(UsedSlots(table)) = Len(entries)
      BY <3>1, <3>2, CountsOf DEF RightTable, Serves
    <3>4. QED
      BY <3>1, <3>3
         DEF CountsAreRight, RightTable, Serves, UsedSlots, DeletedSlots
  <2>3. QED
    BY <2>1, <2>2
<1>2. QED
  BY <1>1, MapInvariant, PTL

(***************************************************************************)
(* Copies of keys are neither leaked nor freed under a live entry.         *)
(***************************************************************************)
THEOREM KeysHaveOwners == Spec => []KeysAreOwned
<1>1. MapInv => KeysAreOwned
  BY DEF MapInv
<1>2. QED
  BY <1>1, MapInvariant, PTL

(***************************************************************************)
(* The assertion of line 1443 of stb_ds.h holds.                           *)
(***************************************************************************)
THEOREM ArrayFits == Spec => []FitsCapacity
<1>1. MapInv => FitsCapacity
  BY HasMapOrNot DEF FitsCapacity, HasMap
<1>2. QED
  BY <1>1, MapInvariant, PTL

(***************************************************************************)
(* The abstract specification searches as module AccessPointsData does.    *)
(***************************************************************************)
LEMMA SameSearch ==
  ASSUME NEW map, NEW key
  PROVE  /\ Abstract!HasKey(map, key) = HasKey(map, key)
         /\ Abstract!find_ssid_in_map(map, key) = find_ssid_in_map(map, key)
         /\ Abstract!AP_MAP_NOT_FOUND = AP_MAP_NOT_FOUND
BY DEF Abstract!HasKey, HasKey, Abstract!find_ssid_in_map, find_ssid_in_map,
       Abstract!AP_MAP_NOT_FOUND, AP_MAP_NOT_FOUND

(***************************************************************************)
(* Seen through its entries, the hash map is the map of access points that *)
(* the server works with: shput is add_to_map, shdel moves the last entry  *)
(* into the gap, and making a table changes nothing.                       *)
(***************************************************************************)
THEOREM RefinesStringMap == Spec => ImplementsStringMap
<1>1. Init => Abstract!MapInit
  BY DEF Init, Abstract!MapInit, Abstract!create_access_point_map,
         create_access_point_map
<1>2. ASSUME MapInv, [Next]_vars
      PROVE  [Abstract!MapNext]_entries
  <2>1. CASE shmode_func
    BY <1>2, <2>1, ModeStep
  <2>2. ASSUME NEW ap \in Points, shput(ap) PROVE Abstract!MapNext
    <3>1. ap \in AccessPoint /\ entries' = add_to_map(entries, ap)
      BY <1>2, <2>2, PointsAssumption, PutStep
    <3>2. ap \in Abstract!AccessPoint
      BY <3>1 DEF Abstract!AccessPoint, AccessPoint
    <3>3. Abstract!add_to_map(entries, ap) = add_to_map(entries, ap)
      BY SameSearch DEF Abstract!add_to_map, add_to_map
    <3>4. QED
      BY <3>1, <3>2, <3>3 DEF Abstract!MapNext, Abstract!Add
  <2>3. ASSUME NEW key \in Ssid, shdel(key) PROVE Abstract!MapNext
    <3>1. /\ HasKey(entries, key)
          /\ entries' = Abstract!SwapRemoved(entries,
                                             find_ssid_in_map(entries, key))
      BY <1>2, <2>3, DeleteStep
    <3>2. Abstract!Delete(key)
      BY <3>1, SameSearch DEF Abstract!Delete
    <3>3. QED
      BY <3>2 DEF Abstract!MapNext
  <2>4. CASE shfree
    BY <1>2, <2>4, FreeStep
       DEF Abstract!MapNext, Abstract!Clear, Abstract!create_access_point_map
  <2>5. CASE UNCHANGED vars
    BY <2>5 DEF vars
  <2>6. QED
    BY <1>2, <2>1, <2>2, <2>3, <2>4, <2>5 DEF Next
<1>3. QED
  BY <1>1, <1>2, MapInvariant, PTL DEF Spec, ImplementsStringMap, Abstract!MapSpec

=============================================================================
