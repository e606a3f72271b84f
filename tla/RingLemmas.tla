----------------------------- MODULE RingLemmas -----------------------------
(* Facts about pointers on a ring, and the lemmas of arithmetic they rest on. *)
EXTENDS RingOps, TLAPS

\* At, with the rounds the stream has made: the form the provers can count with.
On(x, p, size) == p \in 0..size-1 /\ \E k \in Int : x = p + k * size

\* Division and remainder of the C code and the RTL, for every divisor.
LEMMA DivMod ==
  ASSUME NEW x \in Int, NEW b \in Nat, b > 0
  PROVE  /\ x \div b \in Int
         /\ x % b \in 0..b-1
         /\ x = (x \div b) * b + (x % b)
  OBVIOUS

\* Multiplication keeps the order.
LEMMA MulMono ==
  ASSUME NEW j \in Int, NEW n \in Int, NEW b \in Nat, j <= n
  PROVE  j * b <= n * b
  OBVIOUS

\* Factors are ordered as their multiples.
LEMMA MulCancel ==
  ASSUME NEW j \in Int, NEW n \in Int, NEW b \in Nat, b > 0, j * b < n * b
  PROVE  j < n
  OBVIOUS

\* Multiplication distributes.
LEMMA MulDist ==
  ASSUME NEW j \in Int, NEW n \in Int, NEW b \in Int
  PROVE  /\ (j + n) * b = j * b + n * b
         /\ (j - n) * b = j * b - n * b
         /\ j * b \in Int
  OBVIOUS

\* Between two multiples less than one apart there is no other.
LEMMA OnlyZero ==
  ASSUME NEW m \in Int, NEW size \in Nat, -size < m * size, m * size < size
  PROVE  m = 0
<1>1. size > 0
  OBVIOUS
<1>2. -1 < m
  <2>1. (-1) * size < m * size
    OBVIOUS
  <2> QED  BY <2>1, <1>1, MulCancel
<1>3. m < 1
  <2>1. m * size < 1 * size
    OBVIOUS
  <2> QED  BY <2>1, <1>1, MulCancel
<1> QED  BY <1>2, <1>3

\* A quotient of naturals and what it accounts for.
LEMMA DivNat ==
  ASSUME NEW x \in Nat, NEW b \in Nat, b > 0
  PROVE  x \div b \in Nat /\ (x \div b) * b \in Nat /\ (x \div b) * b <= x
<1>1. x \div b \in Int /\ x % b \in 0..b-1 /\ x = (x \div b) * b + (x % b)
  BY DivMod
<1>2. (-1) * b < (x \div b) * b
  BY <1>1
<1>3. -1 < x \div b
  BY <1>1, <1>2, MulCancel
<1> QED  BY <1>1, <1>3

\* Quotient and remainder are unique.
LEMMA DivUnique ==
  ASSUME NEW x \in Int, NEW b \in Nat, b > 0, NEW j \in Int, NEW r \in 0..b-1,
         x = j * b + r
  PROVE  x \div b = j
<1> DEFINE d == x \div b
<1>1. d \in Int /\ x % b \in 0..b-1 /\ x = d * b + (x % b)
  BY DivMod
<1>2. (d - j) * b = r - (x % b)
  BY <1>1, MulDist
<1>3. -b < (d - j) * b /\ (d - j) * b < b
  BY <1>1, <1>2
<1>4. d - j = 0
  BY <1>1, <1>3, OnlyZero
<1> QED  BY <1>1, <1>4

\* The two ways to say where a unit lies agree.
LEMMA AtOn ==
  ASSUME NEW size \in Nat, NEW x \in Int, NEW p
  PROVE  At(x, p, size) <=> On(x, p, size)
<1>1. ASSUME At(x, p, size) PROVE On(x, p, size)
  <2>1. size > 0 /\ p \in 0..size-1 /\ p = x % size
    BY <1>1 DEF At
  <2>2. x \div size \in Int /\ x = p + (x \div size) * size
    BY <2>1, DivMod
  <2>3. \E k \in Int : x = p + k * size
    BY <2>2, Zenon
  <2> QED  BY <2>1, <2>3, Zenon DEF On
<1>2. ASSUME On(x, p, size) PROVE At(x, p, size)
  <2>1. PICK k \in Int : x = p + k * size
    BY <1>2 DEF On
  <2>2. p \in 0..size-1 /\ size > 0 /\ x = k * size + p
    BY <1>2, <2>1 DEF On
  <2>3. x \div size = k
    BY <2>2, DivUnique
  <2>4. x % size \in 0..size-1 /\ x = (x \div size) * size + (x % size)
    BY <2>2, DivMod
  <2>5. x % size = p
    BY <2>2, <2>3, <2>4
  <2> QED  BY <2>2, <2>5 DEF At
<1> QED  BY <1>1, <1>2

\* The distance the driver computes is the true one as long as the two places
\* are less than a ring apart.
LEMMA AheadExact ==
  ASSUME NEW size \in Nat, NEW x \in Int, NEW y \in Int, NEW p, NEW q,
         On(x, p, size), On(y, q, size), x <= y, y - x < size
  PROVE  Ahead(p, q, size) = y - x
<1>1. PICK k \in Int : x = p + k * size
  BY DEF On
<1>2. PICK l \in Int : y = q + l * size
  BY DEF On
<1>3. p \in 0..size-1 /\ q \in 0..size-1
  BY DEF On
<1>4. y - x = q - p + (l - k) * size
  BY <1>1, <1>2, <1>3, MulDist
<1>5. CASE q >= p
  <2>1. -size < (l - k) * size /\ (l - k) * size < size
    BY <1>3, <1>4, <1>5, MulDist
  <2>2. l - k = 0
    BY <2>1, OnlyZero
  <2> QED  BY <2>2, <1>3, <1>4, <1>5 DEF Ahead
<1>6. CASE q < p
  <2>1. (l - k - 1) * size = (l - k) * size - size
    BY MulDist
  <2>2. -size < (l - k - 1) * size /\ (l - k - 1) * size < size
    BY <1>3, <1>4, <1>6, <2>1, MulDist
  <2>3. l - k - 1 = 0
    BY <2>2, OnlyZero
  <2> QED  BY <2>1, <2>3, <1>3, <1>4, <1>6 DEF Ahead
<1> QED  BY <1>3, <1>5, <1>6

\* A pointer that moves by one.
LEMMA OnNext ==
  ASSUME NEW size \in Nat, NEW x \in Int, NEW p, On(x, p, size)
  PROVE  On(x + 1, Bump(p, 1, size), size)
<1>1. PICK k \in Int : x = p + k * size
  BY DEF On
<1>2. p \in 0..size-1
  BY DEF On
<1>3. CASE p + 1 >= size
  <2>1. x + 1 = 0 + (k + 1) * size
    BY <1>1, <1>2, <1>3, MulDist
  <2>2. Bump(p, 1, size) = 0
    BY <1>3 DEF Bump
  <2>3. \E j \in Int : x + 1 = 0 + j * size
    BY <2>1
  <2>4. 0 \in 0..size-1
    BY <1>2
  <2> QED  BY <2>2, <2>3, <2>4, Zenon DEF On
<1>4. CASE p + 1 < size
  <2>1. x + 1 = (p + 1) + k * size
    BY <1>1, <1>2
  <2> QED  BY <2>1, <1>2, <1>4 DEF On, Bump
<1> QED  BY <1>2, <1>3, <1>4

\* A block pointer that moves by a block, on a ring of whole blocks.
LEMMA OnNextBlock ==
  ASSUME NEW b \in Nat, b > 0, NEW n \in Nat, NEW i \in Int, NEW p,
         On(i * b, p, n * b)
  PROVE  On((i + 1) * b, Bump(p, b, n * b), n * b)
<1> DEFINE size == n * b
<1>1. size \in Nat
  OBVIOUS
<1>2. PICK k \in Int : i * b = p + k * size
  BY DEF On
<1>3. p \in 0..size-1
  BY DEF On
<1>4. p = (i - k * n) * b
  BY <1>2, <1>3
<1>5. i - k * n \in Int /\ i - k * n < n
  BY <1>3, <1>4, MulCancel
<1>6. p + b = (i - k * n + 1) * b /\ (i + 1) * b = i * b + b
  BY <1>4, MulDist
<1>7. p + b <= size
  BY <1>5, <1>6, MulMono
<1>8. CASE p + b >= size
  <2>1. (i + 1) * b = 0 + (k + 1) * size
    BY <1>1, <1>2, <1>3, <1>6, <1>7, <1>8, MulDist
  <2> QED  BY <1>1, <1>3, <1>8, <2>1 DEF On, Bump
<1>9. CASE p + b < size
  <2>1. (i + 1) * b = (p + b) + k * size
    BY <1>1, <1>2, <1>3, <1>6
  <2> QED  BY <1>1, <1>3, <1>9, <2>1 DEF On, Bump
<1> QED  BY <1>3, <1>8, <1>9

\* A pointer that moves by any distance, reduced modulo the size.
LEMMA OnMod ==
  ASSUME NEW size \in Nat, NEW x \in Int, NEW p, NEW d \in Int, On(x, p, size)
  PROVE  On(x + d, (p + d) % size, size)
<1>1. PICK k \in Int : x = p + k * size
  BY DEF On
<1>2. p \in 0..size-1 /\ size > 0
  BY DEF On
<1>3. /\ (p + d) \div size \in Int
      /\ (p + d) % size \in 0..size-1
      /\ p + d = ((p + d) \div size) * size + ((p + d) % size)
  BY <1>2, DivMod
<1>4. x + d = ((p + d) % size) + (k + ((p + d) \div size)) * size
  BY <1>1, <1>2, <1>3, MulDist
<1>5. k + ((p + d) \div size) \in Int
  BY <1>3
<1>6. \E j \in Int : x + d = ((p + d) % size) + j * size
  BY <1>4, <1>5
<1> QED  BY <1>3, <1>6, Zenon DEF On

\* A pointer that moves back by at most a ring: the snap of read().
LEMMA OnBack ==
  ASSUME NEW size \in Nat, NEW x \in Int, NEW p, NEW h \in 0..size-1,
         On(x, p, size)
  PROVE  On(x - h, Ahead(h, p, size), size)
<1>1. PICK k \in Int : x = p + k * size
  BY DEF On
<1>2. p \in 0..size-1
  BY DEF On
<1>3. CASE p >= h
  <2>1. Ahead(h, p, size) = p - h
    BY <1>2, <1>3 DEF Ahead
  <2>2. \E j \in Int : x - h = (p - h) + j * size
    BY <1>1, <1>2
  <2>3. p - h \in 0..size-1
    BY <1>2, <1>3
  <2> QED  BY <2>1, <2>2, <2>3, Zenon DEF On
<1>4. CASE p < h
  <2>1. Ahead(h, p, size) = size - h + p
    BY <1>2, <1>4 DEF Ahead
  <2>2. x - h = (size - h + p) + (k - 1) * size
    BY <1>1, <1>2, MulDist
  <2>3. k - 1 \in Int
    OBVIOUS
  <2>4. \E j \in Int : x - h = (size - h + p) + j * size
    BY <2>2, <2>3, Zenon
  <2>5. size - h + p \in 0..size-1
    BY <1>2, <1>4
  <2> QED  BY <2>1, <2>4, <2>5, Zenon DEF On
<1> QED  BY <1>2, <1>3, <1>4

\* Rounding a place down to its block and rounding the position in the stream
\* down to its block agree, on a ring of whole blocks.
LEMMA OnFloor ==
  ASSUME NEW b \in Nat, b > 0, NEW n \in Nat, NEW x \in Int, NEW p,
         On(x, p, n * b)
  PROVE  On((x \div b) * b, (p \div b) * b, n * b)
<1>1. PICK k \in Int : x = p + k * (n * b)
  BY DEF On
<1>2. p \in 0..(n * b)-1 /\ n * b \in Int
  BY DEF On
<1> DEFINE f == p \div b
           r == p % b
<1>3. f \in Int /\ r \in 0..b-1 /\ p = f * b + r
  BY <1>2, DivMod
<1> HIDE DEF f, r
<1>4. x = (f + k * n) * b + r /\ f + k * n \in Int
  BY <1>1, <1>3
<1>5. x \div b = f + k * n
  BY <1>3, <1>4, DivUnique
<1>6. (x \div b) * b = f * b + k * (n * b)
  BY <1>3, <1>5
<1>7. \E j \in Int : (x \div b) * b = f * b + j * (n * b)
  BY <1>6
<1>8. f * b >= 0
  <2>1. f >= 0
    <3>1. (-1) * b < f * b
      BY <1>2, <1>3
    <3> QED  BY <1>3, <3>1, MulCancel
  <2> QED  BY <1>3, <2>1
<1>9. f * b \in 0..(n * b)-1
  BY <1>2, <1>3, <1>8
<1> QED  BY <1>7, <1>9, Zenon DEF On, f

\* Two positions lie at the same place when they are whole rings apart.
LEMMA ModSame ==
  ASSUME NEW size \in Nat, size > 0, NEW x \in Int, NEW y \in Int
  PROVE  x % size = y % size <=> \E k \in Int : x = y + k * size
<1>1. /\ x \div size \in Int /\ x % size \in 0..size-1
      /\ x = (x \div size) * size + (x % size)
  BY DivMod
<1>2. /\ y \div size \in Int /\ y % size \in 0..size-1
      /\ y = (y \div size) * size + (y % size)
  BY DivMod
<1>3. ASSUME x % size = y % size PROVE \E k \in Int : x = y + k * size
  <2> DEFINE k == (x \div size) - (y \div size)
  <2>1. k \in Int /\ k * size = (x \div size) * size - (y \div size) * size
    BY <1>1, <1>2, MulDist
  <2>2. (x \div size) * size \in Int /\ (y \div size) * size \in Int
    BY <1>1, <1>2, MulDist
  <2> HIDE DEF k
  <2>3. x = y + k * size
    BY <1>1, <1>2, <1>3, <2>1, <2>2
  <2> QED
    BY <2>1, <2>3
<1>4. ASSUME NEW k \in Int, x = y + k * size PROVE x % size = y % size
  <2>1. /\ ((y \div size) + k) * size = (y \div size) * size + k * size
        /\ (y \div size) * size \in Int /\ k * size \in Int
        /\ (y \div size) + k \in Int
    BY <1>2, MulDist
  <2>2. x = ((y \div size) + k) * size + (y % size)
    BY <1>2, <1>4, <2>1
  <2>3. x \div size = (y \div size) + k
    BY <1>2, <2>1, <2>2, DivUnique
  <2>4. x = ((y \div size) + k) * size + (x % size)
    BY <1>1, <2>3
  <2> QED
    BY <1>1, <1>2, <2>1, <2>2, <2>4
<1> QED
  BY <1>3, <1>4

\* Moving two such positions alike, each with its own wraps, keeps them so.
LEMMA ModShift ==
  ASSUME NEW size \in Nat, size > 0, NEW x \in Int, NEW y \in Int,
         x % size = y % size, NEW d \in Int, NEW j \in Int, NEW k \in Int
  PROVE  (x + d + j * size) % size = (y + d + k * size) % size
<1>1. PICK i \in Int : x = y + i * size
  BY ModSame
<1>2. /\ (i + (j - k)) * size = i * size + (j * size - k * size)
      /\ i * size \in Int /\ j * size \in Int /\ k * size \in Int
      /\ i + (j - k) \in Int
  <2>1. /\ j - k \in Int /\ (j - k) * size = j * size - k * size
        /\ j * size \in Int /\ k * size \in Int /\ i * size \in Int
    BY MulDist
  <2>2. (i + (j - k)) * size = i * size + (j - k) * size
    BY <2>1, MulDist
  <2>3. i + (j - k) \in Int
    BY <2>1
  <2> QED
    BY <2>1, <2>2, <2>3
<1> DEFINE u == x + d + j * size
           v == y + d + k * size
           n == i + (j - k)
<1>3. n \in Int /\ u \in Int /\ v \in Int
  BY <1>2
<1>4. n * size = i * size + (j * size - k * size)
  BY <1>2
<1>5. u = v + n * size
  <2> HIDE DEF n
  <2> QED
    BY <1>1, <1>2, <1>4
<1> HIDE DEF u, v, n
<1>6. u % size = v % size
  BY <1>3, <1>5, ModSame
<1> QED
  BY <1>6 DEF u, v

\* The remainder the driver takes leaves a place of the ring as it is, and takes
\* the end of the ring to its start.
LEMMA ModSmall ==
  ASSUME NEW size \in Nat, NEW x \in 0..size-1
  PROVE  x % size = x
<1>1. x = x + 0 * size
  OBVIOUS
<1>2. On(x, x, size)
  BY <1>1 DEF On
<1>3. At(x, x, size)
  BY <1>2, AtOn
<1> QED
  BY <1>3 DEF At

\* The size is zero on the ring.
LEMMA ModSelf ==
  ASSUME NEW size \in Nat, size > 0
  PROVE  size % size = 0
<1>1. size = 0 + 1 * size
  OBVIOUS
<1>2. On(size, 0, size)
  BY <1>1 DEF On
<1>3. At(size, 0, size)
  BY <1>2, AtOn
<1> QED
  BY <1>3 DEF At

\* A stream starts at the start of the ring.
LEMMA AtZero == ASSUME NEW size \in Nat, size > 0 PROVE At(0, 0, size)
<1>1. 0 = 0 + 0 * size
  OBVIOUS
<1>2. On(0, 0, size)
  BY <1>1 DEF On
<1> QED
  BY <1>2, AtOn

\* The i-th burst of the block at p belongs at place p + i.
LEMMA PlaceOf ==
  ASSUME NEW size \in Nat, NEW x \in Int, NEW p \in Nat, At(x, p, size),
         NEW i \in Nat, p + i < size
  PROVE  At(x + i, p + i, size)
<1>1. On(x, p, size)
  BY AtOn
<1>2. PICK k \in Int : x = p + k * size
  BY <1>1 DEF On
<1>3. x + i = (p + i) + k * size /\ p + i \in 0..size-1
  BY <1>2
<1>4. On(x + i, p + i, size)
  BY <1>3 DEF On
<1> QED
  BY <1>4, AtOn

\* Positions less than a ring apart lie at different places.
LEMMA ModDiffer ==
  ASSUME NEW size \in Nat, NEW x \in Int, NEW y \in Int, x < y, y - x < size
  PROVE  x % size # y % size
<1> SUFFICES ASSUME x % size = y % size PROVE FALSE
  OBVIOUS
<1>1. size > 0
  OBVIOUS
<1>2. PICK k \in Int : x = y + k * size
  BY <1>1, ModSame
<1>3. -size < k * size /\ k * size < size
  BY <1>2
<1>4. k = 0
  BY <1>3, OnlyZero
<1> QED
  BY <1>2, <1>4

\* At every place lies one of the last positions of a stream: x itself, or a
\* later one.
LEMMA LastRound ==
  ASSUME NEW size \in Nat, size > 0, NEW x \in Int, NEW end \in Int, x < end
  PROVE  \E y \in end - size..end - 1 :
           y % size = x % size /\ y >= x /\ (x >= end - size => y = x)
<1> DEFINE d == end - 1 - x
           k == d \div size
           r == d % size
           y == x + k * size
<1>1. d \in Nat
  OBVIOUS
<1>2. k \in Nat /\ r \in 0..size-1 /\ d = k * size + r /\ k * size \in Nat
  BY <1>1, DivNat, DivMod
<1>3. x >= end - size => k = 0
  <2> SUFFICES ASSUME x >= end - size PROVE k = 0
    OBVIOUS
  <2>1. d \in 0..size-1 /\ d = 0 * size + d
    BY <1>1
  <2> HIDE DEF d
  <2> QED
    BY <2>1, DivUnique
<1> HIDE DEF k, r
<1> DEFINE m == k * size
<1>4. y \in Int /\ y >= x /\ y \in end - size..end - 1
  <2>1. m \in Nat /\ end - 1 - x = m + r /\ r \in 0..size-1
    BY <1>2
  <2> HIDE DEF m
  <2>2. x + m \in Int /\ x + m >= x /\ x + m \in end - size..end - 1
    BY <2>1
  <2> QED
    BY <2>2 DEF m
<1>5. y % size = x % size
  <2>1. k \in Int /\ y \in Int /\ y = x + k * size
    BY <1>2, <1>4
  <2> HIDE DEF y
  <2>2. \E j \in Int : y = x + j * size
    BY <2>1
  <2> QED
    BY <2>1, <2>2, ModSame
<1>6. x >= end - size => y = x
  BY <1>3
<1> HIDE DEF y
<1> QED
  BY <1>4, <1>5, <1>6
=============================================================================
