-------------------------- MODULE RoundTripsProofs --------------------------
(***************************************************************************)
(* How long requests and answers take, for every recording in which a     *)
(* request has a later answer and, when it was accepted, reaches the       *)
(* exchange in between, in the order of the requests, moved by any offset; *)
(* and for any number of requests made at any times.                       *)
(*                                                                         *)
(* The integers first.  What interpolation adds is a quotient that is cut, *)
(* of a product that may have been dropped below a whole (Quotient), so it *)
(* lies between its two values (InterpolateBetween), and what starts later *)
(* between two recorded moments does not arrive earlier                    *)
(* (InterpolateInOrder).  A Ramp goes from one recorded moment to the      *)
(* next; it never overtakes itself (RampInOrder) and takes the recorded    *)
(* time at the recorded moments (RampRecorded).                            *)
(*                                                                         *)
(* Then the code.  entry looks at the rows beside the moment (EntryCases), *)
(* so what it returns says whether one of them was rejected (EntriesFit);  *)
(* where nothing overtakes, entry and response are ramps.                  *)
(*                                                                         *)
(* None of the four properties is inductive.  They are about requests that *)
(* arrived, and the invariant, IInv, adds those on their way: they are due *)
(* in the order in which they were made, not before now (OnTheWay), after  *)
(* a recorded time or together with one in front (LegsWithin), and where   *)
(* nothing overtakes after just what entry returned (LegsInOrder); and the *)
(* response bus remembers the time of an answer (LatestAnswers).           *)
(***************************************************************************)
EXTENDS RoundTrips, WellFoundedInduction, TLAPS

\* How many runs go into size * distance, cut, or one less than that: then size is not
\* the run itself.
Quotient(m, size, run, distance) ==
    /\ m \in Nat
    /\ m * run <= size * distance
    /\ size * distance <= (m + 1) * run
    /\ size * distance = (m + 1) * run => size # run

\* What is left over is less than the divisor.
LEMMA DivFacts ==
    ASSUME NEW n \in Nat, NEW d \in Nat \ {0}
    PROVE  /\ n \div d \in Nat
           /\ (n \div d) * d <= n
           /\ n < (n \div d) * d + d
  OBVIOUS

\* A number leaves nothing over when it is divided by itself.
LEMMA ModFacts ==
    ASSUME NEW d \in Nat \ {0}
    PROVE  d % d = 0 /\ (-d) % d = 0
<1>1. ASSUME NEW n \in Int PROVE n % d \in 0..(d - 1) /\ n = d * (n \div d) + (n % d)
  OBVIOUS
<1>2. d % d = 0
  OBVIOUS
<1> QED BY <1>1, <1>2

\* Where nothing is left over, the division is exact.
LEMMA DividesFacts ==
    ASSUME NEW n \in Nat, NEW d \in Nat \ {0}, n % d = 0
    PROVE  (n \div d) * d = n
  OBVIOUS

\* A number is a multiple of another when its negation is one.
LEMMA NegatedMod ==
    ASSUME NEW n \in Nat, NEW d \in Nat \ {0}, (-n) % d = 0
    PROVE  n % d = 0
<1> DEFINE k == (-n) \div d
           q == n \div d
           r == n % d
           j == -k - q
<1>1. -n = d * k /\ k \in Int
  <2>1. -n = d * ((-n) \div d) + ((-n) % d) /\ (-n) \div d \in Int
    OBVIOUS
  <2>2. d * ((-n) \div d) \in Int
    BY <2>1
  <2> QED BY <2>1, <2>2
<1>2. n = d * q + r /\ q \in Int /\ r \in 0..(d - 1)
  OBVIOUS
<1> HIDE DEF k, q, r
<1>3. j \in Int /\ d * j = -(d * k) - d * q
  BY <1>1, <1>2
<1>4. d * k \in Int /\ d * q \in Int
  BY <1>1, <1>2
<1> HIDE DEF j
<1>5. r = d * j
  BY <1>1, <1>2, <1>3, <1>4
<1>6. j >= 1 => d * j >= d
  BY <1>3
<1>7. j <= -1 => d * j <= -d
  BY <1>3
<1>8. j = 0
  BY <1>2, <1>3, <1>5, <1>6, <1>7
<1>9. r = 0
  BY <1>5, <1>8
<1> QED BY <1>9 DEF r

\* A product that is cut, or dropped below what it is before it is cut.
LEMMA ProductsAre ==
    ASSUME NEW rise \in Int, NEW run \in Nat \ {0}, NEW distance \in Nat,
           NEW p \in Products(rise, run, distance)
    PROVE  \E m \in Nat :
              \/ rise >= 0 /\ p = m /\ Quotient(m, rise, run, distance)
              \/ rise < 0 /\ p = -m /\ Quotient(m, -rise, run, distance)
<1> DEFINE size == IF rise < 0 THEN -rise ELSE rise
           n == size * distance
           k == n \div run
<1>1. size \in Nat /\ n \in Nat
  OBVIOUS
<1>2. rise * distance = IF rise < 0 THEN -n ELSE n
  OBVIOUS
<1> HIDE DEF n
<1>3. k \in Nat /\ k * run <= n /\ n < k * run + run
  BY <1>1, DivFacts
<1>4. Cut(rise * distance, run) = IF rise < 0 THEN -k ELSE k
  <2>1. n = 0 => n \div run = 0
    OBVIOUS
  <2> QED BY <1>1, <1>2, <2>1 DEF Cut
<1>5. \/ p = (IF rise < 0 THEN -k ELSE k)
      \/ /\ p = IF rise >= 0 /\ k > 0 THEN k - 1 ELSE -k + 1
         /\ n # 0 /\ (rise * distance) % run = 0 /\ rise % run # 0
  BY <1>1, <1>2, <1>3, <1>4 DEF Products
<1>6. CASE p = IF rise < 0 THEN -k ELSE k
  <2>1. Quotient(k, size, run, distance)
    BY <1>1, <1>3, <1>6 DEF Quotient, n
  <2> QED BY <1>3, <1>6, <2>1
<1>7. CASE /\ p = IF rise >= 0 /\ k > 0 THEN k - 1 ELSE -k + 1
           /\ n # 0 /\ (rise * distance) % run = 0 /\ rise % run # 0
  <2>1. n % run = 0
    BY <1>1, <1>2, <1>7, NegatedMod
  <2>2. k * run = n
    BY <1>1, <2>1, DividesFacts
  <2>3. k > 0
    BY <1>1, <1>3, <1>7, <2>2
  <2>4. size # run
    BY <1>7, ModFacts
  <2>5. k - 1 \in Nat /\ (k - 1) * run <= n /\ n = (k - 1 + 1) * run
    BY <1>3, <2>2, <2>3
  <2> HIDE DEF k, size
  <2>6. Quotient(k - 1, size, run, distance)
    BY <2>4, <2>5 DEF Quotient, n
  <2>7. p = IF rise < 0 THEN -(k - 1) ELSE k - 1
    BY <1>3, <1>7, <2>3
  <2> QED BY <2>5, <2>6, <2>7 DEF size
<1> QED BY <1>5, <1>6, <1>7

\* Within the run, no more than the whole size.
LEMMA QuotientBounds ==
    ASSUME NEW m, NEW size \in Nat, NEW run \in Nat \ {0}, NEW distance \in Nat,
           distance < run, Quotient(m, size, run, distance)
    PROVE  /\ m \in 0..size
           /\ size <= run => m <= distance /\ size - m <= run - distance
<1>1. /\ m \in Nat /\ m * run <= size * distance /\ size * distance <= (m + 1) * run
      /\ size * distance = (m + 1) * run => size # run
  BY DEF Quotient
<1>2. m <= size
  <2> SUFFICES ASSUME m >= size + 1 PROVE FALSE
    BY <1>1
  <2>1. m * run >= (size + 1) * run
    BY <1>1
  <2>2. size * distance <= size * run
    OBVIOUS
  <2>3. (size + 1) * run = size * run + run
    OBVIOUS
  <2>4. size * run \in Int /\ size * distance \in Int /\ m * run \in Int
    BY <1>1
  <2> QED BY <1>1, <2>1, <2>2, <2>3, <2>4
<1>3. ASSUME size <= run PROVE m <= distance
  <2> SUFFICES ASSUME m >= distance + 1 PROVE FALSE
    BY <1>1
  <2>1. m * run >= (distance + 1) * run
    BY <1>1
  <2>2. size * distance <= run * distance
    BY <1>3
  <2>3. (distance + 1) * run = run * distance + run
    OBVIOUS
  <2>4. run * distance \in Int /\ size * distance \in Int /\ m * run \in Int
    BY <1>1
  <2> QED BY <1>1, <2>1, <2>2, <2>3, <2>4
<1>4. ASSUME size <= run PROVE size - m <= run - distance
  <2> SUFFICES ASSUME m + 1 <= size + distance - run PROVE FALSE
    BY <1>1
  <2>1. (m + 1) * run <= (size + distance - run) * run
    BY <1>1
  <2>2. (size + distance - run) * run = size * distance - (run - size) * (run - distance)
    OBVIOUS
  <2>3. (run - size) * (run - distance) \in Nat
    BY <1>4
  <2>4. size * distance \in Int /\ (m + 1) * run \in Int
    BY <1>1
  <2>5. (run - size) * (run - distance) = 0 /\ size * distance = (m + 1) * run
    BY <1>1, <2>1, <2>2, <2>3, <2>4
  <2>6. run = size
    BY <1>4, <2>5
  <2> QED BY <1>1, <2>5, <2>6
<1> QED BY <1>1, <1>2, <1>3, <1>4

\* Further along the run the quotient is no less, up to one that was dropped; and it
\* grows by no more than the distance.
LEMMA QuotientGrows ==
    ASSUME NEW m, NEW m2, NEW size \in Nat, NEW run \in Nat \ {0},
           NEW d \in Nat, NEW e \in Nat, d < e,
           Quotient(m, size, run, d), Quotient(m2, size, run, e)
    PROVE  /\ m <= m2 + 1
           /\ size <= run => m2 - m <= e - d
<1>1. /\ m \in Nat /\ m * run <= size * d /\ size * d <= (m + 1) * run
      /\ size * d = (m + 1) * run => size # run
      /\ m2 \in Nat /\ m2 * run <= size * e /\ size * e <= (m2 + 1) * run
  BY DEF Quotient
<1>2. m <= m2 + 1
  <2> SUFFICES ASSUME m >= m2 + 2 PROVE FALSE
    BY <1>1
  <2>1. m * run >= (m2 + 2) * run
    BY <1>1
  <2>2. (m2 + 2) * run = (m2 + 1) * run + run
    BY <1>1
  <2>3. size * d <= size * e
    OBVIOUS
  <2>4. size * d \in Int /\ size * e \in Int /\ m * run \in Int /\ (m2 + 1) * run \in Int
    BY <1>1
  <2> QED BY <1>1, <2>1, <2>2, <2>3, <2>4
<1>3. ASSUME size <= run PROVE m2 - m <= e - d
  <2> SUFFICES ASSUME m2 >= m + 1 + (e - d) PROVE FALSE
    BY <1>1
  <2> DEFINE far == e - d
  <2>1. far \in Nat \ {0}
    OBVIOUS
  <2>2. size * e = size * d + size * far
    OBVIOUS
  <2>3. m2 * run >= (m + 1) * run + far * run
    <3>1. m2 * run >= (m + 1 + far) * run
      BY <1>1
    <3>2. (m + 1 + far) * run = (m + 1) * run + far * run
      BY <1>1
    <3> QED BY <3>1, <3>2
  <2> HIDE DEF far
  <2>4. far * run = size * far + (run - size) * far
    BY <2>1
  <2>5. (run - size) * far \in Nat
    BY <1>3, <2>1
  <2>6. /\ size * d \in Int /\ size * e \in Int /\ size * far \in Int
        /\ m2 * run \in Int /\ (m + 1) * run \in Int
    BY <1>1, <2>1
  <2>7. (run - size) * far = 0 /\ size * d = (m + 1) * run
    BY <1>1, <2>2, <2>3, <2>4, <2>5, <2>6
  <2>8. run = size
    BY <1>3, <2>1, <2>7
  <2> QED BY <1>1, <2>7, <2>8
<1> QED BY <1>2, <1>3

-----------------------------------------------------------------------------
(* Interpolation between two recorded moments.                              *)

\* What is interpolated, as a part of the rise.
IsPart(x, x1, y1, x2, y2, v) ==
    \E m \in Nat :
       \/ y2 >= y1 /\ v = y1 + m /\ Quotient(m, y2 - y1, x2 - x1, x - x1)
       \/ y2 < y1 /\ v = y1 - m /\ Quotient(m, y1 - y2, x2 - x1, x - x1)

\* What is added to the first value, or taken from it, is a quotient.
LEMMA InterpolateIs ==
    ASSUME NEW x1 \in Int, NEW y1 \in Int, NEW x2 \in Int, NEW y2 \in Int,
           NEW x \in Int, x1 <= x, x < x2, NEW v \in Interpolate(x, x1, y1, x2, y2)
    PROVE  IsPart(x, x1, y1, x2, y2, v)
<1>1. PICK p \in Products(y2 - y1, x2 - x1, x - x1) : v = y1 + p
  BY DEF Interpolate
<1>2. y2 - y1 \in Int /\ x2 - x1 \in Nat \ {0} /\ x - x1 \in Nat
  OBVIOUS
<1>3. PICK m \in Nat :
         \/ y2 - y1 >= 0 /\ p = m /\ Quotient(m, y2 - y1, x2 - x1, x - x1)
         \/ y2 - y1 < 0 /\ p = -m /\ Quotient(m, -(y2 - y1), x2 - x1, x - x1)
  BY <1>1, <1>2, ProductsAre
<1>4. -(y2 - y1) = y1 - y2
  OBVIOUS
<1>5. CASE y2 - y1 >= 0 /\ p = m /\ Quotient(m, y2 - y1, x2 - x1, x - x1)
  BY <1>1, <1>5 DEF IsPart
<1>6. CASE y2 - y1 < 0 /\ p = -m /\ Quotient(m, y1 - y2, x2 - x1, x - x1)
  BY <1>1, <1>6 DEF IsPart
<1> QED BY <1>3, <1>4, <1>5, <1>6

\* It lies between the two values, and what starts in between arrives in between.
IsBetween(x, x1, y1, x2, y2, v) ==
    /\ v \in Int
    /\ y1 <= v \/ y2 <= v
    /\ v <= y1 \/ v <= y2
    /\ x = x1 => v = y1
    /\ x1 + y1 <= x2 + y2 => x1 + y1 <= x + v /\ x + v <= x2 + y2

\* Interpolation stays between its two values, starts at the first, and arrives between
\* where the two recorded ways arrive: the latencies are not extrapolated.
LEMMA InterpolateBetween ==
    ASSUME NEW x1 \in Int, NEW y1 \in Int, NEW x2 \in Int, NEW y2 \in Int,
           NEW x \in Int, x1 <= x, x < x2, NEW v \in Interpolate(x, x1, y1, x2, y2)
    PROVE  IsBetween(x, x1, y1, x2, y2, v)
<1>1. x2 - x1 \in Nat \ {0} /\ x - x1 \in Nat /\ x - x1 < x2 - x1
  OBVIOUS
<1>2. PICK m \in Nat :
         \/ y2 >= y1 /\ v = y1 + m /\ Quotient(m, y2 - y1, x2 - x1, x - x1)
         \/ y2 < y1 /\ v = y1 - m /\ Quotient(m, y1 - y2, x2 - x1, x - x1)
  <2>1. IsPart(x, x1, y1, x2, y2, v)
    BY InterpolateIs
  <2> QED BY <2>1 DEF IsPart
<1>3. CASE y2 >= y1 /\ v = y1 + m /\ Quotient(m, y2 - y1, x2 - x1, x - x1)
  <2>1. y2 - y1 \in Nat
    BY <1>3
  <2>2. m \in 0..(y2 - y1)
    BY <1>1, <1>3, <2>1, QuotientBounds
  <2>3. ASSUME x = x1 PROVE m = 0
    <3>1. m * (x2 - x1) <= (y2 - y1) * 0
      BY <1>3, <2>3 DEF Quotient
    <3> DEFINE run == x2 - x1
    <3>2. run \in Nat \ {0} /\ m * run <= 0
      BY <1>1, <2>1, <3>1
    <3> HIDE DEF run
    <3> QED BY <3>2
  <2> QED BY <1>3, <2>2, <2>3 DEF IsBetween
<1>4. CASE y2 < y1 /\ v = y1 - m /\ Quotient(m, y1 - y2, x2 - x1, x - x1)
  <2>1. y1 - y2 \in Nat
    BY <1>4
  <2>2. /\ m \in 0..(y1 - y2)
        /\ y1 - y2 <= x2 - x1 =>
              m <= x - x1 /\ (y1 - y2) - m <= (x2 - x1) - (x - x1)
    BY <1>1, <1>4, <2>1, QuotientBounds
  <2>3. ASSUME x = x1 PROVE m = 0
    <3>1. m * (x2 - x1) <= (y1 - y2) * 0
      BY <1>4, <2>3 DEF Quotient
    <3> DEFINE run == x2 - x1
    <3>2. run \in Nat \ {0} /\ m * run <= 0
      BY <1>1, <2>1, <3>1
    <3> HIDE DEF run
    <3> QED BY <3>2
  <2> QED BY <1>4, <2>2, <2>3 DEF IsBetween
<1> QED BY <1>2, <1>3, <1>4

\* The same, by the times of arrival.
LEMMA StaysBetween ==
    ASSUME NEW a \in Int, NEW p \in Int, NEW c \in Int, NEW q \in Int, p <= q,
           NEW at \in Int, a <= at, at < c, NEW u \in Interpolate(at, a, p - a, c, q - c)
    PROVE  u \in Int /\ p <= at + u /\ at + u <= q
<1> DEFINE b == p - a
           d == q - c
<1>1. b \in Int /\ d \in Int /\ a + b = p /\ c + d = q
  OBVIOUS
<1>2. u \in Interpolate(at, a, b, c, d)
  OBVIOUS
<1> HIDE DEF b, d
<1>3. IsBetween(at, a, b, c, d, u)
  BY <1>1, <1>2, InterpolateBetween
<1> QED BY <1>1, <1>3 DEF IsBetween

\* What starts later between the same two moments does not arrive earlier.
LEMMA InterpolateInOrder ==
    ASSUME NEW x1 \in Int, NEW y1 \in Int, NEW x2 \in Int, NEW y2 \in Int,
           x1 + y1 <= x2 + y2,
           NEW x \in Int, NEW z \in Int, x1 <= x, x < z, z < x2,
           NEW v \in Interpolate(x, x1, y1, x2, y2),
           NEW w \in Interpolate(z, x1, y1, x2, y2)
    PROVE  x + v <= z + w
<1>1. /\ x2 - x1 \in Nat \ {0} /\ x - x1 \in Nat /\ z - x1 \in Nat /\ x - x1 < z - x1
      /\ x1 <= x /\ x1 <= z /\ x < x2
  OBVIOUS
<1>2. PICK m \in Nat :
         \/ y2 >= y1 /\ v = y1 + m /\ Quotient(m, y2 - y1, x2 - x1, x - x1)
         \/ y2 < y1 /\ v = y1 - m /\ Quotient(m, y1 - y2, x2 - x1, x - x1)
  <2>1. v \in Interpolate(x, x1, y1, x2, y2)
    OBVIOUS
  <2>2. IsPart(x, x1, y1, x2, y2, v)
    BY <1>1, <2>1, InterpolateIs
  <2> QED BY <2>2 DEF IsPart
<1>3. PICK n \in Nat :
         \/ y2 >= y1 /\ w = y1 + n /\ Quotient(n, y2 - y1, x2 - x1, z - x1)
         \/ y2 < y1 /\ w = y1 - n /\ Quotient(n, y1 - y2, x2 - x1, z - x1)
  <2>1. w \in Interpolate(z, x1, y1, x2, y2)
    OBVIOUS
  <2>2. IsPart(z, x1, y1, x2, y2, w)
    BY <1>1, <2>1, InterpolateIs
  <2> QED BY <2>2 DEF IsPart
<1>4. CASE y2 >= y1
  <2>1. y2 - y1 \in Nat
    BY <1>4
  <2>2. /\ v = y1 + m /\ Quotient(m, y2 - y1, x2 - x1, x - x1)
        /\ w = y1 + n /\ Quotient(n, y2 - y1, x2 - x1, z - x1)
    BY <1>2, <1>3, <1>4
  <2>3. m <= n + 1
    BY <1>1, <2>1, <2>2, QuotientGrows, Zenon
  <2> QED BY <2>2, <2>3
<1>5. CASE y2 < y1
  <2>1. y1 - y2 \in Nat /\ y1 - y2 <= x2 - x1
    BY <1>5
  <2>2. /\ v = y1 - m /\ Quotient(m, y1 - y2, x2 - x1, x - x1)
        /\ w = y1 - n /\ Quotient(n, y1 - y2, x2 - x1, z - x1)
    BY <1>2, <1>3, <1>5
  <2>3. n - m <= (z - x1) - (x - x1)
    BY <1>1, <2>1, <2>2, QuotientGrows, Zenon
  <2> QED BY <2>2, <2>3
<1> QED BY <1>4, <1>5

-----------------------------------------------------------------------------
(* Many recorded moments.                                                   *)

\* A nonempty set of naturals has a least element.
LEMMA LeastElement ==
    ASSUME NEW T \in SUBSET Nat, T # {}
    PROVE  \E x \in T : \A y \in T : x <= y
<1>1. PICK x \in T : \A y \in T : <<y, x>> \notin OpToRel(<, Nat)
  BY WFMin, NatLessThanWellFounded, Zenon
<1>2. ASSUME NEW y \in T PROVE x <= y
  <2>1. ~(y < x)
    BY <1>1, Zenon DEF OpToRel
  <2> QED BY <2>1
<1> QED BY <1>2

\* What Min returns.
LEMMA MinFacts ==
    ASSUME NEW T \in SUBSET Nat, T # {}
    PROVE  Min(T) \in T /\ \A y \in T : Min(T) <= y
<1>1. \E x \in T : \A y \in T : x <= y
  BY LeastElement
<1> QED BY <1>1, Zenon DEF Min

\* What Max returns, of a set that is bounded.
LEMMA MaxFacts ==
    ASSUME NEW n \in Nat, NEW T \in SUBSET (1..n), T # {}
    PROVE  Max(T) \in T /\ \A y \in T : y <= Max(T)
<1> DEFINE R == {n - t : t \in T}
<1>1. R \in SUBSET Nat /\ R # {}
  OBVIOUS
<1> HIDE DEF R
<1>2. PICK r \in R : \A u \in R : r <= u
  BY <1>1, LeastElement
<1>3. PICK x \in T : r = n - x
  BY <1>2 DEF R
<1>4. ASSUME NEW y \in T PROVE x >= y
  <2>1. n - y \in R
    BY DEF R
  <2>2. n - x <= n - y
    BY <1>2, <1>3, <2>1
  <2> QED BY <2>2
<1>5. \E z \in T : \A y \in T : z >= y
  BY <1>4
<1>6. Max(T) \in T /\ \A y \in T : Max(T) >= y
  BY <1>5, Zenon DEF Max
<1> QED BY <1>6

\* A function that never steps down never comes down.
LEMMA NeverDown ==
    ASSUME NEW n \in Nat, NEW X \in [1..n -> Int],
           \A i \in 1..(n - 1) : X[i] <= X[i + 1]
    PROVE  \A i, j \in 1..n : i <= j => X[i] <= X[j]
<1> SUFFICES ASSUME NEW i \in 1..n, NEW j \in 1..n, i <= j, X[j] < X[i] PROVE FALSE
  OBVIOUS
<1> DEFINE T == {k \in 1..n : i <= k /\ X[k] < X[i]}
<1>1. j \in T /\ T \in SUBSET Nat
  OBVIOUS
<1>2. PICK k \in T : \A y \in T : k <= y
  BY <1>1, LeastElement
<1>3. k \in 1..n /\ i < k /\ X[k] < X[i]
  BY <1>2
<1>4. k - 1 \in 1..(n - 1) /\ k - 1 \in 1..n /\ i <= k - 1
  BY <1>3
<1>5. k - 1 \notin T
  BY <1>2, <1>4
<1>6. X[i] <= X[k - 1] /\ X[k - 1] <= X[k - 1 + 1]
  BY <1>4, <1>5
<1> QED BY <1>3, <1>4, <1>6

\* What leaves at X[i] arrives at Z[i]; in between the ways are interpolated.
Ramp(n, X, Z, ts) ==
    LET passed == {i \in 2..n : ts < X[i]}
        next == Min(passed)
    IN  IF ts <= X[1] THEN {Z[1] - X[1]}
        ELSE IF passed = {} THEN {Z[n] - X[n]}
        ELSE Interpolate(ts, X[next - 1], Z[next - 1] - X[next - 1], X[next], Z[next] - X[next])

RampCase(n, X, Z, ts, v) ==
    \/ ts <= X[1] /\ v = Z[1] - X[1]
    \/ X[1] < ts /\ (\A i \in 1..n : X[i] <= ts) /\ v = Z[n] - X[n]
    \/ /\ X[1] < ts
       /\ \E k \in 2..n :
             /\ \A i \in 1..(k - 1) : X[i] <= ts
             /\ ts < X[k]
             /\ v \in Interpolate(ts, X[k - 1], Z[k - 1] - X[k - 1], X[k], Z[k] - X[k])

\* A ramp is the first way, the last way, or interpolated between two neighbours.
LEMMA RampCases ==
    ASSUME NEW n \in Nat \ {0}, NEW X \in [1..n -> Int], NEW Z \in [1..n -> Int],
           NEW ts \in Int, NEW v \in Ramp(n, X, Z, ts)
    PROVE  RampCase(n, X, Z, ts, v)
<1> DEFINE passed == {i \in 2..n : ts < X[i]}
           next == Min(passed)
<1>1. CASE ts <= X[1]
  BY <1>1 DEF Ramp, RampCase
<1>2. CASE ~(ts <= X[1]) /\ passed = {}
  <2>1. v = Z[n] - X[n]
    BY <1>2 DEF Ramp
  <2>2. ASSUME NEW i \in 1..n PROVE X[i] <= ts
    <3>1. i = 1 \/ i \in 2..n
      OBVIOUS
    <3>2. i \in 2..n => ~(ts < X[i])
      BY <1>2
    <3> QED BY <1>2, <3>1, <3>2
  <2> QED BY <1>2, <2>1, <2>2 DEF RampCase
<1>3. CASE ~(ts <= X[1]) /\ passed # {}
  <2>1. v \in Interpolate(ts, X[next - 1], Z[next - 1] - X[next - 1], X[next], Z[next] - X[next])
    BY <1>3 DEF Ramp
  <2>2. passed \in SUBSET Nat
    OBVIOUS
  <2>3. next \in passed /\ \A i \in passed : next <= i
    BY <1>3, <2>2, MinFacts
  <2> HIDE DEF next
  <2>4. ASSUME NEW i \in 1..(next - 1) PROVE X[i] <= ts
    <3>1. i \in 1..n /\ i \notin passed
      BY <2>3
    <3> QED BY <1>3, <3>1
  <2>5. next \in 2..n /\ ts < X[next] /\ X[1] < ts
    BY <1>3, <2>3
  <2> QED BY <2>1, <2>4, <2>5 DEF RampCase
<1> QED BY <1>1, <1>2, <1>3

\* Nothing overtakes: what leaves later arrives no earlier.
LEMMA RampInOrder ==
    ASSUME NEW n \in Nat \ {0}, NEW X \in [1..n -> Int], NEW Z \in [1..n -> Int],
           \A i, j \in 1..n : i <= j => Z[i] <= Z[j],
           NEW ts \in Int, NEW later \in Int, ts < later,
           NEW v \in Ramp(n, X, Z, ts), NEW w \in Ramp(n, X, Z, later)
    PROVE  v \in Int /\ w \in Int /\ ts + v <= later + w
<1>1. RampCase(n, X, Z, ts, v) /\ RampCase(n, X, Z, later, w)
  BY RampCases
<1>2. /\ 1 \in 1..n /\ n \in 1..n
      /\ \A i \in 1..n : /\ X[i] \in Int /\ Z[i] \in Int /\ Z[i] - X[i] \in Int
                         /\ X[i] + (Z[i] - X[i]) = Z[i]
      /\ \A k \in 2..n : k \in 1..n /\ k - 1 \in 1..n
  OBVIOUS
\* Between two moments.
<1>3. ASSUME NEW at \in Int, NEW k \in 2..n, X[k - 1] <= at, at < X[k],
             NEW u \in Interpolate(at, X[k - 1], Z[k - 1] - X[k - 1], X[k], Z[k] - X[k])
      PROVE  u \in Int /\ Z[k - 1] <= at + u /\ at + u <= Z[k]
  <2> DEFINE a == X[k - 1]
             p == Z[k - 1]
             c == X[k]
             q == Z[k]
  <2>1. a \in Int /\ p \in Int /\ c \in Int /\ q \in Int /\ p <= q
    BY <1>2
  <2>2. u \in Interpolate(at, a, p - a, c, q - c) /\ a <= at /\ at < c /\ at \in Int
    BY <1>3
  <2> HIDE DEF a, p, c, q
  <2>3. u \in Int /\ p <= at + u /\ at + u <= q
    BY <2>1, <2>2, StaysBetween
  <2> QED BY <2>3 DEF p, q
<1>4. CASE ts <= X[1] /\ v = Z[1] - X[1]
  <2>1. v \in Int /\ ts + v <= Z[1]
    BY <1>2, <1>4
  <2>2. CASE later <= X[1] /\ w = Z[1] - X[1]
    BY <1>2, <1>4, <2>2
  <2>3. CASE X[1] < later /\ (\A i \in 1..n : X[i] <= later) /\ w = Z[n] - X[n]
    <3>1. X[n] <= later /\ Z[1] <= Z[n]
      BY <1>2, <2>3
    <3>2. X[n] \in Int /\ Z[n] \in Int /\ Z[1] \in Int /\ w = Z[n] - X[n]
      BY <1>2, <2>3
    <3> QED BY <2>1, <3>1, <3>2
  <2>4. ASSUME NEW k \in 2..n, \A i \in 1..(k - 1) : X[i] <= later, later < X[k],
               w \in Interpolate(later, X[k - 1], Z[k - 1] - X[k - 1], X[k], Z[k] - X[k])
        PROVE  v \in Int /\ w \in Int /\ ts + v <= later + w
    <3>1. w \in Int /\ Z[k - 1] <= later + w
      BY <1>3, <2>4
    <3>2. Z[1] <= Z[k - 1] /\ Z[1] \in Int /\ Z[k - 1] \in Int
      BY <1>2
    <3> QED BY <2>1, <3>1, <3>2
  <2> QED BY <1>1, <2>2, <2>3, <2>4 DEF RampCase
<1>5. CASE X[1] < ts /\ (\A i \in 1..n : X[i] <= ts) /\ v = Z[n] - X[n]
  <2>1. X[n] <= ts /\ X[1] < later /\ \A i \in 1..n : X[i] <= later
    <3>1. ASSUME NEW i \in 1..n PROVE X[i] <= later
      <4>1. X[i] \in Int /\ X[i] <= ts
        BY <1>2, <1>5
      <4> QED BY <4>1
    <3>2. X[1] \in Int /\ X[1] < ts /\ X[n] <= ts
      BY <1>2, <1>5
    <3>3. X[1] < later
      BY <3>2
    <3> QED BY <3>1, <3>2, <3>3
  <2>2. w = Z[n] - X[n]
    <3>1. ~(later <= X[1])
      BY <1>2, <2>1
    <3>2. ASSUME NEW k \in 2..n PROVE ~(later < X[k])
      <4>1. k \in 1..n /\ X[k] <= later /\ X[k] \in Int
        BY <1>2, <2>1
      <4> QED BY <4>1
    <3> QED BY <1>1, <3>1, <3>2 DEF RampCase
  <2> QED BY <1>2, <1>5, <2>2
<1>6. ASSUME X[1] < ts,
             NEW k \in 2..n, \A i \in 1..(k - 1) : X[i] <= ts, ts < X[k],
             v \in Interpolate(ts, X[k - 1], Z[k - 1] - X[k - 1], X[k], Z[k] - X[k])
      PROVE  v \in Int /\ w \in Int /\ ts + v <= later + w
  <2>1. v \in Int /\ ts + v <= Z[k]
    <3>1. X[k - 1] <= ts
      BY <1>2, <1>6
    <3>2. v \in Int /\ Z[k - 1] <= ts + v /\ ts + v <= Z[k]
      BY <1>3, <1>6, <3>1
    <3> QED BY <3>2
  <2>2. X[1] < later
    BY <1>2, <1>6
  <2>3. CASE (\A i \in 1..n : X[i] <= later) /\ w = Z[n] - X[n]
    <3>1. X[n] <= later /\ Z[k] <= Z[n]
      BY <1>2, <2>3
    <3>2. Z[k] \in Int /\ Z[n] \in Int /\ X[n] \in Int
      BY <1>2
    <3> QED BY <2>1, <2>3, <3>1, <3>2
  <2>4. ASSUME NEW l \in 2..n, \A i \in 1..(l - 1) : X[i] <= later, later < X[l],
               w \in Interpolate(later, X[l - 1], Z[l - 1] - X[l - 1], X[l], Z[l] - X[l])
        PROVE  w \in Int /\ ts + v <= later + w
    <3>1. w \in Int /\ Z[l - 1] <= later + w
      BY <1>3, <2>4
    <3>2. ~(l < k)
      <4> SUFFICES ASSUME l < k PROVE FALSE
        OBVIOUS
      <4>1. l \in 1..(k - 1)
        OBVIOUS
      <4>2. X[l] <= ts /\ X[l] \in Int /\ later < X[l]
        BY <1>2, <1>6, <2>4, <4>1
      <4> QED BY <4>2
    <3>3. CASE l = k
      <4> DEFINE a == X[k - 1]
                 b == Z[k - 1] - X[k - 1]
                 c == X[k]
                 d == Z[k] - X[k]
      <4>1. /\ a \in Int /\ b \in Int /\ c \in Int /\ d \in Int
            /\ a + b = Z[k - 1] /\ c + d = Z[k] /\ Z[k - 1] <= Z[k]
        BY <1>2
      <4>2. a + b <= c + d /\ a <= ts /\ later < c
        BY <1>6, <2>4, <3>3, <4>1
      <4>3. v \in Interpolate(ts, a, b, c, d) /\ w \in Interpolate(later, a, b, c, d)
        BY <1>6, <2>4, <3>3
      <4> HIDE DEF a, b, c, d
      <4> QED BY <3>1, <4>1, <4>2, <4>3, InterpolateInOrder
    <3>4. CASE k < l
      <4>1. Z[k] <= Z[l - 1] /\ Z[k] \in Int /\ Z[l - 1] \in Int
        BY <1>2, <3>4
      <4> QED BY <2>1, <3>1, <4>1
    <3> QED BY <3>1, <3>2, <3>3, <3>4
  <2>5. ~(later <= X[1])
    BY <1>2, <2>2
  <2> QED BY <1>1, <2>1, <2>3, <2>4, <2>5 DEF RampCase
<1> QED BY <1>1, <1>4, <1>5, <1>6 DEF RampCase

\* At a recorded moment the way is a recorded one.
IsRecorded(n, X, Z, at, v) == \E k \in 1..n : X[k] = at /\ at + v = Z[k]

\* At a recorded moment the ramp is the way of one recorded then.
LEMMA RampRecorded ==
    ASSUME NEW n \in Nat \ {0}, NEW X \in [1..n -> Int], NEW Z \in [1..n -> Int],
           \A i, j \in 1..n : i <= j => X[i] <= X[j],
           NEW m \in 1..n, NEW v \in Ramp(n, X, Z, X[m])
    PROVE  IsRecorded(n, X, Z, X[m], v)
<1>1. X[m] \in Int /\ RampCase(n, X, Z, X[m], v)
  BY RampCases
<1>2. /\ 1 \in 1..n /\ n \in 1..n /\ X[1] <= X[m] /\ X[m] <= X[n]
      /\ \A i \in 1..n : X[i] \in Int /\ Z[i] \in Int
  OBVIOUS
<1>3. CASE X[m] <= X[1] /\ v = Z[1] - X[1]
  <2>1. X[1] = X[m] /\ X[m] + v = Z[1]
    BY <1>2, <1>3
  <2> QED BY <1>2, <2>1 DEF IsRecorded
<1>4. CASE (\A i \in 1..n : X[i] <= X[m]) /\ v = Z[n] - X[n]
  <2>1. X[n] = X[m] /\ X[m] + v = Z[n]
    BY <1>2, <1>4
  <2> QED BY <1>2, <2>1 DEF IsRecorded
<1>5. ASSUME NEW k \in 2..n, \A i \in 1..(k - 1) : X[i] <= X[m], X[m] < X[k],
             v \in Interpolate(X[m], X[k - 1], Z[k - 1] - X[k - 1], X[k], Z[k] - X[k])
      PROVE  \E l \in 1..n : X[l] = X[m] /\ X[m] + v = Z[l]
  <2>1. k \in 1..n /\ k - 1 \in 1..n /\ X[k - 1] <= X[m]
    BY <1>5
  <2>2. m <= k - 1
    BY <1>2, <1>5, <2>1
  <2>3. X[k - 1] = X[m]
    BY <1>2, <2>1, <2>2
  <2> DEFINE a == X[k - 1]
             b == Z[k - 1] - X[k - 1]
             c == X[k]
             d == Z[k] - X[k]
             at == X[m]
  <2>4. /\ a \in Int /\ b \in Int /\ c \in Int /\ d \in Int /\ at \in Int
        /\ a <= at /\ at < c /\ at = a
    BY <1>2, <1>5, <2>1, <2>3
  <2>5. v \in Interpolate(at, a, b, c, d)
    BY <1>5
  <2>6. a + b = Z[k - 1]
    BY <1>2, <2>1
  <2> HIDE DEF a, b, c, d, at
  <2>7. v = b
    BY <2>4, <2>5, InterpolateBetween DEF IsBetween
  <2> QED BY <2>1, <2>3, <2>4, <2>6, <2>7 DEF a, at
<1> QED BY <1>1, <1>3, <1>4, <1>5 DEF RampCase, IsRecorded

-----------------------------------------------------------------------------
(* The rows.                                                                *)

TimedRow == [req_ts : Int, exch_ts : Int, resp_ts : Int]

Count == Len(rows)

\* What the constructor and the recording leave.
RowsOK ==
    /\ Count \in Nat \ {0}
    /\ rows \in [1..Count -> TimedRow]
    /\ \A i \in 1..Count :
          /\ rows[i].req_ts > 0
          /\ rows[i].req_ts < rows[i].resp_ts
          /\ Valid(rows[i]) => /\ rows[i].req_ts <= rows[i].exch_ts
                               /\ rows[i].exch_ts <= rows[i].resp_ts
    /\ \A i, j \in 1..Count : i <= j => rows[i].req_ts <= rows[j].req_ts

\* What the assumption says of a recording holds of the rows that the offset was added to.
LEMMA RowsAreOK ==
    ASSUME Init
    PROVE  RowsOK
<1> USE RecordingAssumption
<1>1. PICK recording \in Recordings, offset \in Offsets : rows = Shifted(recording, offset)
  BY DEF Init
<1> DEFINE n == Len(recording)
<1>2. /\ offset \in Int /\ recording \in Seq(Row)
      /\ n \in Nat /\ DOMAIN recording = 1..n
      /\ \A i \in 1..n : recording[i] \in Row
      /\ recording \in [1..n -> Row]
  <2>1. offset \in Int /\ recording \in Seq(Row)
    BY DEF RecordingAssumption
  <2> QED BY <2>1
<1>3. \A i \in 1..n :
        /\ recording[i].req_ts + offset > 0
        /\ recording[i].req_ts < recording[i].resp_ts
        /\ Valid(recording[i]) => /\ recording[i].req_ts <= recording[i].exch_ts
                                  /\ recording[i].exch_ts <= recording[i].resp_ts
  BY <1>2 DEF RecordingAssumption
<1> HIDE DEF n
<1>4. rows = [i \in 1..n |->
                [req_ts |-> recording[i].req_ts + offset,
                 exch_ts |-> recording[i].exch_ts
                     + (IF recording[i].exch_ts > 0 THEN offset ELSE 0),
                 resp_ts |-> recording[i].resp_ts + offset]]
  BY <1>1, <1>2 DEF Shifted
<1>5. \A i \in 1..n :
        /\ recording[i].req_ts \in Int /\ recording[i].exch_ts \in Int
        /\ recording[i].resp_ts \in Int
        /\ rows[i] = [req_ts |-> recording[i].req_ts + offset,
                      exch_ts |-> recording[i].exch_ts
                          + (IF recording[i].exch_ts > 0 THEN offset ELSE 0),
                      resp_ts |-> recording[i].resp_ts + offset]
  BY <1>2, <1>4 DEF Row
<1>6. rows \in [1..n -> TimedRow]
  BY <1>2, <1>4, <1>5 DEF TimedRow
<1>7. Count = n
  BY <1>2, <1>6 DEF Count
<1>8. n # 0
  <2>1. rows # <<>>
    BY DEF Init, Constructs
  <2> QED BY <1>6, <2>1
<1>9. \A i \in 1..n :
        /\ rows[i].req_ts > 0
        /\ rows[i].req_ts < rows[i].resp_ts
        /\ Valid(rows[i]) => rows[i].req_ts <= rows[i].exch_ts /\ rows[i].exch_ts <= rows[i].resp_ts
  <2> SUFFICES ASSUME NEW i \in 1..n
               PROVE  /\ rows[i].req_ts > 0
                      /\ rows[i].req_ts < rows[i].resp_ts
                      /\ Valid(rows[i]) => /\ rows[i].req_ts <= rows[i].exch_ts
                                           /\ rows[i].exch_ts <= rows[i].resp_ts
    OBVIOUS
  <2>1. /\ rows[i].req_ts = recording[i].req_ts + offset
        /\ rows[i].exch_ts = recording[i].exch_ts + (IF recording[i].exch_ts > 0 THEN offset ELSE 0)
        /\ rows[i].resp_ts = recording[i].resp_ts + offset
        /\ recording[i].req_ts \in Int /\ recording[i].exch_ts \in Int
        /\ recording[i].resp_ts \in Int
        /\ recording[i].exch_ts >= 0
    <3>1. recording[i].exch_ts \in Nat
      BY <1>2 DEF Row
    <3>2. /\ recording[i].req_ts \in Int /\ recording[i].exch_ts \in Int
          /\ recording[i].resp_ts \in Int
          /\ rows[i] = [req_ts |-> recording[i].req_ts + offset,
                        exch_ts |-> recording[i].exch_ts
                            + (IF recording[i].exch_ts > 0 THEN offset ELSE 0),
                        resp_ts |-> recording[i].resp_ts + offset]
      BY <1>5
    <3> QED BY <3>1, <3>2
  <2> QED BY <1>2, <1>3, <2>1 DEF Valid
<1>10. \A i, j \in 1..n : i <= j => rows[i].req_ts <= rows[j].req_ts
  <2> DEFINE X == [i \in 1..n |-> rows[i].req_ts]
  <2>1. X \in [1..n -> Int]
    BY <1>6 DEF TimedRow
  <2>2. ASSUME NEW i \in 1..(n - 1) PROVE X[i] <= X[i + 1]
    <3>1. i \in 1..n /\ i + 1 \in 1..n
      BY <1>2
    <3>2. rows[i].req_ts <= rows[i + 1].req_ts
      BY <1>7 DEF Init, Constructs, Count
    <3> QED BY <3>1, <3>2
  <2>3. \A i \in 1..n : X[i] = rows[i].req_ts
    OBVIOUS
  <2> HIDE DEF X
  <2>4. \A i, j \in 1..n : i <= j => X[i] <= X[j]
    BY <1>2, <2>1, <2>2, NeverDown
  <2> QED BY <2>3, <2>4
<1> QED BY <1>2, <1>6, <1>7, <1>8, <1>9, <1>10 DEF RowsOK

\* The types of what is computed from a row, and the signs of the latencies.
LEMMA RowFacts ==
    ASSUME RowsOK
    PROVE  /\ DOMAIN rows = 1..Count /\ Len(rows) = Count /\ 1 \in 1..Count /\ Count \in 1..Count
           /\ Count \in Nat \ {0} /\ Last(rows) = rows[Count]
           /\ \A k \in 2..Count : k \in 1..Count /\ k - 1 \in 1..Count
           /\ \A i \in 1..Count :
                 /\ rows[i].req_ts \in Int /\ rows[i].exch_ts \in Int /\ rows[i].resp_ts \in Int
                 /\ rows[i].req_ts > 0
                 /\ RoundTrip(rows[i]) \in Int /\ RoundTrip(rows[i]) > 0
                 /\ Returned(rows[i]) \in Int
                 /\ Valid(rows[i]) => /\ rows[i].exch_ts - rows[i].req_ts >= 0
                                      /\ Returned(rows[i]) >= 0
<1>1. Count \in Nat \ {0} /\ rows \in [1..Count -> TimedRow]
  BY DEF RowsOK
<1>2. DOMAIN rows = 1..Count /\ Len(rows) = Count /\ Last(rows) = rows[Count]
  BY <1>1 DEF Count, Last
<1>3. /\ 1 \in 1..Count /\ Count \in 1..Count
      /\ \A k \in 2..Count : k \in 1..Count /\ k - 1 \in 1..Count
  BY <1>1
<1>4. ASSUME NEW i \in 1..Count
      PROVE  /\ rows[i].req_ts \in Int /\ rows[i].exch_ts \in Int /\ rows[i].resp_ts \in Int
             /\ rows[i].req_ts > 0
             /\ RoundTrip(rows[i]) \in Int /\ RoundTrip(rows[i]) > 0
             /\ Returned(rows[i]) \in Int
             /\ Valid(rows[i]) => /\ rows[i].exch_ts - rows[i].req_ts >= 0
                                  /\ Returned(rows[i]) >= 0
  <2>1. rows[i].req_ts \in Int /\ rows[i].exch_ts \in Int /\ rows[i].resp_ts \in Int
    BY <1>1 DEF TimedRow
  <2>2. /\ rows[i].req_ts > 0
        /\ rows[i].req_ts < rows[i].resp_ts
        /\ Valid(rows[i]) => rows[i].req_ts <= rows[i].exch_ts /\ rows[i].exch_ts <= rows[i].resp_ts
    BY DEF RowsOK
  <2> QED BY <2>1, <2>2 DEF RoundTrip, Returned
<1> QED BY <1>1, <1>2, <1>3, <1>4

\* Where a request falls among the recorded ones.
EntryCase(ts, lat) ==
    \/ ts <= rows[1].req_ts /\ Beside(ts) = {1} /\ lat = EntryLatency(rows[1])
    \/ /\ rows[1].req_ts < ts /\ \A i \in 1..Count : rows[i].req_ts <= ts
       /\ Beside(ts) = {Count} /\ lat = EntryLatency(rows[Count])
    \/ /\ rows[1].req_ts < ts
       /\ \E k \in 2..Count :
             /\ rows[k - 1].req_ts <= ts /\ ts < rows[k].req_ts
             /\ Beside(ts) = {k - 1, k}
             /\ lat \in Between(ts, rows[k - 1], rows[k])

\* entry returns the latency of the row alone beside the moment, or goes between two.
LEMMA EntryCases ==
    ASSUME RowsOK, NEW ts \in Int, NEW lat \in Entry(rows, ts)
    PROVE  EntryCase(ts, lat)
<1> DEFINE behind == {i \in DOMAIN rows : ts < rows[i].req_ts}
           k == Min(behind)
<1>1. /\ DOMAIN rows = 1..Count /\ Len(rows) = Count /\ 1 \in 1..Count /\ Count \in 1..Count
      /\ Count \in Nat \ {0} /\ Last(rows) = rows[Count]
      /\ \A i \in 1..Count : rows[i].req_ts \in Int
  BY RowFacts
<1>2. \A i, j \in 1..Count : i <= j => rows[i].req_ts <= rows[j].req_ts
  BY DEF RowsOK
<1>3. CASE ts <= rows[1].req_ts
  <2>1. lat = EntryLatency(rows[1])
    BY <1>3 DEF Entry
  <2>2. Beside(ts) = {1}
    BY <1>3 DEF Beside
  <2> QED BY <1>3, <2>1, <2>2 DEF EntryCase
<1>4. CASE rows[1].req_ts < ts /\ behind = {}
  <2>1. Behind(rows, ts) = Count + 1
    BY <1>1, <1>4 DEF Behind
  <2>2. ~(ts <= rows[1].req_ts) /\ Count + 1 > Count
    BY <1>1, <1>4
  <2>3. lat = EntryLatency(rows[Count])
    BY <1>1, <2>1, <2>2 DEF Entry
  <2>4. ASSUME NEW i \in 1..Count PROVE rows[i].req_ts <= ts
    BY <1>1, <1>4
  <2>5. Beside(ts) = {i \in 1..Count :
            /\ rows[i].req_ts > ts => rows[i - 1].req_ts <= ts
            /\ rows[i].req_ts <= ts => i = Count \/ rows[i + 1].req_ts > ts}
    BY <1>1, <2>2 DEF Beside
  <2>6. ASSUME NEW i \in 1..Count, i # Count PROVE ~(rows[i + 1].req_ts > ts)
    <3>1. i + 1 \in 1..Count
      BY <1>1, <2>6
    <3>2. rows[i + 1].req_ts <= ts /\ rows[i + 1].req_ts \in Int
      BY <1>1, <2>4, <3>1
    <3> QED BY <3>2
  <2>7. \A i \in 1..Count : ~(rows[i].req_ts > ts)
    BY <1>1, <2>4
  <2>8. Beside(ts) = {Count}
    BY <1>1, <2>4, <2>5, <2>6, <2>7
  <2> QED BY <1>4, <2>3, <2>4, <2>8 DEF EntryCase
<1>5. CASE rows[1].req_ts < ts /\ behind # {}
  <2>1. behind \in SUBSET Nat
    BY <1>1
  <2>2. k \in behind /\ \A i \in behind : k <= i
    BY <1>5, <2>1, MinFacts
  <2>3. Behind(rows, ts) = k
    BY <1>5 DEF Behind
  <2> HIDE DEF k
  <2>4. k \in 2..Count /\ ts < rows[k].req_ts /\ k \in 1..Count /\ k - 1 \in 1..Count
    <3>1. k \in 1..Count /\ ts < rows[k].req_ts /\ k # 1
      BY <1>1, <1>5, <2>2
    <3> QED BY <1>1, <3>1
  <2>5. rows[k - 1].req_ts <= ts
    <3>1. k - 1 \notin behind
      BY <2>2, <2>4
    <3>2. ~(ts < rows[k - 1].req_ts)
      BY <1>1, <2>4, <3>1
    <3> QED BY <1>1, <2>4, <3>2
  <2>6. ~(ts <= rows[1].req_ts) /\ ~(k > Count)
    BY <1>1, <1>5, <2>4
  <2>7. lat \in Between(ts, rows[k - 1], rows[k])
    BY <1>1, <2>3, <2>6 DEF Entry
  <2>8. Beside(ts) = {i \in 1..Count :
            /\ rows[i].req_ts > ts => rows[i - 1].req_ts <= ts
            /\ rows[i].req_ts <= ts => i = Count \/ rows[i + 1].req_ts > ts}
    BY <1>1, <2>6 DEF Beside
  <2>9. ASSUME NEW i \in 1..Count PROVE i < k => rows[i].req_ts <= ts
    <3> SUFFICES ASSUME i < k PROVE rows[i].req_ts <= ts
      OBVIOUS
    <3>1. i <= k - 1
      BY <2>4
    <3>2. rows[i].req_ts <= rows[k - 1].req_ts
      BY <1>2, <2>4, <3>1
    <3> QED BY <1>1, <2>4, <2>5, <3>2
  <2>10. ASSUME NEW i \in 1..Count PROVE i >= k => rows[i].req_ts > ts
    <3> SUFFICES ASSUME i >= k PROVE rows[i].req_ts > ts
      OBVIOUS
    <3>1. rows[k].req_ts <= rows[i].req_ts
      BY <1>2, <2>4
    <3> QED BY <1>1, <2>4, <3>1
  <2>11. ASSUME NEW i \in Beside(ts) PROVE i \in {k - 1, k}
    <3>1. i \in 1..Count
      BY <2>8
    <3>2. CASE i >= k
      <4>1. rows[i].req_ts > ts /\ rows[i - 1].req_ts <= ts
        BY <2>8, <2>10, <3>1, <3>2
      <4>2. i - 1 \in 1..Count
        BY <1>1, <2>4, <3>1, <3>2
      <4>3. ~(i - 1 >= k)
        BY <1>1, <2>10, <4>1, <4>2
      <4> QED BY <2>4, <3>1, <3>2, <4>3
    <3>3. CASE i < k
      <4>1. rows[i].req_ts <= ts /\ i # Count
        BY <1>1, <2>4, <2>9, <3>1, <3>3
      <4>2. rows[i + 1].req_ts > ts
        BY <2>8, <4>1
      <4>3. i + 1 \in 1..Count
        BY <1>1, <3>1, <4>1
      <4>4. ~(i + 1 < k)
        BY <1>1, <2>9, <4>2, <4>3
      <4> QED BY <2>4, <3>1, <3>3, <4>4
    <3> QED BY <2>4, <3>1, <3>2, <3>3
  <2>12. k - 1 \in Beside(ts) /\ k \in Beside(ts)
    <3>1. ~(rows[k].req_ts <= ts) /\ ~(rows[k - 1].req_ts > ts) /\ k - 1 + 1 = k
      BY <1>1, <2>4, <2>5
    <3> QED BY <2>4, <2>5, <2>8, <3>1
  <2>13. Beside(ts) = {k - 1, k}
    BY <2>11, <2>12
  <2> QED BY <1>5, <2>4, <2>5, <2>7, <2>13 DEF EntryCase
<1> QED BY <1>1, <1>3, <1>4, <1>5

Ways == {rows[i].exch_ts - rows[i].req_ts : i \in Accepted(rows)}
WaysBack == {Returned(rows[i]) : i \in Accepted(rows)}
WaysRound == {RoundTrip(rows[i]) : i \in DOMAIN rows}

\* What is between two of the recorded ways is within them.
LEMMA BetweenIsWithin ==
    ASSUME NEW S, NEW a \in S, NEW b \in S, NEW v,
           a <= v \/ b <= v, v <= a \/ v <= b
    PROVE  Within(v, S)
BY DEF Within

\* A latency fits the requests beside it: negative if one was rejected.
EntryFits(ts, lat) ==
    /\ lat \in Int
    /\ (lat < 0) <=> \E i \in Beside(ts) : ~Valid(rows[i])
    /\ lat >= 0 => Within(lat, Ways)
    /\ lat < 0 => Within(-lat, WaysRound)

\* What one row says.
LEMMA EntryOfOne ==
    ASSUME RowsOK, NEW i \in 1..Count, NEW ts, Beside(ts) = {i}
    PROVE  EntryFits(ts, EntryLatency(rows[i]))
<1>1. /\ DOMAIN rows = 1..Count
      /\ rows[i].req_ts \in Int /\ rows[i].exch_ts \in Int
      /\ RoundTrip(rows[i]) \in Int /\ RoundTrip(rows[i]) > 0
      /\ Valid(rows[i]) => rows[i].exch_ts - rows[i].req_ts >= 0
  BY RowFacts
<1> DEFINE way == rows[i].exch_ts - rows[i].req_ts
           round == RoundTrip(rows[i])
<1>2. way \in Int /\ round \in Int /\ round > 0
  BY <1>1
<1>3. CASE Valid(rows[i])
  <2>1. EntryLatency(rows[i]) = way /\ way >= 0
    BY <1>1, <1>3 DEF EntryLatency
  <2>2. way \in Ways
    BY <1>1, <1>3 DEF Ways, Accepted
  <2>3. ~\E j \in Beside(ts) : ~Valid(rows[j])
    BY <1>3
  <2> HIDE DEF way, round
  <2>4. Within(way, Ways)
    BY <1>2, <2>2, BetweenIsWithin
  <2> QED BY <1>2, <2>1, <2>3, <2>4 DEF EntryFits
<1>4. CASE ~Valid(rows[i])
  <2>1. EntryLatency(rows[i]) = -round
    BY <1>4 DEF EntryLatency
  <2>2. round \in WaysRound
    BY <1>1 DEF WaysRound
  <2>3. \E j \in Beside(ts) : ~Valid(rows[j])
    BY <1>4
  <2> HIDE DEF way, round
  <2>4. -round < 0 /\ -(-round) = round /\ -round \in Int
    BY <1>2
  <2>5. Within(round, WaysRound)
    BY <1>2, <2>2, BetweenIsWithin
  <2> QED BY <2>1, <2>3, <2>4, <2>5 DEF EntryFits
<1> QED BY <1>3, <1>4

\* What two rows say.
LEMMA EntryOfTwo ==
    ASSUME RowsOK, NEW ts \in Int, NEW k \in 2..Count,
           rows[k - 1].req_ts <= ts, ts < rows[k].req_ts, Beside(ts) = {k - 1, k},
           NEW lat \in Between(ts, rows[k - 1], rows[k])
    PROVE  EntryFits(ts, lat)
<1>1. DOMAIN rows = 1..Count /\ k \in 1..Count /\ k - 1 \in 1..Count
  BY RowFacts
<1>2. \A i \in 1..Count :
         /\ rows[i].req_ts \in Int /\ rows[i].exch_ts \in Int
         /\ RoundTrip(rows[i]) \in Int /\ RoundTrip(rows[i]) > 0
         /\ Valid(rows[i]) => rows[i].exch_ts - rows[i].req_ts >= 0
  BY RowFacts
<1> DEFINE a == rows[k - 1].req_ts
           c == rows[k].req_ts
<1>3. a \in Int /\ c \in Int /\ a <= ts /\ ts < c
  BY <1>1, <1>2
<1>4. CASE Valid(rows[k - 1]) /\ Valid(rows[k])
  <2> DEFINE b == rows[k - 1].exch_ts - rows[k - 1].req_ts
             d == rows[k].exch_ts - rows[k].req_ts
  <2>1. b \in Int /\ d \in Int /\ b >= 0 /\ d >= 0
    BY <1>1, <1>2, <1>4
  <2>2. lat \in Interpolate(ts, a, b, c, d)
    BY <1>4 DEF Between
  <2>3. b \in Ways /\ d \in Ways
    BY <1>1, <1>4 DEF Ways, Accepted
  <2>4. ~\E j \in Beside(ts) : ~Valid(rows[j])
    BY <1>4
  <2> HIDE DEF a, b, c, d
  <2>5. IsBetween(ts, a, b, c, d, lat)
    BY <1>3, <2>1, <2>2, InterpolateBetween
  <2>6. lat \in Int /\ lat >= 0 /\ (b <= lat \/ d <= lat) /\ (lat <= b \/ lat <= d)
    BY <2>1, <2>5 DEF IsBetween
  <2>7. Within(lat, Ways)
    BY <2>3, <2>6, BetweenIsWithin
  <2> QED BY <2>4, <2>6, <2>7 DEF EntryFits
<1>5. CASE ~(Valid(rows[k - 1]) /\ Valid(rows[k]))
  <2> DEFINE b == RoundTrip(rows[k - 1])
             d == RoundTrip(rows[k])
  <2>1. b \in Int /\ d \in Int /\ b > 0 /\ d > 0
    BY <1>1, <1>2
  <2>2. lat \in Negated(Interpolate(ts, a, b, c, d))
    BY <1>5 DEF Between
  <2>3. b \in WaysRound /\ d \in WaysRound
    BY <1>1 DEF WaysRound
  <2>4. \E j \in Beside(ts) : ~Valid(rows[j])
    BY <1>5
  <2> HIDE DEF a, b, c, d
  <2>5. PICK round \in Interpolate(ts, a, b, c, d) : lat = -round
    BY <2>2 DEF Negated
  <2>6. round \in Interpolate(ts, a, b, c, d)
    OBVIOUS
  <2>7. IsBetween(ts, a, b, c, d, round)
    BY <1>3, <2>1, <2>6, InterpolateBetween
  <2>8. round \in Int /\ (b <= round \/ d <= round) /\ (round <= b \/ round <= d)
    BY <2>1, <2>7 DEF IsBetween
  <2>9. lat \in Int /\ lat < 0 /\ -lat = round
    BY <2>1, <2>5, <2>8
  <2>10. Within(round, WaysRound)
    BY <2>3, <2>8, BetweenIsWithin
  <2> QED BY <2>4, <2>9, <2>10 DEF EntryFits
<1> QED BY <1>4, <1>5

\* A latency entry returns is negative exactly when a row beside the moment was rejected,
\* and otherwise within the recorded ones.
LEMMA EntriesFit ==
    ASSUME RowsOK, NEW ts \in Int, NEW lat \in Entry(rows, ts)
    PROVE  EntryFits(ts, lat)
<1>1. EntryCase(ts, lat)
  BY EntryCases
<1>2. 1 \in 1..Count /\ Count \in 1..Count
  BY RowFacts
<1>3. CASE Beside(ts) = {1} /\ lat = EntryLatency(rows[1])
  BY <1>2, <1>3, EntryOfOne
<1>4. CASE Beside(ts) = {Count} /\ lat = EntryLatency(rows[Count])
  BY <1>2, <1>4, EntryOfOne
<1>5. CASE \E k \in 2..Count :
             /\ rows[k - 1].req_ts <= ts /\ ts < rows[k].req_ts
             /\ Beside(ts) = {k - 1, k}
             /\ lat \in Between(ts, rows[k - 1], rows[k])
  BY <1>5, EntryOfTwo
<1> QED BY <1>1, <1>3, <1>4, <1>5 DEF EntryCase

\* A latency response returns is within those recorded of accepted requests.
LEMMA ResponsesFit ==
    ASSUME RowsOK, NEW ts \in Int, NEW lat \in Response(rows, ts)
    PROVE  lat \in Int /\ lat >= 0 /\ (Accepted(rows) # {} => Within(lat, WaysBack))
<1> DEFINE valid == Accepted(rows)
           first == Min(valid)
           passed == {i \in valid \ {first} : ts < rows[i].exch_ts}
           current == Min(passed)
           lower == {i \in valid : i < current}
           previous == Max(lower)
<1>1. /\ Count \in Nat \ {0} /\ DOMAIN rows = 1..Count
      /\ \A i \in 1..Count : /\ rows[i].exch_ts \in Int /\ Returned(rows[i]) \in Int
                             /\ Valid(rows[i]) => Returned(rows[i]) >= 0
  BY RowFacts
<1>2. /\ valid \in SUBSET (1..Count) /\ valid \in SUBSET Nat
      /\ \A i \in valid : rows[i].exch_ts \in Int /\ Returned(rows[i]) \in Int
                          /\ Returned(rows[i]) >= 0 /\ Returned(rows[i]) \in WaysBack
  BY <1>1 DEF Accepted, WaysBack
<1>3. ASSUME NEW i \in valid, lat = Returned(rows[i])
      PROVE  lat \in Int /\ lat >= 0 /\ Within(lat, WaysBack)
  <2>1. lat \in Int /\ lat >= 0 /\ lat \in WaysBack
    BY <1>2, <1>3
  <2> QED BY <2>1, BetweenIsWithin
<1>4. CASE valid = {}
  BY <1>4 DEF Response
<1>5. CASE valid # {}
  <2>1. first \in valid /\ \A i \in valid : first <= i
    BY <1>2, <1>5, MinFacts
  <2>2. CASE ts <= rows[first].exch_ts
    <3>1. lat = Returned(rows[first])
      BY <1>5, <2>2 DEF Response
    <3> QED BY <1>3, <2>1, <3>1
  <2>3. CASE ~(ts <= rows[first].exch_ts) /\ passed = {}
    <3>1. lat = Returned(rows[Max(valid)])
      BY <1>5, <2>3 DEF Response
    <3>2. Max(valid) \in valid
      BY <1>1, <1>2, <1>5, MaxFacts
    <3> QED BY <1>3, <3>1, <3>2
  <2>4. CASE ~(ts <= rows[first].exch_ts) /\ passed # {}
    <3>1. lat \in Interpolate(ts, rows[previous].exch_ts, Returned(rows[previous]),
                              rows[current].exch_ts, Returned(rows[current]))
      BY <1>5, <2>4 DEF Response
    <3>2. passed \in SUBSET Nat
      BY <1>2
    <3>3. current \in passed /\ \A i \in passed : current <= i
      BY <2>4, <3>2, MinFacts
    <3> HIDE DEF current
    <3>4. lower \in SUBSET (1..Count) /\ first \in lower
      BY <1>2, <2>1, <3>3
    <3>5. previous \in lower
      BY <1>1, <3>4, MaxFacts
    <3> HIDE DEF previous
    <3>6. previous \notin passed /\ previous \in valid /\ current \in valid
      BY <1>2, <3>3, <3>5
    <3> DEFINE a == rows[previous].exch_ts
               b == Returned(rows[previous])
               c == rows[current].exch_ts
               d == Returned(rows[current])
    <3>7. /\ a \in Int /\ b \in Int /\ c \in Int /\ d \in Int /\ b >= 0 /\ d >= 0
          /\ b \in WaysBack /\ d \in WaysBack
      BY <1>2, <3>6
    <3>8. a <= ts /\ ts < c
      BY <1>2, <2>1, <2>4, <3>3, <3>6, <3>7
    <3>9. lat \in Interpolate(ts, a, b, c, d)
      BY <3>1
    <3> HIDE DEF a, b, c, d
    <3>10. IsBetween(ts, a, b, c, d, lat)
      BY <3>7, <3>8, <3>9, InterpolateBetween
    <3>11. lat \in Int /\ lat >= 0 /\ (b <= lat \/ d <= lat) /\ (lat <= b \/ lat <= d)
      BY <3>7, <3>10 DEF IsBetween
    <3>12. Within(lat, WaysBack)
      BY <3>7, <3>11, BetweenIsWithin
    <3> QED BY <3>11, <3>12
  <2> QED BY <2>2, <2>3, <2>4
<1> QED BY <1>4, <1>5

-----------------------------------------------------------------------------
(* Recordings in order.                                                     *)

Reqs == [i \in 1..Count |-> rows[i].req_ts]
Exchs == [i \in 1..Count |-> rows[i].exch_ts]
Resps == [i \in 1..Count |-> rows[i].resp_ts]

\* Where nothing overtakes, all three columns of the recording are in order.
LEMMA InOrderFacts ==
    ASSUME RowsOK, InOrder
    PROVE  /\ Reqs \in [1..Count -> Int] /\ Exchs \in [1..Count -> Int]
           /\ Resps \in [1..Count -> Int]
           /\ \A i, j \in 1..Count : i <= j => /\ Reqs[i] <= Reqs[j] /\ Exchs[i] <= Exchs[j]
                                               /\ Resps[i] <= Resps[j]
           /\ Accepted(rows) = 1..Count
<1>1. /\ Count \in Nat \ {0} /\ DOMAIN rows = 1..Count /\ Len(rows) = Count
      /\ \A i \in 1..Count : /\ rows[i].req_ts \in Int /\ rows[i].exch_ts \in Int
                             /\ rows[i].resp_ts \in Int
  BY RowFacts
<1>2. /\ Reqs \in [1..Count -> Int] /\ Exchs \in [1..Count -> Int]
      /\ Resps \in [1..Count -> Int]
  BY <1>1 DEF Reqs, Exchs, Resps
<1>3. \A i \in 1..Count : /\ Reqs[i] = rows[i].req_ts /\ Exchs[i] = rows[i].exch_ts
                          /\ Resps[i] = rows[i].resp_ts
  BY DEF Reqs, Exchs, Resps
<1>4. ASSUME NEW i \in 1..(Count - 1) PROVE Exchs[i] <= Exchs[i + 1] /\ Resps[i] <= Resps[i + 1]
  <2>1. i \in 1..Count /\ i + 1 \in 1..Count
    BY <1>1
  <2>2. rows[i].exch_ts <= rows[i + 1].exch_ts /\ rows[i].resp_ts <= rows[i + 1].resp_ts
    BY <1>1 DEF InOrder
  <2> QED BY <1>3, <2>1, <2>2
<1>5. \A i, j \in 1..Count : i <= j => Exchs[i] <= Exchs[j]
  BY <1>1, <1>2, <1>4, NeverDown
<1>6. \A i, j \in 1..Count : i <= j => Resps[i] <= Resps[j]
  BY <1>1, <1>2, <1>4, NeverDown
<1>7. \A i, j \in 1..Count : i <= j => Reqs[i] <= Reqs[j]
  BY <1>3 DEF RowsOK
<1>8. Accepted(rows) = 1..Count
  BY <1>1 DEF Accepted, InOrder
<1> QED BY <1>2, <1>5, <1>6, <1>7, <1>8

\* Then entry latencies and response latencies are ways from one recorded moment to
\* the other.
LEMMA EntryIsRamp ==
    ASSUME RowsOK, InOrder, NEW ts \in Int
    PROVE  Entry(rows, ts) = Ramp(Count, Reqs, Exchs, ts)
<1> DEFINE behind == {i \in DOMAIN rows : ts < rows[i].req_ts}
           passed == {i \in 2..Count : ts < Reqs[i]}
           k == Min(passed)
<1>1. /\ DOMAIN rows = 1..Count /\ Len(rows) = Count /\ 1 \in 1..Count /\ Count \in 1..Count
      /\ Count \in Nat \ {0} /\ Last(rows) = rows[Count]
      /\ \A i \in 1..Count : rows[i].req_ts \in Int
      /\ \A i \in 2..Count : i \in 1..Count /\ i - 1 \in 1..Count
  BY RowFacts
<1>2. \A i \in 1..Count : Reqs[i] = rows[i].req_ts /\ Exchs[i] = rows[i].exch_ts /\ Valid(rows[i])
  BY <1>1 DEF Reqs, Exchs, InOrder
<1>3. CASE ts <= rows[1].req_ts
  BY <1>1, <1>2, <1>3 DEF Entry, Ramp, EntryLatency
<1>4. CASE ~(ts <= rows[1].req_ts)
  <2>1. behind = passed
    <3>1. ~(ts < rows[1].req_ts)
      BY <1>1, <1>4
    <3> QED BY <1>1, <1>2, <3>1
  <2>2. CASE passed = {}
    <3>1. Behind(rows, ts) = Count + 1 /\ Count + 1 > Count
      BY <1>1, <2>1, <2>2 DEF Behind
    <3>2. Entry(rows, ts) = {EntryLatency(rows[Count])}
      BY <1>1, <1>4, <3>1 DEF Entry
    <3>3. Ramp(Count, Reqs, Exchs, ts) = {Exchs[Count] - Reqs[Count]}
      BY <1>1, <1>2, <1>4, <2>2 DEF Ramp
    <3> QED BY <1>1, <1>2, <3>2, <3>3 DEF EntryLatency
  <2>3. CASE passed # {}
    <3>1. Behind(rows, ts) = k
      BY <2>1, <2>3 DEF Behind
    <3>2. passed \in SUBSET Nat
      OBVIOUS
    <3>3. k \in passed
      BY <2>3, <3>2, MinFacts
    <3>4. Ramp(Count, Reqs, Exchs, ts)
            = Interpolate(ts, Reqs[k - 1], Exchs[k - 1] - Reqs[k - 1], Reqs[k], Exchs[k] - Reqs[k])
      BY <1>1, <1>2, <1>4, <2>3 DEF Ramp
    <3> HIDE DEF k
    <3>5. k \in 1..Count /\ k - 1 \in 1..Count /\ ~(k > Count)
      BY <1>1, <3>3
    <3>6. Entry(rows, ts) = Between(ts, rows[k - 1], rows[k])
      BY <1>1, <1>4, <3>1, <3>5 DEF Entry
    <3> QED BY <1>2, <3>4, <3>5, <3>6 DEF Between
  <2> QED BY <2>2, <2>3
<1> QED BY <1>3, <1>4

\* response is such a ramp too.
LEMMA ResponseIsRamp ==
    ASSUME RowsOK, InOrder, NEW ts \in Int
    PROVE  Response(rows, ts) = Ramp(Count, Exchs, Resps, ts)
<1> DEFINE valid == Accepted(rows)
           first == Min(valid)
           passed == {i \in valid \ {first} : ts < rows[i].exch_ts}
           current == Min(passed)
           lower == {i \in valid : i < current}
           previous == Max(lower)
           over == {i \in 2..Count : ts < Exchs[i]}
<1>1. /\ DOMAIN rows = 1..Count /\ 1 \in 1..Count /\ Count \in 1..Count /\ Count \in Nat \ {0}
      /\ \A i \in 2..Count : i \in 1..Count /\ i - 1 \in 1..Count
      /\ valid = 1..Count
  BY RowFacts, InOrderFacts
<1>2. \A i \in 1..Count : Exchs[i] = rows[i].exch_ts /\ Returned(rows[i]) = Resps[i] - Exchs[i]
  BY DEF Exchs, Resps, Returned
<1>3. valid # {} /\ valid \in SUBSET Nat /\ valid \in SUBSET (1..Count)
  BY <1>1
<1>4. first = 1
  <2>1. first \in valid /\ \A i \in valid : first <= i
    BY <1>3, MinFacts
  <2> HIDE DEF first
  <2> QED BY <1>1, <2>1
<1>5. Max(valid) = Count
  <2> DEFINE last == Max(valid)
  <2>1. last \in valid /\ \A i \in valid : i <= last
    BY <1>1, <1>3, MaxFacts
  <2> HIDE DEF last
  <2>2. last \in 1..Count /\ \A i \in 1..Count : i <= last
    BY <1>1, <2>1
  <2>3. Count \in 1..Count /\ Count \in Int
    BY <1>1
  <2>4. Count <= last /\ last <= Count /\ last \in Int
    BY <2>2, <2>3
  <2>5. last = Count
    BY <2>3, <2>4
  <2> QED BY <2>5 DEF last
<1>6. passed = over
  BY <1>1, <1>2, <1>4
<1>7. CASE ts <= rows[1].exch_ts
  <2>1. Response(rows, ts) = {Returned(rows[1])}
    BY <1>3, <1>4, <1>7 DEF Response
  <2>2. Ramp(Count, Exchs, Resps, ts) = {Resps[1] - Exchs[1]}
    BY <1>1, <1>2, <1>7 DEF Ramp
  <2> QED BY <1>1, <1>2, <2>1, <2>2
<1>8. CASE ~(ts <= rows[1].exch_ts) /\ passed = {}
  <2>1. Response(rows, ts) = {Returned(rows[Count])}
    BY <1>3, <1>4, <1>5, <1>8 DEF Response
  <2>2. Ramp(Count, Exchs, Resps, ts) = {Resps[Count] - Exchs[Count]}
    BY <1>1, <1>2, <1>6, <1>8 DEF Ramp
  <2> QED BY <1>1, <1>2, <2>1, <2>2
<1>9. CASE ~(ts <= rows[1].exch_ts) /\ passed # {}
  <2>1. Response(rows, ts) = Interpolate(ts, rows[previous].exch_ts, Returned(rows[previous]),
                                         rows[current].exch_ts, Returned(rows[current]))
    BY <1>3, <1>4, <1>9 DEF Response
  <2> HIDE DEF passed, over
  <2>2. over # {} /\ current = Min(over)
    BY <1>6, <1>9
  <2> USE DEF over
  <2>over. over \in SUBSET Nat
    OBVIOUS
  <2>3. current \in over
    BY <2>2, <2>over, MinFacts
  <2>4. Ramp(Count, Exchs, Resps, ts)
          = Interpolate(ts, Exchs[current - 1], Resps[current - 1] - Exchs[current - 1],
                        Exchs[current], Resps[current] - Exchs[current])
    BY <1>1, <1>2, <1>9, <2>2 DEF Ramp
  <2> HIDE DEF current
  <2>5. lower = 1..(current - 1) /\ lower # {} /\ lower \in SUBSET (1..Count)
    BY <1>1, <2>3
  <2>6. previous \in lower /\ \A i \in lower : i <= previous
    BY <1>1, <2>5, MaxFacts
  <2> HIDE DEF previous
  <2>7. previous = current - 1 /\ current \in 1..Count /\ current - 1 \in 1..Count
    BY <1>1, <2>3, <2>5, <2>6
  <2> QED BY <1>2, <2>1, <2>4, <2>7
<1> QED BY <1>7, <1>8, <1>9

-----------------------------------------------------------------------------
(* The invariant.                                                           *)

Trip == [asked : Nat, reached : Nat, answered : Nat]
Leg == [trip : Nat, ts : Nat]

Typed ==
    /\ RowsOK
    /\ now \in Nat \ {0}
    /\ trips \in Seq(Trip)
    /\ to_exch \in Seq(Leg)
    /\ latest \in Nat

\* Nothing has happened later than now.
Past ==
    \A n \in 1..Len(trips) :
        /\ trips[n].asked \in 1..now
        /\ trips[n].reached <= now
        /\ trips[n].reached > 0 => trips[n].answered > 0

\* The requests on their way to the exchange: neither there nor answered, in the
\* order in which they were made and are due.
OnTheWay ==
    /\ \A j \in 1..Len(to_exch) :
          /\ to_exch[j].trip \in 1..Len(trips)
          /\ trips[to_exch[j].trip].reached = 0
          /\ trips[to_exch[j].trip].answered = 0
          /\ to_exch[j].ts >= now
    /\ \A j, k \in 1..Len(to_exch) :
          j < k => to_exch[j].trip < to_exch[k].trip /\ to_exch[j].ts <= to_exch[k].ts
    /\ to_exch # <<>> => Ways # {}

\* What the response bus remembers is the answer to some request.
LatestAnswers == latest = 0 \/ \E m \in 1..Len(trips) : trips[m].answered = latest

\* Request n is to reach the exchange at this moment; or it does or did.
Underway(n, ts) == \E j \in 1..Len(to_exch) : to_exch[j].trip = n /\ to_exch[j].ts = ts

Arrives(n, ts) == trips[n].reached = ts \/ Underway(n, ts)

\* What is on its way takes a recorded time, or waits for one in front of it.
LegWithin(n, ts) ==
    \/ Within(ts - trips[n].asked, Ways)
    \/ \E m \in 1..(n - 1) : Arrives(m, ts)

LegsWithin == \A n, ts : Underway(n, ts) => LegWithin(n, ts)

\* Where nothing overtakes anything, what is on its way does not wait.
LegsInOrder ==
    InOrder => \A j \in 1..Len(to_exch) :
        to_exch[j].ts - trips[to_exch[j].trip].asked
            \in Entry(rows, trips[to_exch[j].trip].asked)

\* WithinRecorded, trip by trip.
TripWithin(n) ==
    /\ Done(trips[n]) =>
          /\ \/ Within(trips[n].reached - trips[n].asked, Ways)
             \/ \E m \in 1..(n - 1) : trips[m].reached = trips[n].reached
          /\ \/ Within(trips[n].answered - trips[n].reached, WaysBack)
             \/ \E m \in 1..Len(trips) : m # n /\ trips[m].answered = trips[n].answered
    /\ Rejected(trips[n]) =>
          \/ Within(trips[n].answered - trips[n].asked, WaysRound)
          \/ \E m \in 1..Len(trips) : m # n /\ trips[m].answered = trips[n].answered

TripsWithin == \A n \in 1..Len(trips) : TripWithin(n)

IInv ==
    /\ Typed /\ Past /\ OnTheWay /\ LatestAnswers
    /\ RejectionsKept
    /\ TripsWithin /\ LegsWithin
    /\ NoneOvertaken /\ LegsInOrder

\* What depends on the rows alone does not change.
LEMMA SameRows ==
    ASSUME rows' = rows
    PROVE  /\ RowsOK' <=> RowsOK
           /\ InOrder' <=> InOrder
           /\ Ways' = Ways /\ WaysBack' = WaysBack /\ WaysRound' = WaysRound
           /\ \A ts : Beside(ts)' = Beside(ts)
<1>1. Count' = Count
  BY DEF Count
<1>2. RowsOK' <=> RowsOK
  BY <1>1 DEF RowsOK
<1>3. InOrder' <=> InOrder
  BY DEF InOrder
<1>4. Ways' = Ways /\ WaysBack' = WaysBack /\ WaysRound' = WaysRound
  BY DEF Ways, WaysBack, WaysRound
<1>5. \A ts : Beside(ts)' = Beside(ts)
  BY DEF Beside
<1> QED BY <1>2, <1>3, <1>4, <1>5

\* A request adds a trip; what was true of the others stays so.
LEMMA Asked ==
    ASSUME IInv, NEW lat \in Entry(rows, now), NEW back \in Nat,
           trips' = Append(trips, [asked |-> now, reached |-> 0, answered |-> back]),
           rows' = rows, now' = now,
           lat < 0 <=> back > 0,
           back > 0 => \/ Within(back - now, WaysRound)
                       \/ \E m \in 1..Len(trips) : trips[m].answered = back
    PROVE  /\ Len(trips) \in Nat /\ Len(trips') = Len(trips) + 1
           /\ \A n \in 1..Len(trips) : trips'[n] = trips[n]
           /\ trips'[Len(trips) + 1].asked = now /\ trips'[Len(trips) + 1].reached = 0
           /\ trips'[Len(trips) + 1].answered = back
           /\ trips' \in Seq(Trip)
           /\ Past' /\ RejectionsKept' /\ TripsWithin' /\ NoneOvertaken'
<1> DEFINE N == Len(trips)
           new == [asked |-> now, reached |-> 0, answered |-> back]
<1>1. trips \in Seq(Trip) /\ now \in Nat \ {0} /\ RowsOK
  BY DEF IInv, Typed
<1>2. new \in Trip /\ new.asked = now /\ new.reached = 0 /\ new.answered = back
  BY <1>1 DEF Trip
<1> HIDE DEF new
<1>3. trips' = Append(trips, new)
  BY DEF new
<1>4. /\ N \in Nat /\ Len(trips') = N + 1 /\ trips' \in Seq(Trip)
      /\ DOMAIN trips = 1..N /\ DOMAIN trips' = 1..(N + 1)
      /\ \A n \in 1..N : trips'[n] = trips[n] /\ trips[n] \in Trip
      /\ trips'[N + 1] = new
  BY <1>1, <1>2, <1>3
<1>5. \A n \in 1..(N + 1) : n \in 1..N \/ n = N + 1
  BY <1>4
<1>6. /\ Ways' = Ways /\ WaysBack' = WaysBack /\ WaysRound' = WaysRound
      /\ InOrder' <=> InOrder
      /\ \A ts : Beside(ts)' = Beside(ts)
  BY SameRows
<1>7. EntryFits(now, lat)
  BY <1>1, EntriesFit
<1> HIDE DEF N
<1>8. Past'
  <2> SUFFICES ASSUME NEW n \in 1..(N + 1)
               PROVE  /\ trips'[n].asked \in 1..now
                      /\ trips'[n].reached <= now
                      /\ trips'[n].reached > 0 => trips'[n].answered > 0
    BY <1>4 DEF Past
  <2>1. CASE n \in 1..N
    BY <1>4, <2>1 DEF IInv, Past, N
  <2>2. CASE n = N + 1
    BY <1>1, <1>2, <1>4, <2>2
  <2> QED BY <1>5, <2>1, <2>2
<1>9. RejectionsKept'
  <2> SUFFICES ASSUME NEW n \in 1..(N + 1)
               PROVE  Rejected(trips'[n]) <=> \E i \in Beside(trips'[n].asked) : ~Valid(rows[i])
    BY <1>4, <1>6 DEF RejectionsKept, Beside
  <2>1. CASE n \in 1..N
    BY <1>4, <2>1 DEF IInv, RejectionsKept
  <2>2. CASE n = N + 1
    <3>1. trips'[n] = new /\ (Rejected(new) <=> back > 0)
      BY <1>2, <1>4, <2>2 DEF Rejected
    <3> QED BY <1>2, <1>7, <3>1 DEF EntryFits
  <2> QED BY <1>5, <2>1, <2>2
<1>10. TripsWithin'
  <2> SUFFICES ASSUME NEW n \in 1..(N + 1) PROVE TripWithin(n)'
    BY <1>4 DEF TripsWithin
  <2>1. CASE n \in 1..N
    <3>1. TripWithin(n) /\ trips'[n] = trips[n]
      BY <1>4, <2>1 DEF IInv, TripsWithin, N
    <3>2. \A m \in 1..N : m \in 1..(N + 1) /\ trips'[m] = trips[m]
      BY <1>4
    <3>3. \A m \in 1..(n - 1) : m \in 1..N
      BY <1>4, <2>1
    <3> QED BY <1>4, <1>6, <3>1, <3>2, <3>3 DEF TripWithin, N
  <2>2. CASE n = N + 1
    <3>1. trips'[n] = new /\ ~Done(new) /\ new.answered = back /\ new.asked = now
      BY <1>2, <1>4, <2>2 DEF Done
    <3>2. Rejected(new) => back > 0
      BY <1>2 DEF Rejected
    <3>3. \A m \in 1..N : m \in 1..(N + 1) /\ m # n /\ trips'[m] = trips[m]
      BY <1>4, <2>2
    <3> QED BY <1>4, <1>6, <3>1, <3>2, <3>3 DEF TripWithin, N
  <2> QED BY <1>5, <2>1, <2>2
<1>11. NoneOvertaken'
  <2> SUFFICES ASSUME InOrder, NEW n \in 1..(N + 1), Done(trips'[n])
               PROVE  /\ trips'[n].reached - trips'[n].asked \in Entry(rows, trips'[n].asked)
                      /\ trips'[n].answered - trips'[n].reached
                            \in Response(rows, trips'[n].reached)
    BY <1>4, <1>6 DEF NoneOvertaken
  <2>1. n \in 1..N
    BY <1>2, <1>4, <1>5 DEF Done
  <2> QED BY <1>4, <2>1 DEF IInv, NoneOvertaken
<1> QED BY <1>2, <1>4, <1>8, <1>9, <1>10, <1>11 DEF N

\* A request that will be rejected.
LEMMA RejectedKeeps ==
    ASSUME IInv, NEW lat \in Entry(rows, now), lat < 0,
           trips' = Append(trips, [asked |-> now, reached |-> 0,
                                   answered |-> Later(now - lat, latest)]),
           latest' = Later(now - lat, latest),
           UNCHANGED <<to_exch, rows, now>>
    PROVE  IInv'
<1> DEFINE N == Len(trips)
           back == Later(now - lat, latest)
<1>1. RowsOK /\ now \in Nat \ {0} /\ latest \in Nat /\ to_exch \in Seq(Leg)
  BY DEF IInv, Typed
<1>2. EntryFits(now, lat)
  BY <1>1, EntriesFit
<1>3. lat \in Int /\ Within(-lat, WaysRound)
  BY <1>2 DEF EntryFits
<1>4. /\ back \in Nat /\ back > 0 /\ latest' = back
      /\ back = now - lat \/ (back = latest /\ latest > 0)
  BY <1>1, <1>3 DEF Later
<1> HIDE DEF back
<1>5. Within(back - now, WaysRound) \/ \E m \in 1..Len(trips) : trips[m].answered = back
  <2>1. CASE back = now - lat
    <3>1. back - now = -lat
      BY <1>1, <1>3, <2>1
    <3> QED BY <1>3, <3>1
  <2>2. CASE back = latest /\ latest > 0
    BY <1>1, <2>2 DEF IInv, LatestAnswers
  <2> QED BY <1>4, <2>1, <2>2
<1>6. trips' = Append(trips, [asked |-> now, reached |-> 0, answered |-> back])
  BY DEF back
<1>7. rows' = rows /\ now' = now /\ to_exch' = to_exch
  OBVIOUS
<1>8. /\ N \in Nat /\ Len(trips') = N + 1
      /\ \A n \in 1..N : trips'[n] = trips[n]
      /\ trips'[N + 1].answered = back
      /\ trips' \in Seq(Trip)
      /\ Past' /\ RejectionsKept' /\ TripsWithin' /\ NoneOvertaken'
  BY <1>4, <1>5, <1>6, <1>7, Asked
<1>9. /\ Ways' = Ways /\ (RowsOK' <=> RowsOK) /\ (InOrder' <=> InOrder)
  BY <1>7, SameRows
<1> HIDE DEF N
<1>10. Typed'
  BY <1>1, <1>4, <1>7, <1>8, <1>9 DEF Typed
<1>11. \A n \in 1..N : n \in 1..(N + 1)
  BY <1>8
<1>12. \A j \in 1..Len(to_exch) :
          to_exch[j].trip \in 1..N /\ trips'[to_exch[j].trip] = trips[to_exch[j].trip]
  BY <1>8 DEF IInv, OnTheWay, N
<1>13. OnTheWay'
  BY <1>7, <1>8, <1>9, <1>11, <1>12 DEF IInv, OnTheWay
<1>14. LatestAnswers'
  <2>1. N + 1 \in 1..(N + 1)
    BY <1>8
  <2> QED BY <1>4, <1>8, <2>1 DEF LatestAnswers
<1>15. LegsWithin'
  <2>1. \A n, ts : Underway(n, ts)' <=> Underway(n, ts)
    BY <1>7 DEF Underway
  <2>2. \A m \in 1..N : \A ts : Arrives(m, ts) => Arrives(m, ts)'
    BY <1>8, <2>1 DEF Arrives
  <2>3. ASSUME NEW n, NEW ts, Underway(n, ts) PROVE LegWithin(n, ts)'
    <3>1. n \in 1..N
      BY <1>12, <2>3 DEF Underway
    <3>2. \A m \in 1..(n - 1) : m \in 1..N
      BY <1>8, <3>1
    <3>3. LegWithin(n, ts)
      BY <2>3 DEF IInv, LegsWithin
    <3> QED BY <1>8, <1>9, <2>2, <3>1, <3>2, <3>3 DEF LegWithin
  <2> QED BY <2>1, <2>3 DEF LegsWithin
<1>16. LegsInOrder'
  BY <1>7, <1>9, <1>12 DEF IInv, LegsInOrder
<1> QED BY <1>8, <1>10, <1>13, <1>14, <1>15, <1>16 DEF IInv

\* Where nothing overtakes anything, a request is due no earlier than the one in
\* front of it unless both were made at the same moment.
LEMMA DueInOrder ==
    ASSUME RowsOK, InOrder, NEW lat \in Entry(rows, now), NEW asked \in Nat, NEW due \in Nat,
           now \in Nat, asked <= now, due - asked \in Entry(rows, asked), now + lat < due
    PROVE  due - now \in Entry(rows, now)
<1> DEFINE v == due - asked
<1>1. /\ Count \in Nat \ {0} /\ Reqs \in [1..Count -> Int] /\ Exchs \in [1..Count -> Int]
      /\ \A i, j \in 1..Count : i <= j => Exchs[i] <= Exchs[j]
  BY RowFacts, InOrderFacts
<1>2. v \in Int /\ asked + v = due /\ asked \in Int /\ now \in Int
  OBVIOUS
<1>3. lat \in Ramp(Count, Reqs, Exchs, now) /\ v \in Ramp(Count, Reqs, Exchs, asked)
  BY <1>2, EntryIsRamp
<1> HIDE DEF v
<1>4. ASSUME asked < now PROVE FALSE
  <2>1. asked + v <= now + lat /\ lat \in Int
    BY <1>1, <1>2, <1>3, <1>4, RampInOrder
  <2> QED BY <1>2, <2>1
<1>5. asked = now
  BY <1>2, <1>4
<1> QED BY <1>5

\* Where nothing overtakes, an answer that would have to wait for an earlier one takes as long
\* by itself.
LEMMA AnsweredInOrder ==
    ASSUME RowsOK, InOrder, NEW lat \in Response(rows, now), NEW reached \in Nat, NEW back \in Nat,
           now \in Nat, reached <= now, back - reached \in Response(rows, reached), now + lat < back
    PROVE  back - now \in Response(rows, now)
<1> DEFINE v == back - reached
<1>1. /\ Count \in Nat \ {0} /\ Exchs \in [1..Count -> Int] /\ Resps \in [1..Count -> Int]
      /\ \A i, j \in 1..Count : i <= j => Resps[i] <= Resps[j]
  BY RowFacts, InOrderFacts
<1>2. v \in Int /\ reached + v = back /\ reached \in Int /\ now \in Int
  OBVIOUS
<1>3. lat \in Ramp(Count, Exchs, Resps, now) /\ v \in Ramp(Count, Exchs, Resps, reached)
  BY <1>2, ResponseIsRamp
<1> HIDE DEF v
<1>4. ASSUME reached < now PROVE FALSE
  <2>1. reached + v <= now + lat /\ lat \in Int
    BY <1>1, <1>2, <1>3, <1>4, RampInOrder
  <2> QED BY <1>2, <2>1
<1>5. reached = now
  BY <1>2, <1>4
<1> QED BY <1>5

\* On the bus nothing is due before the one in front.
IsDue(ts, due) ==
    LET L == Len(to_exch)
    IN  /\ due >= ts
        /\ \/ due = ts
           \/ ts < due /\ L # 0 /\ due = to_exch[L].ts
        /\ L # 0 => due >= to_exch[L].ts

\* A request that will be accepted.
LEMMA AcceptedKeeps ==
    ASSUME IInv, NEW lat \in Entry(rows, now), lat >= 0, NEW due \in Nat,
           IsDue(now + lat, due),
           trips' = Append(trips, [asked |-> now, reached |-> 0, answered |-> 0]),
           to_exch' = Append(to_exch, [trip |-> Len(trips) + 1, ts |-> due]),
           UNCHANGED <<latest, rows, now>>
    PROVE  IInv'
<1> DEFINE N == Len(trips)
           L == Len(to_exch)
           new == [trip |-> N + 1, ts |-> due]
<1>1. /\ RowsOK /\ now \in Nat \ {0} /\ latest \in Nat /\ to_exch \in Seq(Leg)
      /\ trips \in Seq(Trip) /\ N \in Nat /\ L \in Nat
  BY DEF IInv, Typed
<1>2. EntryFits(now, lat)
  BY <1>1, EntriesFit
<1>3. lat \in Int /\ Within(lat, Ways) /\ ~(lat < 0)
  BY <1>2 DEF EntryFits
<1>4. rows' = rows /\ now' = now /\ latest' = latest
  OBVIOUS
<1>5. /\ Len(trips') = N + 1
      /\ \A n \in 1..N : trips'[n] = trips[n]
      /\ trips'[N + 1].asked = now /\ trips'[N + 1].reached = 0 /\ trips'[N + 1].answered = 0
      /\ trips' \in Seq(Trip)
      /\ Past' /\ RejectionsKept' /\ TripsWithin' /\ NoneOvertaken'
  BY <1>3, <1>4, Asked
<1>6. /\ Ways' = Ways /\ (RowsOK' <=> RowsOK) /\ (InOrder' <=> InOrder)
  BY <1>4, SameRows
<1>7. \A j \in 1..L :
         /\ to_exch[j].trip \in 1..N /\ to_exch[j].ts \in Nat /\ to_exch[j].trip \in Nat
         /\ to_exch[j].ts >= now
  <2>1. \A j \in 1..L : to_exch[j] \in Leg
    BY <1>1
  <2> QED BY <2>1 DEF IInv, OnTheWay, Leg
<1>8. /\ due >= now + lat
      /\ \/ due = now + lat
         \/ now + lat < due /\ L # 0 /\ due = to_exch[L].ts
      /\ L # 0 => due >= to_exch[L].ts /\ L \in 1..L
  BY <1>1 DEF IsDue
<1>9. new \in Leg /\ new.trip = N + 1 /\ new.ts = due
  BY <1>1, <1>8 DEF Leg
<1> HIDE DEF new
<1>10. to_exch' = Append(to_exch, new)
  BY DEF new
<1>11. /\ Len(to_exch') = L + 1 /\ to_exch' \in Seq(Leg)
       /\ \A j \in 1..L : to_exch'[j] = to_exch[j]
       /\ to_exch'[L + 1] = new
  BY <1>1, <1>9, <1>10
<1>12. /\ \A j \in 1..(L + 1) : j \in 1..L \/ j = L + 1
       /\ \A j \in 1..L : j \in 1..(L + 1) /\ trips'[to_exch[j].trip] = trips[to_exch[j].trip]
       /\ \A n \in 1..N : n \in 1..(N + 1)
       /\ N + 1 \in 1..(N + 1)
  BY <1>1, <1>5, <1>7
<1> HIDE DEF N, L
<1>13. Typed'
  BY <1>1, <1>4, <1>5, <1>6, <1>11 DEF Typed
<1>14. OnTheWay'
  <2>1. ASSUME NEW j \in 1..(L + 1)
        PROVE  /\ to_exch'[j].trip \in 1..(N + 1)
               /\ trips'[to_exch'[j].trip].reached = 0
               /\ trips'[to_exch'[j].trip].answered = 0
               /\ to_exch'[j].ts >= now
    <3>1. CASE j \in 1..L
      BY <1>7, <1>11, <1>12, <3>1 DEF IInv, OnTheWay, L
    <3>2. CASE j = L + 1
      BY <1>1, <1>3, <1>5, <1>8, <1>9, <1>11, <1>12, <3>2
    <3> QED BY <1>12, <3>1, <3>2
  <2>2. ASSUME NEW j \in 1..(L + 1), NEW k \in 1..(L + 1), j < k
        PROVE  to_exch'[j].trip < to_exch'[k].trip /\ to_exch'[j].ts <= to_exch'[k].ts
    <3>1. j \in 1..L
      BY <1>1, <2>2
    <3>2. CASE k \in 1..L
      BY <1>11, <2>2, <3>1, <3>2 DEF IInv, OnTheWay, L
    <3>3. CASE k = L + 1
      <4>1. to_exch[j].ts <= to_exch[L].ts
        <5>1. CASE j = L
          BY <1>7, <3>1, <5>1
        <5>2. CASE j < L
          <6>1. L \in 1..L
            BY <1>1, <3>1
          <6> QED BY <3>1, <5>2, <6>1 DEF IInv, OnTheWay, L
        <5> QED BY <1>1, <3>1, <5>1, <5>2
      <4>2. L # 0 /\ to_exch[L].ts \in Nat /\ to_exch[j].ts \in Nat /\ to_exch[j].trip \in 1..N
        BY <1>7, <1>8, <3>1
      <4>3. to_exch[j].ts <= due /\ to_exch[j].trip < N + 1
        BY <1>1, <1>8, <4>1, <4>2
      <4>4. to_exch'[j] = to_exch[j] /\ to_exch'[k] = new
        BY <1>11, <3>1, <3>3
      <4> QED BY <1>9, <4>3, <4>4
    <3> QED BY <1>12, <3>2, <3>3
  <2>3. Ways # {}
    BY <1>3 DEF Within
  <2> QED BY <1>4, <1>5, <1>6, <1>11, <2>1, <2>2, <2>3 DEF OnTheWay
<1>15. LatestAnswers'
  BY <1>4, <1>5, <1>12 DEF IInv, LatestAnswers, N
<1>16. LegsWithin'
  <2>1. \A n, ts : Underway(n, ts) => Underway(n, ts)'
    BY <1>11, <1>12 DEF Underway, L
  <2>2. \A m \in 1..N : \A ts : Arrives(m, ts) => Arrives(m, ts)'
    BY <1>5, <2>1 DEF Arrives
  <2>3. ASSUME NEW n, NEW ts, Underway(n, ts)'
        PROVE  Underway(n, ts) \/ (n = N + 1 /\ ts = due)
    <3>1. PICK j \in 1..(L + 1) : to_exch'[j].trip = n /\ to_exch'[j].ts = ts
      BY <1>11, <2>3 DEF Underway
    <3>2. CASE j \in 1..L
      BY <1>11, <3>1, <3>2 DEF Underway, L
    <3>3. CASE j = L + 1
      BY <1>9, <1>11, <3>1, <3>3
    <3> QED BY <1>12, <3>2, <3>3
  <2>4. ASSUME NEW n, NEW ts, Underway(n, ts) PROVE LegWithin(n, ts)'
    <3>1. n \in 1..N
      BY <1>7, <2>4 DEF Underway, L
    <3>2. \A m \in 1..(n - 1) : m \in 1..N
      BY <1>1, <3>1
    <3>3. LegWithin(n, ts)
      BY <2>4 DEF IInv, LegsWithin
    <3> QED BY <1>5, <1>6, <2>2, <3>1, <3>2, <3>3 DEF LegWithin
  <2>5. ASSUME NEW n, n = N + 1 PROVE LegWithin(n, due)'
    <3>1. trips'[n].asked = now
      BY <1>5, <2>5
    <3>2. CASE due = now + lat
      <4>1. due - now = lat
        BY <1>1, <1>3, <3>2
      <4> QED BY <1>3, <1>6, <3>1, <4>1 DEF LegWithin
    <3>3. CASE now + lat < due /\ L # 0 /\ due = to_exch[L].ts
      <4>1. PICK m \in 1..N : m = to_exch[L].trip
        BY <1>7, <1>8, <3>3
      <4>2. Underway(m, due)
        BY <1>8, <3>3, <4>1 DEF Underway, L
      <4>3. Arrives(m, due)'
        BY <2>1, <4>2 DEF Arrives
      <4>4. m \in 1..(n - 1)
        BY <1>1, <2>5
      <4> QED BY <4>3, <4>4 DEF LegWithin
    <3> QED BY <1>8, <3>2, <3>3
  <2> QED BY <2>3, <2>4, <2>5 DEF LegsWithin
<1>17. LegsInOrder'
  <2> SUFFICES ASSUME InOrder, NEW j \in 1..(L + 1)
               PROVE  to_exch'[j].ts - trips'[to_exch'[j].trip].asked
                          \in Entry(rows, trips'[to_exch'[j].trip].asked)
    BY <1>4, <1>6, <1>11 DEF LegsInOrder
  <2>1. \A k \in 1..L : to_exch[k].ts - trips[to_exch[k].trip].asked
                            \in Entry(rows, trips[to_exch[k].trip].asked)
    BY DEF IInv, LegsInOrder, L
  <2>2. CASE j \in 1..L
    BY <1>11, <1>12, <2>1, <2>2
  <2>3. CASE j = L + 1
    <3>1. to_exch'[j].trip = N + 1 /\ to_exch'[j].ts = due /\ trips'[N + 1].asked = now
      BY <1>5, <1>9, <1>11, <2>3
    <3>2. due - now \in Entry(rows, now)
      <4>1. CASE due = now + lat
        <5>1. due - now = lat
          BY <1>1, <1>3, <4>1
        <5> QED BY <5>1
      <4>2. CASE now + lat < due /\ L # 0 /\ due = to_exch[L].ts
        <5> DEFINE asked == trips[to_exch[L].trip].asked
        <5>1. asked \in Nat /\ asked <= now
          BY <1>1, <1>7, <1>8, <4>2 DEF IInv, Past, N
        <5>2. due - asked \in Entry(rows, asked)
          BY <1>8, <2>1, <4>2
        <5> HIDE DEF asked
        <5> QED BY <1>1, <1>8, <4>2, <5>1, <5>2, DueInOrder
      <4> QED BY <1>8, <4>1, <4>2
    <3> QED BY <3>1, <3>2
  <2> QED BY <1>12, <2>2, <2>3
<1> QED BY <1>5, <1>13, <1>14, <1>15, <1>16, <1>17 DEF IInv

\* Trip h of the one is answered in the other.
AnsweredAt(before, after, h, at, back) ==
    /\ after \in Seq(Trip) /\ Len(after) = Len(before) /\ DOMAIN after = 1..Len(before)
    /\ after[h].asked = before[h].asked /\ after[h].reached = at /\ after[h].answered = back
    /\ \A n \in 1..Len(before) : n # h => after[n] = before[n]

\* What an answer changes of the trips.
LEMMA AnsweredTrips ==
    ASSUME NEW before \in Seq(Trip), NEW h \in 1..Len(before), NEW at \in Nat, NEW back \in Nat
    PROVE  AnsweredAt(before, [before EXCEPT ![h].reached = at, ![h].answered = back], h, at, back)
<1> DEFINE T == [before[h] EXCEPT !.reached = at, !.answered = back]
           after == [before EXCEPT ![h] = T]
           N == Len(before)
<1>1. N \in Nat /\ before \in [1..N -> Trip] /\ h \in 1..N
  OBVIOUS
<1>2. T \in Trip /\ T.asked = before[h].asked /\ T.reached = at /\ T.answered = back
  <2>1. before[h] \in [asked : Nat, reached : Nat, answered : Nat]
    BY <1>1 DEF Trip
  <2> QED BY <2>1 DEF Trip
<1>3. [before EXCEPT ![h].reached = at, ![h].answered = back] = after
  BY <1>1
<1> HIDE DEF T
<1>4. /\ after \in [1..N -> Trip] /\ after[h] = T
      /\ \A n \in 1..N : n # h => after[n] = before[n]
  BY <1>1, <1>2
<1> HIDE DEF after
<1>5. after \in Seq(Trip) /\ Len(after) = N /\ DOMAIN after = 1..N
  <2> HIDE DEF N
  <2> QED BY <1>1, <1>4
<1> QED BY <1>2, <1>3, <1>4, <1>5 DEF AnsweredAt

\* The exchange takes the request that is due and answers it.
LEMMA AnsweringKeeps ==
    ASSUME IInv, NEW h, NEW back \in Nat, NEW lat \in Response(rows, now),
           Len(to_exch) # 0, to_exch[1].trip = h, to_exch[1].ts = now,
           back > 0, back = now + lat \/ (now + lat < back /\ back = latest),
           latest' = back,
           AnsweredAt(trips, trips', h, now, back),
           to_exch' = Tail(to_exch), rows' = rows, now' = now
    PROVE  IInv'
<1> DEFINE N == Len(trips)
           L == Len(to_exch)
<1>1. /\ RowsOK /\ now \in Nat \ {0} /\ latest \in Nat /\ to_exch \in Seq(Leg)
      /\ trips \in Seq(Trip) /\ N \in Nat /\ L \in Nat /\ L # 0 /\ 1 \in 1..L
      /\ DOMAIN trips = 1..N
      /\ \A n \in 1..N : trips[n] \in Trip
  BY DEF IInv, Typed
<1>2. \A j \in 1..L :
         /\ to_exch[j].trip \in 1..N /\ to_exch[j].ts \in Nat /\ to_exch[j].trip \in Nat
         /\ to_exch[j].ts >= now
         /\ trips[to_exch[j].trip].reached = 0 /\ trips[to_exch[j].trip].answered = 0
  <2>1. \A j \in 1..L : to_exch[j] \in Leg
    BY <1>1
  <2> QED BY <2>1 DEF IInv, OnTheWay, Leg
<1>3. h \in 1..N /\ trips[h].reached = 0 /\ trips[h].answered = 0 /\ h \in Nat
  BY <1>1, <1>2
<1>4. ASSUME NEW j \in 1..L, j # 1 PROVE h < to_exch[j].trip
  <2>1. 1 < j
    BY <1>1, <1>4
  <2> QED BY <1>1, <2>1 DEF IInv, OnTheWay
<1>5. /\ trips' \in Seq(Trip) /\ Len(trips') = N /\ DOMAIN trips' = 1..N
      /\ trips'[h].asked = trips[h].asked /\ trips'[h].reached = now
      /\ trips'[h].answered = back
      /\ \A n \in 1..N : n # h => trips'[n] = trips[n]
  BY DEF AnsweredAt
<1>6. /\ to_exch' \in Seq(Leg) /\ Len(to_exch') = L - 1
      /\ \A j \in 1..(L - 1) : to_exch'[j] = to_exch[j + 1] /\ j + 1 \in 1..L /\ j + 1 # 1
  BY <1>1
<1>7. /\ Ways' = Ways /\ WaysBack' = WaysBack /\ WaysRound' = WaysRound
      /\ (RowsOK' <=> RowsOK) /\ (InOrder' <=> InOrder)
      /\ \A ts : Beside(ts)' = Beside(ts)
  BY SameRows
<1>8. lat \in Int /\ (Accepted(rows) # {} => Within(lat, WaysBack))
  BY <1>1, ResponsesFit
<1>9. Within(lat, WaysBack)
  <2>1. Ways # {}
    BY <1>1 DEF IInv, OnTheWay
  <2>2. Accepted(rows) # {}
    BY <2>1 DEF Ways
  <2> QED BY <1>8, <2>2
\* Those on their way behind it have other numbers.
<1>10. \A j \in 1..(L - 1) :
          /\ to_exch'[j].trip \in 1..N /\ trips'[to_exch'[j].trip] = trips[to_exch'[j].trip]
          /\ to_exch'[j].trip # h
  <2> SUFFICES ASSUME NEW j \in 1..(L - 1)
               PROVE  /\ to_exch'[j].trip \in 1..N
                      /\ trips'[to_exch'[j].trip] = trips[to_exch'[j].trip]
                      /\ to_exch'[j].trip # h
    OBVIOUS
  <2>1. to_exch'[j] = to_exch[j + 1] /\ j + 1 \in 1..L /\ j + 1 # 1
    BY <1>6
  <2>2. to_exch[j + 1].trip \in 1..N /\ to_exch[j + 1].trip \in Nat /\ h < to_exch[j + 1].trip
    BY <1>2, <1>4, <2>1
  <2>3. to_exch'[j].trip \in 1..N /\ to_exch'[j].trip # h
    BY <1>3, <2>1, <2>2
  <2> QED BY <1>5, <2>3
<1> HIDE DEF N, L
<1>11. Typed'
  BY <1>1, <1>5, <1>6, <1>7 DEF Typed
<1>12. Past'
  <2> SUFFICES ASSUME NEW n \in 1..N
               PROVE  /\ trips'[n].asked \in 1..now
                      /\ trips'[n].reached <= now
                      /\ trips'[n].reached > 0 => trips'[n].answered > 0
    BY <1>5 DEF Past
  <2>1. /\ trips[n].asked \in 1..now /\ trips[n].reached <= now
        /\ trips[n].reached > 0 => trips[n].answered > 0
    BY DEF IInv, Past, N
  <2>2. CASE n = h
    BY <1>1, <1>5, <2>1, <2>2
  <2>3. CASE n # h
    BY <1>5, <2>1, <2>3
  <2> QED BY <2>2, <2>3
<1>13. OnTheWay'
  <2>1. ASSUME NEW j \in 1..(L - 1)
        PROVE  /\ to_exch'[j].trip \in 1..N
               /\ trips'[to_exch'[j].trip].reached = 0
               /\ trips'[to_exch'[j].trip].answered = 0
               /\ to_exch'[j].ts >= now
    <3>1. to_exch'[j] = to_exch[j + 1] /\ j + 1 \in 1..L
      BY <1>6
    <3>2. /\ trips[to_exch[j + 1].trip].reached = 0 /\ trips[to_exch[j + 1].trip].answered = 0
          /\ to_exch[j + 1].ts >= now
      BY <1>2, <3>1
    <3>3. /\ to_exch'[j].trip \in 1..N
          /\ trips'[to_exch'[j].trip] = trips[to_exch'[j].trip]
      BY <1>10
    <3> QED BY <3>1, <3>2, <3>3
  <2>2. ASSUME NEW j \in 1..(L - 1), NEW k \in 1..(L - 1), j < k
        PROVE  to_exch'[j].trip < to_exch'[k].trip /\ to_exch'[j].ts <= to_exch'[k].ts
    <3>1. j + 1 < k + 1
      BY <2>2
    <3> QED BY <1>6, <3>1 DEF IInv, OnTheWay, L
  <2>3. Ways # {}
    BY <1>1 DEF IInv, OnTheWay
  <2> QED BY <1>5, <1>6, <1>7, <2>1, <2>2, <2>3 DEF OnTheWay
<1>14. LatestAnswers'
  BY <1>3, <1>5 DEF LatestAnswers
<1>15. RejectionsKept'
  <2> SUFFICES ASSUME NEW n \in 1..N
               PROVE  Rejected(trips'[n]) <=> \E i \in Beside(trips'[n].asked) : ~Valid(rows[i])
    BY <1>5 DEF RejectionsKept, Beside
  <2>1. Rejected(trips[n]) <=> \E i \in Beside(trips[n].asked) : ~Valid(rows[i])
    BY <1>1 DEF IInv, RejectionsKept
  <2>2. CASE n = h
    <3>1. ~Rejected(trips[h]) /\ ~Rejected(trips'[h])
      BY <1>1, <1>3, <1>5 DEF Rejected
    <3> QED BY <1>5, <2>1, <2>2, <3>1
  <2>3. CASE n # h
    BY <1>5, <2>1, <2>3
  <2> QED BY <2>2, <2>3
\* What it is to reach the exchange with is now.
<1>16. Underway(h, now)
  BY <1>1 DEF Underway, L
<1>17. \A m \in 1..(h - 1) : m \in 1..N /\ m # h /\ ~Underway(m, now)
  <2> SUFFICES ASSUME NEW m \in 1..(h - 1) PROVE m \in 1..N /\ m # h /\ ~Underway(m, now)
    OBVIOUS
  <2>1. m \in 1..N /\ m # h /\ m < h
    BY <1>1, <1>3
  <2>2. ASSUME NEW j \in 1..L PROVE to_exch[j].trip # m
    BY <1>2, <1>3, <1>4, <2>1
  <2> QED BY <2>1, <2>2 DEF Underway, L
<1>18. back = now + lat \/ \E m \in 1..N : m # h /\ trips[m].answered = back
  <2>1. CASE back = latest
    <3>1. PICK m \in 1..N : trips[m].answered = back
      BY <1>1, <2>1 DEF IInv, LatestAnswers, N
    <3>2. m # h
      BY <1>3, <3>1
    <3> QED BY <3>1, <3>2
  <2> QED BY <2>1
<1>19. TripsWithin'
  <2> SUFFICES ASSUME NEW n \in 1..N PROVE TripWithin(n)'
    BY <1>5 DEF TripsWithin
  <2>1. \A m \in 1..N : \A t : t > 0 /\ trips[m].answered = t => m # h /\ trips'[m].answered = t
    BY <1>3, <1>5
  <2>2. \A m \in 1..N : \A t : t > 0 /\ trips[m].reached = t => m # h /\ trips'[m].reached = t
    BY <1>3, <1>5
  <2>3. CASE n # h
    <3>1. trips'[n] = trips[n] /\ trips[n] \in Trip /\ TripWithin(n)
      BY <1>1, <1>5, <2>3 DEF IInv, TripsWithin, N
    <3>2. Done(trips[n]) => trips[n].reached > 0 /\ trips[n].answered > 0
      BY DEF IInv, Past, Done, N
    <3>3. Rejected(trips[n]) => trips[n].answered > 0
      BY DEF Rejected
    <3>4. \A m \in 1..(n - 1) : m \in 1..N
      BY <1>1
    <3> QED BY <1>5, <1>7, <2>1, <2>2, <3>1, <3>2, <3>3, <3>4 DEF TripWithin, N
  <2>4. CASE n = h
    <3>1. ~Rejected(trips'[n]) /\ trips'[n].reached = now /\ trips'[n].answered = back
          /\ trips'[n].asked = trips[h].asked
      BY <1>1, <1>5, <2>4 DEF Rejected
    <3>2. \/ Within(trips'[n].reached - trips'[n].asked, Ways)
          \/ \E m \in 1..(n - 1) : trips'[m].reached = trips'[n].reached
      <4>1. LegWithin(h, now)
        BY <1>16 DEF IInv, LegsWithin
      <4>2. CASE Within(now - trips[h].asked, Ways)
        BY <3>1, <4>2
      <4>3. ASSUME NEW m \in 1..(h - 1), Arrives(m, now) PROVE trips'[m].reached = now
        BY <1>5, <1>17, <4>3 DEF Arrives
      <4> QED BY <2>4, <3>1, <4>1, <4>2, <4>3 DEF LegWithin
    <3>3. \/ Within(trips'[n].answered - trips'[n].reached, WaysBack)
          \/ \E m \in 1..N : m # n /\ trips'[m].answered = trips'[n].answered
      <4>1. CASE back = now + lat
        <5>1. back - now = lat
          BY <1>1, <1>8, <4>1
        <5> QED BY <1>9, <3>1, <5>1
      <4>2. CASE \E m \in 1..N : m # h /\ trips[m].answered = back
        BY <1>5, <2>4, <3>1, <4>2
      <4> QED BY <1>18, <4>1, <4>2
    <3> QED BY <1>5, <1>7, <3>1, <3>2, <3>3 DEF TripWithin
  <2> QED BY <2>3, <2>4
<1>20. LegsWithin'
  <2>1. ASSUME NEW n, NEW ts, Underway(n, ts)' PROVE Underway(n, ts) /\ n \in 1..N /\ n # h
    <3>1. PICK j \in 1..(L - 1) : to_exch'[j].trip = n /\ to_exch'[j].ts = ts
      BY <1>6, <2>1 DEF Underway
    <3>2. to_exch[j + 1].trip = n /\ to_exch[j + 1].ts = ts /\ j + 1 \in 1..L
      BY <1>6, <3>1
    <3> QED BY <1>10, <3>1, <3>2 DEF Underway, L
  <2>2. ASSUME NEW m \in 1..N, NEW ts, Arrives(m, ts), ts > 0 PROVE Arrives(m, ts)'
    <3>1. CASE trips[m].reached = ts
      BY <1>3, <1>5, <2>2, <3>1 DEF Arrives
    <3>2. CASE Underway(m, ts)
      <4>1. PICK j \in 1..L : to_exch[j].trip = m /\ to_exch[j].ts = ts
        BY <3>2 DEF Underway, L
      <4>2. CASE j = 1
        BY <1>5, <4>1, <4>2 DEF Arrives
      <4>3. CASE j # 1
        <5>1. j - 1 \in 1..(L - 1) /\ j - 1 + 1 = j
          BY <1>1, <4>3
        <5>2. to_exch'[j - 1].trip = m /\ to_exch'[j - 1].ts = ts
          BY <1>6, <4>1, <5>1
        <5>3. Underway(m, ts)'
          BY <1>6, <5>1, <5>2 DEF Underway
        <5> QED BY <5>3 DEF Arrives
      <4> QED BY <4>2, <4>3
    <3> QED BY <2>2, <3>1, <3>2 DEF Arrives
  <2>3. ASSUME NEW n, NEW ts, Underway(n, ts)' PROVE LegWithin(n, ts)'
    <3>1. Underway(n, ts) /\ n \in 1..N /\ n # h
      BY <2>1, <2>3
    <3>2. LegWithin(n, ts)
      BY <3>1 DEF IInv, LegsWithin
    <3>3. ts > 0
      BY <1>1, <1>2, <3>1 DEF Underway, L
    <3>4. \A m \in 1..(n - 1) : m \in 1..N
      BY <1>1, <3>1
    <3>5. trips'[n].asked = trips[n].asked
      BY <1>5, <3>1
    <3> QED BY <1>7, <2>2, <3>2, <3>3, <3>4, <3>5 DEF LegWithin
  <2> QED BY <2>3 DEF LegsWithin
<1>21. LegsInOrder'
  <2> SUFFICES ASSUME InOrder, NEW j \in 1..(L - 1)
               PROVE  to_exch'[j].ts - trips'[to_exch'[j].trip].asked
                          \in Entry(rows, trips'[to_exch'[j].trip].asked)
    BY <1>6, <1>7 DEF LegsInOrder
  <2>1. to_exch'[j] = to_exch[j + 1] /\ j + 1 \in 1..L
    BY <1>6
  <2>2. to_exch[j + 1].ts - trips[to_exch[j + 1].trip].asked
            \in Entry(rows, trips[to_exch[j + 1].trip].asked)
    BY <2>1 DEF IInv, LegsInOrder, L
  <2>3. trips'[to_exch'[j].trip] = trips[to_exch'[j].trip]
    BY <1>10
  <2> QED BY <2>1, <2>2, <2>3
<1>22. NoneOvertaken'
  <2> SUFFICES ASSUME InOrder, NEW n \in 1..N, Done(trips'[n])
               PROVE  /\ trips'[n].reached - trips'[n].asked \in Entry(rows, trips'[n].asked)
                      /\ trips'[n].answered - trips'[n].reached
                            \in Response(rows, trips'[n].reached)
    BY <1>5, <1>7 DEF NoneOvertaken
  <2>1. CASE n # h
    BY <1>1, <1>5, <2>1 DEF IInv, NoneOvertaken
  <2>2. CASE n = h
    <3>1. now - trips[h].asked \in Entry(rows, trips[h].asked)
      BY <1>1 DEF IInv, LegsInOrder, L
    <3>2. back - now \in Response(rows, now)
      <4>1. CASE back = now + lat
        <5>1. back - now = lat
          BY <1>1, <1>8, <4>1
        <5> QED BY <5>1
      <4>2. CASE now + lat < back /\ back = latest
        <5>1. PICK m \in 1..N : trips[m].answered = back
          BY <1>1, <4>2 DEF IInv, LatestAnswers, N
        <5>2. ~Rejected(trips[m])
          <6>1. \A i \in Beside(trips[m].asked) : i \in DOMAIN rows
            BY <1>1, RowFacts DEF Beside
          <6>2. ~\E i \in Beside(trips[m].asked) : ~Valid(rows[i])
            BY <6>1 DEF InOrder
          <6> QED BY <1>1, <6>2 DEF IInv, RejectionsKept
        <5> DEFINE reached == trips[m].reached
        <5>3. reached \in Nat /\ reached <= now /\ reached # 0
          <6>1. trips[m] \in Trip /\ trips[m].reached <= now
            BY <1>1 DEF IInv, Past, N
          <6> QED BY <5>1, <5>2, <6>1 DEF Rejected, Trip
        <5>4. back - reached \in Response(rows, reached)
          BY <1>1, <5>1, <5>3 DEF IInv, NoneOvertaken, Done
        <5> HIDE DEF reached
        <5> QED BY <1>1, <4>2, <5>3, <5>4, AnsweredInOrder
      <4> QED BY <4>1, <4>2
    <3> QED BY <1>5, <2>2, <3>1, <3>2
  <2> QED BY <2>1, <2>2
<1> QED BY <1>11, <1>12, <1>13, <1>14, <1>15, <1>19, <1>20, <1>21, <1>22 DEF IInv

\* Time goes on: nothing on its way is due.
LEMMA PassingKeeps ==
    ASSUME IInv, ~DueNow, now' = now + 1, UNCHANGED <<rows, trips, to_exch, latest>>
    PROVE  IInv'
<1> DEFINE L == Len(to_exch)
<1>1. /\ RowsOK /\ now \in Nat \ {0} /\ to_exch \in Seq(Leg) /\ trips \in Seq(Trip) /\ L \in Nat
      /\ \A j \in 1..L : to_exch[j] \in Leg
      /\ \A n \in 1..Len(trips) : trips[n] \in Trip
  BY DEF IInv, Typed
<1>2. rows' = rows /\ trips' = trips /\ to_exch' = to_exch /\ latest' = latest
  OBVIOUS
<1>3. /\ Ways' = Ways /\ WaysBack' = WaysBack /\ WaysRound' = WaysRound
      /\ (RowsOK' <=> RowsOK)
  BY <1>2, SameRows
<1>4. Typed'
  BY <1>1, <1>2, <1>3 DEF IInv, Typed
<1>5. Past'
  <2> SUFFICES ASSUME NEW n \in 1..Len(trips)
               PROVE  /\ trips[n].asked \in 1..now'
                      /\ trips[n].reached <= now'
                      /\ trips[n].reached > 0 => trips[n].answered > 0
    BY <1>2 DEF Past
  <2>1. /\ trips[n].asked \in 1..now /\ trips[n].reached <= now
        /\ trips[n].reached > 0 => trips[n].answered > 0
    BY DEF IInv, Past
  <2>2. trips[n].reached \in Nat
    BY <1>1 DEF Trip
  <2> QED BY <1>1, <2>1, <2>2
<1>6. ASSUME NEW j \in 1..L PROVE to_exch[j].ts >= now'
  <2>1. 1 \in 1..L /\ to_exch # <<>> /\ Head(to_exch) = to_exch[1]
    BY <1>1
  <2>2. to_exch[1].ts # now
    BY <2>1 DEF DueNow
  <2>3. to_exch[1].ts \in Nat /\ to_exch[j].ts \in Nat /\ to_exch[1].ts >= now
    BY <1>1, <2>1 DEF IInv, OnTheWay, Leg
  <2>4. to_exch[1].ts <= to_exch[j].ts
    <3>1. CASE j = 1
      BY <2>3, <3>1
    <3>2. CASE j # 1
      <4>1. 1 < j
        BY <1>1, <3>2
      <4> QED BY <2>1, <4>1 DEF IInv, OnTheWay
    <3> QED BY <3>1, <3>2
  <2> QED BY <1>1, <2>2, <2>3, <2>4
<1>7. OnTheWay'
  BY <1>2, <1>3, <1>6 DEF IInv, OnTheWay
<1>8. LatestAnswers'
  BY <1>2 DEF IInv, LatestAnswers
<1>9. RejectionsKept'
  BY <1>2 DEF IInv, RejectionsKept, Beside
<1>10. TripsWithin'
  BY <1>2, <1>3 DEF IInv, TripsWithin, TripWithin
<1>11. LegsWithin'
  BY <1>2, <1>3 DEF IInv, LegsWithin, LegWithin, Arrives, Underway
<1>12. NoneOvertaken'
  BY <1>2 DEF IInv, NoneOvertaken, InOrder
<1>13. LegsInOrder'
  BY <1>2 DEF IInv, LegsInOrder, InOrder
<1> QED BY <1>4, <1>5, <1>7, <1>8, <1>9, <1>10, <1>11, <1>12, <1>13 DEF IInv

\* The invariant holds before the first request.
LEMMA InitKeeps ==
    Init => IInv
<1> SUFFICES ASSUME Init PROVE IInv
  OBVIOUS
<1>1. RowsOK
  BY RowsAreOK
<1>2. /\ now = 1 /\ trips = <<>> /\ to_exch = <<>> /\ latest = 0
      /\ Len(trips) = 0 /\ Len(to_exch) = 0 /\ DOMAIN trips = {}
      /\ trips \in Seq(Trip) /\ to_exch \in Seq(Leg)
  BY DEF Init
<1>3. Typed /\ Past /\ LatestAnswers
  BY <1>1, <1>2 DEF Typed, Past, LatestAnswers
<1>4. OnTheWay
  BY <1>2 DEF OnTheWay
<1>5. RejectionsKept /\ TripsWithin /\ NoneOvertaken
  BY <1>2 DEF RejectionsKept, TripsWithin, NoneOvertaken
<1>6. LegsWithin /\ LegsInOrder
  BY <1>2 DEF LegsWithin, Underway, LegsInOrder
<1> QED BY <1>3, <1>4, <1>5, <1>6 DEF IInv

\* A request, rejected or sent, preserves the invariant.
LEMMA RequestKeeps ==
    ASSUME IInv, Request
    PROVE  IInv'
<1>1. PICK lat \in Entry(rows, now) :
        LET back == Later(now - lat, latest)
            due == Later(now + lat, IF to_exch = <<>> THEN 0 ELSE Last(to_exch).ts)
        IN  IF lat < 0
            THEN /\ trips' = Append(trips, [asked |-> now, reached |-> 0, answered |-> back])
                 /\ latest' = back
                 /\ UNCHANGED to_exch
            ELSE /\ trips' = Append(trips, [asked |-> now, reached |-> 0, answered |-> 0])
                 /\ to_exch' = Append(to_exch, [trip |-> Len(trips) + 1, ts |-> due])
                 /\ UNCHANGED latest
  BY DEF Request
<1>2. UNCHANGED <<rows, now>>
  BY DEF Request
<1>3. lat \in Int /\ now \in Nat \ {0} /\ to_exch \in Seq(Leg)
  <2>1. RowsOK /\ now \in Nat \ {0} /\ to_exch \in Seq(Leg)
    BY DEF IInv, Typed
  <2>2. EntryFits(now, lat)
    BY <2>1, EntriesFit
  <2> QED BY <2>1, <2>2 DEF EntryFits
<1>4. CASE lat < 0
  BY <1>1, <1>2, <1>4, RejectedKeeps
<1>5. CASE ~(lat < 0)
  <2> DEFINE L == Len(to_exch)
             front == IF to_exch = <<>> THEN 0 ELSE Last(to_exch).ts
  <2>1. /\ front \in Nat
        /\ front # 0 => L # 0
        /\ L # 0 => front = to_exch[L].ts
    <3>1. CASE to_exch = <<>>
      BY <3>1
    <3>2. CASE to_exch # <<>>
      <4>1. L \in Nat /\ L # 0 /\ L \in 1..L /\ Last(to_exch) = to_exch[L]
        BY <1>3, <3>2 DEF Last
      <4>2. to_exch[L] \in Leg
        BY <1>3, <4>1
      <4> QED BY <3>2, <4>1, <4>2 DEF Leg
    <3> QED BY <3>1, <3>2
  <2> HIDE DEF front
  <2>2. PICK due : due = Later(now + lat, front)
    OBVIOUS
  <2>3. /\ trips' = Append(trips, [asked |-> now, reached |-> 0, answered |-> 0])
        /\ to_exch' = Append(to_exch, [trip |-> Len(trips) + 1, ts |-> due])
        /\ latest' = latest
    BY <1>1, <1>5, <2>2 DEF front
  <2>4. due \in Nat /\ IsDue(now + lat, due) /\ lat >= 0
    <3>1. \/ now + lat > front /\ due = now + lat
          \/ ~(now + lat > front) /\ due = front
      BY <2>2 DEF Later
    <3> QED BY <1>3, <1>5, <2>1, <3>1 DEF IsDue
  <2> QED BY <1>2, <2>3, <2>4, AcceptedKeeps
<1> QED BY <1>4, <1>5

\* An answer preserves the invariant.
LEMMA AnswersKeeps ==
    ASSUME IInv, Answers
    PROVE  IInv'
<1>1. /\ now \in Nat \ {0} /\ latest \in Nat /\ RowsOK /\ trips \in Seq(Trip)
      /\ to_exch \in Seq(Leg)
  BY DEF IInv, Typed
<1>2. to_exch # <<>> /\ Head(to_exch).ts = now
  BY DEF Answers, DueNow
<1>3. PICK lat \in Response(rows, now) :
        /\ latest' = Later(now + lat, latest)
        /\ trips' = [trips EXCEPT ![Head(to_exch).trip].reached = now,
                                  ![Head(to_exch).trip].answered = latest']
  BY DEF Answers
<1>4. to_exch' = Tail(to_exch) /\ rows' = rows /\ now' = now
  BY DEF Answers
<1>5. PICK h : h = Head(to_exch).trip
  OBVIOUS
<1>6. PICK back : back = Later(now + lat, latest)
  OBVIOUS
<1>7. lat \in Int /\ lat >= 0
  BY <1>1, ResponsesFit
<1>8. /\ back \in Nat /\ back > 0 /\ latest' = back
      /\ back = now + lat \/ (now + lat < back /\ back = latest)
  <2>1. \/ now + lat > latest /\ back = now + lat
        \/ ~(now + lat > latest) /\ back = latest
    BY <1>6 DEF Later
  <2>2. latest' = back
    BY <1>3, <1>6
  <2> QED BY <1>1, <1>7, <2>1, <2>2
<1>9. Len(to_exch) # 0 /\ to_exch[1].trip = h /\ to_exch[1].ts = now /\ 1 \in 1..Len(to_exch)
  BY <1>1, <1>2, <1>5
<1>10. h \in 1..Len(trips)
  BY <1>9 DEF IInv, OnTheWay
<1>11. trips' = [trips EXCEPT ![h].reached = now, ![h].answered = back]
  BY <1>3, <1>5, <1>8
<1>12. AnsweredAt(trips, trips', h, now, back)
  BY <1>1, <1>8, <1>10, <1>11, AnsweredTrips
<1> QED BY <1>4, <1>8, <1>9, <1>12, AnsweringKeeps

\* The invariant holds always.
LEMMA Invariance ==
    Spec => []IInv
<1>1. Init => IInv
  BY InitKeeps
<1>2. IInv /\ [Next]_vars => IInv'
  <2> SUFFICES ASSUME IInv, [Next]_vars PROVE IInv'
    OBVIOUS
  <2>1. CASE Request
    BY <2>1, RequestKeeps
  <2>2. CASE Answers
    BY <2>2, AnswersKeeps
  <2>3. CASE Passes
    BY <2>3, PassingKeeps DEF Passes
  <2>4. CASE UNCHANGED vars
    <3>1. rows' = rows /\ now' = now /\ trips' = trips /\ to_exch' = to_exch /\ latest' = latest
      BY <2>4 DEF vars
    <3>2. Ways' = Ways /\ WaysBack' = WaysBack /\ WaysRound' = WaysRound /\ (RowsOK' <=> RowsOK)
      BY <3>1, SameRows
    <3>3. Typed' /\ Past' /\ OnTheWay' /\ LatestAnswers'
      BY <3>1, <3>2 DEF IInv, Typed, Past, OnTheWay, LatestAnswers
    <3>4. RejectionsKept'
      BY <3>1 DEF IInv, RejectionsKept, Beside
    <3>5. TripsWithin' /\ LegsWithin'
      BY <3>1, <3>2 DEF IInv, TripsWithin, TripWithin, LegsWithin, LegWithin, Arrives, Underway
    <3>6. NoneOvertaken' /\ LegsInOrder'
      BY <3>1 DEF IInv, NoneOvertaken, LegsInOrder, InOrder
    <3> QED BY <3>3, <3>4, <3>5, <3>6 DEF IInv
  <2> QED BY <2>1, <2>2, <2>3, <2>4 DEF Next
<1> QED BY <1>1, <1>2, PTL DEF Spec

-----------------------------------------------------------------------------
(* The theorems.                                                            *)

\* A request is rejected by entry exactly when a recorded request beside it was, whatever the
\* recording and the offset: RejectionsKept, at any distance between the recorded moments.
THEOREM RejectedAsRecorded ==
    Spec => []RejectionsKept
<1>1. IInv => RejectionsKept
  BY DEF IInv
<1> QED BY <1>1, Invariance, PTL

\* On the way to the exchange, on the way back, and for a rejection on both, a message takes
\* no less than the shortest recorded time and no more than the longest, or it arrives with
\* one the bus holds it back for: WithinRecorded.
THEOREM NoFasterNoSlower ==
    Spec => []WithinRecorded
<1>1. IInv => WithinRecorded
  <2> SUFFICES ASSUME IInv PROVE WithinRecorded
    OBVIOUS
  <2>1. DOMAIN trips = 1..Len(trips)
    BY DEF IInv, Typed
  <2>2. \A n \in 1..Len(trips) : TripWithin(n)
    BY DEF IInv, TripsWithin
  <2> QED BY <2>1, <2>2 DEF TripWithin, WithinRecorded, Ways, WaysBack, WaysRound
<1> QED BY <1>1, Invariance, PTL

\* Where no recorded message overtook another, requests reach the exchange and answers reach
\* the strategy in the order of the requests, each after just the time entry and response
\* return, never held back by the monotonic bus: NoneOvertaken.
THEOREM FirstComeFirstServed ==
    Spec => []NoneOvertaken
<1>1. IInv => NoneOvertaken
  BY DEF IInv
<1> QED BY <1>1, Invariance, PTL

\* There, a request made when a recorded one was is answered as a recorded one was:
\* ReplaysRecording, the times in the recording being reproduced by the interpolation.
THEOREM RecordingsReplayed ==
    Spec => []ReplaysRecording
<1>1. IInv => ReplaysRecording
  <2> SUFFICES ASSUME IInv, InOrder, NEW n \in DOMAIN trips, Done(trips[n]),
                      NEW i \in DOMAIN rows, rows[i].req_ts = trips[n].asked
               PROVE  \E k, l \in DOMAIN rows :
                         /\ rows[k].req_ts = trips[n].asked
                         /\ rows[k].exch_ts = trips[n].reached
                         /\ rows[l].exch_ts = trips[n].reached
                         /\ rows[l].resp_ts = trips[n].answered
    BY DEF ReplaysRecording
  <2> DEFINE asked == trips[n].asked
             reached == trips[n].reached
             answered == trips[n].answered
  <2>1. /\ RowsOK /\ trips[n] \in Trip
    BY DEF IInv, Typed
  <2>2. asked \in Nat /\ reached \in Nat /\ answered \in Nat
    BY <2>1 DEF Trip
  <2>3. reached - asked \in Entry(rows, asked) /\ answered - reached \in Response(rows, reached)
    BY DEF IInv, NoneOvertaken
  <2>4. asked = rows[i].req_ts
    OBVIOUS
  <2> HIDE DEF asked, reached, answered
  <2>5. /\ Count \in Nat \ {0} /\ DOMAIN rows = 1..Count
        /\ Reqs \in [1..Count -> Int] /\ Exchs \in [1..Count -> Int] /\ Resps \in [1..Count -> Int]
        /\ \A a, b \in 1..Count : a <= b => Reqs[a] <= Reqs[b]
        /\ \A a, b \in 1..Count : a <= b => Exchs[a] <= Exchs[b]
    BY <2>1, RowFacts, InOrderFacts
  <2>6. \A a \in 1..Count : Reqs[a] = rows[a].req_ts /\ Exchs[a] = rows[a].exch_ts
                            /\ Resps[a] = rows[a].resp_ts
    BY DEF Reqs, Exchs, Resps
  <2>7. PICK k \in 1..Count : Reqs[k] = asked /\ Exchs[k] = reached
    <3> DEFINE v == reached - asked
    <3>1. v \in Ramp(Count, Reqs, Exchs, Reqs[i]) /\ i \in 1..Count /\ Reqs[i] = asked
      BY <2>1, <2>2, <2>3, <2>4, <2>5, <2>6, EntryIsRamp
    <3>2. asked + v = reached
      BY <2>2
    <3> HIDE DEF v
    <3>3. IsRecorded(Count, Reqs, Exchs, Reqs[i], v)
      BY <2>5, <3>1, RampRecorded
    <3> QED BY <3>1, <3>2, <3>3 DEF IsRecorded
  <2>8. PICK l \in 1..Count : Exchs[l] = reached /\ Resps[l] = answered
    <3> DEFINE v == answered - reached
    <3>1. v \in Ramp(Count, Exchs, Resps, Exchs[k]) /\ Exchs[k] = reached
      BY <2>1, <2>2, <2>3, <2>7, ResponseIsRamp
    <3>2. reached + v = answered
      BY <2>2
    <3> HIDE DEF v
    <3>3. IsRecorded(Count, Exchs, Resps, Exchs[k], v)
      BY <2>5, <3>1, RampRecorded
    <3> QED BY <3>1, <3>2, <3>3 DEF IsRecorded
  <2>9. k \in DOMAIN rows /\ rows[k].req_ts = asked /\ rows[k].exch_ts = reached
    BY <2>5, <2>6, <2>7
  <2>10. l \in DOMAIN rows /\ rows[l].exch_ts = reached /\ rows[l].resp_ts = answered
    BY <2>5, <2>6, <2>8
  <2> QED BY <2>9, <2>10, Zenon DEF asked, reached, answered
<1> QED BY <1>1, Invariance, PTL

=============================================================================
