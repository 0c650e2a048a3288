------------------------------ MODULE NatFacts ------------------------------
(***************************************************************************)
(* Facts about the naturals that the proofs about the modules rest on:     *)
(* quotient and remainder (nonce ranges, the periodic job check, the bytes *)
(* of a number), induction over a set of naturals, and functions defined   *)
(* by recursion on the naturals (the scratchpad, the powers of the base).  *)
(***************************************************************************)
EXTENDS Integers, Powers, WellFoundedInduction, TLAPS

-----------------------------------------------------------------------------
(* Quotient and remainder. *)

\* A product of naturals is a natural.
LEMMA MulNat == ASSUME NEW a \in Nat, NEW b \in Nat PROVE a * b \in Nat
  BY Z3

\* A remainder is smaller than the divisor.
LEMMA ModRange ==
  ASSUME NEW a \in Nat, NEW b \in Nat \ {0} PROVE a % b \in 0 .. b - 1
  BY Z3

\* A quotient is a natural.
LEMMA DivNat ==
  ASSUME NEW a \in Nat, NEW b \in Nat \ {0} PROVE a \div b \in Nat
  BY Z3

\* The division equation.
LEMMA DivMod ==
  ASSUME NEW a \in Nat, NEW b \in Nat \ {0}
  PROVE  a = b * (a \div b) + (a % b)
  BY Z3

\* Multiples of b are at least b apart.
LEMMA MulGap ==
  ASSUME NEW b \in Nat, NEW p \in Nat, NEW q \in Nat, p < q
  PROVE  b * p + b <= b * q
  <1>1. PICK d \in Nat : q = p + 1 + d
    <2>1. q - p - 1 \in Nat /\ q = p + 1 + (q - p - 1)  OBVIOUS
    <2> QED BY <2>1
  <1>2. b * q = b * p + b + b * d
    BY <1>1, Z3
  <1>3. b * d \in Nat /\ b * p \in Nat
    BY MulNat
  <1> QED BY <1>2, <1>3

\* Quotient and remainder are unique.
LEMMA DivUnique ==
  ASSUME NEW b \in Nat \ {0}, NEW q \in Nat, NEW r \in Nat, r < b,
         NEW p \in Nat, NEW s \in Nat, s < b, b * q + r = b * p + s
  PROVE  q = p /\ r = s
  <1>1. b * q \in Nat /\ b * p \in Nat
    BY MulNat
  <1>2. CASE p = q
    BY <1>1, <1>2
  <1>3. CASE p < q
    <2>1. b * p + b <= b * q
      BY <1>3, MulGap
    <2> QED BY <2>1, <1>1
  <1>4. CASE q < p
    <2>1. b * q + b <= b * p
      BY <1>4, MulGap
    <2> QED BY <2>1, <1>1
  <1> QED BY <1>2, <1>3, <1>4

\* The quotient of b * q + r is q.
LEMMA DivOf ==
  ASSUME NEW b \in Nat \ {0}, NEW q \in Nat, NEW r \in Nat, r < b
  PROVE  (b * q + r) \div b = q
  <1> DEFINE x == b * q + r
             p == x \div b
             s == x % b
  <1>1. x \in Nat
    BY MulNat
  <1>2. p \in Nat /\ s \in 0 .. b - 1 /\ x = b * p + s
    <2> HIDE DEF x
    <2> QED BY <1>1, DivNat, ModRange, DivMod
  <1>3. s \in Nat /\ s < b /\ b * q + r = b * p + s
    BY <1>2
  <1> HIDE DEF p, s
  <1>4. q = p
    BY <1>2, <1>3, DivUnique
  <1> QED BY <1>4 DEF p

\* Dividing twice is dividing by the product.
LEMMA DivDiv ==
  ASSUME NEW x \in Nat, NEW a \in Nat \ {0}, NEW b \in Nat \ {0}
  PROVE  (x \div a) \div b = x \div (a * b)
  <1> DEFINE q == x \div a
             r == x % a
             e == q \div b
             d == q % b
             ab == a * b
  <1>1. q \in Nat /\ r \in 0 .. a - 1 /\ x = a * q + r
    BY DivNat, ModRange, DivMod
  <1> HIDE DEF q, r
  <1>2. e \in Nat /\ d \in 0 .. b - 1 /\ q = b * e + d
    BY <1>1, DivNat, ModRange, DivMod
  <1> HIDE DEF e, d
  <1>3. ab \in Nat \ {0} /\ ab * e \in Nat /\ a * d \in Nat
    <2>1. ab \in Nat /\ a * d \in Nat
      BY <1>2, MulNat
    <2>2. ab # 0
      BY Z3
    <2> HIDE DEF ab
    <2> QED BY <1>2, <2>1, <2>2, MulNat
  <1>4. a * q = ab * e + a * d
    BY <1>1, <1>2, Z3
  <1>5. a * d + a <= ab
    BY <1>2, MulGap
  <1> HIDE DEF ab
  <1>6. a * d + r \in Nat /\ a * d + r < ab
    BY <1>1, <1>3, <1>5
  <1>7. x = ab * e + (a * d + r)
    BY <1>1, <1>3, <1>4
  <1>8. x \div ab = e
    BY <1>2, <1>3, <1>6, <1>7, DivOf
  <1> QED BY <1>8 DEF e, q, ab

\* The remainder of a successor: one more, or back at zero.
LEMMA ModNext ==
  ASSUME NEW a \in Nat, NEW b \in Nat \ {0}
  PROVE  (a + 1) % b = IF a % b = b - 1 THEN 0 ELSE (a % b) + 1
  <1> DEFINE q == a \div b
             r == a % b
             p == (a + 1) \div b
             s == (a + 1) % b
  <1>1. q \in Nat /\ r \in 0 .. b - 1 /\ a = b * q + r
    BY DivNat, ModRange, DivMod
  <1>2. p \in Nat /\ s \in 0 .. b - 1 /\ a + 1 = b * p + s
    <2>1. a + 1 \in Nat
      OBVIOUS
    <2> QED BY <2>1, DivNat, ModRange, DivMod
  <1> HIDE DEF q, r, p, s
  <1>3. b * q \in Nat /\ b * p \in Nat
    BY MulNat, <1>1, <1>2
  <1>4. CASE r = b - 1
    <2>1. b * (q + 1) = b * q + b
      BY <1>1, Z3
    <2>2. b * (q + 1) + 0 = b * p + s
      BY <2>1, <1>1, <1>2, <1>3, <1>4
    <2>3. 0 = s
      BY <2>2, DivUnique, <1>1, <1>2
    <2> QED BY <2>3, <1>4 DEF r, s
  <1>5. CASE r # b - 1
    <2>1. r + 1 \in Nat /\ r + 1 < b
      BY <1>1, <1>5
    <2>2. b * q + (r + 1) = b * p + s
      BY <1>1, <1>2, <1>3
    <2>3. r + 1 = s
      BY <2>1, <2>2, DivUnique, <1>1, <1>2
    <2> QED BY <2>3, <1>5 DEF r, s
  <1> QED BY <1>4, <1>5

-----------------------------------------------------------------------------
(* Induction, over a set rather than a predicate. *)

\* Every set of naturals that is not empty has a least one.
LEMMA LeastNat ==
  ASSUME NEW T \in SUBSET Nat, T # {}
  PROVE  \E x \in T : \A y \in T : x <= y
  <1> DEFINE R == {ss \in Nat \X Nat : ss[1] < ss[2]}
  <1>1. IsWellFoundedOn(R, Nat)
    BY NatLessThanWellFounded DEF OpToRel
  <1>2. PICK x \in T : \A y \in T : ~(<<y, x>> \in R)
    <2> HIDE DEF R
    <2> QED BY <1>1, WFMin
  <1>3. \A y \in T : ~(y < x)
    <2> TAKE y \in T
    <2>1. x \in Nat /\ y \in Nat
      OBVIOUS
    <2> QED BY <1>2, <2>1
  <1>4. \A y \in T : x <= y
    <2> TAKE y \in T
    <2>1. x \in Nat /\ y \in Nat
      OBVIOUS
    <2> QED BY <1>3, <2>1
  <1> QED BY <1>4

\* Every set of naturals that has a bound, and is not empty, has a greatest one.
LEMMA GreatestNat ==
  ASSUME NEW n \in Nat, NEW T \in SUBSET (0 .. n), T # {}
  PROVE  \E x \in T : \A y \in T : y <= x
  <1> DEFINE U == {k \in Nat : n - k \in T}
  <1>1. U # {}
    <2>1. PICK y \in T : TRUE
      OBVIOUS
    <2>2. n - y \in Nat /\ n - (n - y) = y
      OBVIOUS
    <2> QED BY <2>1, <2>2
  <1>2. PICK k \in U : \A j \in U : k <= j
    <2>1. U \in SUBSET Nat
      OBVIOUS
    <2> HIDE DEF U
    <2> QED BY <1>1, <2>1, LeastNat
  <1>3. ASSUME NEW y \in T PROVE y <= n - k
    <2>1. y \in Nat /\ n - y \in Nat /\ n - (n - y) = y
      OBVIOUS
    <2>2. n - y \in U
      BY <2>1
    <2>3. k <= n - y /\ k \in Nat
      BY <1>2, <2>2
    <2> QED BY <2>1, <2>3
  <1>4. n - k \in T
    BY <1>2
  <1> QED BY <1>3, <1>4

\* A set with 0 and with the successor of each of its naturals has them all.
LEMMA SetInduction ==
  ASSUME NEW T, 0 \in T, \A n \in Nat : n \in T => n + 1 \in T
  PROVE  Nat \subseteq T
  <1> SUFFICES ASSUME Nat \ T # {} PROVE FALSE
    OBVIOUS
  <1>1. PICK x \in Nat \ T : \A y \in Nat \ T : x <= y
    <2>1. Nat \ T \in SUBSET Nat
      OBVIOUS
    <2> QED BY <2>1, LeastNat
  <1>2. x - 1 \in Nat
    BY <1>1
  <1>3. x - 1 \in T
    BY <1>1, <1>2
  <1> QED BY <1>1, <1>2, <1>3

-----------------------------------------------------------------------------
(* Recursion. *)

\* The functions that begin with init and go on with step, up to k.
Course(D, init, step, k) ==
  {f \in [0 .. k -> D] : f[0] = init /\ \A i \in 1 .. k : f[i] = step[i][f[i - 1]]}

\* There is one up to every k.
LEMMA CourseExists ==
  ASSUME NEW D, NEW init \in D, NEW step, NEW k \in Nat,
         \A i \in 1 .. k, x \in D : step[i][x] \in D
  PROVE  Course(D, init, step, k) # {}
  <1> DEFINE T == {n \in Nat : n <= k => Course(D, init, step, n) # {}}
  <1>1. 0 \in T
    <2>1. [i \in 0 .. 0 |-> init] \in Course(D, init, step, 0)
      BY DEF Course
    <2> QED BY <2>1
  <1>2. ASSUME NEW n \in Nat, n \in T PROVE n + 1 \in T
    <2> SUFFICES ASSUME n + 1 <= k PROVE Course(D, init, step, n + 1) # {}
      OBVIOUS
    <2>1. PICK f : f \in Course(D, init, step, n)
      BY <1>2
    <2> DEFINE g == [i \in 0 .. n + 1 |-> IF i = n + 1 THEN step[n + 1][f[n]] ELSE f[i]]
    <2>2. f \in [0 .. n -> D] /\ f[0] = init /\ \A i \in 1 .. n : f[i] = step[i][f[i - 1]]
      BY <2>1 DEF Course
    <2>3. n + 1 \in 1 .. k /\ f[n] \in D
      BY <2>2
    <2>4. step[n + 1][f[n]] \in D
      BY <2>3
    <2>5. g \in [0 .. n + 1 -> D]
      <3>1. ASSUME NEW i \in 0 .. n + 1, i # n + 1 PROVE f[i] \in D
        BY <2>2, <3>1
      <3> QED BY <2>4, <3>1
    <2>6. g[0] = init
      BY <2>2
    <2>7. ASSUME NEW i \in 1 .. n + 1 PROVE g[i] = step[i][g[i - 1]]
      <3>1. CASE i = n + 1
        BY <3>1
      <3>2. CASE i # n + 1
        <4>1. i \in 1 .. n /\ i \in 0 .. n + 1 /\ i - 1 \in 0 .. n + 1 /\ i - 1 # n + 1
          BY <3>2
        <4> QED BY <2>2, <3>2, <4>1
      <3> QED BY <3>1, <3>2
    <2>8. g \in Course(D, init, step, n + 1)
      <3> HIDE DEF g
      <3> QED BY <2>5, <2>6, <2>7 DEF Course
    <2> QED BY <2>8
  <1>3. Nat \subseteq T
    <2> HIDE DEF T
    <2> QED BY <1>1, <1>2, SetInduction
  <1>4. k \in T
    BY <1>3
  <1> QED BY <1>4

\* Two of them agree as far as both go.
LEMMA CourseUnique ==
  ASSUME NEW D, NEW init, NEW step, NEW k \in Nat, NEW l \in Nat,
         NEW f \in Course(D, init, step, k), NEW g \in Course(D, init, step, l)
  PROVE  \A n \in Nat : n <= k /\ n <= l => f[n] = g[n]
  <1> DEFINE T == {n \in Nat : n <= k /\ n <= l => f[n] = g[n]}
  <1>1. 0 \in T
    BY DEF Course
  <1>2. ASSUME NEW n \in Nat, n \in T PROVE n + 1 \in T
    <2> SUFFICES ASSUME n + 1 <= k, n + 1 <= l PROVE f[n + 1] = g[n + 1]
      OBVIOUS
    <2>1. f[n] = g[n]
      BY <1>2
    <2>2. n + 1 \in 1 .. k /\ n + 1 \in 1 .. l /\ (n + 1) - 1 = n
      OBVIOUS
    <2>3. f[n + 1] = step[n + 1][f[(n + 1) - 1]] /\ g[n + 1] = step[n + 1][g[(n + 1) - 1]]
      BY <2>2 DEF Course
    <2> QED BY <2>1, <2>2, <2>3
  <1>3. Nat \subseteq T
    <2> HIDE DEF T
    <2> QED BY <1>1, <1>2, SetInduction
  <1> QED BY <1>3

\* The functions that go on for ever.
Recursion(D, init, step) ==
  {f \in [Nat -> D] : f[0] = init /\ \A i \in Nat \ {0} : f[i] = step[i][f[i - 1]]}

\* There is one of them too.
LEMMA RecursionExists ==
  ASSUME NEW D, NEW init \in D, NEW step,
         \A i \in Nat \ {0}, x \in D : step[i][x] \in D
  PROVE  Recursion(D, init, step) # {}
  <1> DEFINE c(k) == CHOOSE f : f \in Course(D, init, step, k)
             h    == [n \in Nat |-> c(n)[n]]
  <1>1. ASSUME NEW k \in Nat PROVE c(k) \in Course(D, init, step, k)
    <2>1. \A i \in 1 .. k, x \in D : step[i][x] \in D
      OBVIOUS
    <2>2. Course(D, init, step, k) # {}
      BY <2>1, CourseExists
    <2> QED BY <2>2
  <1> HIDE DEF c
  <1>2. h \in [Nat -> D]
    <2>1. ASSUME NEW n \in Nat PROVE c(n)[n] \in D
      BY <1>1 DEF Course
    <2> QED BY <2>1
  <1>3. h[0] = init
    BY <1>1 DEF Course
  <1>4. ASSUME NEW i \in Nat \ {0} PROVE h[i] = step[i][h[i - 1]]
    <2>1. i - 1 \in Nat /\ i \in 1 .. i /\ i - 1 <= i
      OBVIOUS
    <2>2. c(i)[i] = step[i][c(i)[i - 1]]
      BY <1>1, <2>1 DEF Course
    <2>3. c(i)[i - 1] = c(i - 1)[i - 1]
      BY <1>1, <2>1, CourseUnique
    <2> QED BY <2>1, <2>2, <2>3
  <1> HIDE DEF h
  <1>5. h \in Recursion(D, init, step)
    BY <1>2, <1>3, <1>4 DEF Recursion
  <1> QED BY <1>5

-----------------------------------------------------------------------------
(* Powers and places. *)

\* The recursion has a solution, so that powers are what it says.
LEMMA PowSteps ==
  ASSUME NEW b \in Nat
  PROVE  /\ Pow(b, 0) = 1
         /\ \A n \in Nat : Pow(b, n) \in Nat /\ Pow(b, n + 1) = b * Pow(b, n)
  <1> DEFINE Rhs(q) == [k \in Nat |-> IF k = 0 THEN 1 ELSE b * q[k - 1]]
             step   == [i \in Nat |-> [x \in Nat |-> b * x]]
             p      == CHOOSE q : q = Rhs(q)
  <1>1. \A i \in Nat \ {0}, x \in Nat : step[i][x] = b * x /\ step[i][x] \in Nat
    BY MulNat
  <1>2. PICK f \in [Nat -> Nat] : f[0] = 1 /\ \A i \in Nat \ {0} : f[i] = step[i][f[i - 1]]
    <2>1. \A i \in Nat \ {0}, x \in Nat : step[i][x] \in Nat
      BY <1>1
    <2> HIDE DEF step
    <2>2. Recursion(Nat, 1, step) # {}
      BY <2>1, RecursionExists
    <2> QED BY <2>2 DEF Recursion
  <1>3. f = Rhs(f)
    <2>1. ASSUME NEW k \in Nat PROVE f[k] = Rhs(f)[k]
      <3>1. CASE k = 0
        BY <1>2, <3>1
      <3>2. CASE k # 0
        <4>1. k \in Nat \ {0} /\ k - 1 \in Nat
          BY <3>2
        <4>2. f[k - 1] \in Nat
          BY <4>1
        <4>3. f[k] = b * f[k - 1]
          <5> HIDE DEF step
          <5> QED BY <1>1, <1>2, <4>1, <4>2
        <4> QED BY <3>2, <4>3
      <3> QED BY <3>1, <3>2
    <2>2. f = [k \in Nat |-> f[k]]
      OBVIOUS
    <2> QED BY <2>1, <2>2
  <1>4. p = Rhs(p)
    BY <1>3
  <1>5. p[0] = 1 /\ \A k \in Nat : p[k + 1] = b * p[k]
    <2>1. \A k \in Nat : p[k] = Rhs(p)[k]
      BY <1>4
    <2> HIDE DEF p
    <2>2. \A k \in Nat : k + 1 \in Nat /\ k + 1 # 0 /\ (k + 1) - 1 = k
      OBVIOUS
    <2> QED BY <2>1, <2>2
  <1>6. \A n \in Nat : Pow(b, n) = p[n]
    BY DEF Pow
  <1> HIDE DEF p
  <1> DEFINE T == {n \in Nat : p[n] \in Nat}
  <1>7. 0 \in T
    BY <1>5
  <1>8. ASSUME NEW n \in Nat, n \in T PROVE n + 1 \in T
    <2>1. b * p[n] \in Nat
      BY <1>8, MulNat
    <2> QED BY <1>5, <2>1
  <1>9. Nat \subseteq T
    <2> HIDE DEF T
    <2> QED BY <1>7, <1>8, SetInduction
  <1> QED BY <1>5, <1>6, <1>9

\* Powers are positive,
LEMMA PowPositive ==
  ASSUME NEW b \in Nat \ {0}, NEW n \in Nat
  PROVE  Pow(b, n) \in Nat \ {0}
  <1> DEFINE T == {k \in Nat : Pow(b, k) # 0}
  <1>1. 0 \in T
    BY PowSteps
  <1>2. ASSUME NEW k \in Nat, k \in T PROVE k + 1 \in T
    <2>1. Pow(b, k) \in Nat \ {0} /\ Pow(b, k + 1) = b * Pow(b, k)
      BY <1>2, PowSteps
    <2>2. \A x \in Nat \ {0} : b * x # 0
      BY Z3
    <2> QED BY <2>1, <2>2
  <1>3. Nat \subseteq T
    <2> HIDE DEF T
    <2> QED BY <1>1, <1>2, SetInduction
  <1> QED BY <1>3, PowSteps

\* do not fall with the exponent,
LEMMA PowMonotone ==
  ASSUME NEW b \in Nat \ {0}, NEW m \in Nat, NEW n \in Nat, m <= n
  PROVE  Pow(b, m) <= Pow(b, n)
  <1> DEFINE T == {k \in Nat : Pow(b, m) <= Pow(b, m + k)}
  <1>1. 0 \in T
    <2>1. m + 0 = m /\ Pow(b, m) \in Nat
      BY PowSteps
    <2> QED BY <2>1
  <1>2. ASSUME NEW k \in Nat, k \in T PROVE k + 1 \in T
    <2>1. /\ Pow(b, m + k) \in Nat \ {0} /\ Pow(b, m) \in Nat
          /\ Pow(b, (m + k) + 1) = b * Pow(b, m + k) /\ m + (k + 1) = (m + k) + 1
      <3>1. m + k \in Nat /\ m + (k + 1) = (m + k) + 1
        OBVIOUS
      <3> QED BY <3>1, PowSteps, PowPositive
    <2>2. \A x \in Nat \ {0} : x <= b * x /\ b * x \in Nat
      BY Z3
    <2>3. Pow(b, m) <= Pow(b, m + k)
      BY <1>2
    <2> DEFINE u == Pow(b, m)
               v == Pow(b, m + k)
               w == Pow(b, m + (k + 1))
    <2>4. u \in Nat /\ v \in Nat /\ w \in Nat /\ u <= v /\ v <= w
      BY <2>1, <2>2, <2>3
    <2> HIDE DEF u, v, w
    <2>5. u <= w
      BY <2>4
    <2> QED BY <2>5 DEF u, w
  <1>3. Nat \subseteq T
    <2> HIDE DEF T
    <2> QED BY <1>1, <1>2, SetInduction
  <1>4. n - m \in Nat /\ m + (n - m) = n
    OBVIOUS
  <1> QED BY <1>3, <1>4

\* and outgrow it.
LEMMA PowGrows ==
  ASSUME NEW b \in Nat, b >= 2, NEW n \in Nat
  PROVE  n < Pow(b, n)
  <1> DEFINE T == {k \in Nat : k < Pow(b, k)}
  <1>1. 0 \in T
    BY PowSteps
  <1>2. ASSUME NEW k \in Nat, k \in T PROVE k + 1 \in T
    <2>1. /\ Pow(b, k) \in Nat /\ k < Pow(b, k)
          /\ Pow(b, k + 1) = b * Pow(b, k)
      BY <1>2, PowSteps
    <2>2. \A x \in Nat : k < x => k + 1 < b * x
      <3> SUFFICES ASSUME NEW x \in Nat, k < x PROVE k + 1 < b * x
        OBVIOUS
      <3>1. PICK c \in Nat : b = 2 + c
        <4>1. b - 2 \in Nat /\ b = 2 + (b - 2)
          OBVIOUS
        <4> QED BY <4>1
      <3>2. b * x = x + x + c * x
        BY <3>1, Z3
      <3>3. c * x \in Nat
        BY MulNat
      <3> QED BY <3>2, <3>3
    <2> QED BY <2>1, <2>2
  <1>3. Nat \subseteq T
    <2> HIDE DEF T
    <2> QED BY <1>1, <1>2, SetInduction
  <1> QED BY <1>3

\* The remainder by a power is that by the power below and the digit there.
LEMMA ModPowNext ==
  ASSUME NEW b \in Nat \ {0}, NEW x \in Nat, NEW n \in Nat
  PROVE  x % Pow(b, n + 1) = (x % Pow(b, n)) + Pow(b, n) * ((x \div Pow(b, n)) % b)
  <1> DEFINE p == Pow(b, n)
             q == x \div p
             r == x % p
             d == q % b
             e == q \div b
  <1>1. p \in Nat \ {0} /\ Pow(b, n + 1) = b * p
    BY PowPositive, PowSteps
  <1> HIDE DEF p
  <1>2. q \in Nat /\ r \in 0 .. p - 1 /\ x = p * q + r
    BY <1>1, DivNat, ModRange, DivMod
  <1> HIDE DEF q, r
  <1>3. d \in 0 .. b - 1 /\ e \in Nat /\ q = b * e + d
    BY <1>2, DivNat, ModRange, DivMod
  <1> HIDE DEF d, e
  <1>4. /\ p * q = (b * p) * e + p * d
        /\ b * p \in Nat \ {0} /\ (b * p) * e \in Nat /\ p * d \in Nat
    <2>1. b * p \in Nat /\ p * d \in Nat
      BY <1>1, <1>3, MulNat
    <2>2. (b * p) * e \in Nat
      BY <1>3, <2>1, MulNat
    <2>3. b * p # 0
      BY <1>1, Z3
    <2>4. p * q = (b * p) * e + p * d
      BY <1>1, <1>2, <1>3, Z3
    <2> QED BY <2>1, <2>2, <2>3, <2>4
  <1>5. p * d + p <= b * p
    <2>1. p * d + p <= p * b
      BY <1>1, <1>3, MulGap
    <2>2. p * b = b * p
      BY <1>1, Z3
    <2> QED BY <2>1, <2>2
  <1>6. p * d + r \in Nat /\ p * d + r < b * p
    BY <1>1, <1>2, <1>4, <1>5
  <1>7. x = (b * p) * e + (p * d + r)
    <2> DEFINE pq == p * q
               pd == p * d
               be == (b * p) * e
    <2>1. x = pq + r /\ pq = be + pd /\ r \in Nat /\ be \in Nat /\ pd \in Nat
      BY <1>2, <1>4
    <2> HIDE DEF pq, pd, be
    <2>2. x = be + (pd + r)
      BY <2>1
    <2> QED BY <2>2 DEF pd, be
  <1>8. x % (b * p) = p * d + r
    <2>1. /\ x \div (b * p) \in Nat /\ x % (b * p) \in 0 .. (b * p) - 1
          /\ x = (b * p) * (x \div (b * p)) + (x % (b * p))
      BY <1>4, DivNat, ModRange, DivMod
    <2> DEFINE bp == b * p
               xq == x \div bp
               xr == x % bp
    <2>2. /\ bp \in Nat \ {0} /\ xq \in Nat /\ xr \in Nat /\ xr < bp
          /\ bp * xq + xr = bp * e + (p * d + r)
      BY <1>4, <1>7, <2>1
    <2>3. p * d + r \in Nat /\ p * d + r < bp
      BY <1>6
    <2> HIDE DEF bp, xq, xr
    <2>4. xr = p * d + r
      BY <1>3, <2>2, <2>3, DivUnique
    <2> QED BY <2>4 DEF bp, xr
  <1>9. x % Pow(b, n + 1) = r + p * d
    BY <1>1, <1>2, <1>4, <1>8
  <1> QED BY <1>9 DEF p, q, r, d

\* What is smaller than a power is its own remainder.
LEMMA ModSmall ==
  ASSUME NEW x \in Nat, NEW m \in Nat, x < m
  PROVE  x % m = x
  BY Z3
=============================================================================
