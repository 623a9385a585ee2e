----------------------------- MODULE TimersProofs -----------------------------
(***************************************************************************)
(* Proofs about the calendar queue and the timers on it, for any number of *)
(* timers, any delays, widths and bounds: the calendar implements the      *)
(* event queue.                                                            *)
(***************************************************************************)
EXTENDS Timers, SequenceLemmas

-----------------------------------------------------------------------------
(* Pages and years.                                                        *)

(* Dividing a number.                                                      *)
LEMMA DivFacts ==
  ASSUME NEW t \in Nat, NEW w \in Nat \ {0}
  PROVE  /\ t \div w \in Nat /\ t % w \in 0 .. w - 1
         /\ t = w * (t \div w) + (t % w)
         /\ w * (t \div w) <= t /\ t < w * (t \div w) + w
  OBVIOUS

(* A step in a factor is at least a whole step in the product.             *)
LEMMA StepFacts ==
  ASSUME NEW a \in Int, NEW b \in Int, NEW w \in Nat, a < b
  PROVE  w * a + w <= w * b
  OBVIOUS

(* The quotient and the remainder are the only ones.                       *)
LEMMA ModUnique ==
  ASSUME NEW n \in Nat \ {0}, NEW q \in Nat, NEW r \in 0 .. n - 1
  PROVE  (n * q + r) % n = r
<1> DEFINE m == n * q + r
           p == m \div n
           s == m % n
<1>1. m \in Nat
  OBVIOUS
<1>2. p \in Nat /\ s \in 0 .. n - 1 /\ m = n * p + s
  BY <1>1, DivFacts
<1>3. n * q + r = n * p + s
  BY <1>2
<1> HIDE DEF p, s, m
<1>4. ~(p < q)
  <2>1. SUFFICES ASSUME p < q PROVE FALSE
    OBVIOUS
  <2>2. n * p + n <= n * q
    BY <1>2, <2>1, StepFacts
  <2>3. n * p \in Nat /\ n * q \in Nat
    BY <1>2
  <2> QED
    BY <1>2, <1>3, <2>2, <2>3
<1>5. ~(q < p)
  <2>1. SUFFICES ASSUME q < p PROVE FALSE
    OBVIOUS
  <2>2. n * q + n <= n * p
    BY <1>2, <2>1, StepFacts
  <2>3. n * p \in Nat /\ n * q \in Nat
    BY <1>2
  <2> QED
    BY <1>2, <1>3, <2>2, <2>3
<1>6. p = q
  BY <1>2, <1>4, <1>5
<1>7. n * p = n * q /\ n * q \in Nat
  BY <1>6
<1>8. s = r
  BY <1>2, <1>3, <1>7
<1> QED
  BY <1>8 DEF s, m

(* Counting on from a remainder is counting on from the number.            *)
LEMMA ModAdd ==
  ASSUME NEW n \in Nat \ {0}, NEW a \in Nat, NEW k \in Nat
  PROVE  ((a % n) + k) % n = (a + k) % n
<1> DEFINE b == (a % n) + k
           p == b \div n
           r == b % n
           d == a \div n
<1>1. /\ a % n \in Nat /\ d \in Nat /\ a = n * d + (a % n)
  BY DivFacts
<1>2. b \in Nat
  BY <1>1
<1>3. p \in Nat /\ r \in 0 .. n - 1 /\ b = n * p + r
  BY <1>2, DivFacts
<1>4. a + k = n * d + b
  BY <1>1
<1> HIDE DEF b, p, r, d
<1>5. n * d + n * p = n * (d + p) /\ n * d \in Nat /\ n * p \in Nat /\ d + p \in Nat
  BY <1>1, <1>3
<1>6. a + k = n * (d + p) + r
  BY <1>3, <1>4, <1>5
<1>7. (a + k) % n = r
  BY <1>3, <1>5, <1>6, ModUnique
<1> QED
  BY <1>7 DEF r, b

(* The same page is reached after as many pages, or whole years later.     *)
LEMMA SamePage ==
  ASSUME NEW n \in Nat \ {0}, NEW a \in Nat, NEW k \in 0 .. n - 1, NEW d \in Nat,
         (a + k) % n = (a + d) % n
  PROVE  d = k \/ d >= n + k
<1> DEFINE r == (a + k) % n
           x == (a + k) \div n
           y == (a + d) \div n
<1>1. a + k \in Nat /\ a + d \in Nat
  OBVIOUS
<1>2. x \in Nat /\ y \in Nat /\ r \in 0 .. n - 1 /\ a + k = n * x + r
  BY <1>1, DivFacts
<1>3. a + d = n * y + r
  BY <1>1, DivFacts
<1> HIDE DEF r, x, y
<1>4. n * x \in Nat /\ n * y \in Nat
  BY <1>2
<1>5. CASE x = y
  BY <1>2, <1>3, <1>4, <1>5
<1>6. CASE x < y
  <2>1. n * x + n <= n * y
    BY <1>2, <1>6, StepFacts
  <2> QED
    BY <1>2, <1>3, <1>4, <2>1
<1>7. CASE y < x
  <2>1. n * y + n <= n * x
    BY <1>2, <1>7, StepFacts
  <2> QED
    BY <1>2, <1>3, <1>4, <2>1
<1> QED
  BY <1>2, <1>5, <1>6, <1>7

(* The search comes to every page.                                         *)
LEMMA EveryPage ==
  ASSUME NEW n \in Nat \ {0}, NEW l \in 0 .. n - 1, NEW i \in 0 .. n - 1
  PROVE  \E k \in 0 .. n - 1 : (l + k) % n = i
<1>1. CASE l <= i
  <2>1. i - l \in 0 .. n - 1 /\ l + (i - l) = n * 0 + i
    BY <1>1
  <2>2. (n * 0 + i) % n = i
    BY ModUnique
  <2> QED
    BY <2>1, <2>2
<1>2. CASE i < l
  <2>1. i + n - l \in 0 .. n - 1 /\ l + (i + n - l) = n * 1 + i
    BY <1>2
  <2>2. (n * 1 + i) % n = i
    BY ModUnique
  <2> QED
    BY <2>1, <2>2
<1> QED
  BY <1>1, <1>2

(* diff0_, diff1_ and diff2_.                                              *)
Limit(w, n, k) ==
  CASE k = 0 -> (w * n) \div 2
    [] k = 1 -> (w * n) \div 2 + w
    [] OTHER -> w * n

(* What the k-th page from that of now on says of a time t on it: it is of *)
(* that day or of the same day of a later year, and within the limit       *)
(* exactly if it is of that day, but for the last page.                    *)
InYear(w, n, k, now, t) ==
  /\ t \div w = (now \div w) + k \/ t \div w >= (now \div w) + n + k
  /\ t \div w = (now \div w) + k /\ k < n - 1 => t - now < Limit(w, n, k)
  /\ t - now < Limit(w, n, k) => t \div w = (now \div w) + k

LEMMA YearFacts ==
  ASSUME NEW w \in Nat \ {0}, NEW n \in Nat, n >= 4, NEW k \in 0 .. n - 1,
         NEW now \in Nat, NEW t \in Nat, now <= t,
         (((now \div w) % n) + k) % n = (t \div w) % n
  PROVE  InYear(w, n, k, now, t)
<1> DEFINE a == now \div w
           b == t \div w
           d == b - a
           h == (w * n) \div 2
<1>1. /\ a \in Nat /\ b \in Nat
      /\ w * a <= now /\ now < w * a + w
      /\ w * b <= t /\ t < w * b + w
  BY DivFacts
<1>2. ((a % n) + k) % n = b % n
  OBVIOUS
<1> HIDE DEF a, b
<1>3. w * a \in Nat /\ w * b \in Nat /\ w * n \in Nat
  BY <1>1
<1>4. ~(b < a)
  <2>1. SUFFICES ASSUME b < a PROVE FALSE
    OBVIOUS
  <2>2. w * b + w <= w * a
    BY <1>1, <2>1, StepFacts
  <2> QED
    BY <1>1, <1>3, <2>2
<1>5. d \in Nat /\ b = a + d
  BY <1>1, <1>4
<1> HIDE DEF d
<1>6. d = k \/ d >= n + k
  <2>0. n \in Nat \ {0} /\ k \in Nat
    OBVIOUS
  <2>1. ((a % n) + k) % n = (a + k) % n
    BY <1>1, <2>0, ModAdd, Zenon
  <2>2. (a + k) % n = (a + d) % n
    <3>1. ((a % n) + k) % n = (a + d) % n
      BY <1>2, <1>5, Zenon
    <3> QED
      BY <2>1, <3>1, Zenon
  <2> QED
    BY <1>1, <1>5, <2>0, <2>2, SamePage, Zenon
<1>7. w * b = w * a + w * d /\ w * d \in Nat
  BY <1>1, <1>5
<1>8. t - now < w * d + w /\ w * d < t - now + w
  BY <1>1, <1>3, <1>7
<1>9. h \in Nat /\ 2 * h <= w * n /\ w * n <= 2 * h + 1
  <2> DEFINE m == w * n
  <2>1. m \in Nat
    BY <1>3
  <2> HIDE DEF m
  <2>2. m \div 2 \in Nat /\ 2 * (m \div 2) <= m /\ m <= 2 * (m \div 2) + 1
    BY <2>1, DivFacts
  <2> QED
    BY <2>2 DEF m
<1>10. w * 4 <= w * n
  BY StepFacts
<1> HIDE DEF h
<1>11. ASSUME d = k, k < n - 1 PROVE t - now < Limit(w, n, k)
  <2>1. CASE k = 0
    <3>1. w * d = 0 /\ Limit(w, n, k) = h
      BY <1>11, <2>1 DEF Limit, h
    <3> QED
      BY <1>8, <1>9, <1>10, <1>3, <3>1
  <2>2. CASE k = 1
    <3>1. w * d = w /\ Limit(w, n, k) = h + w
      BY <1>11, <2>2 DEF Limit, h
    <3> QED
      BY <1>8, <1>9, <1>10, <1>3, <3>1
  <2>3. CASE k > 1
    <3>1. Limit(w, n, k) = w * n
      BY <2>3 DEF Limit
    <3>2. w * d + w <= w * n
      BY <1>11, <1>5, StepFacts
    <3> QED
      BY <1>3, <1>7, <1>8, <3>1, <3>2
  <2> QED
    BY <2>1, <2>2, <2>3
<1>12. ASSUME d >= n + k PROVE ~(t - now < Limit(w, n, k))
  <2>1. CASE k = 0
    <3>1. Limit(w, n, k) = h
      BY <2>1 DEF Limit, h
    <3>2. w * n <= w * d
      <4>1. n = d \/ n < d
        BY <1>5, <1>12, <2>1
      <4> QED
        BY <1>5, <1>3, <1>7, <4>1, StepFacts
    <3> QED
      BY <1>8, <1>9, <1>10, <1>3, <1>7, <3>1, <3>2
  <2>2. CASE k = 1
    <3>1. Limit(w, n, k) = h + w
      BY <2>2 DEF Limit, h
    <3>2. w * n + w <= w * d
      <4>1. n < d
        BY <1>5, <1>12, <2>2
      <4> QED
        BY <1>5, <4>1, StepFacts
    <3> QED
      BY <1>8, <1>9, <1>10, <1>3, <1>7, <3>1, <3>2
  <2>3. CASE k > 1
    <3>1. Limit(w, n, k) = w * n
      BY <2>3 DEF Limit
    <3>2. w * n + w <= w * d
      <4>1. n < d
        BY <1>5, <1>12, <2>3
      <4> QED
        BY <1>5, <4>1, StepFacts
    <3> QED
      BY <1>8, <1>3, <1>7, <3>1, <3>2
  <2> QED
    BY <2>1, <2>2, <2>3
<1>13. /\ b = a + k \/ b >= a + n + k
       /\ b = a + k /\ k < n - 1 => t - now < Limit(w, n, k)
       /\ t - now < Limit(w, n, k) => b = a + k
  BY <1>1, <1>5, <1>6, <1>11, <1>12
<1> QED
  BY <1>13 DEF a, b, InYear

-----------------------------------------------------------------------------
(* The order of a list.                                                    *)

(* y is somewhere before z.                                                *)
Order(s, y, z) == \E j, k \in DOMAIN s : j < k /\ s[j] = y /\ s[k] = z

(* Where the j-th element is when one was put in at place i.               *)
Shift(j, i) == IF j < i THEN j ELSE j + 1

LEMMA ShiftFacts ==
  ASSUME NEW n \in Nat, NEW i \in 1 .. n + 1
  PROVE  /\ \A j \in 1 .. n : /\ Shift(j, i) \in 1 .. n + 1
                              /\ Shift(j, i) # i
                              /\ Shift(j, i) < i <=> j < i
         /\ \A j, k \in 1 .. n : /\ j < k <=> Shift(j, i) < Shift(k, i)
                                 /\ j = k <=> Shift(j, i) = Shift(k, i)
         /\ \A m \in 1 .. n + 1 : m = i \/ \E j \in 1 .. n : m = Shift(j, i)
<1>1. ASSUME NEW m \in 1 .. n + 1, m # i
      PROVE  \E j \in 1 .. n : m = Shift(j, i)
  <2>1. CASE m < i
    <3>1. m \in 1 .. n /\ m = Shift(m, i)
      BY <2>1 DEF Shift
    <3> QED
      BY <3>1
  <2>2. CASE m > i
    <3>1. m - 1 \in 1 .. n /\ m = Shift(m - 1, i)
      BY <2>2 DEF Shift
    <3> QED
      BY <3>1
  <2> QED
    BY <1>1, <2>1, <2>2
<1> QED
  BY <1>1 DEF Shift

(* Putting an element in changes nothing for the others; read backwards,   *)
(* neither does taking one out.                                            *)
LEMMA InsertedOrder ==
  ASSUME NEW S, NEW s \in Seq(S), NEW t \in Seq(S), NEW i \in 1 .. Len(s) + 1,
         NEW x \in S, Inserted(t, s, i, x)
  PROVE  /\ ToSet(t) = ToSet(s) \cup {x}
         /\ Once(t) <=> Once(s) /\ x \notin ToSet(s)
         /\ Once(t) =>
              /\ \A y, z \in ToSet(s) : Order(t, y, z) <=> Order(s, y, z)
              /\ \A y \in ToSet(s) :
                   /\ Order(t, y, x) <=> \E j \in 1 .. i - 1 : s[j] = y
                   /\ Order(t, x, y) <=> \E j \in i .. Len(s) : s[j] = y
              /\ ~Order(t, x, x)
<1> DEFINE n == Len(s)
<1>1. /\ n \in Nat /\ i \in 1 .. n + 1
      /\ DOMAIN s = 1 .. n /\ DOMAIN t = 1 .. n + 1
  BY LenProperties DEF Inserted
<1>2. t[i] = x /\ \A j \in 1 .. n : t[Shift(j, i)] = s[j]
  <2>1. \A j \in 1 .. n + 1 :
          t[j] = IF j < i THEN s[j] ELSE IF j = i THEN x ELSE s[j - 1]
    BY DEF Inserted
  <2>2. i \in 1 .. n + 1 /\ ~(i < i)
    BY <1>1
  <2>3. t[i] = x
    BY <2>1, <2>2
  <2>4. ASSUME NEW j \in 1 .. n PROVE t[Shift(j, i)] = s[j]
    <3>1. CASE j < i
      <4>1. j \in 1 .. n + 1 /\ Shift(j, i) = j
        BY <1>1, <3>1 DEF Shift
      <4> QED
        BY <2>1, <3>1, <4>1
    <3>2. CASE ~(j < i)
      <4>1. /\ j + 1 \in 1 .. n + 1 /\ Shift(j, i) = j + 1 /\ (j + 1) - 1 = j
            /\ ~(j + 1 < i) /\ j + 1 # i
        BY <1>1, <3>2 DEF Shift
      <4> QED
        BY <2>1, <4>1
    <3> QED
      BY <3>1, <3>2
  <2> QED
    BY <2>3, <2>4
<1>3. ToSet(t) = ToSet(s) \cup {x}
  BY InsertedFacts
<1>4. \A y : y \in ToSet(s) <=> \E j \in 1 .. n : s[j] = y
  BY <1>1 DEF ToSet
<1>5. /\ \A j \in 1 .. n : /\ Shift(j, i) \in 1 .. n + 1
                           /\ Shift(j, i) # i
                           /\ Shift(j, i) < i <=> j < i
      /\ \A j, k \in 1 .. n : /\ j < k <=> Shift(j, i) < Shift(k, i)
                              /\ j = k <=> Shift(j, i) = Shift(k, i)
      /\ \A m \in 1 .. n + 1 : m = i \/ \E j \in 1 .. n : m = Shift(j, i)
  BY <1>1, ShiftFacts
<1> HIDE DEF n
<1>6. ASSUME Once(t) PROVE Once(s) /\ x \notin ToSet(s)
  <2>1. \A j, k \in 1 .. n + 1 : t[j] = t[k] => j = k
    BY <1>1, <1>6 DEF Once
  <2>2. ASSUME NEW j \in 1 .. n, NEW k \in 1 .. n, s[j] = s[k] PROVE j = k
    BY <1>2, <1>5, <2>1, <2>2
  <2>3. ASSUME NEW j \in 1 .. n PROVE s[j] # x
    BY <1>1, <1>2, <1>5, <2>1
  <2> QED
    BY <1>1, <1>4, <2>2, <2>3 DEF Once
<1>7. ASSUME Once(s), x \notin ToSet(s) PROVE Once(t)
  <2>1. ASSUME NEW j \in 1 .. n + 1, NEW k \in 1 .. n + 1, t[j] = t[k]
        PROVE  j = k
    <3>1. CASE j = i /\ k # i
      BY <1>2, <1>4, <1>5, <1>7, <2>1, <3>1
    <3>2. CASE k = i /\ j # i
      BY <1>2, <1>4, <1>5, <1>7, <2>1, <3>2
    <3>3. CASE j # i /\ k # i
      <4>1. PICK p \in 1 .. n : j = Shift(p, i)
        BY <1>5, <3>3
      <4>2. PICK q \in 1 .. n : k = Shift(q, i)
        BY <1>5, <3>3
      <4>3. s[p] = s[q]
        BY <1>2, <2>1, <4>1, <4>2
      <4> QED
        BY <1>1, <1>7, <4>1, <4>2, <4>3 DEF Once
    <3> QED
      BY <3>1, <3>2, <3>3
  <2> QED
    BY <1>1, <2>1 DEF Once
<1>8. ASSUME Once(t), NEW y \in ToSet(s), NEW z \in ToSet(s)
      PROVE  Order(t, y, z) <=> Order(s, y, z)
  <2>1. y # x /\ z # x
    BY <1>6, <1>8
  <2>2. ASSUME Order(t, y, z) PROVE Order(s, y, z)
    <3>1. PICK j, k \in 1 .. n + 1 : j < k /\ t[j] = y /\ t[k] = z
      BY <1>1, <2>2 DEF Order
    <3>2. PICK p \in 1 .. n : j = Shift(p, i)
      BY <1>2, <1>5, <2>1, <3>1
    <3>3. PICK q \in 1 .. n : k = Shift(q, i)
      BY <1>2, <1>5, <2>1, <3>1
    <3>4. p < q /\ s[p] = y /\ s[q] = z
      BY <1>2, <1>5, <3>1, <3>2, <3>3
    <3> QED
      BY <1>1, <3>4 DEF Order
  <2>3. ASSUME Order(s, y, z) PROVE Order(t, y, z)
    <3>1. PICK p, q \in 1 .. n : p < q /\ s[p] = y /\ s[q] = z
      BY <1>1, <2>3 DEF Order
    <3>2. Shift(p, i) < Shift(q, i) /\ t[Shift(p, i)] = y /\ t[Shift(q, i)] = z
      BY <1>2, <1>5, <3>1
    <3> QED
      BY <1>1, <1>5, <3>2 DEF Order
  <2> QED
    BY <2>2, <2>3
<1>9. ASSUME Once(t), NEW y \in ToSet(s)
      PROVE  /\ Order(t, y, x) <=> \E j \in 1 .. i - 1 : s[j] = y
             /\ Order(t, x, y) <=> \E j \in i .. Len(s) : s[j] = y
  <2>1. y # x
    BY <1>6, <1>9
  <2>2. \A j \in 1 .. n + 1 : t[j] = x => j = i
    BY <1>1, <1>2, <1>9 DEF Once
  <2>3. PICK p \in 1 .. n : s[p] = y
    BY <1>4
  <2>4. \A q \in 1 .. n : s[q] = y => q = p
    BY <1>1, <1>6, <1>9, <2>3 DEF Once
  <2>5. \A m \in 1 .. n + 1 : t[m] = y <=> m = Shift(p, i)
    BY <1>2, <1>5, <2>1, <2>3, <2>4
  <2>6. Order(t, y, x) <=> Shift(p, i) < i
    BY <1>1, <1>2, <1>5, <2>2, <2>5 DEF Order
  <2>7. Order(t, x, y) <=> i < Shift(p, i)
    <3>1. Order(t, x, y) <=> \E j, k \in 1 .. n + 1 : j < k /\ t[j] = x /\ t[k] = y
      BY <1>1 DEF Order
    <3>2. Shift(p, i) \in 1 .. n + 1 /\ t[Shift(p, i)] = y
      BY <1>5, <2>5
    <3> QED
      BY <1>1, <1>2, <2>2, <2>5, <3>1, <3>2
  <2>8. p < i <=> \E j \in 1 .. i - 1 : s[j] = y
    BY <1>1, <2>3, <2>4
  <2>9. ~(p < i) <=> \E j \in i .. n : s[j] = y
    BY <1>1, <2>3, <2>4
  <2>10. Shift(p, i) < i <=> p < i
    BY <1>5
  <2>11. i < Shift(p, i) <=> ~(p < i)
    BY <1>1 DEF Shift
  <2> QED
    BY <2>6, <2>7, <2>8, <2>9, <2>10, <2>11 DEF n
<1>10. ASSUME Once(t) PROVE ~Order(t, x, x)
  <2>1. \A j \in 1 .. n + 1 : t[j] = x => j = i
    BY <1>1, <1>2, <1>10 DEF Once
  <2> QED
    BY <1>1, <2>1 DEF Order
<1> QED
  BY <1>3, <1>6, <1>7, <1>8, <1>9, <1>10

(* Taking out is putting in, seen from the other side.                     *)
LEMMA RemoveInserted ==
  ASSUME NEW S, NEW s \in Seq(S), NEW k \in 1 .. Len(s)
  PROVE  /\ RemoveAt(s, k) \in Seq(S)
         /\ k \in 1 .. Len(RemoveAt(s, k)) + 1
         /\ s[k] \in S
         /\ Inserted(s, RemoveAt(s, k), k, s[k])
<1> DEFINE t == RemoveAt(s, k)
<1>1. Len(s) \in Nat /\ s[k] \in S
  BY ElementsFacts
<1>2. /\ t \in Seq(S) /\ Len(t) = Len(s) - 1
      /\ \A j \in 1 .. Len(s) - 1 : t[j] = IF j < k THEN s[j] ELSE s[j + 1]
  BY RemoveAtFacts
<1> HIDE DEF t
<1>3. ASSUME NEW j \in 1 .. Len(t) + 1
      PROVE  s[j] = IF j < k THEN t[j] ELSE IF j = k THEN s[k] ELSE t[j - 1]
  <2>1. CASE j < k
    <3>1. j \in 1 .. Len(s) - 1
      BY <1>1, <1>2, <2>1
    <3> QED
      BY <1>2, <2>1, <3>1
  <2>2. CASE j = k
    BY <2>2
  <2>3. CASE j > k
    <3>1. j - 1 \in 1 .. Len(s) - 1 /\ ~(j - 1 < k) /\ (j - 1) + 1 = j
      BY <1>1, <1>2, <2>3
    <3>2. t[j - 1] = s[j]
      BY <1>2, <3>1
    <3> QED
      BY <2>3, <3>2
  <2> QED
    BY <1>1, <1>2, <2>1, <2>2, <2>3
<1>4. Len(s) = Len(t) + 1 /\ k \in 1 .. Len(t) + 1
  BY <1>1, <1>2
<1>5. Inserted(s, t, k, s[k])
  BY <1>3, <1>4 DEF Inserted
<1> QED
  BY <1>1, <1>2, <1>4, <1>5 DEF t

-----------------------------------------------------------------------------
(* Calendars, sound or not. E is the set of events.                        *)

Entries(E) == [e : E, t : Nat]

Calendars(E) ==
  UNION { [bucket : [0 .. n - 1 -> Seq(Entries(E))], count : [0 .. n - 1 -> Int],
           n : {n}, width : Nat \ {0}, qsize : Int, stat : Int,
           last : Nat, clk : Nat] : n \in Nat \ {0} }

LEMMA CalendarFields ==
  ASSUME NEW E, NEW c \in Calendars(E)
  PROVE  /\ c.n \in Nat \ {0} /\ c.width \in Nat \ {0}
         /\ c.bucket \in [0 .. c.n - 1 -> Seq(Entries(E))]
         /\ c.count \in [0 .. c.n - 1 -> Int]
         /\ c.qsize \in Int /\ c.stat \in Int /\ c.last \in Nat /\ c.clk \in Nat
         /\ c = [bucket |-> c.bucket, count |-> c.count, n |-> c.n,
                 width |-> c.width, qsize |-> c.qsize, stat |-> c.stat,
                 last |-> c.last, clk |-> c.clk]
  BY DEF Calendars

LEMMA CalendarRecord ==
  ASSUME NEW E, NEW n \in Nat \ {0}, NEW b \in [0 .. n - 1 -> Seq(Entries(E))],
         NEW k \in [0 .. n - 1 -> Int], NEW w \in Nat \ {0}, NEW q \in Int,
         NEW s \in Int, NEW l \in Nat, NEW u \in Nat
  PROVE  [bucket |-> b, count |-> k, n |-> n, width |-> w, qsize |-> q,
          stat |-> s, last |-> l, clk |-> u] \in Calendars(E)
<1> DEFINE r == [bucket |-> b, count |-> k, n |-> n, width |-> w, qsize |-> q,
                 stat |-> s, last |-> l, clk |-> u]
           B == [0 .. n - 1 -> Seq(Entries(E))]
           K == [0 .. n - 1 -> Int]
<1>1. b \in B /\ k \in K
  OBVIOUS
<1> HIDE DEF B, K
<1>2. r \in [bucket : B, count : K, n : {n}, width : Nat \ {0}, qsize : Int,
            stat : Int, last : Nat, clk : Nat]
  BY <1>1
<1> HIDE DEF r
<1>3. r \in Calendars(E)
  BY <1>2, Zenon DEF Calendars, B, K
<1> QED
  BY <1>3 DEF r

(* Every time has a page.                                                  *)
LEMMA HashFacts ==
  ASSUME NEW E, NEW c \in Calendars(E), NEW t \in Nat
  PROVE  CALENDARHASH(c, t) \in 0 .. c.n - 1
<1> DEFINE n == c.n
           w == c.width
           d == t \div w
<1>1. n \in Nat \ {0} /\ w \in Nat \ {0}
  BY CalendarFields
<1> HIDE DEF n, w
<1>2. d \in Nat
  BY <1>1, DivFacts
<1> HIDE DEF d
<1>3. d % n \in 0 .. n - 1
  BY <1>1, <1>2, DivFacts
<1> QED
  BY <1>3 DEF d, n, w, CALENDARHASH

(* d is c with another list q in bucket i, g more times and m more events. *)
Changed(d, c, i, q, g, m) ==
  /\ d.n = c.n /\ d.width = c.width /\ d.last = c.last /\ d.clk = c.clk
  /\ d.bucket = [c.bucket EXCEPT ![i] = q]
  /\ d.count = [c.count EXCEPT ![i] = c.count[i] + g]
  /\ d.stat = c.stat + g
  /\ d.qsize = c.qsize + m

LEMMA ChangedFacts ==
  ASSUME NEW E, NEW c \in Calendars(E), NEW i \in 0 .. c.n - 1,
         NEW q \in Seq(Entries(E)), NEW g \in Int, NEW m \in Int,
         NEW d, d = [c EXCEPT !.bucket[i] = q, !.count[i] = c.count[i] + g,
                              !.stat = c.stat + g, !.qsize = c.qsize + m]
  PROVE  d \in Calendars(E) /\ Changed(d, c, i, q, g, m)
<1> DEFINE b == [c.bucket EXCEPT ![i] = q]
           k == [c.count EXCEPT ![i] = c.count[i] + g]
           s == c.stat + g
           z == c.qsize + m
<1>1. /\ c.n \in Nat \ {0} /\ c.width \in Nat \ {0}
      /\ c.bucket \in [0 .. c.n - 1 -> Seq(Entries(E))]
      /\ c.count \in [0 .. c.n - 1 -> Int]
      /\ c.qsize \in Int /\ c.stat \in Int /\ c.last \in Nat /\ c.clk \in Nat
      /\ c = [bucket |-> c.bucket, count |-> c.count, n |-> c.n,
              width |-> c.width, qsize |-> c.qsize, stat |-> c.stat,
              last |-> c.last, clk |-> c.clk]
  BY CalendarFields
<1>2. /\ b \in [0 .. c.n - 1 -> Seq(Entries(E))]
      /\ k \in [0 .. c.n - 1 -> Int] /\ s \in Int /\ z \in Int
  BY <1>1
<1>3. d = [c EXCEPT !.bucket = b, !.count = k, !.stat = s, !.qsize = z]
  OBVIOUS
<1> HIDE DEF b, k, s, z
<1>4. d = [bucket |-> b, count |-> k, n |-> c.n, width |-> c.width, qsize |-> z,
           stat |-> s, last |-> c.last, clk |-> c.clk]
  BY <1>1, <1>3
<1>5. d \in Calendars(E)
  <2>1. [bucket |-> b, count |-> k, n |-> c.n, width |-> c.width, qsize |-> z,
         stat |-> s, last |-> c.last, clk |-> c.clk] \in Calendars(E)
    BY <1>1, <1>2, CalendarRecord
  <2> QED
    BY <1>4, <2>1, Zenon
<1>6. Changed(d, c, i, q, g, m)
  BY <1>4 DEF Changed, b, k, s, z
<1> QED
  BY <1>5, <1>6

(* What is left of a list is in the order it was.                          *)
LEMMA RemovedRelated ==
  ASSUME NEW S, NEW s \in Seq(S), NEW t \in Seq(S), NEW i \in 1 .. Len(s) + 1,
         NEW x, Inserted(t, s, i, x), NEW R, Related(t, R)
  PROVE  Related(s, R)
<1> DEFINE n == Len(s)
<1>1. /\ n \in Nat /\ i \in 1 .. n + 1
      /\ DOMAIN s = 1 .. n /\ DOMAIN t = 1 .. n + 1
  BY LenProperties DEF Inserted
<1>2. \A j \in 1 .. n + 1 :
        t[j] = IF j < i THEN s[j] ELSE IF j = i THEN x ELSE s[j - 1]
  BY DEF Inserted
<1> HIDE DEF n
<1>3. ASSUME NEW j \in 1 .. n PROVE t[Shift(j, i)] = s[j]
  <2>1. CASE j < i
    <3>1. j \in 1 .. n + 1 /\ Shift(j, i) = j
      BY <1>1, <2>1 DEF Shift
    <3> QED
      BY <1>2, <2>1, <3>1
  <2>2. CASE ~(j < i)
    <3>1. /\ j + 1 \in 1 .. n + 1 /\ Shift(j, i) = j + 1 /\ (j + 1) - 1 = j
          /\ ~(j + 1 < i) /\ j + 1 # i
      BY <1>1, <2>2 DEF Shift
    <3> QED
      BY <1>2, <3>1
  <2> QED
    BY <2>1, <2>2
<1>4. /\ \A j \in 1 .. n : Shift(j, i) \in 1 .. n + 1
      /\ \A j, k \in 1 .. n : j < k <=> Shift(j, i) < Shift(k, i)
  BY <1>1, ShiftFacts
<1>5. \A j, k \in 1 .. n + 1 : j < k => <<t[j], t[k]>> \in R
  BY <1>1 DEF Related
<1>6. ASSUME NEW j \in 1 .. n, NEW k \in 1 .. n, j < k
      PROVE  <<s[j], s[k]>> \in R
  BY <1>3, <1>4, <1>5, <1>6
<1> QED
  BY <1>1, <1>6 DEF Related

-----------------------------------------------------------------------------
(* Sound calendars.                                                        *)

NotLater(E) == { p \in Entries(E) \X Entries(E) : p[1].t <= p[2].t }

Paged(c) == \A i \in 0 .. c.n - 1 :
              \A x \in ToSet(c.bucket[i]) : CALENDARHASH(c, x.t) = i

Sorted(c, E) == \A i \in 0 .. c.n - 1 : Related(c.bucket[i], NotLater(E))

OnceEach(c) ==
  /\ \A i \in 0 .. c.n - 1 : Once(c.bucket[i])
  /\ \A x, y \in Items(c) : x.e = y.e => x = y

Counted(c) ==
  /\ IsFiniteSet(Items(c))
  /\ \A i \in 0 .. c.n - 1 : c.count[i] = Cardinality(TimesIn(ToSet(c.bucket[i])))
  /\ c.stat = Cardinality(TimesIn(Items(c)))
  /\ c.qsize = Cardinality(Items(c))

(* Everything is on its page and in order, there once, and counted.        *)
Sound(c, E) ==
  c \in Calendars(E) /\ Paged(c) /\ Sorted(c, E) /\ OnceEach(c) /\ Counted(c)

LEMMA ItemsFacts ==
  ASSUME NEW E, NEW c \in Calendars(E)
  PROVE  /\ \A i \in 0 .. c.n - 1 : c.bucket[i] \in Seq(Entries(E))
         /\ \A x : x \in Items(c) <=> \E i \in 0 .. c.n - 1 : x \in ToSet(c.bucket[i])
         /\ \A x \in Items(c) : x \in Entries(E) /\ x.e \in E /\ x.t \in Nat
<1>1. \A i \in 0 .. c.n - 1 : c.bucket[i] \in Seq(Entries(E))
  BY CalendarFields
<1>2. \A x : x \in Items(c) <=> \E i \in 0 .. c.n - 1 : x \in ToSet(c.bucket[i])
  BY DEF Items
<1>3. ASSUME NEW x \in Items(c) PROVE x \in Entries(E)
  <2>1. PICK i \in 0 .. c.n - 1 : x \in ToSet(c.bucket[i])
    BY <1>2
  <2> QED
    BY <1>1, <2>1, ElementsFacts
<1>4. \A x \in Entries(E) : x.e \in E /\ x.t \in Nat
  BY DEF Entries
<1> QED
  BY <1>1, <1>2, <1>3, <1>4

(* What is on page i.                                                      *)
LEMMA PageItems ==
  ASSUME NEW E, NEW c \in Calendars(E), Paged(c)
  PROVE  /\ \A i \in 0 .. c.n - 1 : \A x :
              x \in ToSet(c.bucket[i]) <=> x \in Items(c) /\ CALENDARHASH(c, x.t) = i
         /\ \A x \in Items(c) : /\ CALENDARHASH(c, x.t) \in 0 .. c.n - 1
                                /\ x \in ToSet(c.bucket[CALENDARHASH(c, x.t)])
  BY ItemsFacts DEF Paged

(* One entry more: one more time, unless it was there.                     *)
LEMMA TimesAdd ==
  ASSUME NEW D, IsFiniteSet(D), NEW x
  PROVE  /\ IsFiniteSet(TimesIn(D)) /\ Cardinality(TimesIn(D)) \in Nat
         /\ Cardinality(TimesIn(D \cup {x})) =
              Cardinality(TimesIn(D)) + (IF \E y \in D : y.t = x.t THEN 0 ELSE 1)
<1>1. IsFiniteSet(TimesIn(D))
  <2> DEFINE f == [y \in D |-> y.t]
  <2>1. f \in Surjection(D, TimesIn(D))
    BY DEF Surjection, TimesIn
  <2> HIDE DEF f
  <2> QED
    BY <2>1, FS_Surjection
<1>2. Cardinality(TimesIn(D)) \in Nat
  BY <1>1, FS_CardinalityType
<1>3. TimesIn(D \cup {x}) = TimesIn(D) \cup {x.t}
  BY DEF TimesIn
<1>4. x.t \in TimesIn(D) <=> \E y \in D : y.t = x.t
  BY DEF TimesIn
<1>5. Cardinality(TimesIn(D) \cup {x.t}) =
        IF x.t \in TimesIn(D) THEN Cardinality(TimesIn(D))
                              ELSE Cardinality(TimesIn(D)) + 1
  <2> DEFINE T == TimesIn(D)
             u == x.t
  <2>1. IsFiniteSet(T)
    BY <1>1
  <2> HIDE DEF T, u
  <2>2. Cardinality(T \cup {u}) = IF u \in T THEN Cardinality(T) ELSE Cardinality(T) + 1
    BY <2>1, FS_AddElement
  <2> QED
    BY <2>2 DEF T, u
<1> DEFINE G == \E y \in D : y.t = x.t
           a == Cardinality(TimesIn(D))
           b == Cardinality(TimesIn(D \cup {x}))
<1>6. b = IF G THEN a ELSE a + 1
  BY <1>3, <1>4, <1>5, Zenon
<1>7. a \in Nat
  BY <1>2
<1> HIDE DEF G, a, b
<1>8. b = a + (IF G THEN 0 ELSE 1)
  BY <1>6, <1>7
<1> QED
  BY <1>1, <1>2, <1>8 DEF G, a, b

(* The pairs of Ahead.                                                     *)
LEMMA AheadFacts ==
  ASSUME NEW c
  PROVE  /\ \A y, z : <<y, z>> \in Ahead(c) <=>
              /\ y \in Items(c) /\ z \in Items(c) /\ y.t = z.t
              /\ Order(c.bucket[CALENDARHASH(c, y.t)], y, z)
         /\ Ahead(c) \subseteq Items(c) \X Items(c)
  BY DEF Ahead, Order

-----------------------------------------------------------------------------
(* One event more or less.                                                 *)

(* Does x have a time that is not in list q yet?                           *)
New(q, x) == IF \E y \in ToSet(q) : y.t = x.t THEN 0 ELSE 1

(* b is s with x at place k of its bucket, and counted.                    *)
Grown(b, s, i, k, x) ==
  /\ b.n = s.n /\ b.width = s.width
  /\ i = CALENDARHASH(s, x.t)
  /\ k \in 1 .. Len(s.bucket[i]) + 1
  /\ Inserted(b.bucket[i], s.bucket[i], k, x)
  /\ \A j \in 0 .. s.n - 1 :
       j # i => b.bucket[j] = s.bucket[j] /\ b.count[j] = s.count[j]
  /\ b.count[i] = s.count[i] + New(s.bucket[i], x)
  /\ b.stat = s.stat + New(s.bucket[i], x)
  /\ b.qsize = s.qsize + 1

LEMMA GrownItems ==
  ASSUME NEW E, NEW b \in Calendars(E), NEW s \in Calendars(E),
         NEW x \in Entries(E), NEW i, NEW k, Grown(b, s, i, k, x)
  PROVE  /\ i \in 0 .. s.n - 1 /\ b.n = s.n
         /\ i = CALENDARHASH(s, x.t)
         /\ \A t : CALENDARHASH(b, t) = CALENDARHASH(s, t)
         /\ ToSet(b.bucket[i]) = ToSet(s.bucket[i]) \cup {x}
         /\ Items(b) = Items(s) \cup {x}
         /\ Paged(b) <=> Paged(s)
<1>1. x.t \in Nat
  BY DEF Entries
<1>2. i \in 0 .. s.n - 1
  BY <1>1, HashFacts DEF Grown
<1>3. \A t : CALENDARHASH(b, t) = CALENDARHASH(s, t)
  BY DEF Grown, CALENDARHASH
<1>4. /\ b.bucket[i] \in Seq(Entries(E)) /\ s.bucket[i] \in Seq(Entries(E))
      /\ b.n = s.n
  BY <1>2, ItemsFacts DEF Grown
<1>5. ToSet(b.bucket[i]) = ToSet(s.bucket[i]) \cup {x}
  <2>1. k \in 1 .. Len(s.bucket[i]) + 1 /\ Inserted(b.bucket[i], s.bucket[i], k, x)
    BY DEF Grown
  <2> DEFINE p == b.bucket[i]
             q == s.bucket[i]
  <2>2. p \in Seq(Entries(E)) /\ q \in Seq(Entries(E)) /\ k \in 1 .. Len(q) + 1
        /\ Inserted(p, q, k, x)
    BY <1>4, <2>1
  <2> HIDE DEF p, q
  <2>3. ToSet(p) = ToSet(q) \cup {x}
    BY <2>2, InsertedFacts
  <2> QED
    BY <2>3 DEF p, q
<1>6. \A j \in 0 .. s.n - 1 : j # i => b.bucket[j] = s.bucket[j]
  BY DEF Grown
<1>7. /\ \A y : y \in Items(b) <=> \E j \in 0 .. s.n - 1 : y \in ToSet(b.bucket[j])
      /\ \A y : y \in Items(s) <=> \E j \in 0 .. s.n - 1 : y \in ToSet(s.bucket[j])
  BY <1>4, ItemsFacts
<1>8. Items(b) = Items(s) \cup {x}
  <2>1. ASSUME NEW y PROVE y \in Items(b) <=> y \in Items(s) \cup {x}
    BY <1>2, <1>5, <1>6, <1>7
  <2> QED
    BY <2>1
<1>9. Paged(b) <=> Paged(s)
  <2>1. i = CALENDARHASH(s, x.t)
    BY DEF Grown
  <2>2. Paged(b) <=> \A j \in 0 .. s.n - 1 : \A y \in ToSet(b.bucket[j]) :
                       CALENDARHASH(s, y.t) = j
    BY <1>3, <1>4 DEF Paged
  <2> QED
    BY <1>2, <1>5, <1>6, <2>1, <2>2 DEF Paged
<1>10. i = CALENDARHASH(s, x.t)
  BY DEF Grown
<1> QED
  BY <1>2, <1>3, <1>4, <1>5, <1>8, <1>9, <1>10

LEMMA GrownOnce ==
  ASSUME NEW E, NEW b \in Calendars(E), NEW s \in Calendars(E),
         NEW x \in Entries(E), NEW i, NEW k, Grown(b, s, i, k, x), Paged(s)
  PROVE  OnceEach(b) <=> OnceEach(s) /\ \A y \in Items(s) : y.e # x.e
<1>1. /\ i \in 0 .. s.n - 1 /\ b.n = s.n
      /\ Items(b) = Items(s) \cup {x}
      /\ i = CALENDARHASH(s, x.t)
  BY GrownItems
<1>2. x \in ToSet(s.bucket[i]) <=> x \in Items(s)
  BY <1>1, PageItems
<1> DEFINE p == b.bucket[i]
           q == s.bucket[i]
<1>3. p \in Seq(Entries(E)) /\ q \in Seq(Entries(E)) /\ k \in 1 .. Len(q) + 1
      /\ Inserted(p, q, k, x)
  BY <1>1, ItemsFacts DEF Grown
<1> HIDE DEF p, q
<1>4. Once(p) <=> Once(q) /\ x \notin ToSet(q)
  BY <1>3, InsertedOrder
<1>5. \A j \in 0 .. s.n - 1 : j # i => b.bucket[j] = s.bucket[j]
  BY DEF Grown
<1>6. (\A j \in 0 .. b.n - 1 : Once(b.bucket[j])) <=>
        (\A j \in 0 .. s.n - 1 : Once(s.bucket[j])) /\ x \notin Items(s)
  BY <1>1, <1>2, <1>4, <1>5 DEF p, q
<1>7. ASSUME x \notin Items(s)
      PROVE  (\A y, z \in Items(b) : y.e = z.e => y = z) <=>
               /\ \A y, z \in Items(s) : y.e = z.e => y = z
               /\ \A y \in Items(s) : y.e # x.e
  BY <1>1, <1>7
<1>8. x \in Items(s) => ~\A y \in Items(s) : y.e # x.e
  OBVIOUS
<1> QED
  BY <1>6, <1>7, <1>8 DEF OnceEach

LEMMA GrownCounted ==
  ASSUME NEW E, NEW b \in Calendars(E), NEW s \in Calendars(E),
         NEW x \in Entries(E), NEW i, NEW k, Grown(b, s, i, k, x), Paged(s),
         x \notin Items(s)
  PROVE  Counted(b) <=> Counted(s)
<1> DEFINE B == Items(b)
           D == Items(s)
           g == New(s.bucket[i], x)
<1>1. /\ i \in 0 .. s.n - 1 /\ b.n = s.n
      /\ B = D \cup {x}
      /\ i = CALENDARHASH(s, x.t)
      /\ ToSet(b.bucket[i]) = ToSet(s.bucket[i]) \cup {x}
  BY GrownItems
<1>2. /\ b.count[i] = s.count[i] + g /\ b.stat = s.stat + g
      /\ b.qsize = s.qsize + 1
      /\ \A j \in 0 .. s.n - 1 :
           j # i => b.bucket[j] = s.bucket[j] /\ b.count[j] = s.count[j]
  BY DEF Grown
<1>3. /\ s.count[i] \in Int /\ s.stat \in Int /\ s.qsize \in Int /\ g \in {0, 1}
  BY <1>1, CalendarFields DEF New
<1>4. (\E y \in D : y.t = x.t) <=> \E y \in ToSet(s.bucket[i]) : y.t = x.t
  BY <1>1, PageItems
<1>5. g = IF \E y \in D : y.t = x.t THEN 0 ELSE 1
  BY <1>4 DEF New
<1>6. IsFiniteSet(B) <=> IsFiniteSet(D)
  <2>1. D \subseteq B
    BY <1>1
  <2> HIDE DEF B, D
  <2> QED
    BY <1>1, <2>1, FS_AddElement, FS_Subset
<1>7. ASSUME IsFiniteSet(D)
      PROVE  /\ Cardinality(TimesIn(B)) = Cardinality(TimesIn(D)) + g
             /\ Cardinality(TimesIn(D)) \in Nat
  <2> HIDE DEF B, D, g
  <2>1. /\ Cardinality(TimesIn(D)) \in Nat
        /\ Cardinality(TimesIn(D \cup {x})) =
              Cardinality(TimesIn(D)) + (IF \E y \in D : y.t = x.t THEN 0 ELSE 1)
    BY <1>7, TimesAdd
  <2> QED
    BY <1>1, <1>5, <2>1, Zenon
<1>8. ASSUME IsFiniteSet(D)
      PROVE  Cardinality(B) = Cardinality(D) + 1 /\ Cardinality(D) \in Nat
  <2>1. x \notin D
    OBVIOUS
  <2> HIDE DEF B, D
  <2> QED
    BY <1>1, <1>8, <2>1, FS_AddElement, FS_CardinalityType
<1>9. /\ Cardinality(TimesIn(ToSet(b.bucket[i]))) =
           Cardinality(TimesIn(ToSet(s.bucket[i]))) + g
      /\ Cardinality(TimesIn(ToSet(s.bucket[i]))) \in Nat
  <2> DEFINE Q == ToSet(s.bucket[i])
  <2>1. IsFiniteSet(Q)
    BY <1>1, ItemsFacts, OnceLength
  <2>2. g = IF \E y \in Q : y.t = x.t THEN 0 ELSE 1
    BY DEF New
  <2>3. ToSet(b.bucket[i]) = Q \cup {x}
    BY <1>1
  <2> HIDE DEF Q, g
  <2>4. /\ Cardinality(TimesIn(Q)) \in Nat
        /\ Cardinality(TimesIn(Q \cup {x})) =
              Cardinality(TimesIn(Q)) + (IF \E y \in Q : y.t = x.t THEN 0 ELSE 1)
    BY <2>1, TimesAdd
  <2> QED
    BY <2>2, <2>3, <2>4, Zenon DEF Q
<1> DEFINE CountOf(c, j) == c.count[j] = Cardinality(TimesIn(ToSet(c.bucket[j])))
<1>10. CountOf(b, i) <=> CountOf(s, i)
  <2> HIDE DEF g
  <2> QED
    BY <1>2, <1>3, <1>9
<1>11. \A j \in 0 .. s.n - 1 : j # i => (CountOf(b, j) <=> CountOf(s, j))
  BY <1>2
<1>12. (\A j \in 0 .. b.n - 1 : CountOf(b, j)) <=> \A j \in 0 .. s.n - 1 : CountOf(s, j)
  <2> HIDE DEF CountOf
  <2> QED
    BY <1>1, <1>10, <1>11
<1>13. ASSUME IsFiniteSet(D)
       PROVE  /\ b.stat = Cardinality(TimesIn(B)) <=> s.stat = Cardinality(TimesIn(D))
              /\ b.qsize = Cardinality(B) <=> s.qsize = Cardinality(D)
  <2> HIDE DEF g, B, D
  <2> QED
    BY <1>2, <1>3, <1>7, <1>8, <1>13
<1> QED
  BY <1>6, <1>12, <1>13 DEF Counted

(* Who is ahead of whom among the others does not change.                  *)
LEMMA GrownAhead ==
  ASSUME NEW E, NEW b \in Calendars(E), NEW s \in Calendars(E),
         NEW x \in Entries(E), NEW i, NEW k, Grown(b, s, i, k, x), Paged(s),
         OnceEach(b)
  PROVE  /\ x \notin Items(s)
         /\ \A y, z \in Items(s) : <<y, z>> \in Ahead(b) <=> <<y, z>> \in Ahead(s)
         /\ \A y \in Items(s) :
              /\ <<y, x>> \in Ahead(b) <=>
                   y.t = x.t /\ \E j \in 1 .. k - 1 : s.bucket[i][j] = y
              /\ <<x, y>> \in Ahead(b) <=>
                   y.t = x.t /\ \E j \in k .. Len(s.bucket[i]) : s.bucket[i][j] = y
         /\ <<x, x>> \notin Ahead(b)
<1>1. /\ i \in 0 .. s.n - 1 /\ b.n = s.n
      /\ Items(b) = Items(s) \cup {x}
      /\ i = CALENDARHASH(s, x.t)
      /\ \A t : CALENDARHASH(b, t) = CALENDARHASH(s, t)
  BY GrownItems
<1>2. x \notin Items(s)
  BY GrownOnce
<1> DEFINE p == b.bucket[i]
           q == s.bucket[i]
<1>3. /\ p \in Seq(Entries(E)) /\ q \in Seq(Entries(E)) /\ k \in 1 .. Len(q) + 1
      /\ Inserted(p, q, k, x)
  BY <1>1, ItemsFacts DEF Grown
<1>4. Once(p)
  BY <1>1 DEF OnceEach
<1> HIDE DEF p, q
<1>5. /\ \A y, z \in ToSet(q) : Order(p, y, z) <=> Order(q, y, z)
      /\ \A y \in ToSet(q) :
           /\ Order(p, y, x) <=> \E j \in 1 .. k - 1 : q[j] = y
           /\ Order(p, x, y) <=> \E j \in k .. Len(q) : q[j] = y
      /\ ~Order(p, x, x)
  BY <1>3, <1>4, InsertedOrder
<1>6. \A j \in 0 .. s.n - 1 : j # i => b.bucket[j] = s.bucket[j]
  BY DEF Grown
<1>7. \A y \in Items(s) : /\ CALENDARHASH(s, y.t) \in 0 .. s.n - 1
                          /\ y \in ToSet(s.bucket[CALENDARHASH(s, y.t)])
  BY PageItems
<1>8. ASSUME NEW y \in Items(s), NEW z \in Items(s), y.t = z.t
      PROVE  Order(b.bucket[CALENDARHASH(b, y.t)], y, z) <=>
               Order(s.bucket[CALENDARHASH(s, y.t)], y, z)
  <2>1. CASE CALENDARHASH(s, y.t) = i
    <3>1. y \in ToSet(q) /\ z \in ToSet(q)
      BY <1>7, <1>8, <2>1 DEF q
    <3> QED
      BY <1>1, <1>5, <2>1, <3>1 DEF p, q
  <2>2. CASE CALENDARHASH(s, y.t) # i
    BY <1>1, <1>6, <1>7, <2>2
  <2> QED
    BY <2>1, <2>2
<1>9. \A y, z \in Items(s) : <<y, z>> \in Ahead(b) <=> <<y, z>> \in Ahead(s)
  BY <1>1, <1>8, AheadFacts
<1>10. ASSUME NEW y \in Items(s)
       PROVE  /\ <<y, x>> \in Ahead(b) <=>
                   y.t = x.t /\ \E j \in 1 .. k - 1 : s.bucket[i][j] = y
              /\ <<x, y>> \in Ahead(b) <=>
                   y.t = x.t /\ \E j \in k .. Len(s.bucket[i]) : s.bucket[i][j] = y
  <2>1. <<y, x>> \in Ahead(b) <=> y.t = x.t /\ Order(p, y, x)
    BY <1>1, AheadFacts DEF p
  <2>2. <<x, y>> \in Ahead(b) <=> y.t = x.t /\ Order(p, x, y)
    BY <1>1, AheadFacts DEF p
  <2>3. y.t = x.t => y \in ToSet(q)
    BY <1>1, <1>7 DEF q
  <2> QED
    BY <1>5, <2>1, <2>2, <2>3 DEF q
<1>11. <<x, x>> \notin Ahead(b)
  BY <1>1, <1>5, AheadFacts DEF p
<1> QED
  BY <1>2, <1>9, <1>10, <1>11

(* Link lets a calendar grow, whatever it is and wherever x goes.          *)
LEMMA LinkGrows ==
  ASSUME NEW E, NEW c \in Calendars(E), NEW x \in Entries(E),
         NEW k \in 1 .. Len(c.bucket[CALENDARHASH(c, x.t)]) + 1
  PROVE  /\ Link(c, x, k) \in Calendars(E)
         /\ Link(c, x, k).last = c.last /\ Link(c, x, k).clk = c.clk
         /\ Grown(Link(c, x, k), c, CALENDARHASH(c, x.t), k, x)
<1> DEFINE i == CALENDARHASH(c, x.t)
           q == c.bucket[i]
           t == InsertAt(q, k, x)
           g == New(q, x)
           d == Link(c, x, k)
<1>1. i \in 0 .. c.n - 1
  <2>1. x.t \in Nat
    BY DEF Entries
  <2> QED
    BY <2>1, HashFacts
<1>2. q \in Seq(Entries(E)) /\ g \in Int /\ 1 \in Int /\ k \in 1 .. Len(q) + 1
  BY <1>1, ItemsFacts DEF New
<1>3. t \in Seq(Entries(E)) /\ Inserted(t, q, k, x)
  <2> HIDE DEF q
  <2> QED
    BY <1>2, InsertingFacts
<1>4. d = [c EXCEPT !.bucket[i] = t, !.count[i] = c.count[i] + g,
                    !.stat = c.stat + g, !.qsize = c.qsize + 1]
  BY DEF Link, New
<1> HIDE DEF t, g, d, i, q
<1>5. d \in Calendars(E) /\ Changed(d, c, i, t, g, 1)
  BY <1>1, <1>2, <1>3, <1>4, ChangedFacts
<1>6. /\ c.bucket \in [0 .. c.n - 1 -> Seq(Entries(E))]
      /\ c.count \in [0 .. c.n - 1 -> Int]
  BY CalendarFields
<1>7. /\ d.bucket[i] = t /\ d.count[i] = c.count[i] + g
      /\ \A j \in 0 .. c.n - 1 :
           j # i => d.bucket[j] = c.bucket[j] /\ d.count[j] = c.count[j]
  BY <1>1, <1>5, <1>6 DEF Changed
<1>8. Grown(d, c, i, k, x)
  BY <1>2, <1>3, <1>5, <1>7 DEF Grown, Changed, q, g, i
<1> QED
  BY <1>5, <1>8 DEF d, i, Changed

(* What insert and insert2 do to a sound calendar.                         *)
LEMMA LinkFacts ==
  ASSUME NEW E, NEW c, Sound(c, E), NEW x \in Entries(E),
         \A y \in Items(c) : y.e # x.e,
         NEW k \in 1 .. Len(c.bucket[CALENDARHASH(c, x.t)]) + 1,
         \A j \in 1 .. k - 1 : c.bucket[CALENDARHASH(c, x.t)][j].t <= x.t,
         \A j \in k .. Len(c.bucket[CALENDARHASH(c, x.t)]) :
           x.t <= c.bucket[CALENDARHASH(c, x.t)][j].t
  PROVE  Sound(Link(c, x, k), E)
<1> DEFINE i == CALENDARHASH(c, x.t)
           q == c.bucket[i]
           d == Link(c, x, k)
           R == NotLater(E)
<1>1. c \in Calendars(E) /\ Paged(c) /\ Sorted(c, E) /\ OnceEach(c) /\ Counted(c)
  BY DEF Sound
<1>2. d \in Calendars(E) /\ Grown(d, c, i, k, x)
  BY <1>1, LinkGrows
<1>3. /\ \A j \in 1 .. k - 1 : q[j].t <= x.t
      /\ \A j \in k .. Len(q) : x.t <= q[j].t
      /\ k \in 1 .. Len(q) + 1
  OBVIOUS
<1> HIDE DEF d, i
<1>4. i \in 0 .. c.n - 1 /\ d.n = c.n /\ (Paged(d) <=> Paged(c))
  BY <1>1, <1>2, GrownItems
<1>5. x \notin Items(c)
  OBVIOUS
<1>6. OnceEach(d)
  BY <1>1, <1>2, GrownOnce
<1>7. Counted(d)
  BY <1>1, <1>2, <1>5, GrownCounted
<1>8. Related(d.bucket[i], R)
  <2>1. q \in Seq(Entries(E)) /\ d.bucket[i] \in Seq(Entries(E))
    BY <1>1, <1>2, <1>4, ItemsFacts
  <2>2. Inserted(d.bucket[i], q, k, x)
    BY <1>2 DEF Grown
  <2>3. Related(q, R)
    BY <1>1, <1>4 DEF Sorted
  <2> HIDE DEF q
  <2>4. \A j \in 1 .. Len(q) : q[j] \in Entries(E)
    BY <2>1, ElementsFacts
  <2>5. Len(q) \in Nat
    BY <2>1, LenProperties
  <2>6. Between(q, k, x, R)
    <3>1. ASSUME NEW j \in 1 .. k - 1 PROVE <<q[j], x>> \in R
      <4>1. j \in 1 .. Len(q)
        BY <1>3, <2>5
      <4> QED
        BY <1>3, <2>4, <4>1 DEF NotLater
    <3>2. ASSUME NEW j \in k .. Len(q) PROVE <<x, q[j]>> \in R
      <4>1. j \in 1 .. Len(q)
        BY <1>3, <2>5
      <4> QED
        BY <1>3, <2>4, <4>1 DEF NotLater
    <3> QED
      BY <3>1, <3>2 DEF Between
  <2> HIDE DEF R
  <2> QED
    BY <1>3, <2>1, <2>2, <2>3, <2>6, InsertedFacts
<1>9. Sorted(d, E)
  <2>1. ASSUME NEW j \in 0 .. d.n - 1 PROVE Related(d.bucket[j], R)
    <3>1. CASE j = i
      BY <1>8, <3>1
    <3>2. CASE j # i
      <4>1. d.bucket[j] = c.bucket[j]
        BY <1>2, <1>4, <3>2 DEF Grown
      <4> QED
        BY <1>1, <1>4, <4>1 DEF Sorted
    <3> QED
      BY <3>1, <3>2
  <2> QED
    BY <2>1 DEF Sorted
<1>10. Sound(d, E)
  BY <1>1, <1>2, <1>4, <1>6, <1>7, <1>9 DEF Sound
<1> QED
  BY <1>10 DEF d

(* What deque and cancel do to one.                                        *)
LEMMA UnlinkFacts ==
  ASSUME NEW E, NEW c, Sound(c, E), NEW i \in 0 .. c.n - 1,
         NEW k \in 1 .. Len(c.bucket[i]), NEW alone \in BOOLEAN,
         alone <=> \A j \in 1 .. Len(c.bucket[i]) :
                     j # k => c.bucket[i][j].t # c.bucket[i][k].t
  PROVE  /\ Sound(Unlink(c, i, k, alone), E)
         /\ Unlink(c, i, k, alone).n = c.n
         /\ Unlink(c, i, k, alone).width = c.width
         /\ Unlink(c, i, k, alone).last = c.last
         /\ Unlink(c, i, k, alone).clk = c.clk
         /\ c.bucket[i][k] \in Items(c)
         /\ Items(Unlink(c, i, k, alone)) = Items(c) \ {c.bucket[i][k]}
         /\ \A p : p \in Ahead(Unlink(c, i, k, alone)) <=>
              /\ p \in Ahead(c)
              /\ p \in (Items(c) \ {c.bucket[i][k]}) \X (Items(c) \ {c.bucket[i][k]})
<1> DEFINE q == c.bucket[i]
           x == q[k]
           t == RemoveAt(q, k)
           g == IF alone THEN 1 ELSE 0
           d == Unlink(c, i, k, alone)
           R == NotLater(E)
<1>1. c \in Calendars(E) /\ Paged(c) /\ Sorted(c, E) /\ OnceEach(c) /\ Counted(c)
  BY DEF Sound
<1>2. q \in Seq(Entries(E)) /\ k \in 1 .. Len(q) /\ Once(q) /\ Related(q, R)
  BY <1>1, ItemsFacts DEF OnceEach, Sorted
<1>3. alone <=> \A j \in 1 .. Len(q) : j # k => q[j].t # x.t
  OBVIOUS
<1>4. d = [c EXCEPT !.bucket[i] = t, !.count[i] = c.count[i] - g,
                    !.stat = c.stat - g, !.qsize = c.qsize - 1]
  BY DEF Unlink
<1>5. x \in ToSet(q) /\ x = c.bucket[i][k]
  BY <1>2, ElementsFacts
<1> HIDE DEF q
<1>6. /\ t \in Seq(Entries(E)) /\ k \in 1 .. Len(t) + 1 /\ x \in Entries(E)
      /\ Inserted(q, t, k, x)
  BY <1>2, RemoveInserted
<1> HIDE DEF t, d, R, x
<1>7. CALENDARHASH(c, x.t) = i
  BY <1>1, <1>5 DEF Paged, q
<1>8. ToSet(q) = ToSet(t) \cup {x} /\ x \notin ToSet(t)
  BY <1>2, <1>6, InsertedOrder
<1>9. g = New(t, x)
  <2>1. \A y : y \in ToSet(q) <=> \E j \in 1 .. Len(q) : y = q[j]
    BY <1>2, ElementsFacts
  <2>2. \A j \in 1 .. Len(q) : q[j] = x => j = k
    <3>1. DOMAIN q = 1 .. Len(q)
      BY <1>2, ElementsFacts
    <3> QED
      BY <1>2, <3>1 DEF Once, x
  <2>3. alone <=> \A y \in ToSet(q) : y # x => y.t # x.t
    <3>1. ASSUME alone PROVE \A y \in ToSet(q) : y # x => y.t # x.t
      BY <1>3, <2>1, <3>1 DEF x
    <3>2. ASSUME \A y \in ToSet(q) : y # x => y.t # x.t PROVE alone
      BY <1>3, <2>1, <2>2, <3>2
    <3> QED
      BY <3>1, <3>2
  <2>4. alone <=> ~\E y \in ToSet(t) : y.t = x.t
    BY <1>8, <2>3
  <2> QED
    BY <2>4 DEF New
<1>10. /\ -g \in Int /\ -1 \in Int /\ c.count[i] \in Int /\ c.stat \in Int
       /\ c.qsize \in Int
       /\ c.bucket \in [0 .. c.n - 1 -> Seq(Entries(E))]
       /\ c.count \in [0 .. c.n - 1 -> Int]
  BY <1>1, CalendarFields
<1>11. d = [c EXCEPT !.bucket[i] = t, !.count[i] = c.count[i] + (-g),
                     !.stat = c.stat + (-g), !.qsize = c.qsize + (-1)]
  <2>1. /\ c.count[i] - g = c.count[i] + (-g) /\ c.stat - g = c.stat + (-g)
        /\ c.qsize - 1 = c.qsize + (-1)
    BY <1>10
  <2> HIDE DEF g
  <2> QED
    BY <1>4, <2>1, Zenon
<1>12. d \in Calendars(E) /\ Changed(d, c, i, t, -g, -1)
  <2> DEFINE h == -g
             m == -1
  <2>1. h \in Int /\ m \in Int
    BY <1>10
  <2>2. d = [c EXCEPT !.bucket[i] = t, !.count[i] = c.count[i] + h,
                      !.stat = c.stat + h, !.qsize = c.qsize + m]
    BY <1>11
  <2> HIDE DEF h, m
  <2>3. d \in Calendars(E) /\ Changed(d, c, i, t, h, m)
    BY <1>1, <1>6, <2>1, <2>2, ChangedFacts
  <2> QED
    BY <2>3 DEF h, m
<1>13. /\ d.n = c.n /\ d.width = c.width /\ d.last = c.last /\ d.clk = c.clk
       /\ d.bucket[i] = t /\ d.count[i] = c.count[i] - g /\ d.stat = c.stat - g
       /\ d.qsize = c.qsize - 1
       /\ \A j \in 0 .. c.n - 1 :
            j # i => d.bucket[j] = c.bucket[j] /\ d.count[j] = c.count[j]
  BY <1>10, <1>12 DEF Changed
<1>14. Grown(c, d, i, k, x)
  <2>1. CALENDARHASH(d, x.t) = i
    BY <1>7, <1>13 DEF CALENDARHASH
  <2>2. /\ c.count[i] = d.count[i] + g /\ c.stat = d.stat + g
        /\ c.qsize = d.qsize + 1
    BY <1>10, <1>13
  <2> HIDE DEF g
  <2> QED
    BY <1>6, <1>9, <1>13, <2>1, <2>2 DEF Grown, q
<1>15. /\ Items(c) = Items(d) \cup {x} /\ (Paged(c) <=> Paged(d))
       /\ CALENDARHASH(d, x.t) = i
  BY <1>1, <1>6, <1>12, <1>14, GrownItems
<1>16. Paged(d)
  BY <1>1, <1>15
<1>17. OnceEach(d) /\ x \notin Items(d)
  BY <1>1, <1>6, <1>12, <1>14, <1>16, GrownOnce
<1>18. Counted(d)
  BY <1>1, <1>6, <1>12, <1>14, <1>16, <1>17, GrownCounted
<1>19. Sorted(d, E)
  <2>1. Related(t, R)
    BY <1>2, <1>6, RemovedRelated
  <2>2. ASSUME NEW j \in 0 .. d.n - 1 PROVE Related(d.bucket[j], R)
    BY <1>1, <1>13, <2>1, <2>2 DEF Sorted, R
  <2> QED
    BY <2>2 DEF Sorted, R
<1>20. Sound(d, E)
  BY <1>12, <1>16, <1>17, <1>18, <1>19 DEF Sound
<1>21. Items(d) = Items(c) \ {x} /\ x \in Items(c)
  BY <1>15, <1>17
<1>22. \A y, z \in Items(d) : <<y, z>> \in Ahead(c) <=> <<y, z>> \in Ahead(d)
  BY <1>1, <1>6, <1>12, <1>14, <1>16, GrownAhead
<1>23. \A p : p \in Ahead(d) <=>
              p \in Ahead(c) /\ p \in (Items(c) \ {x}) \X (Items(c) \ {x})
  <2>1. Ahead(d) \subseteq Items(d) \X Items(d)
    BY AheadFacts
  <2>2. ASSUME NEW p PROVE p \in Ahead(d) <=>
              p \in Ahead(c) /\ p \in Items(d) \X Items(d)
    <3>1. CASE p \in Items(d) \X Items(d)
      <4>1. PICK y \in Items(d), z \in Items(d) : p = <<y, z>>
        BY <3>1
      <4> QED
        BY <1>22, <3>1, <4>1
    <3>2. CASE p \notin Items(d) \X Items(d)
      BY <2>1, <3>2
    <3> QED
      BY <3>1, <3>2
  <2> QED
    BY <1>21, <2>2, Zenon
<1> QED
  BY <1>5, <1>13, <1>20, <1>21, <1>23, Zenon DEF d

-----------------------------------------------------------------------------
(* insert and insert2.                                                     *)

(* insert2 finds the first place in a list before everything of time t.    *)
LEMMA PlaceBeforeFacts ==
  ASSUME NEW E, NEW q \in Seq(Entries(E)), NEW t \in Nat
  PROVE  /\ PlaceBefore(q, t) \in 1 .. Len(q) + 1
         /\ \A j \in 1 .. PlaceBefore(q, t) - 1 : q[j].t < t
         /\ PlaceBefore(q, t) <= Len(q) => t <= q[PlaceBefore(q, t)].t
<1> DEFINE n == Len(q)
           T == { k \in 1 .. n + 1 : k = n + 1 \/ t <= q[k].t }
           P(k) == /\ \A j \in 1 .. k - 1 : q[j].t < t
                   /\ k <= n => t <= q[k].t
<1>1. n \in Nat /\ \A j \in 1 .. n : q[j].t \in Nat
  <2>1. n \in Nat /\ \A j \in 1 .. n : q[j] \in Entries(E)
    BY ElementsFacts
  <2> HIDE DEF n
  <2> QED
    BY <2>1 DEF Entries
<1> HIDE DEF n
<1>2. T \subseteq Nat /\ n + 1 \in T
  BY <1>1
<1>3. PICK k \in T : \A m \in T : k <= m
  <2> HIDE DEF T
  <2> QED
    BY <1>2, LeastNat
<1>4. k \in 1 .. n + 1 /\ P(k)
  <2>1. ASSUME NEW j \in 1 .. k - 1 PROVE q[j].t < t
    <3>1. j \in 1 .. n /\ ~(k <= j)
      BY <1>1, <1>3
    <3>2. ~(t <= q[j].t)
      BY <1>1, <1>3, <3>1
    <3> QED
      BY <1>1, <3>1, <3>2
  <2>2. k <= n => t <= q[k].t
    BY <1>1, <1>3
  <2> QED
    BY <1>3, <2>1, <2>2
<1>5. PlaceBefore(q, t) = CHOOSE i \in 1 .. n + 1 : P(i)
  BY DEF PlaceBefore, n
<1> HIDE DEF P
<1>6. PlaceBefore(q, t) \in 1 .. n + 1 /\ P(PlaceBefore(q, t))
  BY <1>4, <1>5, Zenon
<1> QED
  BY <1>6 DEF P, n

(* insert finds the last place behind everything of time t.                *)
LEMMA PlaceBehindFacts ==
  ASSUME NEW E, NEW q \in Seq(Entries(E)), NEW t \in Nat
  PROVE  /\ PlaceBehind(q, t) \in 1 .. Len(q) + 1
         /\ PlaceBehind(q, t) > 1 => q[PlaceBehind(q, t) - 1].t <= t
         /\ \A j \in PlaceBehind(q, t) .. Len(q) : t < q[j].t
<1> DEFINE n == Len(q)
           T == { k \in 1 .. n + 1 : k = 1 \/ q[k - 1].t <= t }
           P(k) == /\ k > 1 => q[k - 1].t <= t
                   /\ \A j \in k .. n : t < q[j].t
<1>1. n \in Nat /\ \A j \in 1 .. n : q[j].t \in Nat
  <2>1. n \in Nat /\ \A j \in 1 .. n : q[j] \in Entries(E)
    BY ElementsFacts
  <2> HIDE DEF n
  <2> QED
    BY <2>1 DEF Entries
<1> HIDE DEF n
<1>2. T \subseteq Nat /\ 1 \in T /\ n + 1 \in Nat /\ \A k \in T : k <= n + 1
  BY <1>1
<1>3. PICK k \in T : \A m \in T : k >= m
  <2> HIDE DEF T
  <2>1. T # {}
    BY <1>2
  <2> QED
    BY <1>2, <2>1, GreatestNat
<1>4. k \in 1 .. n + 1 /\ P(k)
  <2>1. ASSUME NEW j \in k .. n PROVE t < q[j].t
    <3>1. j \in 1 .. n /\ j + 1 \in 1 .. n + 1 /\ ~(k >= j + 1) /\ (j + 1) - 1 = j
      BY <1>1, <1>3
    <3>2. ~(q[j].t <= t)
      BY <1>1, <1>3, <3>1
    <3> QED
      BY <1>1, <3>1, <3>2
  <2>2. k > 1 => q[k - 1].t <= t
    BY <1>1, <1>3
  <2> QED
    BY <1>3, <2>1, <2>2
<1>5. PlaceBehind(q, t) = CHOOSE i \in 1 .. n + 1 : P(i)
  BY DEF PlaceBehind, n
<1> HIDE DEF P
<1>6. PlaceBehind(q, t) \in 1 .. n + 1 /\ P(PlaceBehind(q, t))
  BY <1>4, <1>5, Zenon
<1> QED
  BY <1>6 DEF P, n

(* q, list i of calendar c, is in the order of times and complete.         *)
Ordered(q, c, i, E) ==
  /\ q \in Seq(Entries(E)) /\ Len(q) \in Nat /\ DOMAIN q = 1 .. Len(q)
  /\ \A j \in 1 .. Len(q) : q[j] \in Items(c) /\ q[j].t \in Nat
                              /\ CALENDARHASH(c, q[j].t) = i
  /\ \A j, k \in 1 .. Len(q) : j < k => q[j].t <= q[k].t
  /\ \A y \in Items(c) : CALENDARHASH(c, y.t) = i
                            => \E j \in 1 .. Len(q) : q[j] = y

(* The lists of a sound calendar are.                                      *)
LEMMA ListFacts ==
  ASSUME NEW E, NEW c, Sound(c, E), NEW i \in 0 .. c.n - 1
  PROVE  Ordered(c.bucket[i], c, i, E)
<1> DEFINE q == c.bucket[i]
<1>1. c \in Calendars(E) /\ Paged(c) /\ Sorted(c, E)
  BY DEF Sound
<1>2. q \in Seq(Entries(E)) /\ Related(q, NotLater(E))
  BY <1>1, ItemsFacts DEF Sorted
<1>3. /\ \A y \in Items(c) : CALENDARHASH(c, y.t) = i => y \in ToSet(q)
      /\ \A y \in ToSet(q) : y \in Items(c) /\ CALENDARHASH(c, y.t) = i
  BY <1>1, PageItems
<1> HIDE DEF q
<1>4. /\ Len(q) \in Nat /\ DOMAIN q = 1 .. Len(q)
      /\ \A j \in 1 .. Len(q) : q[j] \in Entries(E) /\ q[j] \in ToSet(q)
      /\ \A y \in ToSet(q) : \E j \in 1 .. Len(q) : y = q[j]
  BY <1>2, ElementsFacts
<1>5. \A j \in 1 .. Len(q) : q[j].t \in Nat
  BY <1>4 DEF Entries
<1>6. \A j, k \in 1 .. Len(q) : j < k => q[j].t <= q[k].t
  BY <1>2, <1>4 DEF Related, NotLater
<1>7. Ordered(q, c, i, E)
  BY <1>2, <1>3, <1>4, <1>5, <1>6 DEF Ordered
<1> QED
  BY <1>7 DEF q

(* d is c with x, ahead of all others of its time...                       *)
PutsFirst(d, c, x) ==
  /\ Items(d) = Items(c) \cup {x}
  /\ \A y, z : <<y, z>> \in Ahead(d) <=>
       <<y, z>> \in Ahead(c) \/ (y = x /\ z \in Items(c) /\ z.t = x.t)

(* ... or behind them.                                                     *)
PutsLast(d, c, x) ==
  /\ Items(d) = Items(c) \cup {x}
  /\ \A y, z : <<y, z>> \in Ahead(d) <=>
       <<y, z>> \in Ahead(c) \/ (z = x /\ y \in Items(c) /\ y.t = x.t)

(* d has the pages, the current page and the clock of c.                   *)
SamePages(d, c) ==
  d.n = c.n /\ d.width = c.width /\ d.last = c.last /\ d.clk = c.clk

(* insert2 is sound.                                                       *)
LEMMA Insert2Facts ==
  ASSUME NEW E, NEW c, Sound(c, E), NEW x \in Entries(E),
         \A y \in Items(c) : y.e # x.e,
         NEW d, d = Insert2(c, x)
  PROVE  Sound(d, E) /\ SamePages(d, c) /\ PutsFirst(d, c, x)
<1> DEFINE i == CALENDARHASH(c, x.t)
           q == c.bucket[i]
           k == PlaceBefore(q, x.t)
<1>1. c \in Calendars(E) /\ Paged(c) /\ x.t \in Nat
  BY DEF Sound, Entries
<1>2. i \in 0 .. c.n - 1
  BY <1>1, HashFacts
<1>3. d = Link(c, x, k)
  BY DEF Insert2
<1> HIDE DEF i
<1>4. /\ q \in Seq(Entries(E)) /\ Len(q) \in Nat
      /\ \A j \in 1 .. Len(q) : q[j].t \in Nat
      /\ \A j, m \in 1 .. Len(q) : j < m => q[j].t <= q[m].t
      /\ \A y \in Items(c) : CALENDARHASH(c, y.t) = i => \E j \in 1 .. Len(q) : q[j] = y
  <2>1. Ordered(q, c, i, E)
    BY <1>2, ListFacts
  <2> HIDE DEF q
  <2> QED
    BY <2>1 DEF Ordered
<1> HIDE DEF q
<1>5. /\ k \in 1 .. Len(q) + 1
      /\ \A j \in 1 .. k - 1 : q[j].t < x.t
      /\ k <= Len(q) => x.t <= q[k].t
  BY <1>1, <1>4, PlaceBeforeFacts
<1> HIDE DEF k
<1>6. \A j \in 1 .. k - 1 : q[j].t <= x.t
  <2>1. \A j \in 1 .. k - 1 : j \in 1 .. Len(q)
    BY <1>4, <1>5
  <2> QED
    BY <1>1, <1>4, <1>5, <2>1
<1>7. \A j \in k .. Len(q) : x.t <= q[j].t
  <2>1. ASSUME NEW j \in k .. Len(q) PROVE x.t <= q[j].t
    <3>1. k \in 1 .. Len(q) /\ j \in 1 .. Len(q) /\ (j = k \/ k < j)
      BY <1>4, <1>5
    <3>2. x.t <= q[k].t /\ q[k].t <= q[j].t /\ q[k].t \in Nat /\ q[j].t \in Nat
      BY <1>4, <1>5, <3>1
    <3> QED
      BY <1>1, <3>2
  <2> QED
    BY <2>1
<1>8. Sound(d, E)
  BY <1>5, <1>6, <1>7, <1>3, LinkFacts DEF q, i
<1>9. d \in Calendars(E) /\ d.last = c.last /\ d.clk = c.clk /\ Grown(d, c, i, k, x)
  BY <1>1, <1>5, <1>3, LinkGrows DEF q, i
<1>10. SamePages(d, c)
  BY <1>9 DEF SamePages, Grown
<1>11. Items(d) = Items(c) \cup {x}
  BY <1>1, <1>9, GrownItems
<1>12. OnceEach(d)
  BY <1>8 DEF Sound
<1>13. /\ x \notin Items(c)
       /\ \A y, z \in Items(c) : <<y, z>> \in Ahead(d) <=> <<y, z>> \in Ahead(c)
       /\ \A y \in Items(c) :
            /\ <<y, x>> \in Ahead(d) <=> y.t = x.t /\ \E j \in 1 .. k - 1 : q[j] = y
            /\ <<x, y>> \in Ahead(d) <=> y.t = x.t /\ \E j \in k .. Len(q) : q[j] = y
       /\ <<x, x>> \notin Ahead(d)
  BY <1>1, <1>9, <1>12, GrownAhead DEF q
<1>14. ASSUME NEW y \in Items(c), y.t = x.t
       PROVE  /\ ~\E j \in 1 .. k - 1 : q[j] = y
              /\ \E j \in k .. Len(q) : q[j] = y
  <2>1. PICK j \in 1 .. Len(q) : q[j] = y
    BY <1>4, <1>14 DEF i
  <2>2. \A m \in 1 .. k - 1 : q[m] # y
    BY <1>1, <1>5, <1>14
  <2>3. j \in k .. Len(q)
    BY <1>4, <1>5, <2>1, <2>2
  <2> QED
    BY <2>1, <2>2, <2>3
<1>15. ASSUME NEW y, NEW z
       PROVE  <<y, z>> \in Ahead(d) <=>
                <<y, z>> \in Ahead(c) \/ (y = x /\ z \in Items(c) /\ z.t = x.t)
  <2>1. /\ <<y, z>> \in Ahead(d) => y \in Items(d) /\ z \in Items(d)
        /\ <<y, z>> \in Ahead(c) => y \in Items(c) /\ z \in Items(c)
    BY AheadFacts
  <2> QED
    BY <1>11, <1>13, <1>14, <2>1
<1>16. PutsFirst(d, c, x)
  BY <1>11, <1>15 DEF PutsFirst
<1> QED
  BY <1>8, <1>10, <1>16

(* insert, until it resizes, is sound.                                     *)
LEMMA BehindFacts ==
  ASSUME NEW E, NEW c, Sound(c, E), NEW x \in Entries(E),
         \A y \in Items(c) : y.e # x.e,
         NEW d, d = Link(c, x, PlaceBehind(c.bucket[CALENDARHASH(c, x.t)], x.t))
  PROVE  Sound(d, E) /\ SamePages(d, c) /\ PutsLast(d, c, x)
<1> DEFINE i == CALENDARHASH(c, x.t)
           q == c.bucket[i]
           k == PlaceBehind(q, x.t)
<1>1. c \in Calendars(E) /\ Paged(c) /\ x.t \in Nat
  BY DEF Sound, Entries
<1>2. i \in 0 .. c.n - 1
  BY <1>1, HashFacts
<1>3. d = Link(c, x, k)
  OBVIOUS
<1> HIDE DEF i
<1>4. /\ q \in Seq(Entries(E)) /\ Len(q) \in Nat
      /\ \A j \in 1 .. Len(q) : q[j].t \in Nat
      /\ \A j, m \in 1 .. Len(q) : j < m => q[j].t <= q[m].t
      /\ \A y \in Items(c) : CALENDARHASH(c, y.t) = i => \E j \in 1 .. Len(q) : q[j] = y
  <2>1. Ordered(q, c, i, E)
    BY <1>2, ListFacts
  <2> HIDE DEF q
  <2> QED
    BY <2>1 DEF Ordered
<1> HIDE DEF q
<1>5. /\ k \in 1 .. Len(q) + 1
      /\ k > 1 => q[k - 1].t <= x.t
      /\ \A j \in k .. Len(q) : x.t < q[j].t
  BY <1>1, <1>4, PlaceBehindFacts
<1> HIDE DEF k
<1>6. \A j \in k .. Len(q) : x.t <= q[j].t
  <2>1. \A j \in k .. Len(q) : j \in 1 .. Len(q)
    BY <1>4, <1>5
  <2> QED
    BY <1>1, <1>4, <1>5, <2>1
<1>7. \A j \in 1 .. k - 1 : q[j].t <= x.t
  <2>1. ASSUME NEW j \in 1 .. k - 1 PROVE q[j].t <= x.t
    <3>1. /\ k - 1 \in 1 .. Len(q) /\ j \in 1 .. Len(q)
          /\ (j = k - 1 \/ j < k - 1) /\ k > 1
      BY <1>4, <1>5
    <3>2. /\ q[k - 1].t <= x.t /\ q[j].t <= q[k - 1].t
          /\ q[k - 1].t \in Nat /\ q[j].t \in Nat
      BY <1>4, <1>5, <3>1
    <3> QED
      BY <1>1, <3>2
  <2> QED
    BY <2>1
<1>8. Sound(d, E)
  BY <1>3, <1>5, <1>6, <1>7, LinkFacts DEF q, i
<1>9. d \in Calendars(E) /\ d.last = c.last /\ d.clk = c.clk /\ Grown(d, c, i, k, x)
  BY <1>1, <1>3, <1>5, LinkGrows DEF q, i
<1>10. SamePages(d, c)
  BY <1>9 DEF SamePages, Grown
<1>11. Items(d) = Items(c) \cup {x}
  BY <1>1, <1>9, GrownItems
<1>12. OnceEach(d)
  BY <1>8 DEF Sound
<1>13. /\ x \notin Items(c)
       /\ \A y, z \in Items(c) : <<y, z>> \in Ahead(d) <=> <<y, z>> \in Ahead(c)
       /\ \A y \in Items(c) :
            /\ <<y, x>> \in Ahead(d) <=> y.t = x.t /\ \E j \in 1 .. k - 1 : q[j] = y
            /\ <<x, y>> \in Ahead(d) <=> y.t = x.t /\ \E j \in k .. Len(q) : q[j] = y
       /\ <<x, x>> \notin Ahead(d)
  BY <1>1, <1>9, <1>12, GrownAhead DEF q
<1>14. ASSUME NEW y \in Items(c), y.t = x.t
       PROVE  /\ \E j \in 1 .. k - 1 : q[j] = y
              /\ ~\E j \in k .. Len(q) : q[j] = y
  <2>1. PICK j \in 1 .. Len(q) : q[j] = y
    BY <1>4, <1>14 DEF i
  <2>2. \A m \in k .. Len(q) : q[m] # y
    BY <1>1, <1>5, <1>14
  <2>3. j \in 1 .. k - 1
    BY <1>4, <1>5, <2>1, <2>2
  <2> QED
    BY <2>1, <2>2, <2>3
<1>15. ASSUME NEW y, NEW z
       PROVE  <<y, z>> \in Ahead(d) <=>
                <<y, z>> \in Ahead(c) \/ (z = x /\ y \in Items(c) /\ y.t = x.t)
  <2>1. /\ <<y, z>> \in Ahead(d) => y \in Items(d) /\ z \in Items(d)
        /\ <<y, z>> \in Ahead(c) => y \in Items(c) /\ z \in Items(c)
    BY AheadFacts
  <2> QED
    BY <1>11, <1>13, <1>14, <2>1
<1> QED
  BY <1>8, <1>10, <1>11, <1>15 DEF PutsLast

-----------------------------------------------------------------------------
(* resize.                                                                 *)

(* insert2 leaves a calendar, whatever it finds in the lists.              *)
LEMMA Insert2Calendar ==
  ASSUME NEW E, NEW c \in Calendars(E), NEW x \in Entries(E)
  PROVE  Insert2(c, x) \in Calendars(E)
<1> DEFINE i == CALENDARHASH(c, x.t)
           q == c.bucket[i]
           k == PlaceBefore(q, x.t)
<1>1. x.t \in Nat
  BY DEF Entries
<1>2. i \in 0 .. c.n - 1
  BY <1>1, HashFacts
<1>3. Insert2(c, x) = Link(c, x, k)
  BY DEF Insert2
<1>4. q \in Seq(Entries(E))
  <2> HIDE DEF i
  <2> QED
    BY <1>2, CalendarFields
<1> HIDE DEF i
<1>5. k \in 1 .. Len(q) + 1
  <2> HIDE DEF q
  <2> QED
    BY <1>1, <1>4, PlaceBeforeFacts
<1> HIDE DEF k
<1>6. Link(c, x, k) \in Calendars(E)
  BY <1>5, LinkGrows DEF q, i
<1> QED
  BY <1>3, <1>6

(* h[k] is the calendar after k elements of q, from its end, moved into c. *)
Moving(h, q, c) ==
  /\ h[0] = c
  /\ \A k \in 1 .. Len(q) : h[k] = Insert2(h[k - 1], q[Len(q) + 1 - k])

(* There is such a record, and Moved is the last of its calendars.         *)
LEMMA MovedSteps ==
  ASSUME NEW E, NEW q \in Seq(Entries(E)), NEW c \in Calendars(E)
  PROVE  \E h \in [0 .. Len(q) -> Calendars(E)] :
           Moving(h, q, c) /\ Moved(q, c) = h[Len(q)]
<1> DEFINE n == Len(q)
           S == Calendars(E)
           Step(k, b) == Insert2(b, q[n + 1 - k])
           F == [k \in 1 .. n |-> [b \in S |-> Step(k, b)]]
           Body(f) == [k \in 0 .. n |-> IF k = 0 THEN c ELSE Step(k, f[k - 1])]
           after == CHOOSE f : f = Body(f)
<1>1. n \in Nat /\ \A k \in 1 .. n : q[n + 1 - k] \in Entries(E)
  <2>1. n \in Nat /\ \A k \in 1 .. n : q[k] \in Entries(E)
    BY ElementsFacts
  <2> HIDE DEF n
  <2>2. \A k \in 1 .. n : n + 1 - k \in 1 .. n
    BY <2>1
  <2> QED
    BY <2>1, <2>2
<1>2. Moved(q, c) = after[n]
  BY DEF Moved
<1> HIDE DEF n
<1>3. \A k \in 1 .. n : \A b \in S : Step(k, b) \in S
  BY <1>1, Insert2Calendar
<1> HIDE DEF S, Step
<1>4. F \in [1 .. n -> [S -> S]] /\ c \in S
  BY <1>3 DEF S
<1>5. \A k \in 1 .. n : \A b \in S : F[k][b] = Step(k, b)
  OBVIOUS
<1> HIDE DEF F
<1>6. PICK h \in [0 .. n -> S] : Records(h, F, c, n)
  BY <1>1, <1>4, Iteration
<1>7. h[0] = c /\ \A k \in 1 .. n : h[k - 1] \in S /\ h[k] = Step(k, h[k - 1])
  <2>1. ASSUME NEW k \in 1 .. n PROVE h[k - 1] \in S /\ h[k] = Step(k, h[k - 1])
    <3>1. k - 1 \in 0 .. n
      BY <1>1
    <3>2. h[k - 1] \in S /\ h[k] = F[k][h[k - 1]]
      BY <1>6, <3>1 DEF Records
    <3> QED
      BY <1>5, <3>2
  <2> QED
    BY <1>6, <2>1 DEF Records
<1>8. h = Body(h)
  <2>1. \A k \in 0 .. n : h[k] = IF k = 0 THEN c ELSE Step(k, h[k - 1])
    BY <1>1, <1>7
  <2> QED
    BY <2>1
<1>9. after = Body(after)
  BY <1>8
<1> HIDE DEF after
<1>10. after[0] = c /\ \A k \in 1 .. n : after[k] = Step(k, after[k - 1])
  <2>1. \A k \in 0 .. n : after[k] = Body(after)[k]
    BY <1>9
  <2>2. 0 \in 0 .. n /\ \A k \in 1 .. n : k \in 0 .. n /\ k # 0
    BY <1>1
  <2> QED
    BY <2>1, <2>2
<1>11. \A k \in 0 .. n : after[k] = h[k]
  <2>1. InStep(after, h, n)
    BY <1>7, <1>10 DEF InStep
  <2> QED
    BY <1>1, <2>1, Agreement
<1>12. Moved(q, c) = h[n]
  BY <1>1, <1>2, <1>11
<1>13. Moving(h, q, c)
  BY <1>7 DEF Moving, Step, n
<1> QED
  BY <1>12, <1>13 DEF S, n

(* The same for the lists of a calendar: h[i] is the calendar after i of   *)
(* the lists of c moved into b.                                            *)
Resizing(h, c, b) ==
  /\ h[0] = b
  /\ \A i \in 1 .. c.n : h[i] = Moved(c.bucket[i - 1], h[i - 1])

LEMMA ResizeSteps ==
  ASSUME NEW E, NEW c \in Calendars(E), NEW m, NEW w,
         NEW b \in Calendars(E), b = Reinit(IF m < 4 THEN 4 ELSE m, w, c.clk)
  PROVE  \E h \in [0 .. c.n -> Calendars(E)] :
           Resizing(h, c, b) /\ Resize(c, m, w) = h[c.n]
<1> DEFINE n == c.n
           S == Calendars(E)
           Step(i, d) == Moved(c.bucket[i - 1], d)
           F == [i \in 1 .. n |-> [d \in S |-> Step(i, d)]]
           Body(f) == [i \in 0 .. n |-> IF i = 0 THEN b ELSE Step(i, f[i - 1])]
           after == CHOOSE f : f = Body(f)
<1>1. n \in Nat /\ \A i \in 1 .. n : c.bucket[i - 1] \in Seq(Entries(E))
  <2>1. n \in Nat /\ \A i \in 0 .. n - 1 : c.bucket[i] \in Seq(Entries(E))
    BY CalendarFields
  <2> HIDE DEF n
  <2>2. \A i \in 1 .. n : i - 1 \in 0 .. n - 1
    BY <2>1
  <2> QED
    BY <2>1, <2>2
<1>2. Resize(c, m, w) = after[n]
  BY DEF Resize
<1> HIDE DEF n
<1>3. \A i \in 1 .. n : \A d \in S : Step(i, d) \in S
  <2>1. ASSUME NEW i \in 1 .. n, NEW d \in S PROVE Step(i, d) \in S
    <3>1. PICK q : q = c.bucket[i - 1]
      OBVIOUS
    <3>2. q \in Seq(Entries(E))
      BY <1>1, <3>1
    <3>3. PICK h \in [0 .. Len(q) -> S] : Moved(q, d) = h[Len(q)]
      BY <2>1, <3>2, MovedSteps
    <3>4. Len(q) \in 0 .. Len(q)
      BY <3>2, ElementsFacts
    <3>5. Moved(q, d) \in S
      BY <3>3, <3>4
    <3> QED
      BY <3>1, <3>5
  <2> QED
    BY <2>1
<1> HIDE DEF S, Step
<1>4. F \in [1 .. n -> [S -> S]] /\ b \in S
  BY <1>3 DEF S
<1>5. \A i \in 1 .. n : \A d \in S : F[i][d] = Step(i, d)
  OBVIOUS
<1> HIDE DEF F
<1>6. PICK h \in [0 .. n -> S] : Records(h, F, b, n)
  BY <1>1, <1>4, Iteration
<1>7. h[0] = b /\ \A i \in 1 .. n : h[i - 1] \in S /\ h[i] = Step(i, h[i - 1])
  <2>1. ASSUME NEW i \in 1 .. n PROVE h[i - 1] \in S /\ h[i] = Step(i, h[i - 1])
    <3>1. i - 1 \in 0 .. n
      BY <1>1
    <3>2. h[i - 1] \in S /\ h[i] = F[i][h[i - 1]]
      BY <1>6, <3>1 DEF Records
    <3> QED
      BY <1>5, <3>2
  <2> QED
    BY <1>6, <2>1 DEF Records
<1>8. h = Body(h)
  <2>1. \A i \in 0 .. n : h[i] = IF i = 0 THEN b ELSE Step(i, h[i - 1])
    BY <1>1, <1>7
  <2> QED
    BY <2>1
<1>9. after = Body(after)
  BY <1>8
<1> HIDE DEF after
<1>10. after[0] = b /\ \A i \in 1 .. n : after[i] = Step(i, after[i - 1])
  <2>1. \A i \in 0 .. n : after[i] = Body(after)[i]
    BY <1>9
  <2>2. 0 \in 0 .. n /\ \A i \in 1 .. n : i \in 0 .. n /\ i # 0
    BY <1>1
  <2> QED
    BY <2>1, <2>2
<1>11. \A i \in 0 .. n : after[i] = h[i]
  <2>1. InStep(after, h, n)
    BY <1>7, <1>10 DEF InStep
  <2> QED
    BY <1>1, <2>1, Agreement
<1>12. Resize(c, m, w) = h[n]
  BY <1>1, <1>2, <1>11
<1>13. Resizing(h, c, b)
  BY <1>7 DEF Resizing, Step, n
<1> QED
  BY <1>12, <1>13 DEF S, n

(* Being ahead is an order, that of the list.                              *)
LEMMA AheadOrder ==
  ASSUME NEW E, NEW c, Sound(c, E)
  PROVE  /\ \A y, z : <<y, z>> \in Ahead(c) => <<z, y>> \notin Ahead(c)
         /\ \A i \in 0 .. c.n - 1 : \A j, k \in 1 .. Len(c.bucket[i]) :
              j < k /\ c.bucket[i][j].t = c.bucket[i][k].t
                => <<c.bucket[i][j], c.bucket[i][k]>> \in Ahead(c)
<1>1. c \in Calendars(E) /\ Paged(c) /\ \A i \in 0 .. c.n - 1 : Once(c.bucket[i])
  BY DEF Sound, OnceEach
<1>2. ASSUME NEW y, NEW z, <<y, z>> \in Ahead(c), <<z, y>> \in Ahead(c)
      PROVE  FALSE
  <2> DEFINE i == CALENDARHASH(c, y.t)
             q == c.bucket[i]
  <2>1. y \in Items(c) /\ y.t = z.t /\ Order(q, y, z)
    BY <1>2, AheadFacts
  <2>2. Order(q, z, y)
    BY <1>2, <2>1, AheadFacts
  <2>3. i \in 0 .. c.n - 1
    BY <1>1, <2>1, PageItems
  <2> HIDE DEF i
  <2>4. Ordered(q, c, i, E) /\ Once(q)
    BY <1>1, <2>3, ListFacts
  <2> HIDE DEF q
  <2>5. Len(q) \in Nat /\ DOMAIN q = 1 .. Len(q)
    BY <2>4 DEF Ordered
  <2>6. PICK j, k \in 1 .. Len(q) : j < k /\ q[j] = y /\ q[k] = z
    BY <2>1, <2>5 DEF Order
  <2>7. PICK l, m \in 1 .. Len(q) : l < m /\ q[l] = z /\ q[m] = y
    BY <2>2, <2>5 DEF Order
  <2>8. j = m /\ k = l
    BY <2>4, <2>5, <2>6, <2>7 DEF Once
  <2> QED
    BY <2>5, <2>6, <2>7, <2>8
<1>3. ASSUME NEW i \in 0 .. c.n - 1,
             NEW j \in 1 .. Len(c.bucket[i]), NEW k \in 1 .. Len(c.bucket[i]),
             j < k, c.bucket[i][j].t = c.bucket[i][k].t
      PROVE  <<c.bucket[i][j], c.bucket[i][k]>> \in Ahead(c)
  <2> DEFINE q == c.bucket[i]
  <2>1. Ordered(q, c, i, E)
    BY ListFacts
  <2>2. j \in 1 .. Len(q) /\ k \in 1 .. Len(q) /\ j < k /\ q[j].t = q[k].t
    BY <1>3
  <2>3. \A y, z : <<y, z>> \in Ahead(c) <=>
              /\ y \in Items(c) /\ z \in Items(c) /\ y.t = z.t
              /\ Order(c.bucket[CALENDARHASH(c, y.t)], y, z)
    BY AheadFacts
  <2>4. q[j] \in Items(c) /\ q[k] \in Items(c) /\ CALENDARHASH(c, q[j].t) = i
    <3> HIDE DEF q
    <3> QED
      BY <2>1, <2>2 DEF Ordered
  <2>5. Order(q, q[j], q[k])
    <3> HIDE DEF q
    <3> QED
      BY <2>1, <2>2 DEF Ordered, Order
  <2> QED
    BY <2>2, <2>3, <2>4, <2>5
<1> QED
  BY <1>2, <1>3

(* d is a part of c, with the order of c.                                  *)
Part(d, c) ==
  /\ Items(d) \subseteq Items(c)
  /\ \A y, z : <<y, z>> \in Ahead(d) <=>
       <<y, z>> \in Ahead(c) /\ y \in Items(d) /\ z \in Items(d)

(* What insert2 puts into a part of c keeps the order of c if it was ahead *)
(* of all of its time that are there already: the order of one time stays  *)
(* only because the lists are moved from their ends.                       *)
LEMMA PartGrows ==
  ASSUME NEW E, NEW c, Sound(c, E), NEW b, Sound(b, E), Part(b, c),
         NEW x, x \in Items(c), x \notin Items(b),
         \A z \in Items(b) : z.t = x.t => <<x, z>> \in Ahead(c),
         NEW d, d = Insert2(b, x)
  PROVE  /\ Sound(d, E) /\ SamePages(d, b) /\ Part(d, c)
         /\ Items(d) = Items(b) \cup {x}
<1>1. c \in Calendars(E) /\ \A y, z \in Items(c) : y.e = z.e => y = z
  BY DEF Sound, OnceEach
<1>2. x \in Entries(E)
  BY <1>1, ItemsFacts
<1>3. \A y \in Items(b) : y.e # x.e
  BY <1>1 DEF Part
<1>4. Sound(d, E) /\ SamePages(d, b) /\ PutsFirst(d, b, x)
  BY <1>2, <1>3, Insert2Facts
<1>5. Items(d) = Items(b) \cup {x}
  BY <1>4 DEF PutsFirst
<1>6. \A y, z : <<y, z>> \in Ahead(c) => <<z, y>> \notin Ahead(c) /\ y.t = z.t
  BY AheadOrder, AheadFacts
<1>7. ASSUME NEW y, NEW z
      PROVE  <<y, z>> \in Ahead(d) <=>
               <<y, z>> \in Ahead(c) /\ y \in Items(d) /\ z \in Items(d)
  <2>1. <<y, z>> \in Ahead(d) <=>
          <<y, z>> \in Ahead(b) \/ (y = x /\ z \in Items(b) /\ z.t = x.t)
    BY <1>4 DEF PutsFirst
  <2>2. <<y, z>> \in Ahead(b) <=>
          <<y, z>> \in Ahead(c) /\ y \in Items(b) /\ z \in Items(b)
    BY DEF Part
  <2>3. CASE z = x
    <3>1. y \in Items(b) => <<y, z>> \notin Ahead(c)
      BY <1>6, <2>3
    <3>2. y = x => <<y, z>> \notin Ahead(c)
      BY <1>6, <2>3
    <3> QED
      BY <1>5, <2>1, <2>2, <2>3, <3>1, <3>2
  <2>4. CASE z # x /\ y = x
    BY <1>5, <1>6, <2>1, <2>2, <2>4
  <2>5. CASE z # x /\ y # x
    BY <1>5, <2>1, <2>2, <2>5
  <2> QED
    BY <2>3, <2>4, <2>5
<1>8. Part(d, c)
  BY <1>5, <1>7 DEF Part
<1> QED
  BY <1>4, <1>5, <1>8

(* A list of c moved into a part of c without that list.                   *)
LEMMA MovedFacts ==
  ASSUME NEW E, NEW c, Sound(c, E), NEW b, Sound(b, E), Part(b, c),
         NEW i \in 0 .. c.n - 1,
         \A y \in Items(b) : CALENDARHASH(c, y.t) # i,
         NEW d, d = Moved(c.bucket[i], b)
  PROVE  /\ Sound(d, E) /\ SamePages(d, b) /\ Part(d, c)
         /\ \A y : y \in Items(d) <=>
              y \in Items(b) \/ (y \in Items(c) /\ CALENDARHASH(c, y.t) = i)
<1> DEFINE q == c.bucket[i]
           n == Len(q)
<1>1. Ordered(q, c, i, E) /\ Once(q)
  BY ListFacts DEF Sound, OnceEach
<1>2. /\ n \in Nat /\ DOMAIN q = 1 .. n /\ q \in Seq(Entries(E))
      /\ \A j \in 1 .. n : q[j] \in Items(c) /\ CALENDARHASH(c, q[j].t) = i
      /\ \A y \in Items(c) : CALENDARHASH(c, y.t) = i => \E j \in 1 .. n : q[j] = y
      /\ \A j, k \in 1 .. n : q[j] = q[k] => j = k
  <2> HIDE DEF q
  <2> QED
    BY <1>1 DEF Ordered, Once
<1>3. \A j, k \in 1 .. n : j < k /\ q[j].t = q[k].t => <<q[j], q[k]>> \in Ahead(c)
  BY AheadOrder
<1>4. d = Moved(q, b)
  OBVIOUS
<1> HIDE DEF q
<1>5. PICK h \in [0 .. n -> Calendars(E)] : Moving(h, q, b) /\ d = h[n]
  BY <1>2, <1>4, MovedSteps DEF Sound
<1> HIDE DEF n
<1>6. h[0] = b /\ \A k \in 1 .. n : h[k] = Insert2(h[k - 1], q[n + 1 - k])
  BY <1>5 DEF Moving, n
<1> DEFINE In(y, k) == y \in Items(b) \/ \E j \in n + 1 - k .. n : q[j] = y
           T == { k \in 0 .. n : /\ Sound(h[k], E) /\ SamePages(h[k], b)
                                 /\ Part(h[k], c)
                                 /\ \A y : y \in Items(h[k]) <=> In(y, k) }
<1>7. 0 \in T
  <2>1. 0 \in 0 .. n /\ \A y : In(y, 0) <=> y \in Items(b)
    BY <1>2
  <2>2. SamePages(b, b)
    BY DEF SamePages
  <2> HIDE DEF In
  <2> QED
    BY <1>6, <2>1, <2>2
<1>8. ASSUME NEW k \in 1 .. n, k - 1 \in T PROVE k \in T
  <2> DEFINE x == q[n + 1 - k]
             g == h[k - 1]
  <2>1. /\ n + 1 - k \in 1 .. n /\ n + 1 - (k - 1) = n + 1 - k + 1
        /\ k \in 0 .. n
    BY <1>2
  <2>2. /\ Sound(g, E) /\ SamePages(g, b) /\ Part(g, c)
        /\ \A y : y \in Items(g) <=> In(y, k - 1)
    BY <1>8
  <2>3. x \in Items(c) /\ CALENDARHASH(c, x.t) = i
    BY <1>2, <2>1
  <2>4. \A y : In(y, k) <=> In(y, k - 1) \/ y = x
    <3>1. \A j : j \in n + 1 - k .. n <=> j \in n + 1 - (k - 1) .. n \/ j = n + 1 - k
      BY <1>2, <2>1
    <3> QED
      BY <3>1
  <2>5. x \notin Items(g)
    <3>1. \A j \in n + 1 - (k - 1) .. n : q[j] # x
      <4>1. \A j \in n + 1 - (k - 1) .. n : j \in 1 .. n /\ j # n + 1 - k
        BY <1>2
      <4> QED
        BY <1>2, <2>1, <4>1
    <3> QED
      BY <2>2, <2>3, <3>1
  <2>6. ASSUME NEW z \in Items(g), z.t = x.t PROVE <<x, z>> \in Ahead(c)
    <3>1. CALENDARHASH(c, z.t) = i
      BY <2>3, <2>6
    <3>2. PICK j \in n + 1 - (k - 1) .. n : q[j] = z
      BY <2>2, <3>1
    <3>3. j \in 1 .. n /\ n + 1 - k < j
      BY <1>2
    <3> QED
      BY <1>3, <2>1, <2>6, <3>2, <3>3
  <2>7. h[k] = Insert2(g, x)
    BY <1>6
  <2> HIDE DEF x, g, In
  <2>8. /\ Sound(h[k], E) /\ SamePages(h[k], g) /\ Part(h[k], c)
        /\ Items(h[k]) = Items(g) \cup {x}
    BY <2>2, <2>3, <2>5, <2>6, <2>7, PartGrows
  <2>9. SamePages(h[k], b)
    BY <2>2, <2>8 DEF SamePages
  <2> QED
    BY <2>1, <2>2, <2>4, <2>8, <2>9
<1>9. n \in T
  <2> HIDE DEF T
  <2>1. 0 .. n \subseteq T
    BY <1>2, <1>7, <1>8, InductionTo
  <2> QED
    BY <1>2, <2>1
<1>10. /\ Sound(d, E) /\ SamePages(d, b) /\ Part(d, c)
       /\ \A y : y \in Items(d) <=> In(y, n)
  BY <1>5, <1>9
<1>11. \A y : In(y, n) <=>
         y \in Items(b) \/ (y \in Items(c) /\ CALENDARHASH(c, y.t) = i)
  <2>1. n + 1 - n = 1
    BY <1>2
  <2> QED
    BY <1>2, <2>1
<1> QED
  BY <1>10, <1>11

(* An empty calendar.                                                      *)
Empty(b, E, n, w, s) ==
  /\ Sound(b, E) /\ Items(b) = {} /\ Ahead(b) = {}
  /\ b.n = n /\ b.width = w /\ b.clk = s /\ b.last = CALENDARHASH(b, s)

LEMMA ReinitFacts ==
  ASSUME NEW E, NEW n \in Nat \ {0}, NEW w \in Nat \ {0}, NEW s \in Nat,
         NEW b, b = Reinit(n, w, s)
  PROVE  Empty(b, E, n, w, s)
<1> DEFINE q == [i \in 0 .. n - 1 |-> <<>>]
           k == [i \in 0 .. n - 1 |-> 0]
           a == [bucket |-> q, count |-> k, n |-> n, width |-> w, qsize |-> 0,
                 stat |-> 0, last |-> 0, clk |-> s]
           l == CALENDARHASH(a, s)
<1>1. /\ q \in [0 .. n - 1 -> Seq(Entries(E))] /\ k \in [0 .. n - 1 -> Int]
      /\ \A i \in 0 .. n - 1 : q[i] = <<>> /\ k[i] = 0
  BY EmptySeq
<1>2. b = [a EXCEPT !.last = l]
  BY DEF Reinit
<1>3. a.n = n /\ a.width = w
  OBVIOUS
<1>4. l \in Nat
  <2> DEFINE d == s \div w
  <2>1. l = d % n
    BY <1>3 DEF CALENDARHASH
  <2>2. d \in Nat
    BY DivFacts
  <2> HIDE DEF d, l
  <2>3. d % n \in 0 .. n - 1
    BY <2>2, DivFacts
  <2> QED
    BY <2>1, <2>3
<1> HIDE DEF q, k
<1>5. b = [bucket |-> q, count |-> k, n |-> n, width |-> w, qsize |-> 0,
           stat |-> 0, last |-> l, clk |-> s]
  <2> HIDE DEF l
  <2> QED
    BY <1>2
<1>6. CALENDARHASH(b, s) = l
  <2>1. b.n = n /\ b.width = w
    BY <1>5
  <2> QED
    BY <1>3, <2>1 DEF CALENDARHASH
<1> HIDE DEF l, a
<1>7. /\ b.bucket = q /\ b.count = k /\ b.n = n /\ b.width = w /\ b.qsize = 0
      /\ b.stat = 0 /\ b.last = l /\ b.clk = s
  BY <1>5
<1>8. b \in Calendars(E)
  <2>1. 0 \in Int
    OBVIOUS
  <2>2. [bucket |-> q, count |-> k, n |-> n, width |-> w, qsize |-> 0,
         stat |-> 0, last |-> l, clk |-> s] \in Calendars(E)
    BY <1>1, <1>4, <2>1, CalendarRecord
  <2> QED
    BY <1>5, <2>2, Zenon
<1>9. \A i \in 0 .. b.n - 1 : b.bucket[i] = <<>> /\ b.count[i] = 0
  BY <1>1, <1>7
<1>10. \A i \in 0 .. b.n - 1 : ToSet(b.bucket[i]) = {} /\ DOMAIN b.bucket[i] = {}
  <2>1. ToSet(<<>>) = {} /\ DOMAIN <<>> = {}
    BY DEF ToSet
  <2> QED
    BY <1>9, <2>1
<1>11. Items(b) = {}
  BY <1>10 DEF Items
<1>12. TimesIn({}) = {} /\ Cardinality({}) = 0 /\ IsFiniteSet({})
  BY FS_EmptySet DEF TimesIn
<1>13. Counted(b)
  <2>1. \A i \in 0 .. b.n - 1 : b.count[i] = Cardinality(TimesIn(ToSet(b.bucket[i])))
    BY <1>9, <1>10, <1>12
  <2> QED
    BY <1>7, <1>11, <1>12, <2>1 DEF Counted
<1>14. Sorted(b, E) /\ Paged(b) /\ OnceEach(b)
  BY <1>10, <1>11 DEF Sorted, Related, Paged, OnceEach, Once
<1>15. Ahead(b) = {}
  BY <1>11 DEF Ahead
<1> QED
  BY <1>6, <1>7, <1>8, <1>11, <1>13, <1>14, <1>15 DEF Sound, Empty

(* The number of buckets of a calendar of its own.                         *)
AtLeast4(m) == IF m < 4 THEN 4 ELSE m

(* d has the events of c, in their order, and looks for the next where it  *)
(* is.                                                                     *)
Same(d, c) ==
  /\ Items(d) = Items(c)
  /\ Ahead(d) = Ahead(c)
  /\ d.clk = c.clk

(* resize keeps the events and their order.                                *)
LEMMA ResizeFacts ==
  ASSUME NEW E, NEW c, Sound(c, E), NEW m \in Nat, NEW w \in Nat \ {0},
         NEW d, d = Resize(c, m, w)
  PROVE  /\ Sound(d, E) /\ Same(d, c)
         /\ d.n = AtLeast4(m) /\ d.width = w /\ d.last = CALENDARHASH(d, d.clk)
<1> DEFINE n == c.n
<1>1. c \in Calendars(E) /\ Paged(c)
  BY DEF Sound
<1>2. n \in Nat \ {0} /\ c.clk \in Nat
  BY <1>1, CalendarFields
<1>3. AtLeast4(m) \in Nat \ {0}
  BY DEF AtLeast4
<1>4. PICK b : b = Reinit(AtLeast4(m), w, c.clk)
  OBVIOUS
<1>5. /\ Sound(b, E) /\ Items(b) = {} /\ Ahead(b) = {}
      /\ b.n = AtLeast4(m) /\ b.width = w /\ b.clk = c.clk
      /\ b.last = CALENDARHASH(b, c.clk)
  <2>1. Empty(b, E, AtLeast4(m), w, c.clk)
    BY <1>2, <1>3, <1>4, ReinitFacts
  <2> QED
    BY <2>1 DEF Empty
<1>6. b \in Calendars(E) /\ b = Reinit(IF m < 4 THEN 4 ELSE m, w, c.clk)
  BY <1>4, <1>5 DEF Sound, AtLeast4
<1>7. PICK h \in [0 .. n -> Calendars(E)] : Resizing(h, c, b) /\ d = h[n]
  BY <1>1, <1>6, ResizeSteps
<1>8. h[0] = b /\ \A i \in 1 .. n : h[i] = Moved(c.bucket[i - 1], h[i - 1])
  BY <1>7 DEF Resizing
<1> DEFINE T == { i \in 0 .. n : /\ Sound(h[i], E) /\ SamePages(h[i], b)
                                 /\ Part(h[i], c)
                                 /\ \A y : y \in Items(h[i]) <=>
                                      y \in Items(c) /\ CALENDARHASH(c, y.t) < i }
<1>9. \A y \in Items(c) : CALENDARHASH(c, y.t) \in 0 .. n - 1
  BY <1>1, PageItems
<1> HIDE DEF n
<1>10. 0 \in T
  <2>1. SamePages(b, b) /\ Part(b, c)
    BY <1>5 DEF SamePages, Part
  <2>2. \A y \in Items(c) : ~(CALENDARHASH(c, y.t) < 0)
    BY <1>2, <1>9
  <2>3. 0 \in 0 .. n
    BY <1>2
  <2> QED
    BY <1>5, <1>8, <2>1, <2>2, <2>3
<1>11. ASSUME NEW i \in 1 .. n, i - 1 \in T PROVE i \in T
  <2> DEFINE g == h[i - 1]
             j == i - 1
  <2>1. /\ Sound(g, E) /\ SamePages(g, b) /\ Part(g, c)
        /\ \A y : y \in Items(g) <=> y \in Items(c) /\ CALENDARHASH(c, y.t) < j
    BY <1>11
  <2>2. j \in 0 .. n - 1 /\ i \in 0 .. n /\ j < i /\ \A k \in Nat : k < i <=> k < j \/ k = j
    BY <1>2
  <2>3. h[i] = Moved(c.bucket[j], g)
    BY <1>8
  <2> HIDE DEF g, j
  <2>4. \A y \in Items(g) : CALENDARHASH(c, y.t) # j
    BY <1>2, <1>9, <2>1, <2>2
  <2>5. /\ Sound(h[i], E) /\ SamePages(h[i], g) /\ Part(h[i], c)
        /\ \A y : y \in Items(h[i]) <=>
             y \in Items(g) \/ (y \in Items(c) /\ CALENDARHASH(c, y.t) = j)
    BY <2>1, <2>2, <2>3, <2>4, MovedFacts DEF n
  <2>6. SamePages(h[i], b)
    BY <2>1, <2>5 DEF SamePages
  <2>7. \A y \in Items(c) : CALENDARHASH(c, y.t) < i <=>
          CALENDARHASH(c, y.t) < j \/ CALENDARHASH(c, y.t) = j
    <3>1. \A y \in Items(c) : CALENDARHASH(c, y.t) \in Nat
      BY <1>2, <1>9
    <3> QED
      BY <2>2, <3>1
  <2> QED
    BY <2>1, <2>2, <2>5, <2>6, <2>7
<1>12. n \in T
  <2> HIDE DEF T
  <2>1. 0 .. n \subseteq T
    BY <1>2, <1>10, <1>11, InductionTo
  <2> QED
    BY <1>2, <2>1
<1>13. /\ Sound(d, E) /\ SamePages(d, b) /\ Part(d, c)
       /\ \A y : y \in Items(d) <=> y \in Items(c) /\ CALENDARHASH(c, y.t) < n
  BY <1>7, <1>12 DEF n
<1>14. Items(d) = Items(c)
  <2>1. \A y \in Items(c) : CALENDARHASH(c, y.t) < n
    BY <1>2, <1>9
  <2> QED
    BY <1>13, <2>1
<1>15. Ahead(d) = Ahead(c)
  <2>1. /\ Ahead(d) \subseteq Items(c) \X Items(c)
        /\ Ahead(c) \subseteq Items(c) \X Items(c)
    BY <1>14, AheadFacts
  <2>2. \A y, z \in Items(c) : <<y, z>> \in Ahead(d) <=> <<y, z>> \in Ahead(c)
    BY <1>13, <1>14 DEF Part
  <2> QED
    BY <2>1, <2>2
<1>16. /\ d.n = AtLeast4(m) /\ d.width = w /\ d.clk = c.clk
       /\ d.last = CALENDARHASH(b, c.clk) /\ d.n = b.n /\ d.width = b.width
  BY <1>5, <1>13 DEF SamePages
<1>17. CALENDARHASH(d, d.clk) = CALENDARHASH(b, c.clk)
  BY <1>16 DEF CALENDARHASH
<1> QED
  BY <1>13, <1>14, <1>15, <1>16, <1>17 DEF Same

-----------------------------------------------------------------------------
(* head.                                                                   *)

(* The current page is that of cal_clock_, and nothing is earlier.         *)
Ready(c, E) ==
  /\ Sound(c, E) /\ c.n >= 4
  /\ c.last = CALENDARHASH(c, c.clk)
  /\ \A x \in Items(c) : c.clk <= x.t

(* The day of a time, as pages are those of days.                          *)
Day(c, t) == t \div c.width

(* What the k-th page from the current one says of a time on it.           *)
OnPage(c, k, t) ==
  /\ Day(c, t) = Day(c, c.clk) + k \/ Day(c, t) >= Day(c, c.clk) + c.n + k
  /\ Day(c, t) = Day(c, c.clk) + k /\ k < c.n - 1
       => t - c.clk < Limit(c.width, c.n, k)
  /\ t - c.clk < Limit(c.width, c.n, k) => Day(c, t) = Day(c, c.clk) + k

LEMMA PageFacts ==
  ASSUME NEW E, NEW c, Ready(c, E)
  PROVE  /\ \A k \in 0 .. c.n - 1 : Page(c, k) \in 0 .. c.n - 1
         /\ \A i \in 0 .. c.n - 1 : \E k \in 0 .. c.n - 1 : Page(c, k) = i
         /\ \A k \in 0 .. c.n - 1 : \A x \in Items(c) :
              CALENDARHASH(c, x.t) = Page(c, k) => OnPage(c, k, x.t)
<1>1. c \in Calendars(E)
  BY DEF Ready, Sound
<1> DEFINE n == c.n
           w == c.width
           now == c.clk
           l == c.last
<1>2. /\ n \in Nat \ {0} /\ w \in Nat \ {0} /\ now \in Nat /\ n >= 4
      /\ l \in 0 .. n - 1 /\ l = (now \div w) % n
  <2>1. CALENDARHASH(c, c.clk) \in 0 .. c.n - 1
    BY <1>1, CalendarFields, HashFacts
  <2> QED
    BY <1>1, <2>1, CalendarFields DEF Ready, CALENDARHASH
<1>3. \A x \in Items(c) : x.t \in Nat /\ now <= x.t
  BY <1>1, ItemsFacts DEF Ready
<1>4. \A k : Page(c, k) = (l + k) % n
  BY DEF Page
<1>5. \A t : CALENDARHASH(c, t) = (t \div w) % n
  BY DEF CALENDARHASH
<1>6. \A k, t : OnPage(c, k, t) <=>
        /\ t \div w = (now \div w) + k \/ t \div w >= (now \div w) + n + k
        /\ t \div w = (now \div w) + k /\ k < n - 1 => t - now < Limit(w, n, k)
        /\ t - now < Limit(w, n, k) => t \div w = (now \div w) + k
  BY DEF OnPage, Day
<1> HIDE DEF n, w, now, l
<1>7. ASSUME NEW k \in 0 .. n - 1 PROVE Page(c, k) \in 0 .. n - 1
  <2>1. l + k \in Nat
    BY <1>2
  <2>2. (l + k) % n \in 0 .. n - 1
    BY <1>2, <2>1, DivFacts
  <2> QED
    BY <1>4, <2>2
<1>8. \A i \in 0 .. n - 1 : \E k \in 0 .. n - 1 : Page(c, k) = i
  <2>1. \A i \in 0 .. n - 1 : \E k \in 0 .. n - 1 : (l + k) % n = i
    BY <1>2, EveryPage
  <2> QED
    BY <1>4, <2>1
<1>9. ASSUME NEW k \in 0 .. n - 1, NEW x \in Items(c),
             CALENDARHASH(c, x.t) = Page(c, k)
      PROVE  OnPage(c, k, x.t)
  <2> DEFINE t == x.t
  <2>1. t \in Nat /\ now <= t
    BY <1>3
  <2>2. (t \div w) % n = (l + k) % n
    BY <1>4, <1>5, <1>9
  <2>3. (((now \div w) % n) + k) % n = (t \div w) % n
    BY <1>2, <2>2
  <2> HIDE DEF t
  <2>4. n \in Nat /\ n >= 4
    BY <1>2
  <2>5. InYear(w, n, k, now, t)
    BY <1>2, <2>1, <2>3, <2>4, YearFacts
  <2>6. OnPage(c, k, t)
    BY <1>6, <2>5 DEF InYear
  <2> QED
    BY <2>6 DEF t
<1> QED
  BY <1>7, <1>8, <1>9 DEF n

(* A later day is a later time.                                            *)
LEMMA LaterDay ==
  ASSUME NEW w \in Nat \ {0}, NEW t \in Nat, NEW u \in Nat,
         t \div w < u \div w
  PROVE  t < u
<1> DEFINE a == t \div w
           b == u \div w
<1>1. /\ a \in Nat /\ b \in Nat /\ t < w * a + w /\ w * b <= u
  BY DivFacts
<1>2. a < b
  OBVIOUS
<1> HIDE DEF a, b
<1>3. w * a + w <= w * b /\ w * a \in Nat /\ w * b \in Nat
  BY <1>1, <1>2, StepFacts
<1> QED
  BY <1>1, <1>3

(* What head finds on the pages.                                           *)
LEMMA UsedFacts ==
  ASSUME NEW E, NEW c, Ready(c, E)
  PROVE  /\ \A k \in Used(c) :
              /\ k \in 0 .. c.n - 1
              /\ c.bucket[Page(c, k)][1] \in Items(c)
              /\ Page(c, k) = CALENDARHASH(c, Time(c, k))
              /\ Time(c, k) \in Nat /\ OnPage(c, k, Time(c, k))
         /\ \A x \in Items(c) : \E k \in Used(c) :
              OnPage(c, k, x.t) /\ Time(c, k) <= x.t
<1>1. c \in Calendars(E) /\ Paged(c) /\ Sound(c, E)
  BY DEF Ready, Sound
<1>2. /\ \A k \in 0 .. c.n - 1 : Page(c, k) \in 0 .. c.n - 1
      /\ \A i \in 0 .. c.n - 1 : \E k \in 0 .. c.n - 1 : Page(c, k) = i
      /\ \A k \in 0 .. c.n - 1 : \A x \in Items(c) :
           CALENDARHASH(c, x.t) = Page(c, k) => OnPage(c, k, x.t)
  BY PageFacts
<1>3. ASSUME NEW k \in 0 .. c.n - 1
      PROVE  Ordered(c.bucket[Page(c, k)], c, Page(c, k), E)
  BY <1>1, <1>2, ListFacts
<1>4. ASSUME NEW k \in Used(c)
      PROVE  /\ k \in 0 .. c.n - 1
             /\ c.bucket[Page(c, k)][1] \in Items(c)
             /\ Page(c, k) = CALENDARHASH(c, Time(c, k))
             /\ Time(c, k) \in Nat /\ OnPage(c, k, Time(c, k))
  <2> DEFINE q == c.bucket[Page(c, k)]
  <2>1. k \in 0 .. c.n - 1 /\ q # <<>>
    BY DEF Used
  <2>2. Ordered(q, c, Page(c, k), E)
    BY <1>3, <2>1
  <2>3. Time(c, k) = q[1].t
    BY DEF Time
  <2> HIDE DEF q
  <2>4. 1 \in 1 .. Len(q)
    <3>1. q \in Seq(Entries(E)) /\ Len(q) \in Nat
      BY <2>2 DEF Ordered
    <3>2. Len(q) # 0
      BY <2>1, <3>1, EmptySeq
    <3> QED
      BY <3>1, <3>2
  <2>5. q[1] \in Items(c) /\ q[1].t \in Nat /\ CALENDARHASH(c, q[1].t) = Page(c, k)
    BY <2>2, <2>4 DEF Ordered
  <2>6. OnPage(c, k, q[1].t)
    BY <1>2, <2>1, <2>5
  <2> QED
    BY <2>1, <2>3, <2>5, <2>6 DEF q
<1>5. ASSUME NEW x \in Items(c)
      PROVE  \E k \in Used(c) : OnPage(c, k, x.t) /\ Time(c, k) <= x.t
  <2>1. CALENDARHASH(c, x.t) \in 0 .. c.n - 1
    BY <1>1, PageItems
  <2>2. PICK k \in 0 .. c.n - 1 : Page(c, k) = CALENDARHASH(c, x.t)
    BY <1>2, <2>1
  <2> DEFINE q == c.bucket[Page(c, k)]
  <2>3. Ordered(q, c, Page(c, k), E)
    BY <1>3
  <2>4. OnPage(c, k, x.t)
    BY <1>2, <2>2
  <2>5. Time(c, k) = q[1].t /\ (q # <<>> => k \in Used(c))
    BY DEF Time, Used
  <2> HIDE DEF q
  <2>6. PICK j \in 1 .. Len(q) : q[j] = x
    BY <2>2, <2>3 DEF Ordered
  <2>7. Len(q) \in Nat /\ 1 \in 1 .. Len(q) /\ (j = 1 \/ 1 < j) /\ q # <<>>
    BY <2>3, <2>6, EmptySeq DEF Ordered
  <2>8. q[1].t <= x.t
    <3>1. q[j].t \in Nat /\ (1 < j => q[1].t <= q[j].t)
      BY <2>3, <2>6, <2>7 DEF Ordered
    <3> QED
      BY <2>6, <2>7, <3>1
  <2> QED
    BY <2>4, <2>5, <2>7, <2>8
<1> QED
  BY <1>4, <1>5

(* x is the first event of the least time.                                 *)
First(c, x) ==
  x \in Items(c) /\ \A y \in Items(c) : x.t <= y.t /\ <<y, x>> \notin Ahead(c)

(* head finds it.                                                          *)
LEMMA FoundFacts ==
  ASSUME NEW E, NEW c, Ready(c, E), Items(c) # {}
  PROVE  /\ First(c, Earliest(c))
         /\ Found(c) \in 0 .. c.n - 1
         /\ Found(c) = CALENDARHASH(c, Earliest(c).t)
         /\ Earliest(c) = c.bucket[Found(c)][1]
<1> DEFINE w == c.width
           n == c.n
           a == Day(c, c.clk)
           Due == { k \in Used(c) \ {n - 1} : Time(c, k) - c.clk < Limit(w, n, k) }
           k0 == IF Due # {}
                 THEN CHOOSE k \in Due : \A m \in Due : k <= m
                 ELSE CHOOSE k \in Used(c) : \A m \in Used(c) : Time(c, k) <= Time(c, m)
<1>1. c \in Calendars(E) /\ Sound(c, E)
  BY DEF Ready, Sound
<1>2. /\ n \in Nat \ {0} /\ w \in Nat \ {0} /\ c.clk \in Nat /\ a \in Nat
  <2>1. n \in Nat \ {0} /\ w \in Nat \ {0} /\ c.clk \in Nat
    BY <1>1, CalendarFields
  <2>2. c.clk \div w \in Nat
    BY <2>1, DivFacts
  <2> QED
    BY <2>1, <2>2 DEF Day
<1>3. /\ \A k \in Used(c) :
           /\ k \in 0 .. c.n - 1
           /\ c.bucket[Page(c, k)][1] \in Items(c)
           /\ Page(c, k) = CALENDARHASH(c, Time(c, k))
           /\ Time(c, k) \in Nat /\ OnPage(c, k, Time(c, k))
      /\ \A x \in Items(c) : \E k \in Used(c) :
           OnPage(c, k, x.t) /\ Time(c, k) <= x.t
  BY UsedFacts
<1>4. Found(c) = Page(c, k0)
  BY DEF Found, Limit
<1>5. \A x \in Items(c) : x.t \in Nat
  BY <1>1, ItemsFacts
<1>6. \A k, t : OnPage(c, k, t) <=>
        /\ Day(c, t) = a + k \/ Day(c, t) >= a + n + k
        /\ Day(c, t) = a + k /\ k < n - 1 => t - c.clk < Limit(w, n, k)
        /\ t - c.clk < Limit(w, n, k) => Day(c, t) = a + k
  BY DEF OnPage
<1>7. \A t \in Nat : Day(c, t) \in Nat
  <2>1. \A t \in Nat : t \div w \in Nat
    BY <1>2, DivFacts
  <2> QED
    BY <2>1 DEF Day
<1>8. ASSUME NEW t \in Nat, NEW u \in Nat, Day(c, t) < Day(c, u) PROVE t < u
  <2>1. t \div w < u \div w
    BY <1>8 DEF Day
  <2> HIDE DEF w
  <2> QED
    BY <1>2, <2>1, LaterDay
<1>9. \A k \in Due : k \in Used(c) /\ k < n - 1 /\ Day(c, Time(c, k)) = a + k
  <2>1. ASSUME NEW k \in Due PROVE k < n - 1 /\ Day(c, Time(c, k)) = a + k
    <3>1. k \in 0 .. n - 1 /\ k # n - 1 /\ OnPage(c, k, Time(c, k))
      BY <1>3
    <3>2. Time(c, k) - c.clk < Limit(w, n, k)
      OBVIOUS
    <3> QED
      BY <1>2, <1>6, <3>1, <3>2
  <2> QED
    BY <2>1
<1>10. \A k \in Used(c) : k < n - 1 /\ Day(c, Time(c, k)) = a + k => k \in Due
  <2>1. ASSUME NEW k \in Used(c), k < n - 1, Day(c, Time(c, k)) = a + k
        PROVE  k \in Due
    <3>1. k # n - 1 /\ OnPage(c, k, Time(c, k))
      BY <1>2, <1>3, <2>1
    <3>2. Time(c, k) - c.clk < Limit(w, n, k)
      BY <1>6, <2>1, <3>1
    <3> QED
      BY <3>1, <3>2
  <2> QED
    BY <2>1
<1> HIDE DEF w, n, a, Due
<1>11. k0 \in Used(c) /\ \A x \in Items(c) : Time(c, k0) <= x.t
  <2>1. CASE Due # {}
    <3>1. \E k \in Due : \A m \in Due : k <= m
      <4>1. Due \subseteq Nat
        BY <1>2, <1>3, <1>9 DEF n
      <4> QED
        BY <2>1, <4>1, LeastNat
    <3>2. k0 \in Due /\ \A m \in Due : k0 <= m
      BY <2>1, <3>1
    <3> HIDE DEF k0
    <3>3. /\ k0 \in Used(c) /\ k0 \in Nat /\ k0 < n - 1 /\ Time(c, k0) \in Nat
          /\ Day(c, Time(c, k0)) = a + k0
      BY <1>2, <1>3, <1>9, <3>2 DEF n
    <3>4. ASSUME NEW x \in Items(c) PROVE Time(c, k0) <= x.t
      <4>1. PICK k \in Used(c) : OnPage(c, k, x.t) /\ Time(c, k) <= x.t
        BY <1>3
      <4>2. /\ k \in 0 .. n - 1 /\ Time(c, k) \in Nat /\ x.t \in Nat
            /\ OnPage(c, k, Time(c, k))
        BY <1>3, <1>5 DEF n
      <4>3. CASE a + k0 < Day(c, x.t)
        <5>1. Time(c, k0) < x.t
          BY <1>8, <3>3, <4>2, <4>3
        <5> QED
          BY <3>3, <4>2, <5>1
      <4>4. CASE ~(a + k0 < Day(c, x.t))
        <5>1. Day(c, x.t) \in Nat /\ Day(c, Time(c, k)) \in Nat
          BY <1>7, <4>2
        <5>2. Day(c, x.t) = a + k
          <6>1. ~(Day(c, x.t) >= a + n + k)
            BY <1>2, <3>3, <4>2, <4>4, <5>1
          <6> QED
            BY <1>6, <4>1, <6>1
        <5>3. k <= k0
          BY <1>2, <3>3, <4>2, <4>4, <5>2
        <5>4. ~(Day(c, x.t) < Day(c, Time(c, k)))
          <6>1. ~(x.t < Time(c, k))
            BY <4>1, <4>2
          <6> QED
            BY <1>8, <4>2, <6>1
        <5>5. Day(c, Time(c, k)) = a + k
          <6>1. ~(Day(c, Time(c, k)) >= a + n + k)
            BY <1>2, <4>2, <5>1, <5>2, <5>4
          <6> QED
            BY <1>6, <4>2, <6>1
        <5>6. k \in Due
          BY <1>2, <1>10, <3>3, <4>2, <5>3, <5>5
        <5>7. k = k0
          BY <3>2, <3>3, <4>2, <5>3, <5>6
        <5> QED
          BY <4>1, <5>7
      <4> QED
        BY <4>3, <4>4
    <3> QED
      BY <3>3, <3>4
  <2>2. CASE Due = {}
    <3> DEFINE T == { Time(c, k) : k \in Used(c) }
    <3>1. T \subseteq Nat /\ T # {}
      BY <1>3
    <3>2. \E k \in Used(c) : \A m \in Used(c) : Time(c, k) <= Time(c, m)
      <4> HIDE DEF T
      <4>1. PICK t \in T : \A u \in T : t <= u
        BY <3>1, LeastNat
      <4> QED
        BY <4>1 DEF T
    <3>3. k0 \in Used(c) /\ \A m \in Used(c) : Time(c, k0) <= Time(c, m)
      BY <2>2, <3>2
    <3> HIDE DEF k0
    <3>4. ASSUME NEW x \in Items(c) PROVE Time(c, k0) <= x.t
      <4>1. PICK k \in Used(c) : Time(c, k) <= x.t
        BY <1>3
      <4>2. Time(c, k0) <= Time(c, k) /\ Time(c, k0) \in Nat /\ Time(c, k) \in Nat
        BY <1>3, <3>3
      <4> QED
        BY <1>5, <4>1, <4>2
    <3> QED
      BY <3>3, <3>4
  <2> QED
    BY <2>1, <2>2
<1> HIDE DEF k0
<1> DEFINE i == Page(c, k0)
           q == c.bucket[i]
           x == q[1]
<1>12. Earliest(c) = x /\ Found(c) = i /\ Time(c, k0) = x.t
  BY <1>4 DEF Earliest, Time
<1>13. /\ i \in 0 .. c.n - 1 /\ x \in Items(c) /\ i = CALENDARHASH(c, x.t)
  <2>1. k0 \in 0 .. c.n - 1 /\ x \in Items(c) /\ i = CALENDARHASH(c, Time(c, k0))
    BY <1>3, <1>11
  <2>2. i \in 0 .. c.n - 1
    BY <2>1, PageFacts
  <2> QED
    BY <1>12, <2>1, <2>2
<1>14. \A y \in Items(c) : x.t <= y.t
  BY <1>11, <1>12
<1>15. \A y : <<y, x>> \notin Ahead(c)
  <2>1. SUFFICES ASSUME NEW y, <<y, x>> \in Ahead(c) PROVE FALSE
    OBVIOUS
  <2>2. y.t = x.t /\ Order(c.bucket[CALENDARHASH(c, y.t)], y, x)
    BY <2>1, AheadFacts
  <2>3. Order(q, y, x)
    BY <1>13, <2>2
  <2>4. Ordered(q, c, i, E) /\ Once(q)
    BY <1>1, <1>13, ListFacts DEF Sound, OnceEach
  <2> HIDE DEF i, q
  <2>5. Len(q) \in Nat /\ DOMAIN q = 1 .. Len(q)
    BY <2>4 DEF Ordered
  <2>6. PICK j, k \in 1 .. Len(q) : j < k /\ q[j] = y /\ q[k] = x
    BY <2>3, <2>5 DEF Order
  <2>7. 1 \in 1 .. Len(q) /\ q[k] = q[1]
    BY <2>5, <2>6
  <2>8. k = 1
    BY <2>4, <2>5, <2>6, <2>7 DEF Once
  <2> QED
    BY <2>5, <2>6, <2>8
<1>16. First(c, x)
  BY <1>13, <1>14, <1>15 DEF First
<1> QED
  BY <1>12, <1>13, <1>16

-----------------------------------------------------------------------------
(* insert, deque and cancel.                                               *)

(* A resized calendar is ready if its events are due.                      *)
LEMMA ResizedReady ==
  ASSUME NEW E, NEW c, Sound(c, E), \A x \in Items(c) : c.clk <= x.t,
         NEW m \in Nat, NEW w \in Widths, NEW d, d = Resize(c, m, w)
  PROVE  Ready(d, E) /\ Same(d, c) /\ d.width = w
<1>1. w \in Nat \ {0}
  BY CalendarAssumption
<1>2. /\ Sound(d, E) /\ Same(d, c) /\ d.n = AtLeast4(m)
      /\ d.width = w /\ d.last = CALENDARHASH(d, d.clk)
  BY <1>1, ResizeFacts
<1>3. d.n >= 4
  BY <1>2 DEF AtLeast4
<1>4. \A x \in Items(d) : d.clk <= x.t
  BY <1>2 DEF Same
<1> QED
  BY <1>2, <1>3, <1>4 DEF Ready

(* insert puts an event behind all others of its time, resized or not.     *)
LEMMA InsertFacts ==
  ASSUME NEW E, NEW c, Ready(c, E), NEW x \in Entries(E), c.clk <= x.t,
         \A y \in Items(c) : y.e # x.e, NEW d \in Insert(c, x)
  PROVE  /\ Ready(d, E) /\ PutsLast(d, c, x) /\ d.clk = c.clk
         /\ d.width \in Widths \cup {c.width}
<1>1. PICK b : b = Link(c, x, PlaceBehind(c.bucket[CALENDARHASH(c, x.t)], x.t))
  OBVIOUS
<1>2. d \in {Resize(b, 2 * b.n, w) : w \in Widths} \/ d = b
  BY <1>1 DEF Insert
<1>3. Sound(b, E) /\ SamePages(b, c) /\ PutsLast(b, c, x)
  BY <1>1, BehindFacts DEF Ready
<1>4. \A y \in Items(b) : b.clk <= y.t
  BY <1>3 DEF PutsLast, SamePages, Ready
<1>5. CASE d = b
  <2>1. CALENDARHASH(b, b.clk) = CALENDARHASH(c, c.clk)
    BY <1>3 DEF SamePages, CALENDARHASH
  <2>2. Ready(b, E)
    BY <1>3, <1>4, <2>1 DEF SamePages, Ready
  <2> QED
    BY <1>3, <1>5, <2>2 DEF SamePages
<1>6. CASE d \in {Resize(b, 2 * b.n, w) : w \in Widths}
  <2>1. PICK w \in Widths : d = Resize(b, 2 * b.n, w)
    BY <1>6
  <2>2. 2 * b.n \in Nat
    <3>1. b.n \in Nat
      BY <1>3, CalendarFields DEF Sound
    <3> QED
      BY <3>1
  <2>3. Ready(d, E) /\ Same(d, b) /\ d.width = w
    BY <1>3, <1>4, <2>1, <2>2, ResizedReady
  <2>4. PutsLast(d, c, x)
    BY <1>3, <2>3 DEF PutsLast, Same
  <2> QED
    BY <1>3, <2>3, <2>4 DEF Same, SamePages
<1> QED
  BY <1>2, <1>5, <1>6

(* d is c without x.                                                       *)
Lacks(d, c, x) ==
  /\ Items(d) = Items(c) \ {x}
  /\ Ahead(d) = Ahead(c) \cap (Items(d) \X Items(d))

(* In a list in the order of times, others of one time are its neighbours. *)
LEMMA Neighbours ==
  ASSUME NEW q, NEW c, NEW i, NEW E, Ordered(q, c, i, E), NEW k \in 1 .. Len(q)
  PROVE  (\A j \in {k - 1, k + 1} \cap DOMAIN q : q[j].t # q[k].t)
           <=> \A j \in 1 .. Len(q) : j # k => q[j].t # q[k].t
<1> DEFINE n == Len(q)
<1>1. /\ n \in Nat /\ DOMAIN q = 1 .. n /\ \A j \in 1 .. n : q[j].t \in Nat
      /\ \A j, l \in 1 .. n : j < l => q[j].t <= q[l].t
  BY DEF Ordered
<1> HIDE DEF n
<1>2. ASSUME \A j \in {k - 1, k + 1} \cap DOMAIN q : q[j].t # q[k].t,
             NEW j \in 1 .. n, j # k
      PROVE  q[j].t # q[k].t
  <2>0. k \in 1 .. n
    BY DEF n
  <2>1. CASE j < k
    <3>1. k - 1 \in 1 .. n /\ k - 1 < k /\ (j = k - 1 \/ j < k - 1)
      BY <1>1, <2>0, <2>1
    <3>2. q[k - 1].t # q[k].t /\ q[k - 1].t <= q[k].t
      BY <1>1, <1>2, <2>0, <3>1
    <3>3. q[j].t <= q[k - 1].t
      BY <1>1, <3>1
    <3> QED
      BY <1>1, <2>0, <3>1, <3>2, <3>3
  <2>2. CASE k < j
    <3>1. k + 1 \in 1 .. n /\ k < k + 1 /\ (j = k + 1 \/ k + 1 < j)
      BY <1>1, <2>0, <2>2
    <3>2. q[k + 1].t # q[k].t /\ q[k].t <= q[k + 1].t
      BY <1>1, <1>2, <2>0, <3>1
    <3>3. q[k + 1].t <= q[j].t
      BY <1>1, <3>1
    <3> QED
      BY <1>1, <2>0, <3>1, <3>2, <3>3
  <2> QED
    BY <1>1, <1>2, <2>0, <2>1, <2>2
<1>3. \A j \in {k - 1, k + 1} \cap DOMAIN q : j \in 1 .. n /\ j # k
  BY <1>1 DEF n
<1> QED
  BY <1>2, <1>3 DEF n

(* The earliest event is the first of its list, wherever that is.          *)
LEMMA FirstOfList ==
  ASSUME NEW E, NEW c, Sound(c, E), NEW x, First(c, x),
         NEW i, i = CALENDARHASH(c, x.t)
  PROVE  i \in 0 .. c.n - 1 /\ 1 \in 1 .. Len(c.bucket[i]) /\ c.bucket[i][1] = x
<1> DEFINE q == c.bucket[i]
<1>1. x \in Items(c) /\ \A y \in Items(c) : x.t <= y.t /\ <<y, x>> \notin Ahead(c)
  BY DEF First
<1>2. i \in 0 .. c.n - 1
  BY <1>1, PageItems DEF Sound
<1>3. Ordered(q, c, i, E)
  BY <1>2, ListFacts
<1>4. \A j, k \in 1 .. Len(q) : j < k /\ q[j].t = q[k].t => <<q[j], q[k]>> \in Ahead(c)
  BY <1>2, AheadOrder
<1> HIDE DEF q
<1>5. /\ Len(q) \in Nat
      /\ \A j \in 1 .. Len(q) : q[j] \in Items(c) /\ q[j].t \in Nat
      /\ \A j, k \in 1 .. Len(q) : j < k => q[j].t <= q[k].t
  BY <1>3 DEF Ordered
<1>6. PICK j \in 1 .. Len(q) : q[j] = x
  BY <1>1, <1>3 DEF Ordered
<1>7. 1 \in 1 .. Len(q) /\ (j = 1 \/ 1 < j)
  BY <1>5
<1>8. ~(1 < j)
  <2>1. SUFFICES ASSUME 1 < j PROVE FALSE
    OBVIOUS
  <2>2. /\ q[1].t <= q[j].t /\ q[j].t <= q[1].t /\ q[1].t \in Nat /\ q[j].t \in Nat
        /\ q[1] \in Items(c)
    BY <1>1, <1>5, <1>6, <1>7, <2>1
  <2>3. q[1].t = q[j].t
    BY <2>2
  <2>4. <<q[1], x>> \in Ahead(c)
    BY <1>4, <1>6, <1>7, <2>1, <2>3
  <2> QED
    BY <1>1, <2>2, <2>4
<1> QED
  BY <1>2, <1>6, <1>7, <1>8 DEF q

(* Taking event x out at place k of its list i.                            *)
LEMMA UnlinkReady ==
  ASSUME NEW E, NEW c, Ready(c, E), NEW i \in 0 .. c.n - 1,
         NEW k \in 1 .. Len(c.bucket[i]), NEW x, x = c.bucket[i][k],
         NEW alone \in BOOLEAN,
         alone <=> \A j \in 1 .. Len(c.bucket[i]) :
                     j # k => c.bucket[i][j].t # c.bucket[i][k].t,
         NEW d, d = Unlink(c, i, k, alone)
  PROVE  Ready(d, E) /\ SamePages(d, c) /\ Lacks(d, c, x) /\ x \in Items(c)
<1>1. Sound(c, E)
  BY DEF Ready
<1>2. /\ Sound(d, E)
      /\ d.n = c.n /\ d.width = c.width /\ d.last = c.last /\ d.clk = c.clk
      /\ x \in Items(c) /\ Items(d) = Items(c) \ {x}
      /\ \A p : p \in Ahead(d) <=>
           p \in Ahead(c) /\ p \in (Items(c) \ {x}) \X (Items(c) \ {x})
  BY <1>1, UnlinkFacts
<1>3. SamePages(d, c)
  BY <1>2 DEF SamePages
<1>4. Lacks(d, c, x)
  BY <1>2 DEF Lacks
<1>5. CALENDARHASH(d, d.clk) = CALENDARHASH(c, c.clk)
  BY <1>2 DEF CALENDARHASH
<1>6. Ready(d, E)
  BY <1>2, <1>5 DEF Ready
<1> QED
  BY <1>2, <1>3, <1>4, <1>6

(* deque takes the first event of the least time, resized before or after  *)
(* that or not, and moves the clock on to it.                              *)
LEMMA DequeFacts ==
  ASSUME NEW E, NEW c, Ready(c, E), Items(c) # {}, NEW d \in Deque(c)
  PROVE  /\ First(c, Earliest(c)) /\ Ready(d, E) /\ Lacks(d, c, Earliest(c))
         /\ d.clk = Earliest(c).t /\ d.width \in Widths \cup {c.width}
<1> DEFINE x == Earliest(c)
           i == Found(c)
           a == [c EXCEPT !.last = i, !.clk = x.t]
           Cut(b) == LET q == b.bucket[b.last]
                     IN  Unlink(b, b.last, 1, Len(q) = 1 \/ q[2].t # q[1].t)
           Fit(b) == IF b.stat < BotThreshold(b)
                     THEN {Resize(b, b.n \div 2, w) : w \in Widths}
                     ELSE {b}
<1>1. c \in Calendars(E) /\ Sound(c, E) /\ c.n >= 4
  BY DEF Ready, Sound
<1>2. First(c, x) /\ i \in 0 .. c.n - 1 /\ i = CALENDARHASH(c, x.t)
  BY FoundFacts
<1>3. PICK b \in {a} \cup {Resize(a, c.n, w) : w \in Widths} : d \in Fit(Cut(b))
  BY DEF Deque
<1> HIDE DEF x, i, Cut, Fit
<1>4. x \in Items(c) /\ \A y \in Items(c) : x.t <= y.t /\ <<y, x>> \notin Ahead(c)
  BY <1>2 DEF First
<1>5. x.t \in Nat /\ i \in Nat /\ c.n \in Nat
  <2>1. x.t \in Nat
    BY <1>1, <1>4, ItemsFacts
  <2>2. c.n \in Nat
    BY <1>1, CalendarFields
  <2> QED
    BY <1>2, <2>1, <2>2
<1>6. /\ a \in Calendars(E)
      /\ a.bucket = c.bucket /\ a.count = c.count /\ a.n = c.n /\ a.width = c.width
      /\ a.qsize = c.qsize /\ a.stat = c.stat /\ a.last = i /\ a.clk = x.t
  <2> DEFINE u == x.t
             r == [bucket |-> c.bucket, count |-> c.count, n |-> c.n,
                   width |-> c.width, qsize |-> c.qsize, stat |-> c.stat,
                   last |-> i, clk |-> u]
  <2>1. /\ c.n \in Nat \ {0} /\ c.width \in Nat \ {0}
        /\ c.bucket \in [0 .. c.n - 1 -> Seq(Entries(E))]
        /\ c.count \in [0 .. c.n - 1 -> Int]
        /\ c.qsize \in Int /\ c.stat \in Int
        /\ c = [bucket |-> c.bucket, count |-> c.count, n |-> c.n,
                width |-> c.width, qsize |-> c.qsize, stat |-> c.stat,
                last |-> c.last, clk |-> c.clk]
    BY <1>1, CalendarFields
  <2>2. a = [c EXCEPT !.last = i, !.clk = u] /\ u \in Nat
    BY <1>5
  <2> HIDE DEF u, a
  <2>3. a = r
    BY <2>1, <2>2
  <2>4. r \in Calendars(E)
    BY <1>5, <2>1, <2>2, CalendarRecord
  <2> QED
    BY <2>3, <2>4 DEF u
<1> HIDE DEF a
<1>7. \A t : CALENDARHASH(a, t) = CALENDARHASH(c, t)
  BY <1>6 DEF CALENDARHASH
<1>8. Items(a) = Items(c)
  BY <1>6 DEF Items
<1>9. Ahead(a) = Ahead(c)
  BY <1>6, <1>7, <1>8 DEF Ahead
<1>10. Sound(a, E)
  <2>1. Paged(a)
    BY <1>1, <1>6, <1>7 DEF Sound, Paged
  <2>2. Sorted(a, E) /\ OnceEach(a)
    BY <1>1, <1>6, <1>8 DEF Sound, Sorted, OnceEach
  <2>3. Counted(a)
    BY <1>1, <1>6, <1>8 DEF Sound, Counted
  <2> QED
    BY <1>6, <2>1, <2>2, <2>3 DEF Sound
<1>11. Ready(a, E)
  BY <1>1, <1>2, <1>4, <1>6, <1>7, <1>8, <1>10 DEF Ready
<1>12. /\ Ready(b, E) /\ Items(b) = Items(c) /\ Ahead(b) = Ahead(c) /\ b.clk = x.t
       /\ b.width \in Widths \cup {c.width}
  <2>1. CASE b = a
    BY <1>6, <1>8, <1>9, <1>11, <2>1
  <2>2. CASE b \in {Resize(a, c.n, w) : w \in Widths}
    <3>1. PICK w \in Widths : b = Resize(a, c.n, w)
      BY <2>2
    <3>2. Ready(b, E) /\ Same(b, a) /\ b.width = w
      <4>1. \A y \in Items(a) : a.clk <= y.t
        BY <1>11 DEF Ready
      <4> QED
        BY <1>5, <1>10, <3>1, <4>1, ResizedReady
    <3> QED
      BY <1>6, <1>8, <1>9, <3>2 DEF Same
  <2> QED
    BY <1>3, <2>1, <2>2
<1> DEFINE l == b.last
           q == b.bucket[l]
           alone == Len(q) = 1 \/ q[2].t # q[1].t
           g == Unlink(b, l, 1, alone)
<1>13. l = CALENDARHASH(b, x.t) /\ First(b, x) /\ Sound(b, E)
  BY <1>2, <1>12 DEF Ready, First
<1>14. Cut(b) = g
  BY DEF Cut
<1>15. l \in 0 .. b.n - 1 /\ 1 \in 1 .. Len(q) /\ x = q[1]
  <2> HIDE DEF l
  <2> QED
    BY <1>13, FirstOfList
<1> HIDE DEF l
<1>16. Ordered(q, b, l, E)
  BY <1>13, <1>15, ListFacts
<1>17. alone <=> \A j \in 1 .. Len(q) : j # 1 => q[j].t # q[1].t
  <2> HIDE DEF q
  <2>1. (\A j \in {1 - 1, 1 + 1} \cap DOMAIN q : q[j].t # q[1].t)
           <=> \A j \in 1 .. Len(q) : j # 1 => q[j].t # q[1].t
    BY <1>15, <1>16, Neighbours
  <2>2. Len(q) \in Nat /\ DOMAIN q = 1 .. Len(q)
    BY <1>16 DEF Ordered
  <2>3. alone <=> \A j \in {1 - 1, 1 + 1} \cap DOMAIN q : q[j].t # q[1].t
    BY <1>15, <2>2
  <2> QED
    BY <2>1, <2>3
<1>18. /\ Ready(g, E) /\ SamePages(g, b) /\ Lacks(g, b, x)
  <2>1. alone \in BOOLEAN /\ g = Unlink(b, l, 1, alone)
    OBVIOUS
  <2>2. x = b.bucket[l][1] /\ 1 \in 1 .. Len(b.bucket[l])
    BY <1>15
  <2>3. alone <=> \A j \in 1 .. Len(b.bucket[l]) :
                    j # 1 => b.bucket[l][j].t # b.bucket[l][1].t
    BY <1>17
  <2> HIDE DEF g, alone
  <2> QED
    BY <1>12, <1>15, <2>1, <2>2, <2>3, UnlinkReady
<1> HIDE DEF g
<1>19. d \in {Resize(g, g.n \div 2, w) : w \in Widths} \/ d = g
  BY <1>3, <1>14 DEF Fit
<1>20. Lacks(g, c, x) /\ g.clk = x.t /\ g.width \in Widths \cup {c.width}
  BY <1>12, <1>18 DEF Lacks, SamePages
<1>21. CASE d = g
  BY <1>2, <1>18, <1>20, <1>21 DEF x
<1>22. CASE d \in {Resize(g, g.n \div 2, w) : w \in Widths}
  <2>1. PICK w \in Widths : d = Resize(g, g.n \div 2, w)
    BY <1>22
  <2>2. g.n \div 2 \in Nat
    <3>1. g.n \in Nat
      BY <1>18, CalendarFields DEF Ready, Sound
    <3> QED
      BY <3>1, DivFacts
  <2>3. Ready(d, E) /\ Same(d, g) /\ d.width = w
    BY <1>18, <2>1, <2>2, ResizedReady DEF Ready
  <2>4. Lacks(d, c, x) /\ d.clk = x.t
    BY <1>20, <2>3 DEF Lacks, Same
  <2> QED
    BY <1>2, <2>3, <2>4 DEF x
<1> QED
  BY <1>19, <1>21, <1>22

(* cancel takes the event out.                                             *)
LEMMA CancelFacts ==
  ASSUME NEW E, NEW c, Ready(c, E), NEW x \in Items(c), NEW d, d = Cancel(c, x.e)
  PROVE  Ready(d, E) /\ SamePages(d, c) /\ Lacks(d, c, x)
<1> DEFINE e == x.e
           i == Bucket(c, e)
           q == c.bucket[i]
           k == Place(c, e)
           alone == \A j \in {k - 1, k + 1} \cap DOMAIN q : q[j].t # q[k].t
<1>1. /\ c \in Calendars(E) /\ Sound(c, E)
      /\ \A y \in Items(c) : y.e = x.e => y = x
  BY DEF Ready, Sound, OnceEach
<1>2. (CHOOSE y \in Items(c) : y.e = e) = x
  BY <1>1
<1>3. i = CALENDARHASH(c, x.t)
  BY <1>2 DEF Bucket
<1>4. i \in 0 .. c.n - 1
  BY <1>1, <1>3, PageItems DEF Sound
<1>5. k = CHOOSE j \in DOMAIN q : q[j].e = e
  BY DEF Place
<1>6. d = Unlink(c, i, k, alone)
  BY DEF Cancel
<1> HIDE DEF i, k
<1>7. Ordered(q, c, i, E)
  BY <1>1, <1>4, ListFacts
<1> HIDE DEF q
<1>8. \E j \in DOMAIN q : q[j].e = e
  BY <1>3, <1>7 DEF Ordered
<1>9. k \in DOMAIN q /\ q[k].e = e
  BY <1>5, <1>8
<1>10. k \in 1 .. Len(q) /\ x = q[k]
  BY <1>1, <1>7, <1>9 DEF Ordered
<1>11. alone <=> \A j \in 1 .. Len(q) : j # k => q[j].t # q[k].t
  BY <1>7, <1>10, Neighbours
<1>12. alone \in BOOLEAN
  OBVIOUS
<1> HIDE DEF alone
<1>13. /\ k \in 1 .. Len(c.bucket[i]) /\ x = c.bucket[i][k]
       /\ alone <=> \A j \in 1 .. Len(c.bucket[i]) :
                      j # k => c.bucket[i][j].t # c.bucket[i][k].t
  BY <1>10, <1>11 DEF q
<1> QED
  BY <1>4, <1>6, <1>12, <1>13, UnlinkReady

-----------------------------------------------------------------------------
(* The timers on the calendar.                                             *)

(* The invariant: the calendar is sound, its current page is that of the   *)
(* clock and nothing in it is past, which is what lets head trust its      *)
(* limits; and it holds the events of the pending timers, no others.       *)
IInv ==
  /\ clock \in 0 .. MaxTime
  /\ status \in [Timer -> {"idle", "pending", "handling"}]
  /\ running \in Timer \union {NoTimer}
  /\ Ready(cal, Timer) /\ cal.clk = clock /\ cal.width \in Widths \cup {1}
  /\ \A x \in Items(cal) : x.t <= MaxTime
  /\ \A t \in Timer : status[t] = "pending" <=> \E x \in Items(cal) : x.e = t
  /\ \A t \in Timer : status[t] = "handling" => running = t

LEMMA InitSound == Init => IInv /\ Queue!Init
<1> SUFFICES ASSUME Init PROVE IInv /\ Queue!Init
  OBVIOUS
<1>1. Empty(cal, Timer, 4, 1, 0)
  <2>1. cal = Reinit(4, 1, 0)
    BY DEF Init
  <2>2. 4 \in Nat \ {0} /\ 1 \in Nat \ {0} /\ 0 \in Nat
    OBVIOUS
  <2> QED
    BY <2>1, <2>2, ReinitFacts
<1>2. /\ Ready(cal, Timer) /\ Items(cal) = {} /\ Ahead(cal) = {} /\ cal.clk = 0
      /\ cal.width = 1
  BY <1>1 DEF Empty, Ready
<1>3. Queue!Init
  BY <1>2 DEF Init, Queue!Init
<1>4. IInv
  <2>1. 0 \in 0 .. MaxTime
    BY TimersAssumption
  <2> QED
    BY <1>2, <2>1 DEF Init, IInv
<1> QED
  BY <1>3, <1>4

(* The calendar without the event of t, cancelled if it was pending.       *)
LEMMA WithoutEvent ==
  ASSUME IInv, NEW t \in Timer,
         NEW c, c = IF status[t] = "pending" THEN Cancel(cal, t) ELSE cal
  PROVE  /\ Ready(c, Timer) /\ c.clk = clock /\ c.width \in Widths \cup {1}
         /\ Items(c) = { x \in Items(cal) : x.e # t }
         /\ Ahead(c) = Ahead(cal) \cap (Items(c) \X Items(c))
<1>1. Ready(cal, Timer) /\ cal.clk = clock /\ cal.width \in Widths \cup {1}
  BY DEF IInv
<1>2. \A x, y \in Items(cal) : x.e = y.e => x = y
  BY <1>1 DEF Ready, Sound, OnceEach
<1>3. CASE status[t] = "pending"
  <2>1. PICK x \in Items(cal) : x.e = t
    BY <1>3 DEF IInv
  <2>2. c = Cancel(cal, x.e)
    BY <1>3, <2>1
  <2>3. Ready(c, Timer) /\ SamePages(c, cal) /\ Lacks(c, cal, x)
    BY <1>1, <2>2, CancelFacts
  <2>4. Items(c) = { y \in Items(cal) : y.e # t }
    BY <1>2, <2>1, <2>3 DEF Lacks
  <2> QED
    BY <1>1, <2>3, <2>4 DEF SamePages, Lacks
<1>4. CASE status[t] # "pending"
  <2>1. c = cal
    BY <1>4
  <2>2. \A y \in Items(cal) : y.e # t
    BY <1>4 DEF IInv
  <2>3. Ahead(cal) \subseteq Items(cal) \X Items(cal)
    BY AheadFacts
  <2> QED
    BY <1>1, <2>1, <2>2, <2>3
<1> QED
  BY <1>3, <1>4

(* sched and resched schedule the event, anew if it was pending.           *)
LEMMA ScheduleStep ==
  ASSUME IInv, NEW t \in Timer, NEW delay \in Delays, Resched(t, delay)
  PROVE  IInv' /\ Queue!Schedule(t, clock + delay) /\ clock + delay \in 0 .. MaxTime
<1> DEFINE u == clock + delay
           x == [e |-> t, t |-> u]
<1>1. PICK c : c = IF status[t] = "pending" THEN Cancel(cal, t) ELSE cal
  OBVIOUS
<1>2. PICK d : d = cal'
  OBVIOUS
<1>3. /\ u <= MaxTime /\ d \in Insert(c, x)
      /\ status' = [status EXCEPT ![t] = "pending"]
      /\ clock' = clock /\ running' = running
  BY <1>1, <1>2 DEF Resched, Schedule
<1>4. clock \in Nat /\ MaxTime \in Nat /\ u \in Nat /\ clock <= u
  BY TimersAssumption DEF IInv
<1>5. x \in Entries(Timer) /\ x.e = t /\ x.t = u
  BY <1>4 DEF Entries
<1> HIDE DEF u
<1>6. /\ Ready(c, Timer) /\ c.clk = clock /\ c.width \in Widths \cup {1}
      /\ Items(c) = { y \in Items(cal) : y.e # t }
      /\ Ahead(c) = Ahead(cal) \cap (Items(c) \X Items(c))
  BY <1>1, WithoutEvent
<1>7. \A y \in Items(c) : y.e # x.e
  BY <1>5, <1>6
<1>8. /\ Ready(d, Timer) /\ PutsLast(d, c, x) /\ d.clk = c.clk
      /\ d.width \in Widths \cup {c.width}
  <2>1. c.clk <= x.t
    BY <1>4, <1>5, <1>6
  <2> HIDE DEF x
  <2> QED
    BY <1>3, <1>5, <1>6, <1>7, <2>1, InsertFacts
<1>9. Items(d) = { y \in Items(cal) : y.e # t } \cup {x}
  BY <1>6, <1>8 DEF PutsLast
<1>10. Ahead(d) = Ahead(c) \cup { <<y, x>> : y \in { z \in Items(c) : z.t = u } }
  <2>1. Ahead(d) \subseteq Items(d) \X Items(d) /\ Ahead(c) \subseteq Items(c) \X Items(c)
    BY AheadFacts
  <2>2. \A y, z : <<y, z>> \in Ahead(d) <=>
          <<y, z>> \in Ahead(c) \/ (z = x /\ y \in Items(c) /\ y.t = u)
    <3> HIDE DEF x
    <3>1. \A y, z : <<y, z>> \in Ahead(d) <=>
            <<y, z>> \in Ahead(c) \/ (z = x /\ y \in Items(c) /\ y.t = x.t)
      BY <1>8 DEF PutsLast
    <3>2. x.t = u
      BY <1>5
    <3>3. ASSUME NEW y, NEW z
          PROVE  <<y, z>> \in Ahead(d) <=>
                   <<y, z>> \in Ahead(c) \/ (z = x /\ y \in Items(c) /\ y.t = u)
      <4>1. <<y, z>> \in Ahead(d) <=>
              <<y, z>> \in Ahead(c) \/ (z = x /\ y \in Items(c) /\ y.t = x.t)
        BY <3>1
      <4> QED
        BY <3>2, <4>1
    <3> QED
      BY <3>3
  <2> DEFINE A == Ahead(c) \cup { <<y, x>> : y \in { z \in Items(c) : z.t = u } }
  <2>3. \A p \in A : \E y, z : p = <<y, z>>
    BY <2>1
  <2>4. \A p \in Ahead(d) : \E y, z : p = <<y, z>>
    BY <2>1
  <2> HIDE DEF x
  <2>5. \A y, z : <<y, z>> \in A <=>
          <<y, z>> \in Ahead(c) \/ (z = x /\ y \in Items(c) /\ y.t = u)
    OBVIOUS
  <2> HIDE DEF A
  <2>6. Ahead(d) = A
    BY <2>2, <2>3, <2>4, <2>5
  <2> QED
    BY <2>6 DEF A
<1>11. Queue!Schedule(t, u)
  <2> DEFINE O == { y \in Items(cal) : y.e # t }
  <2>1. Queue!Others(t) = O
    BY DEF Queue!Others
  <2>2. Queue!Among(O) = Ahead(cal) \cap (O \X O)
    BY DEF Queue!Among
  <2>3. Items(c) = O /\ Ahead(c) = Ahead(cal) \cap (O \X O)
    BY <1>6
  <2>4. u >= clock
    BY <1>4
  <2>5. Items(cal)' = O \cup {x} /\ Ahead(cal)' = Ahead(d)
    BY <1>2, <1>9
  <2>6. Ahead(cal)' = Queue!Among(O) \cup { <<y, x>> : y \in { z \in O : z.t = u } }
    BY <1>10, <2>2, <2>3, <2>5
  <2> HIDE DEF O
  <2> QED
    BY <1>3, <2>1, <2>4, <2>5, <2>6 DEF Queue!Schedule
<1>12. IInv'
  <2>1. \A y \in Items(d) : y.t <= MaxTime
    BY <1>3, <1>5, <1>9 DEF IInv
  <2>2. /\ clock' \in 0 .. MaxTime /\ running' \in Timer \union {NoTimer}
        /\ status' \in [Timer -> {"idle", "pending", "handling"}]
    BY <1>3 DEF IInv
  <2>3. \A s \in Timer : status'[s] = "pending" <=> \E y \in Items(d) : y.e = s
    <3> SUFFICES ASSUME NEW s \in Timer
                 PROVE  status'[s] = "pending" <=> \E y \in Items(d) : y.e = s
      OBVIOUS
    <3>1. status'[s] = IF s = t THEN "pending" ELSE status[s]
      BY <1>3 DEF IInv
    <3>2. status[s] = "pending" <=> \E y \in Items(cal) : y.e = s
      BY DEF IInv
    <3>3. x \in Items(d) /\ x.e = t
      BY <1>5, <1>9
    <3>4. s # t => ((\E y \in Items(d) : y.e = s) <=> \E y \in Items(cal) : y.e = s)
      BY <1>5, <1>9
    <3> QED
      BY <3>1, <3>2, <3>3, <3>4
  <2>4. \A s \in Timer : status'[s] = "handling" => running' = s
    BY <1>3 DEF IInv
  <2>5. Ready(d, Timer) /\ d.clk = clock' /\ d.width \in Widths \cup {1}
    BY <1>3, <1>6, <1>8
  <2> QED
    BY <1>2, <2>1, <2>2, <2>3, <2>4, <2>5 DEF IInv
<1>13. u \in 0 .. MaxTime
  BY <1>3, <1>4
<1> QED
  BY <1>11, <1>12, <1>13 DEF u

(* cancel cancels it.                                                      *)
LEMMA CancelStep ==
  ASSUME IInv, NEW t \in Timer, CancelTimer(t)
  PROVE  IInv' /\ Queue!Cancel(t)
<1>1. PICK d : d = cal'
  OBVIOUS
<1>2. /\ status[t] = "pending" /\ d = Cancel(cal, t)
      /\ status' = [status EXCEPT ![t] = "idle"]
      /\ clock' = clock /\ running' = running
  BY <1>1 DEF CancelTimer
<1>3. /\ Ready(d, Timer) /\ d.clk = clock /\ d.width \in Widths \cup {1}
      /\ Items(d) = { y \in Items(cal) : y.e # t }
      /\ Ahead(d) = Ahead(cal) \cap (Items(d) \X Items(d))
  BY <1>2, WithoutEvent
<1>4. Queue!Cancel(t)
  <2>1. Items(cal)' = Items(d) /\ Ahead(cal)' = Ahead(d)
    BY <1>1
  <2> QED
    BY <1>2, <1>3, <2>1 DEF Queue!Cancel, Queue!Others, Queue!Among
<1>5. IInv'
  <2>1. \A y \in Items(d) : y.t <= MaxTime
    BY <1>3 DEF IInv
  <2>2. /\ clock' \in 0 .. MaxTime /\ running' \in Timer \union {NoTimer}
        /\ status' \in [Timer -> {"idle", "pending", "handling"}]
    BY <1>2 DEF IInv
  <2>3. \A s \in Timer : status'[s] = "pending" <=> \E y \in Items(d) : y.e = s
    BY <1>2, <1>3 DEF IInv
  <2>4. \A s \in Timer : status'[s] = "handling" => running' = s
    BY <1>2 DEF IInv
  <2> QED
    BY <1>1, <1>2, <1>3, <2>1, <2>2, <2>3, <2>4 DEF IInv
<1> QED
  BY <1>4, <1>5

(* What dispatch takes happens next in the event queue.                    *)
LEMMA DispatchStep ==
  ASSUME IInv, Dispatch
  PROVE  IInv' /\ \E x \in Items(cal) : Queue!Happen(x)
<1>1. PICK d : d = cal'
  OBVIOUS
<1>2. PICK x : x = Earliest(cal)
  OBVIOUS
<1>3. /\ running = NoTimer /\ cal.qsize > 0 /\ d \in Deque(cal)
      /\ clock' = x.t /\ running' = x.e
      /\ status' = [status EXCEPT ![x.e] = "handling"]
  BY <1>1, <1>2 DEF Dispatch
<1>4. Ready(cal, Timer) /\ cal.width \in Widths \cup {1} /\ Sound(cal, Timer)
  BY DEF IInv, Ready
<1>5. Items(cal) # {}
  <2>1. cal.qsize = Cardinality(Items(cal))
    BY <1>4 DEF Sound, Counted
  <2>2. Cardinality({}) = 0
    BY FS_EmptySet
  <2> QED
    BY <1>3, <2>1, <2>2
<1>6. /\ First(cal, x) /\ Ready(d, Timer) /\ Lacks(d, cal, x)
      /\ d.clk = x.t /\ d.width \in Widths \cup {cal.width}
  BY <1>2, <1>3, <1>4, <1>5, DequeFacts
<1>7. x \in Items(cal) /\ \A y \in Items(cal) : x.t <= y.t /\ <<y, x>> \notin Ahead(cal)
  BY <1>6 DEF First
<1>8. x.e \in Timer /\ x.t \in Nat /\ x.t <= MaxTime
  BY <1>4, <1>7, ItemsFacts DEF IInv, Sound
<1>9. /\ Items(d) = Items(cal) \ {x}
      /\ Ahead(d) = Ahead(cal) \cap (Items(d) \X Items(d))
  BY <1>6 DEF Lacks
<1>10. Queue!Happen(x)
  <2>1. Items(cal)' = Items(d) /\ Ahead(cal)' = Ahead(d)
    BY <1>1
  <2> QED
    BY <1>3, <1>7, <1>9, <2>1 DEF Queue!Happen, Queue!Among
<1>11. IInv'
  <2>1. \A y \in Items(d) : y.t <= MaxTime
    BY <1>9 DEF IInv
  <2>2. /\ clock' \in 0 .. MaxTime /\ running' \in Timer \union {NoTimer}
        /\ status' \in [Timer -> {"idle", "pending", "handling"}]
    BY <1>3, <1>8, TimersAssumption DEF IInv
  <2>3. \A s \in Timer : status'[s] = "pending" <=> \E y \in Items(d) : y.e = s
    <3> SUFFICES ASSUME NEW s \in Timer
                 PROVE  status'[s] = "pending" <=> \E y \in Items(d) : y.e = s
      OBVIOUS
    <3>1. status'[s] = IF s = x.e THEN "handling" ELSE status[s]
      BY <1>3 DEF IInv
    <3>2. status[s] = "pending" <=> \E y \in Items(cal) : y.e = s
      BY DEF IInv
    <3>3. \A y \in Items(cal) : y.e = x.e => y = x
      BY <1>4, <1>7 DEF Sound, OnceEach
    <3> QED
      BY <1>9, <3>1, <3>2, <3>3
  <2>4. \A s \in Timer : status'[s] = "handling" => running' = s
    <3>1. \A s \in Timer : s # running
      BY <1>3, TimersAssumption
    <3> QED
      BY <1>3, <1>8, <3>1 DEF IInv
  <2>5. d.width \in Widths \cup {1}
    BY <1>4, <1>6
  <2> QED
    BY <1>1, <1>3, <1>6, <2>1, <2>2, <2>3, <2>4, <2>5 DEF IInv
<1> QED
  BY <1>7, <1>10, <1>11

(* Nothing happens in the event queue when handle returns.                 *)
LEMMA ReturnStep ==
  ASSUME IInv, Return
  PROVE  IInv' /\ clock' = clock /\ cal' = cal
<1>1. /\ running # NoTimer /\ running' = NoTimer /\ clock' = clock /\ cal' = cal
      /\ status' = [status EXCEPT ![running] = IF @ = "handling" THEN "idle" ELSE @]
  BY DEF Return
<1>2. running \in Timer
  BY <1>1 DEF IInv
<1>3. \A s \in Timer : /\ status'[s] = "pending" <=> status[s] = "pending"
                       /\ status'[s] # "handling"
                       /\ status'[s] \in {"idle", "pending", "handling"}
  BY <1>1, <1>2 DEF IInv
<1>4. status' \in [Timer -> {"idle", "pending", "handling"}]
  BY <1>1, <1>2, <1>3 DEF IInv
<1> QED
  BY <1>1, <1>3, <1>4 DEF IInv

(* Every step keeps the invariant and is one of the event queue.           *)
LEMMA NextSound ==
  IInv /\ [Next]_vars => IInv' /\ [Queue!Next]_(<<clock, Items(cal), Ahead(cal)>>)
<1> SUFFICES ASSUME IInv, [Next]_vars
             PROVE  IInv' /\ [Queue!Next]_(<<clock, Items(cal), Ahead(cal)>>)
  OBVIOUS
<1>1. ASSUME NEW t \in Timer, NEW delay \in Delays,
             Sched(t, delay) \/ Resched(t, delay)
      PROVE  IInv' /\ Queue!Next
  <2>1. Resched(t, delay)
    BY <1>1 DEF Sched, Resched
  <2>2. IInv' /\ Queue!Schedule(t, clock + delay) /\ clock + delay \in 0 .. MaxTime
    BY <2>1, ScheduleStep
  <2> QED
    BY <2>2 DEF Queue!Next
<1>2. ASSUME NEW t \in Timer, CancelTimer(t) PROVE IInv' /\ Queue!Next
  <2>1. IInv' /\ Queue!Cancel(t)
    BY <1>2, CancelStep
  <2> QED
    BY <2>1 DEF Queue!Next
<1>3. CASE Dispatch
  <2>1. IInv' /\ \E x \in Items(cal) : Queue!Happen(x)
    BY <1>3, DispatchStep
  <2> QED
    BY <2>1 DEF Queue!Next
<1>4. CASE Return
  BY <1>4, ReturnStep
<1>5. CASE UNCHANGED vars
  BY <1>5 DEF vars, IInv
<1> QED
  BY <1>1, <1>2, <1>3, <1>4, <1>5 DEF Next

-----------------------------------------------------------------------------
LEMMA Invariance == Spec => []IInv
<1>1. Init => IInv
  BY InitSound
<1>2. IInv /\ [Next]_vars => IInv'
  BY NextSound
<1> QED
  BY <1>1, <1>2, PTL DEF Spec

(* The calendar has at least four buckets, every list in it is one of      *)
(* timers' events, due before the end: TypeOK.                             *)
THEOREM TypeCorrect == Spec => []TypeOK
<1>1. IInv => TypeOK
  <2> SUFFICES ASSUME IInv PROVE TypeOK
    OBVIOUS
  <2>1. PICK c : c = cal
    OBVIOUS
  <2>2. c \in Calendars(Timer) /\ Sound(c, Timer) /\ Counted(c) /\ c.n >= 4
    BY <2>1 DEF IInv, Ready, Sound
  <2>3. /\ c.n \in Nat /\ c.bucket \in [0 .. c.n - 1 -> Seq(Entries(Timer))]
        /\ c.count \in [0 .. c.n - 1 -> Int]
    BY <2>2, CalendarFields
  <2>4. c.stat \in Nat /\ c.qsize \in Nat
    <3>1. /\ IsFiniteSet(Items(c)) /\ c.stat = Cardinality(TimesIn(Items(c)))
          /\ c.qsize = Cardinality(Items(c))
      BY <2>2 DEF Counted
    <3>2. Cardinality(TimesIn(Items(c))) \in Nat
      BY <3>1, TimesAdd
    <3> QED
      BY <3>1, <3>2, FS_CardinalityType
  <2>5. c.count \in [0 .. c.n - 1 -> Nat]
    <3>1. ASSUME NEW i \in 0 .. c.n - 1 PROVE c.count[i] \in Nat
      <4>1. c.bucket[i] \in Seq(Entries(Timer))
        BY <2>3
      <4>2. IsFiniteSet(ToSet(c.bucket[i]))
        BY <4>1, OnceLength
      <4>3. Cardinality(TimesIn(ToSet(c.bucket[i]))) \in Nat
        BY <4>2, TimesAdd
      <4> QED
        BY <2>2, <4>3 DEF Counted
    <3> QED
      BY <2>3, <3>1
  <2>6. c.bucket \in [0 .. c.n - 1 -> Seq([e : Timer, t : 0 .. MaxTime])]
    <3>1. ASSUME NEW i \in 0 .. c.n - 1
          PROVE  c.bucket[i] \in Seq([e : Timer, t : 0 .. MaxTime])
      <4> DEFINE q == c.bucket[i]
                 D == [e : Timer, t : 0 .. MaxTime]
      <4>1. q \in Seq(Entries(Timer)) /\ Ordered(q, c, i, Timer)
        BY <2>2, <2>3, ListFacts
      <4> HIDE DEF q
      <4>2. /\ Len(q) \in Nat
            /\ \A j \in 1 .. Len(q) : q[j] \in Items(c) /\ q[j] \in Entries(Timer)
        BY <4>1, ElementsFacts DEF Ordered
      <4>3. \A y \in Entries(Timer) : y.t <= MaxTime => y \in D
        BY TimersAssumption DEF Entries
      <4>4. \A j \in 1 .. Len(q) : q[j] \in D
        BY <2>1, <4>2, <4>3 DEF IInv
      <4> HIDE DEF D
      <4>5. q = [j \in 1 .. Len(q) |-> q[j]]
        BY <4>1, LenProperties
      <4>6. q \in Seq(D)
        BY <4>2, <4>4, <4>5, IsASeq
      <4> QED
        BY <4>6 DEF q, D
    <3> QED
      BY <2>3, <3>1
  <2> QED
    BY <2>1, <2>2, <2>3, <2>4, <2>5, <2>6 DEF IInv, TypeOK
<1> QED
  BY <1>1, Invariance, PTL

(* Every event is on the page of its time and in order, the counts that    *)
(* decide when to resize are right and the search starts on the page of    *)
(* the clock, through every growth, shrinking and adjustment:              *)
(* CalendarExact.                                                          *)
THEOREM CalendarStaysExact == Spec => []CalendarExact
<1>1. IInv => CalendarExact
  <2> SUFFICES ASSUME IInv PROVE CalendarExact
    OBVIOUS
  <2>1. /\ Sound(cal, Timer) /\ Counted(cal) /\ cal.clk = clock
        /\ cal.last = CALENDARHASH(cal, clock)
    BY DEF IInv, Ready, Sound
  <2>2. ASSUME NEW i \in 0 .. cal.n - 1
        PROVE  LET q == cal.bucket[i]
               IN  /\ \A k \in DOMAIN q : CALENDARHASH(cal, q[k].t) = i
                   /\ \A j, k \in DOMAIN q : j < k => q[j].t <= q[k].t
                   /\ cal.count[i] = Cardinality(TimesIn(ToSet(q)))
    <3> DEFINE q == cal.bucket[i]
    <3>1. Ordered(q, cal, i, Timer) /\ cal.count[i] = Cardinality(TimesIn(ToSet(q)))
      BY <2>1, ListFacts DEF Counted
    <3> HIDE DEF q
    <3>2. /\ \A k \in DOMAIN q : CALENDARHASH(cal, q[k].t) = i
          /\ \A j, k \in DOMAIN q : j < k => q[j].t <= q[k].t
      BY <3>1 DEF Ordered
    <3> QED
      BY <3>1, <3>2 DEF q
  <2> QED
    BY <2>1, <2>2 DEF CalendarExact, Counted
<1> QED
  BY <1>1, Invariance, PTL

(* A timer is pending exactly if its event is in the calendar, where it is *)
(* once: schedule and handle never find what makes them abort:             *)
(* PendingIffQueued.                                                       *)
THEOREM PendingIsQueued == Spec => []PendingIffQueued
<1>1. IInv => PendingIffQueued
  BY DEF IInv, Ready, Sound, OnceEach, Once, PendingIffQueued
<1> QED
  BY <1>1, Invariance, PTL

(* What head finds is the first event of the least time, wherever it is in *)
(* the calendar and however far ahead: dispatch takes no other.            *)
THEOREM HeadFindsEarliest ==
  Spec => [](Items(cal) # {} => First(cal, Earliest(cal)))
<1>1. IInv => (Items(cal) # {} => First(cal, Earliest(cal)))
  BY FoundFacts DEF IInv
<1> QED
  BY <1>1, Invariance, PTL

(* The calendar implements the event queue: events happen in the order of  *)
(* their times, those of one time in the order in which they were          *)
(* scheduled, and cancelled ones do not: ImplementsEventQueue.             *)
THEOREM ImplementsQueue == Spec => ImplementsEventQueue
<1>1. Init => Queue!Init
  BY InitSound
<1>2. IInv /\ [Next]_vars => [Queue!Next]_(<<clock, Items(cal), Ahead(cal)>>)
  BY NextSound
<1> QED
  BY <1>1, <1>2, Invariance, PTL DEF Spec, ImplementsEventQueue, Queue!Spec
==============================================================================
