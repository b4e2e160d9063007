---------------------------- MODULE UplinkProofs ----------------------------
(* The uplink of LTE and of NR for any number of UEs, any sizes of queues   *)
(* and arrays, any numbering and any load.                                  *)
EXTENDS SlotUplink, FiniteSetTheorems, NaturalsInduction, TLAPS

(* Products grow with their factors. *)
LEMMA Product ==
  ASSUME NEW b \in Nat \ {0}, NEW q \in Int
  PROVE /\ q * b \in Int
        /\ q >= 1 => q * b >= b
        /\ q <= -1 => q * b <= -b
        /\ q = 0 => q * b = 0
  OBVIOUS

(* Quotient and remainder. *)
LEMMA DivMod ==
  ASSUME NEW a \in Int, NEW b \in Nat \ {0}
  PROVE a \div b \in Int /\ a % b \in 0 .. b - 1 /\ a = (a \div b) * b + (a % b)
  OBVIOUS

(* Quotient and remainder are unique. *)
LEMMA DivModUnique ==
  ASSUME NEW a \in Int, NEW b \in Nat \ {0}, NEW q \in Int, NEW r \in 0 .. b - 1, a = q * b + r
  PROVE a \div b = q /\ a % b = r
  OBVIOUS

(* Numbers less than m apart, forwards and backwards round the circle. *)
LEMMA Wrap ==
  ASSUME NEW m \in Nat \ {0}, NEW a \in 0 .. m - 1
  PROVE /\ \A n \in 0 .. m : (a + n) % m = IF a + n < m THEN a + n ELSE a + n - m
        /\ \A b \in 0 .. m - 1 : (a - b) % m = IF a >= b THEN a - b ELSE a - b + m
  OBVIOUS

-----------------------------------------------------------------------------

-----------------------------------------------------------------------------
(* Numbers in order.                                                        *)

(* Induction over the natural numbers, for sets. *)
LEMMA SetInduction ==
  ASSUME NEW S, 0 \in S, \A n \in Nat : n \in S => n + 1 \in S
  PROVE Nat \subseteq S
  <1> DEFINE T == {n \in Nat : n \notin S}
  <1>1. SUFFICES ASSUME T # {} PROVE FALSE
    OBVIOUS
  <1>2. T \subseteq Nat
    OBVIOUS
  <1>3. \E x \in T : \A y \in T : ~(<<y, x>> \in OpToRel(<, Nat))
    <2> HIDE DEF T
    <2> QED
      BY <1>1, <1>2, WFMin, NatLessThanWellFounded, Zenon
  <1>4. PICK x \in T : \A y \in T : ~(y < x)
    BY <1>3, Zenon DEF OpToRel
  <1>5. x # 0 /\ x \in Nat
    BY <1>4
  <1>6. x - 1 \in Nat /\ x - 1 < x /\ x = (x - 1) + 1
    BY <1>5
  <1>7. x - 1 \in S
    BY <1>4, <1>6
  <1> QED
    BY <1>4, <1>6, <1>7

(* A set of natural numbers has a least one. *)
LEMMA LeastNumber ==
  ASSUME NEW S \in SUBSET Nat, S # {}
  PROVE \E x \in S : \A y \in S : x <= y
  <1>1. \E x \in S : \A y \in S : ~(<<y, x>> \in OpToRel(<, Nat))
    BY WFMin, NatLessThanWellFounded, Zenon
  <1>2. PICK x \in S : \A y \in S : ~(y < x)
    BY <1>1, Zenon DEF OpToRel
  <1> QED
    BY <1>2

(* One with an upper bound has a greatest one. *)
LEMMA GreatestNumber ==
  ASSUME NEW n \in Nat, NEW S \in SUBSET (0 .. n), S # {}
  PROVE Max(S) \in S /\ \A y \in S : y <= Max(S)
  <1> DEFINE T == {n - x : x \in S}
  <1>1. T \in SUBSET Nat /\ T # {}
    <2>1. \A x \in S : n - x \in Nat
      OBVIOUS
    <2>2. PICK x : x \in S
      OBVIOUS
    <2> QED
      BY <2>1, <2>2
  <1>2. PICK t \in T : \A u \in T : t <= u
    BY <1>1, LeastNumber
  <1>3. PICK x \in S : t = n - x
    BY <1>2
  <1>4. \A y \in S : n - x <= n - y
    BY <1>2, <1>3
  <1>5. x \in S /\ \A y \in S : x >= y
    BY <1>3, <1>4
  <1>6. Max(S) \in S /\ \A y \in S : Max(S) >= y
    BY <1>5, Zenon DEF Max
  <1> QED
    BY <1>6

(* InOrder lists a finite set of numbers without a gap or a repetition. *)
LEMMA InOrderFacts ==
  ASSUME NEW S, IsFiniteSet(S), S \subseteq Int
  PROVE /\ Cardinality(S) \in Nat
        /\ InOrder(S) \in [1 .. Cardinality(S) -> S]
        /\ InOrder(S) \in Seq(S) /\ Len(InOrder(S)) = Cardinality(S)
        /\ \A n \in S : \E k \in 1 .. Cardinality(S) : InOrder(S)[k] = n
        /\ \A j, k \in 1 .. Cardinality(S) : j < k => InOrder(S)[j] < InOrder(S)[k]
  <1> DEFINE c == Cardinality(S)
             low(n) == {m \in S : m <= n}
             rank == [n \in S |-> Cardinality(low(n))]
  <1>1. c \in Nat
    BY FS_CardinalityType
  <1>2. ASSUME NEW n \in S
        PROVE /\ IsFiniteSet(low(n)) /\ Cardinality(low(n)) \in 1 .. c
    <2>1. low(n) \in SUBSET S /\ n \in low(n)
      OBVIOUS
    <2> HIDE DEF low
    <2>2. IsFiniteSet(low(n)) /\ Cardinality(low(n)) <= c
      BY <2>1, FS_Subset
    <2>3. Cardinality(low(n)) \in Nat /\ Cardinality(low(n)) # 0
      BY <2>1, <2>2, FS_CardinalityType, FS_EmptySet
    <2> QED
      BY <1>1, <2>2, <2>3
  <1>3. ASSUME NEW n \in S, NEW p \in S, n < p
        PROVE rank[n] < rank[p]
    <2>1. low(n) \in SUBSET low(p) /\ p \in low(p) /\ p \notin low(n)
      <3>1. n \in Int /\ p \in Int /\ \A m \in S : m \in Int
        OBVIOUS
      <3>2. \A m \in S : m <= n => m <= p
        BY <1>3, <3>1
      <3>3. p <= p /\ ~(p <= n)
        BY <1>3, <3>1
      <3> QED
        BY <3>2, <3>3
    <2>2. IsFiniteSet(low(p)) /\ Cardinality(low(n)) \in Nat /\ Cardinality(low(p)) \in Nat
      BY <1>1, <1>2
    <2> HIDE DEF low
    <2>3. Cardinality(low(n)) <= Cardinality(low(p)) /\ Cardinality(low(n)) # Cardinality(low(p))
      BY <2>1, <2>2, FS_Subset
    <2> QED
      BY <2>2, <2>3
  <1>4. rank \in [S -> 1 .. c]
    BY <1>2
  <1>5. \A p \in S : rank[p] = Cardinality({m \in S : m <= p})
    OBVIOUS
  <1> HIDE DEF rank, low
  <1>7. \A n, p \in S : rank[n] = rank[p] => n = p
    <2>1. SUFFICES ASSUME NEW n \in S, NEW p \in S, rank[n] = rank[p], n # p PROVE FALSE
      OBVIOUS
    <2>2. n < p \/ p < n
      BY <2>1
    <2>3. rank[n] < rank[p] \/ rank[p] < rank[n]
      BY <1>3, <2>2
    <2>4. rank[n] \in 1 .. c /\ rank[p] \in 1 .. c
      BY <1>4
    <2> QED
      BY <1>1, <2>1, <2>3, <2>4
  <1>8. \A k \in 1 .. c : \E n \in S : rank[n] = k
    <2>1. IsFiniteSet(1 .. c) /\ Cardinality(1 .. c) = c
      BY <1>1, FS_Interval
    <2>2. rank \in Injection(S, 1 .. c)
      BY <1>4, <1>7 DEF Injection, IsInjective
    <2>3. rank \in Surjection(S, 1 .. c)
      BY <2>1, <2>2, FS_Injection
    <2> QED
      BY <2>3 DEF Surjection
  <1>9. \A k \in 1 .. c : InOrder(S)[k] \in S /\ rank[InOrder(S)[k]] = k
    <2>1. SUFFICES ASSUME NEW k \in 1 .. c
                   PROVE InOrder(S)[k] \in S /\ rank[InOrder(S)[k]] = k
      OBVIOUS
    <2> DEFINE p == CHOOSE n \in S : Cardinality({m \in S : m <= n}) = k
    <2>2. \E n \in S : Cardinality({m \in S : m <= n}) = k
      BY <1>5, <1>8
    <2>3. p \in S /\ Cardinality({m \in S : m <= p}) = k
      BY <2>2, Zenon
    <2>4. InOrder(S)[k] = p
      BY DEF InOrder
    <2> QED
      BY <1>5, <2>3, <2>4
  <1>10. InOrder(S) \in [1 .. c -> S]
    BY <1>9 DEF InOrder
  <1>11. \A n \in S : rank[n] \in 1 .. c /\ InOrder(S)[rank[n]] = n
    BY <1>4, <1>7, <1>9
  <1>12. ASSUME NEW j \in 1 .. c, NEW k \in 1 .. c, j < k
         PROVE InOrder(S)[j] < InOrder(S)[k]
    <2> DEFINE a == InOrder(S)[j]
               b == InOrder(S)[k]
    <2>1. a \in S /\ b \in S /\ rank[a] = j /\ rank[b] = k
      BY <1>9
    <2> HIDE DEF a, b
    <2>2. a \in Int /\ b \in Int /\ a # b
      BY <1>1, <1>12, <2>1
    <2>3. ~(b < a)
      <3>1. SUFFICES ASSUME b < a PROVE FALSE
        OBVIOUS
      <3>2. k < j
        BY <1>3, <2>1, <3>1
      <3> QED
        BY <1>1, <1>12, <3>2
    <2>4. a < b
      BY <2>2, <2>3
    <2> QED
      BY <2>4 DEF a, b
  <1>13. InOrder(S) \in Seq(S) /\ Len(InOrder(S)) = c
    BY <1>1, <1>10
  <1> QED
    BY <1>1, <1>10, <1>11, <1>12, <1>13

(* Members keeps the members of a sequence that lie in S, in their order. *)
LEMMA MembersFacts ==
  ASSUME NEW T, NEW s \in Seq(T), NEW S
  PROVE /\ Members(s, S) \in Seq(T) /\ Len(Members(s, S)) <= Len(s)
        /\ \E o \in [1 .. Len(Members(s, S)) -> 1 .. Len(s)] :
             /\ \A j, k \in 1 .. Len(Members(s, S)) : j < k => o[j] < o[k]
             /\ \A k \in 1 .. Len(Members(s, S)) : Members(s, S)[k] = s[o[k]] /\ s[o[k]] \in S
  <1> DEFINE P == {k \in 1 .. Len(s) : s[k] \in S}
             o == InOrder(P)
  <1>1. Len(s) \in Nat /\ P \in SUBSET (1 .. Len(s)) /\ P \subseteq Int
    OBVIOUS
  <1>2. IsFiniteSet(1 .. Len(s)) /\ Cardinality(1 .. Len(s)) = Len(s)
    <2> DEFINE n == Len(s)
    <2>1. n \in Nat /\ 1 \in Int /\ n \in Int
      OBVIOUS
    <2> HIDE DEF n
    <2>2. IsFiniteSet(1 .. n) /\ Cardinality(1 .. n) = n
      BY <2>1, FS_Interval
    <2> QED
      BY <2>2 DEF n
  <1>3. Members(s, S) = [k \in 1 .. Len(o) |-> s[o[k]]]
    BY DEF Members
  <1>4. \A k \in P : k \in 1 .. Len(s) /\ s[k] \in S /\ s[k] \in T
    OBVIOUS
  <1> HIDE DEF P
  <1>5. IsFiniteSet(P) /\ Cardinality(P) <= Len(s)
    BY <1>1, <1>2, FS_Subset
  <1>6. /\ Cardinality(P) \in Nat /\ o \in [1 .. Cardinality(P) -> P] /\ Len(o) = Cardinality(P)
        /\ \A j, k \in 1 .. Cardinality(P) : j < k => o[j] < o[k]
    BY <1>1, <1>5, InOrderFacts
  <1> HIDE DEF o
  <1>7. Members(s, S) \in Seq(T) /\ Len(Members(s, S)) = Len(o)
    <2>1. \A k \in 1 .. Len(o) : s[o[k]] \in T
      BY <1>4, <1>6
    <2>2. Len(o) \in Nat
      BY <1>6
    <2> QED
      BY <1>3, <2>1, <2>2
  <1>8. o \in [1 .. Len(Members(s, S)) -> 1 .. Len(s)]
    BY <1>4, <1>6, <1>7
  <1>9. \A k \in 1 .. Len(Members(s, S)) : Members(s, S)[k] = s[o[k]] /\ s[o[k]] \in S
    BY <1>3, <1>4, <1>6, <1>7
  <1> QED
    BY <1>1, <1>5, <1>6, <1>7, <1>8, <1>9

(* A partial sum of natural numbers is one. *)
LEMMA PartialSums ==
  ASSUME NEW n \in Nat, NEW p \in [1 .. n -> Nat],
         NEW f, \A j \in 0 .. n : f[j] = IF j = 0 THEN 0 ELSE f[j - 1] + p[j]
  PROVE \A j \in 0 .. n : f[j] \in Nat
  <1> DEFINE S == {j \in Nat : j <= n => f[j] \in Nat}
  <1>1. 0 \in S
    OBVIOUS
  <1>2. ASSUME NEW j \in Nat, j \in S
        PROVE j + 1 \in S
    <2>1. SUFFICES ASSUME j + 1 <= n PROVE f[j + 1] \in Nat
      OBVIOUS
    <2>2. j + 1 \in 0 .. n /\ j + 1 \in 1 .. n /\ j + 1 # 0 /\ j <= n /\ (j + 1) - 1 = j
      BY <2>1
    <2>3. f[j + 1] = f[j] + p[j + 1]
      BY <2>2
    <2>4. f[j] \in Nat
      BY <1>2, <2>2
    <2> QED
      BY <2>2, <2>3, <2>4
  <1> HIDE DEF S
  <1>3. Nat \subseteq S
    BY <1>1, <1>2, SetInduction
  <1> QED
    BY <1>3 DEF S

(* The recursion that adds them up has a solution. *)
LEMMA SumExists ==
  ASSUME NEW n \in Nat, NEW p \in [1 .. n -> Nat]
  PROVE \E f : f = [j \in 0 .. n |-> IF j = 0 THEN 0 ELSE f[j - 1] + p[j]]
  <1> DEFINE Sums(m, f) == f \in [0 .. m -> Nat] /\ \A j \in 0 .. m : f[j] = IF j = 0 THEN 0 ELSE f[j - 1] + p[j]
             S == {m \in Nat : m <= n => \E f : Sums(m, f)}
  <1>1. 0 \in S
    <2>1. Sums(0, [j \in 0 .. 0 |-> 0])
      OBVIOUS
    <2> QED
      BY <2>1
  <1>2. ASSUME NEW m \in Nat, m \in S
        PROVE m + 1 \in S
    <2> HIDE DEF Sums
    <2>1. SUFFICES ASSUME m + 1 <= n PROVE \E f : Sums(m + 1, f)
      OBVIOUS
    <2>2. PICK f : Sums(m, f)
      BY <1>2, <2>1
    <2> USE DEF Sums
    <2> DEFINE g == [j \in 0 .. m + 1 |-> IF j = m + 1 THEN f[m] + p[m + 1] ELSE f[j]]
    <2>3. f[m] \in Nat /\ p[m + 1] \in Nat /\ m + 1 # 0 /\ (m + 1) - 1 = m
      BY <2>1, <2>2
    <2>4. \A j \in 0 .. m + 1 : j = m + 1 \/ j \in 0 .. m
      OBVIOUS
    <2>5. \A j \in 0 .. m : j # m + 1 /\ j \in 0 .. m + 1 /\ (j # 0 => j - 1 \in 0 .. m /\ j - 1 \in 0 .. m + 1 /\ j - 1 # m + 1)
      OBVIOUS
    <2>6. g \in [0 .. m + 1 -> Nat]
      BY <2>2, <2>3, <2>4
    <2>7. \A j \in 0 .. m : g[j] = f[j]
      BY <2>5
    <2>8. g[m + 1] = g[m] + p[m + 1]
      BY <2>7
    <2>9. \A j \in 0 .. m : g[j] = IF j = 0 THEN 0 ELSE g[j - 1] + p[j]
      BY <2>2, <2>5, <2>7
    <2> HIDE DEF g
    <2>10. \A j \in 0 .. m + 1 : g[j] = IF j = 0 THEN 0 ELSE g[j - 1] + p[j]
      BY <2>3, <2>4, <2>8, <2>9
    <2> QED
      BY <2>6, <2>10
  <1> HIDE DEF S
  <1>3. Nat \subseteq S
    BY <1>1, <1>2, SetInduction
  <1>4. PICK f : Sums(n, f)
    <2> HIDE DEF Sums
    <2> QED
      BY <1>3 DEF S
  <1>5. f = [j \in 0 .. n |-> f[j]] /\ \A j \in 0 .. n : f[j] = IF j = 0 THEN 0 ELSE f[j - 1] + p[j]
    BY <1>4
  <1> HIDE DEF Sums
  <1>6. f = [j \in 0 .. n |-> IF j = 0 THEN 0 ELSE f[j - 1] + p[j]]
    BY <1>5, Zenon
  <1> QED
    BY <1>6

(* The PDUs of the first messages of a batch. *)
LEMMA PdusFacts ==
  ASSUME NEW batch \in Seq(Buffers), \A k \in 1 .. Len(batch) : M(batch[k]).pdus \in Nat
  PROVE /\ PdusUpTo(batch, 0) = 0 /\ \A k \in 0 .. Len(batch) : PdusUpTo(batch, k) \in Nat
        /\ \A k \in 1 .. Len(batch) : PdusUpTo(batch, k) = PdusUpTo(batch, k - 1) + M(batch[k]).pdus
  <1> DEFINE n == Len(batch)
             p == [k \in 1 .. n |-> M(batch[k]).pdus]
             f == CHOOSE f : f = [j \in 0 .. n |-> IF j = 0 THEN 0 ELSE f[j - 1] + M(batch[j]).pdus]
  <1>1. n \in Nat /\ p \in [1 .. n -> Nat]
    OBVIOUS
  <1>2. \A k : PdusUpTo(batch, k) = f[k]
    BY DEF PdusUpTo
  <1>3. PICK g : g = [j \in 0 .. n |-> IF j = 0 THEN 0 ELSE g[j - 1] + p[j]]
    <2> HIDE DEF n, p
    <2> QED
      BY <1>1, SumExists
  <1>4. g = [j \in 0 .. n |-> IF j = 0 THEN 0 ELSE g[j - 1] + M(batch[j]).pdus]
    <2>1. \A j \in 0 .. n : (IF j = 0 THEN 0 ELSE g[j - 1] + p[j]) = (IF j = 0 THEN 0 ELSE g[j - 1] + M(batch[j]).pdus)
      OBVIOUS
    <2> HIDE DEF n, p
    <2> QED
      BY <1>3, <2>1
  <1>5. f = [j \in 0 .. n |-> IF j = 0 THEN 0 ELSE f[j - 1] + M(batch[j]).pdus]
    BY <1>4, Zenon
  <1> HIDE DEF f
  <1>6. \A j \in 0 .. n : f[j] = IF j = 0 THEN 0 ELSE f[j - 1] + p[j]
    BY <1>5
  <1>8. \A k \in 1 .. n : f[k] = f[k - 1] + M(batch[k]).pdus
    <2>1. \A k \in 1 .. n : k \in 0 .. n /\ k # 0 /\ p[k] = M(batch[k]).pdus
      OBVIOUS
    <2> HIDE DEF n, p
    <2> QED
      BY <1>6, <2>1
  <1> HIDE DEF n, p
  <1>7. f[0] = 0 /\ \A j \in 0 .. n : f[j] \in Nat
    <2>1. 0 \in 0 .. n
      BY <1>1
    <2>2. \A j \in 0 .. n : f[j] \in Nat
      BY <1>1, <1>6, PartialSums, Zenon
    <2> QED
      BY <1>6, <2>1, <2>2
  <1> QED
    BY <1>2, <1>7, <1>8 DEF n

-----------------------------------------------------------------------------
(* Sums over finite sets.                                                   *)

(* The member of a set that MapThenSumSet takes first, and its recursion.   *)
Picked(s) == CHOOSE x \in s : TRUE
Adds(w, S, h) == \A s \in SUBSET S : h[s] = IF s = {} THEN 0 ELSE w[Picked(s)] + h[s \ {Picked(s)}]
Recursion(w, S, h) == h = [s \in SUBSET S |-> IF s = {} THEN 0 ELSE w[Picked(s)] + h[s \ {Picked(s)}]]
SumIs(h, S, n) == h[S] = n
OneMore(w, h, s, x) == h[s \cup {x}] = w[x] + h[s]

(* Taking a member away leaves a smaller set. *)
LEMMA PickedFacts ==
  ASSUME NEW S, IsFiniteSet(S), NEW s \in SUBSET S, s # {}
  PROVE /\ Picked(s) \in s /\ Picked(s) \in S /\ s \ {Picked(s)} \in SUBSET S
        /\ IsFiniteSet(s) /\ Cardinality(s) \in Nat
        /\ \A x \in s : Cardinality(s \ {x}) \in Nat /\ Cardinality(s \ {x}) = Cardinality(s) - 1
  <1>1. \E x \in s : TRUE
    OBVIOUS
  <1>2. Picked(s) \in s
    BY <1>1, Zenon DEF Picked
  <1>3. IsFiniteSet(s)
    BY FS_Subset
  <1>4. Cardinality(s) \in Nat
    BY <1>3, FS_CardinalityType
  <1>5. ASSUME NEW x \in s
        PROVE Cardinality(s \ {x}) \in Nat /\ Cardinality(s \ {x}) = Cardinality(s) - 1
    <2>1. IsFiniteSet(s \ {x}) /\ Cardinality(s \ {x}) = Cardinality(s) - 1
      BY <1>3, FS_RemoveElement
    <2> QED
      BY <2>1, FS_CardinalityType
  <1> QED
    BY <1>2, <1>3, <1>4, <1>5

(* A sum of natural numbers is one. *)
LEMMA SetSums ==
  ASSUME NEW S, IsFiniteSet(S), NEW w \in [S -> Nat], NEW h, Adds(w, S, h)
  PROVE \A s \in SUBSET S : h[s] \in Nat
  <1> DEFINE N == {n \in Nat : \A s \in SUBSET S : Cardinality(s) = n => h[s] \in Nat}
  <1>1. \A s \in SUBSET S : IsFiniteSet(s) /\ Cardinality(s) \in Nat /\ (Cardinality(s) = 0 <=> s = {})
    <2>1. ASSUME NEW s \in SUBSET S PROVE IsFiniteSet(s)
      BY FS_Subset
    <2> QED
      BY <2>1, FS_CardinalityType, FS_EmptySet
  <1>2. 0 \in N
    BY <1>1 DEF Adds
  <1>3. ASSUME NEW n \in Nat, n \in N
        PROVE n + 1 \in N
    <2>1. SUFFICES ASSUME NEW s \in SUBSET S, Cardinality(s) = n + 1 PROVE h[s] \in Nat
      OBVIOUS
    <2>2. s # {}
      BY <1>1, <2>1
    <2> DEFINE p == Picked(s)
               t == s \ {p}
    <2>3. p \in S /\ t \in SUBSET S /\ Cardinality(t) = Cardinality(s) - 1
      BY <2>2, PickedFacts
    <2>4. h[s] = w[p] + h[t]
      BY <2>2 DEF Adds
    <2> HIDE DEF p, t
    <2>5. Cardinality(t) = n
      BY <2>1, <2>3
    <2>6. h[t] \in Nat
      BY <1>3, <2>3, <2>5
    <2>7. w[p] \in Nat
      BY <2>3
    <2> QED
      BY <2>4, <2>6, <2>7
  <1> HIDE DEF N
  <1>4. Nat \subseteq N
    BY <1>2, <1>3, SetInduction
  <1> QED
    BY <1>1, <1>4 DEF N

(* The recursion over the subsets has a solution. *)
LEMMA SetSumExists ==
  ASSUME NEW S, IsFiniteSet(S), NEW w \in [S -> Nat]
  PROVE \E h : Recursion(w, S, h)
  <1> DEFINE Small(n) == {s \in SUBSET S : Cardinality(s) <= n}
             Solves(n, h) == \A s \in Small(n) : h[s] = IF s = {} THEN 0 ELSE w[Picked(s)] + h[s \ {Picked(s)}]
             N == {n \in Nat : \E h : Solves(n, h)}
  <1>1. \A s \in SUBSET S : IsFiniteSet(s) /\ Cardinality(s) \in Nat /\ (Cardinality(s) = 0 <=> s = {})
    <2>1. ASSUME NEW s \in SUBSET S PROVE IsFiniteSet(s)
      BY FS_Subset
    <2> QED
      BY <2>1, FS_CardinalityType, FS_EmptySet
  <1>2. 0 \in N
    <2> DEFINE g == [s \in SUBSET S |-> 0]
    <2>1. \A s \in Small(0) : s \in SUBSET S /\ s = {}
      BY <1>1
    <2>2. Solves(0, g)
      BY <2>1
    <2> QED
      BY <2>2
  <1>3. ASSUME NEW n \in Nat, n \in N
        PROVE n + 1 \in N
    <2>1. PICK h : Solves(n, h)
      BY <1>3
    <2> DEFINE g == [s \in SUBSET S |-> IF s = {} THEN 0
                                       ELSE IF s \in Small(n) THEN h[s] ELSE w[Picked(s)] + h[s \ {Picked(s)}]]
    <2>2. \A s \in Small(n) : s \in SUBSET S /\ h[s] = IF s = {} THEN 0 ELSE w[Picked(s)] + h[s \ {Picked(s)}]
      BY <2>1
    <2>3. \A s \in Small(n) : g[s] = h[s]
      BY <2>2
    <2>4. ASSUME NEW s \in Small(n + 1), s # {}
          PROVE g[s] = w[Picked(s)] + g[s \ {Picked(s)}]
      <3>1. s \in SUBSET S /\ Cardinality(s) <= n + 1
        BY <2>4
      <3>2. s \ {Picked(s)} \in SUBSET S /\ Cardinality(s \ {Picked(s)}) = Cardinality(s) - 1 /\ Cardinality(s) \in Nat
        BY <2>4, <3>1, PickedFacts
      <3>3. s \ {Picked(s)} \in Small(n)
        BY <3>1, <3>2
      <3>4. g[s] = w[Picked(s)] + h[s \ {Picked(s)}]
        BY <2>2, <2>4, <3>1
      <3> QED
        BY <2>3, <3>3, <3>4
    <2>5. \A s \in Small(n + 1) : s = {} => g[s] = 0
      OBVIOUS
    <2> HIDE DEF g, Small
    <2>6. Solves(n + 1, g)
      BY <2>4, <2>5
    <2> HIDE DEF Solves
    <2> QED
      BY <2>6
  <1> HIDE DEF N
  <1>4. Nat \subseteq N
    BY <1>2, <1>3, SetInduction
  <1>5. Cardinality(S) \in Nat
    BY FS_CardinalityType
  <1> HIDE DEF Solves
  <1>6. PICK h : Solves(Cardinality(S), h)
    BY <1>4, <1>5 DEF N
  <1>7. \A s \in SUBSET S : s \in Small(Cardinality(S))
    BY FS_Subset
  <1> DEFINE g == [s \in SUBSET S |-> h[s]]
  <1>8. \A s \in SUBSET S : h[s] = IF s = {} THEN 0 ELSE w[Picked(s)] + h[s \ {Picked(s)}]
    <2> HIDE DEF Small
    <2> QED
      BY <1>6, <1>7 DEF Solves
  <1>9. \A s \in SUBSET S : g[s] = h[s] /\ s \ {Picked(s)} \in SUBSET S
    OBVIOUS
  <1>10. \A s \in SUBSET S : g[s] = IF s = {} THEN 0 ELSE w[Picked(s)] + g[s \ {Picked(s)}]
    <2> HIDE DEF g
    <2> QED
      BY <1>8, <1>9
  <1>11. g = [s \in SUBSET S |-> g[s]]
    OBVIOUS
  <1> HIDE DEF g
  <1>12. g = [s \in SUBSET S |-> IF s = {} THEN 0 ELSE w[Picked(s)] + g[s \ {Picked(s)}]]
    BY <1>10, <1>11, Zenon
  <1>13. Recursion(w, S, g)
    BY <1>12, Zenon DEF Recursion
  <1> QED
    BY <1>13

(* The order in which the members are taken does not matter: each counts    *)
(* once.                                                                    *)
LEMMA SetSumAdd ==
  ASSUME NEW S, IsFiniteSet(S), NEW w \in [S -> Nat], NEW h, Adds(w, S, h),
         NEW a \in SUBSET S, NEW y \in S, y \notin a
  PROVE OneMore(w, h, a, y)
  <1> DEFINE N == {n \in Nat : \A s \in SUBSET S : Cardinality(s) = n =>
                                  \A x \in S \ s : h[s \cup {x}] = w[x] + h[s]}
  <1>1. \A s \in SUBSET S : IsFiniteSet(s) /\ Cardinality(s) \in Nat /\ (Cardinality(s) = 0 <=> s = {})
    <2>1. ASSUME NEW s \in SUBSET S PROVE IsFiniteSet(s)
      BY FS_Subset
    <2> QED
      BY <2>1, FS_CardinalityType, FS_EmptySet
  <1>2. ASSUME NEW s \in SUBSET S, NEW x \in S \ s, Picked(s \cup {x}) = x
        PROVE h[s \cup {x}] = w[x] + h[s]
    <2>1. s \cup {x} \in SUBSET S /\ s \cup {x} # {} /\ (s \cup {x}) \ {x} = s
      OBVIOUS
    <2> QED
      BY <1>2, <2>1 DEF Adds
  <1>3. ASSUME NEW s \in SUBSET S, NEW x \in S \ s, Picked(s \cup {x}) # x
        PROVE /\ Picked(s \cup {x}) \in s
              /\ h[s \cup {x}] = w[Picked(s \cup {x})] + h[(s \ {Picked(s \cup {x})}) \cup {x}]
    <2> DEFINE t == s \cup {x}
               p == Picked(t)
    <2>1. t \in SUBSET S /\ t # {}
      OBVIOUS
    <2>2. p \in t
      BY <2>1, PickedFacts
    <2>3. h[t] = w[p] + h[t \ {p}]
      BY <2>1 DEF Adds
    <2>4. p # x
      BY <1>3
    <2> HIDE DEF p
    <2>5. p \in s /\ t \ {p} = (s \ {p}) \cup {x}
      BY <2>2, <2>4
    <2> QED
      BY <2>3, <2>5 DEF p
  <1>4. 0 \in N
    <2>1. SUFFICES ASSUME NEW s \in SUBSET S, s = {}, NEW x \in S \ s PROVE h[s \cup {x}] = w[x] + h[s]
      BY <1>1
    <2> QED
      BY <1>2, <1>3, <2>1
  <1>5. ASSUME NEW n \in Nat, n \in N
        PROVE n + 1 \in N
    <2>1. SUFFICES ASSUME NEW s \in SUBSET S, Cardinality(s) = n + 1, NEW x \in S \ s, Picked(s \cup {x}) # x
                   PROVE h[s \cup {x}] = w[x] + h[s]
      BY <1>2
    <2>2. PICK p : p = Picked(s \cup {x})
      OBVIOUS
    <2>3. p \in s /\ h[s \cup {x}] = w[p] + h[(s \ {p}) \cup {x}]
      BY <1>3, <2>1, <2>2
    <2>4. PICK r : r = s \ {p}
      OBVIOUS
    <2>5. r \in SUBSET S /\ s = r \cup {p} /\ p \in S \ r /\ x \in S \ r
      BY <2>3, <2>4
    <2>6. Cardinality(r) = n
      <3>1. Cardinality(s \ {p}) = Cardinality(s) - 1
        BY <2>3, PickedFacts
      <3> QED
        BY <2>1, <2>4, <3>1
    <2>7. h[r \cup {x}] = w[x] + h[r] /\ h[r \cup {p}] = w[p] + h[r]
      BY <1>5, <2>5, <2>6
    <2>8. h[r] \in Nat /\ w[x] \in Nat /\ w[p] \in Nat
      BY <2>5, SetSums
    <2>9. h[s \cup {x}] = w[p] + (w[x] + h[r]) /\ h[s] = w[p] + h[r]
      BY <2>3, <2>4, <2>5, <2>7
    <2> QED
      BY <2>8, <2>9
  <1> HIDE DEF N
  <1>6. Nat \subseteq N
    BY <1>4, <1>5, SetInduction
  <1>7. Cardinality(a) \in N /\ Cardinality(a) \in Nat
    BY <1>1, <1>6
  <1>8. \A x \in S \ a : h[a \cup {x}] = w[x] + h[a]
    BY <1>7 DEF N
  <1> QED
    BY <1>8 DEF OneMore

(* The sum over the members of a sequence without repetitions. *)
LEMMA SequenceSum ==
  ASSUME NEW n \in Nat, NEW S, IsFiniteSet(S), NEW a \in [1 .. n -> S],
         \A j, k \in 1 .. n : a[j] = a[k] => j = k,
         NEW w \in [S -> Nat], NEW h, Adds(w, S, h),
         NEW f, f[0] = 0, \A j \in 1 .. n : f[j] = f[j - 1] + w[a[j]], S = {a[k] : k \in 1 .. n}
  PROVE SumIs(h, S, f[n])
  <1> DEFINE First == [r \in 0 .. n |-> {a[k] : k \in 1 .. r}]
             N == {r \in Nat : r <= n => h[First[r]] = f[r] /\ f[r] \in Nat}
  <1>1. 0 \in N
    <2>1. First[0] = {}
      <3>1. 1 .. 0 = {} /\ 0 \in 0 .. n
        OBVIOUS
      <3> QED
        BY <3>1, Zenon
    <2>2. h[{}] = 0
      BY DEF Adds
    <2> HIDE DEF First
    <2>3. h[First[0]] = f[0]
      BY <2>1, <2>2, Zenon
    <2>4. f[0] \in Nat
      OBVIOUS
    <2> QED
      BY <2>3, <2>4
  <1>2. ASSUME NEW r \in Nat, r \in N
        PROVE r + 1 \in N
    <2>1. SUFFICES ASSUME r + 1 <= n PROVE h[First[r + 1]] = f[r + 1] /\ f[r + 1] \in Nat
      OBVIOUS
    <2>2. r + 1 \in 1 .. n /\ r <= n /\ r \in 0 .. n /\ r + 1 \in 0 .. n /\ (r + 1) - 1 = r /\ \A k \in 1 .. r : k \in 1 .. n /\ k # r + 1
      BY <2>1
    <2>3. \A k : k \in 1 .. r + 1 <=> k \in 1 .. r \/ k = r + 1
      OBVIOUS
    <2>4. First[r] \in SUBSET S /\ a[r + 1] \in S \ First[r]
      BY <2>2
    <2>5. First[r + 1] = First[r] \cup {a[r + 1]}
      BY <2>2, <2>3
    <2> HIDE DEF First
    <2>6. h[First[r + 1]] = w[a[r + 1]] + h[First[r]]
      <3>1. PICK s \in SUBSET S : s = First[r]
        BY <2>4
      <3>2. PICK x \in S : x = a[r + 1] /\ x \notin s
        BY <2>4, <3>1
      <3>3. OneMore(w, h, s, x)
        BY <3>2, SetSumAdd
      <3>4. h[s \cup {x}] = w[x] + h[s]
        BY <3>3 DEF OneMore
      <3> QED
        BY <2>5, <3>1, <3>2, <3>4, Zenon
    <2>7. h[First[r]] = f[r] /\ f[r] \in Nat
      BY <1>2, <2>2
    <2>8. f[r + 1] = f[r] + w[a[r + 1]]
      BY <2>2
    <2>9. w[a[r + 1]] \in Nat
      BY <2>4
    <2> QED
      BY <2>6, <2>7, <2>8, <2>9
  <1> HIDE DEF N
  <1>3. Nat \subseteq N
    BY <1>1, <1>2, SetInduction
  <1>4. h[First[n]] = f[n]
    <2> HIDE DEF First
    <2> QED
      BY <1>3 DEF N
  <1>5. First[n] = S
    <2>1. n \in 0 .. n
      OBVIOUS
    <2>2. First[n] = {a[k] : k \in 1 .. n}
      BY <2>1, Zenon
    <2> HIDE DEF First
    <2> QED
      BY <2>2, Zenon
  <1> HIDE DEF First
  <1> QED
    BY <1>4, <1>5, Zenon DEF SumIs

-----------------------------------------------------------------------------
(* The entries of subframe_msgs in the order of the loops.                  *)

Ue(n) == (n \div MAX_SUBFRAME_MSGS) + 1
Pos(n) == (n % MAX_SUBFRAME_MSGS) + 1

(* Every entry belongs to one UE and one position, in lexical order. *)
LEMMA EntryPlaces ==
  /\ Entries \subseteq Nat /\ IsFiniteSet(Entries)
  /\ \A n \in Entries : Ue(n) \in UEs /\ Pos(n) \in 1 .. MAX_SUBFRAME_MSGS
  /\ \A u \in UEs, k \in 1 .. MAX_SUBFRAME_MSGS : \E n \in Entries : Ue(n) = u /\ Pos(n) = k
  /\ \A m, n \in Entries : m < n /\ Ue(m) = Ue(n) => Pos(m) < Pos(n)
  <1> DEFINE mx == MAX_SUBFRAME_MSGS
  <1>1. mx \in Nat \ {0} /\ num_ues \in Nat \ {0}
    BY UplinkAssumption
  <1>2. num_ues * mx \in Nat
    BY <1>1
  <1>3. Entries = 0 .. num_ues * mx - 1 /\ UEs = 1 .. num_ues
    BY DEF Entries, UEs
  <1>4. \A n : Ue(n) = (n \div mx) + 1 /\ Pos(n) = (n % mx) + 1
    BY DEF Ue, Pos
  <1> HIDE DEF mx
  <1>5. Entries \subseteq Nat /\ IsFiniteSet(Entries)
    <2> DEFINE top == num_ues * mx - 1
    <2>1. top \in Int /\ 0 \in Int
      BY <1>2
    <2> HIDE DEF top
    <2>2. IsFiniteSet(0 .. top)
      BY <2>1, FS_Interval
    <2> QED
      BY <1>2, <1>3, <2>2 DEF top
  <1>6. ASSUME NEW n \in Entries
        PROVE Ue(n) \in UEs /\ Pos(n) \in 1 .. mx /\ n = (Ue(n) - 1) * mx + (Pos(n) - 1)
    <2> DEFINE q == n \div mx
               r == n % mx
    <2>1. n \in Nat /\ n < num_ues * mx
      BY <1>2, <1>3
    <2>2. q \in Int /\ r \in 0 .. mx - 1 /\ n = q * mx + r
      BY <1>1, <2>1, DivMod
    <2> HIDE DEF q, r
    <2>3. q * mx \in Int /\ (q - num_ues) * mx = q * mx - num_ues * mx
      BY <1>1, <2>2
    <2>4. q >= 0
      BY <1>1, <2>1, <2>2, <2>3, Product
    <2>5. q < num_ues
      <3>1. SUFFICES ASSUME q >= num_ues PROVE FALSE
        BY <1>1, <2>2
      <3>2. q - num_ues \in Int /\ (q - num_ues = 0 \/ q - num_ues >= 1)
        BY <1>1, <2>2, <3>1
      <3>3. (q - num_ues) * mx >= 0
        BY <1>1, <3>2, Product
      <3> QED
        BY <1>2, <2>1, <2>2, <2>3, <3>3
    <2>6. Ue(n) = q + 1 /\ Pos(n) = r + 1
      BY <1>4 DEF q, r
    <2> QED
      BY <1>1, <1>3, <2>2, <2>4, <2>5, <2>6
  <1>7. ASSUME NEW u \in UEs, NEW k \in 1 .. mx
        PROVE \E n \in Entries : Ue(n) = u /\ Pos(n) = k
    <2> DEFINE n == (u - 1) * mx + (k - 1)
    <2>1. u - 1 \in Int /\ k - 1 \in 0 .. mx - 1 /\ u \in Int /\ u - 1 >= 0 /\ u - num_ues <= 0
      BY <1>1, <1>3
    <2>2. (u - 1) * mx \in Int /\ (u - 1) * mx >= 0
      BY <1>1, <2>1, Product
    <2>3. (u - 1) * mx = (u - num_ues) * mx + num_ues * mx - mx /\ (u - num_ues) * mx \in Int
      BY <1>1, <2>1
    <2>4. (u - num_ues) * mx <= 0
      <3>1. u - num_ues \in Int /\ (u - num_ues = 0 \/ u - num_ues <= -1)
        BY <1>1, <2>1
      <3> QED
        BY <1>1, <3>1, Product
    <2>5. n \in Nat /\ n \in 0 .. num_ues * mx - 1
      BY <1>1, <1>2, <2>1, <2>2, <2>3, <2>4
    <2>6. n \div mx = u - 1 /\ n % mx = k - 1
      <3> DEFINE q == u - 1
                 r == k - 1
      <3>1. n = q * mx + r /\ q \in Int /\ r \in 0 .. mx - 1 /\ n \in Int
        BY <2>1, <2>5
      <3> HIDE DEF n, q, r
      <3>2. n \div mx = q /\ n % mx = r
        BY <1>1, <3>1, DivModUnique
      <3> QED
        BY <3>2 DEF q, r
    <2>7. Ue(n) = u /\ Pos(n) = k
      BY <1>4, <2>1, <2>6
    <2> QED
      BY <1>3, <2>5, <2>7
  <1>8. ASSUME NEW m \in Entries, NEW n \in Entries, m < n, Ue(m) = Ue(n)
        PROVE Pos(m) < Pos(n)
    <2> DEFINE a == (Ue(n) - 1) * mx
    <2>1. Ue(n) \in Int /\ mx \in Int
      BY <1>1, <1>3, <1>6
    <2>2. a \in Int /\ n = a + (Pos(n) - 1) /\ m = a + (Pos(m) - 1) /\ Pos(n) \in Int /\ Pos(m) \in Int
      BY <1>6, <1>8, <2>1
    <2> HIDE DEF a
    <2> QED
      BY <1>8, <2>2
  <1> QED
    BY <1>5, <1>6, <1>7, <1>8 DEF mx

(* What the entries hold. *)
LEMMA EntryFacts ==
  ASSUME TypeOK
  PROVE /\ \A n \in Entries : Entry(n) = IF Pos(n) <= Len(subframe_msgs[Ue(n)])
                                       THEN subframe_msgs[Ue(n)][Pos(n)] ELSE NONE
        /\ \A n \in Entries : Entry(n) # NONE =>
             Pos(n) \in 1 .. Len(subframe_msgs[Ue(n)]) /\ Entry(n) = subframe_msgs[Ue(n)][Pos(n)] /\ Entry(n) \in Buffers
        /\ \A u \in UEs : \A k \in 1 .. Len(subframe_msgs[u]) : \E n \in Entries :
             Ue(n) = u /\ Pos(n) = k /\ Entry(n) = subframe_msgs[u][k]
  <1>1. \A n \in Entries : Entry(n) = IF Pos(n) <= Len(subframe_msgs[Ue(n)])
                                     THEN subframe_msgs[Ue(n)][Pos(n)] ELSE NONE
    BY DEF Entry, Pos, Ue
  <1>2. \A u \in UEs : /\ subframe_msgs[u] \in Seq(Buffers \cup {NONE})
                        /\ Len(subframe_msgs[u]) \in Nat /\ Len(subframe_msgs[u]) <= MAX_SUBFRAME_MSGS
    BY DEF TypeOK
  <1>3. ASSUME NEW n \in Entries, Entry(n) # NONE
        PROVE Pos(n) \in 1 .. Len(subframe_msgs[Ue(n)]) /\ Entry(n) = subframe_msgs[Ue(n)][Pos(n)] /\ Entry(n) \in Buffers
    <2>1. Ue(n) \in UEs /\ Pos(n) \in 1 .. MAX_SUBFRAME_MSGS
      BY EntryPlaces
    <2>2. Pos(n) <= Len(subframe_msgs[Ue(n)]) /\ Entry(n) = subframe_msgs[Ue(n)][Pos(n)]
      BY <1>1, <1>3
    <2>3. Pos(n) \in 1 .. Len(subframe_msgs[Ue(n)])
      BY <1>2, <2>1, <2>2, UplinkAssumption
    <2> QED
      BY <1>2, <1>3, <2>1, <2>2, <2>3
  <1>4. ASSUME NEW u \in UEs, NEW k \in 1 .. Len(subframe_msgs[u])
        PROVE \E n \in Entries : Ue(n) = u /\ Pos(n) = k /\ Entry(n) = subframe_msgs[u][k]
    <2>1. k \in 1 .. MAX_SUBFRAME_MSGS /\ k <= Len(subframe_msgs[u])
      BY <1>2, UplinkAssumption
    <2>2. PICK n \in Entries : Ue(n) = u /\ Pos(n) = k
      BY <2>1, EntryPlaces
    <2> QED
      BY <1>1, <2>1, <2>2
  <1> QED
    BY <1>1, <1>3, <1>4

(* What is collected. *)
LEMMA CollectedFacts ==
  ASSUME TypeOK
  PROVE /\ \A b : b \in Collected <=>
             b # NONE /\ \E u \in UEs : \E k \in 1 .. Len(subframe_msgs[u]) : b = subframe_msgs[u][k]
        /\ \A b : b \in Collected <=> \E n \in Entries : b = Entry(n) /\ b # NONE
        /\ Collected \subseteq Buffers
  <1>1. \A b : b \in Collected <=>
             b # NONE /\ \E u \in UEs : \E k \in 1 .. Len(subframe_msgs[u]) : b = subframe_msgs[u][k]
    BY DEF Collected, SetOf
  <1>2. \A b : b \in Collected <=> \E n \in Entries : b = Entry(n) /\ b # NONE
    BY <1>1, EntryFacts, EntryPlaces
  <1> QED
    BY <1>1, <1>2, EntryFacts

(* The buffers with one id: all of them, in the order of the loops. *)
LEMMA WithIdFacts ==
  ASSUME TypeOK, NEW id
  PROVE /\ WithId(id) \in Seq(Buffers)
        /\ SetOf(WithId(id)) = {b \in Collected : M(b).id = id}
        /\ \E o \in [1 .. Len(WithId(id)) -> Entries] :
             /\ \A j, k \in 1 .. Len(WithId(id)) : j < k => o[j] < o[k]
             /\ \A k \in 1 .. Len(WithId(id)) : WithId(id)[k] = Entry(o[k]) /\ Entry(o[k]) # NONE
  <1> DEFINE P == {n \in Entries : Entry(n) # NONE /\ M(Entry(n)).id = id}
             o == InOrder(P)
  <1>1. P \in SUBSET Entries /\ P \subseteq Int /\ IsFiniteSet(Entries)
    <2>1. P \in SUBSET Entries
      OBVIOUS
    <2>2. Entries \subseteq Int /\ IsFiniteSet(Entries)
      BY EntryPlaces
    <2> HIDE DEF P
    <2> QED
      BY <2>1, <2>2
  <1>2. WithId(id) = [k \in 1 .. Len(o) |-> Entry(o[k])]
    BY DEF WithId
  <1>3. \A n \in P : Entry(n) # NONE /\ M(Entry(n)).id = id /\ Entry(n) \in Buffers /\ Entry(n) \in Collected
    BY EntryFacts, CollectedFacts
  <1>4. \A b \in Collected : M(b).id = id => \E n \in P : b = Entry(n)
    BY CollectedFacts
  <1> HIDE DEF P
  <1>5. IsFiniteSet(P)
    BY <1>1, FS_Subset
  <1>6. /\ o \in [1 .. Len(o) -> P] /\ Len(o) \in Nat
        /\ \A n \in P : \E k \in 1 .. Len(o) : o[k] = n
        /\ \A j, k \in 1 .. Len(o) : j < k => o[j] < o[k]
    <2>1. /\ Cardinality(P) \in Nat /\ o \in [1 .. Cardinality(P) -> P] /\ Len(o) = Cardinality(P)
          /\ \A n \in P : \E k \in 1 .. Cardinality(P) : o[k] = n
          /\ \A j, k \in 1 .. Cardinality(P) : j < k => o[j] < o[k]
      BY <1>1, <1>5, InOrderFacts
    <2> HIDE DEF o
    <2> QED
      BY <2>1
  <1> HIDE DEF o
  <1>7. WithId(id) \in Seq(Buffers) /\ Len(WithId(id)) = Len(o)
    <2>1. \A k \in 1 .. Len(o) : Entry(o[k]) \in Buffers
      BY <1>3, <1>6
    <2> QED
      BY <1>2, <1>6, <2>1
  <1>8. \A k \in 1 .. Len(o) : WithId(id)[k] = Entry(o[k])
    BY <1>2
  <1>9. SetOf(WithId(id)) = {b \in Collected : M(b).id = id}
    BY <1>3, <1>4, <1>6, <1>7, <1>8 DEF SetOf
  <1>10. o \in [1 .. Len(WithId(id)) -> Entries]
    BY <1>1, <1>6, <1>7
  <1> QED
    BY <1>3, <1>6, <1>7, <1>8, <1>9, <1>10

-----------------------------------------------------------------------------
(* The inductive invariant.                                                 *)

Live(f, b, u) == b[1] = u /\ f[b] = "live"

(* A buffer the receive thread has not filled is not in use. *)
SentInv == \A b \in Buffers : fate[b] = "unsent" <=> b[2] > Len(sent[b[1]])

(* The queue of a UE holds live buffers of that UE in the order sent. *)
QueueInv ==
  \A u \in UEs :
    /\ \A k \in 1 .. Len(msgs_from_ue[u]) : Live(fate, msgs_from_ue[u][k], u)
    /\ \A j, k \in 1 .. Len(msgs_from_ue[u]) : j < k => msgs_from_ue[u][j][2] < msgs_from_ue[u][k][2]

(* So does its collection, which is older than its queue. *)
CollectedInv ==
  \A u \in UEs : \A k \in 1 .. Len(subframe_msgs[u]) :
    subframe_msgs[u][k] # NONE =>
      /\ Live(fate, subframe_msgs[u][k], u)
      /\ \A j \in 1 .. k - 1 : subframe_msgs[u][j] # NONE => subframe_msgs[u][j][2] < subframe_msgs[u][k][2]
      /\ \A n \in 1 .. Len(msgs_from_ue[u]) : subframe_msgs[u][k][2] < msgs_from_ue[u][n][2]

(* The message in hand is between the two. *)
HandInv ==
  /\ pc = "requeue" <=> msg # NONE
  /\ msg # NONE =>
       /\ Live(fate, msg, i)
       /\ \A k \in 1 .. Len(subframe_msgs[i]) : subframe_msgs[i][k] # NONE => subframe_msgs[i][k][2] < msg[2]
       /\ \A n \in 1 .. Len(msgs_from_ue[i]) : msg[2] < msgs_from_ue[i][n][2]

(* No live buffer is lost. *)
Held(b) ==
  \/ \E k \in 1 .. Len(msgs_from_ue[b[1]]) : msgs_from_ue[b[1]][k] = b
  \/ \E k \in 1 .. Len(subframe_msgs[b[1]]) : subframe_msgs[b[1]][k] = b
  \/ msg = b
HeldInv == \A b \in Buffers : fate[b] = "live" => Held(b)

(* Between two subframes nothing is collected. *)
IdleInv == pc = "tick" => Collected = {}

OwnerInv == SentInv /\ QueueInv /\ CollectedInv /\ HandInv /\ HeldInv /\ IdleInv

(* The labels of an indication. *)
RightLabel(e) == e.sfn_sf = sfn_sf_add(sfn_sf(M(e.msg).tick), IF M(e.msg).id = RACH THEN RachShift ELSE 0)

(* What is collected has a known id and the label of this subframe's work;  *)
(* what was sent keeps its label.                                           *)
CollectedLabels == \A b \in Collected : M(b).id \in Ids /\ sfn_sf(M(b).tick) = master_sfn_sf
SentLabels == \A k \in 1 .. Len(indication) : fate[indication[k].msg] # "unsent" /\ RightLabel(indication[k])
LabelInv == CollectedLabels /\ SentLabels

(* A queue the task has left holds what came later, or a flag says so. *)
Left(u) == pc = "aggregate" \/ (pc \in {"dequeue", "requeue"} /\ u < i)
BacklogInv ==
  /\ \A u \in UEs : backlog[u] <= Len(sent[u])
  /\ are_queues_empty =>
       \A u \in UEs : Left(u) => \A k \in 1 .. Len(msgs_from_ue[u]) : msgs_from_ue[u][k][2] > backlog[u]

-----------------------------------------------------------------------------
(* The steps of both uplinks.                                               *)

All == WithId(FoundId)
Batch == SubSeq(All, 1, Min({Len(All), MAX_SUBFRAME_MSGS}))

(* What can become of a buffer in the aggregation. *)
Handled == {"forwarded", "no_P7", "undecodable", "too_many_PDUs", "too_many_of_one_id"}

(* What every aggregator returns: a reason to free each buffer, a number of *)
(* PDUs and whether it aborts.                                              *)
ResultOK(batch, result) ==
  /\ result.fates \in [1 .. Len(batch) -> Handled]
  /\ result.pdus \in Nat
  /\ result.aborts \in BOOLEAN

AggregateStep ==
  /\ pc = "aggregate"
  /\ Collected # {}
  /\ \E result : ResultOK(Batch, result) /\ TakeOut(All, Batch, result)
  /\ UNCHANGED <<threadVars, p7_config_g, msgs_from_ue, tick, i, msg, master_sfn_sf,
                 are_queues_empty, backlog>>

UplinkNext ==
  \/ start_request
  \/ \E u \in UEs : receive_message_from_ue(u)
  \/ \E u \in UEs : ReceiveThreadEnds(u)
  \/ StartSubframe
  \/ EmptyQueue
  \/ GetMessage
  \/ RequeueMessage
  \/ AggregateStep
  \/ EndSubframe

(* A buffer that has been filled has a message. *)
LEMMA MessageType ==
  ASSUME TypeOK, SentInv, NEW b \in Buffers, fate[b] # "unsent"
  PROVE /\ b[1] \in UEs /\ b[2] \in 1 .. Len(sent[b[1]]) /\ M(b) \in Messages
        /\ M(b).pdus \in Nat /\ M(b).ok \in BOOLEAN /\ M(b).tick \in Nat
  <1>1. b[1] \in UEs /\ b[2] \in 1 .. MaxMsgs
    BY DEF Buffers
  <1>2. sent[b[1]] \in Seq(Messages) /\ Len(sent[b[1]]) \in Nat
    BY <1>1 DEF TypeOK
  <1>3. b[2] \in 1 .. Len(sent[b[1]])
    BY <1>1, <1>2, UplinkAssumption DEF SentInv
  <1>4. M(b) \in Messages
    BY <1>2, <1>3 DEF M
  <1> QED
    BY <1>1, <1>3, <1>4, UplinkAssumption DEF Messages

(* The buffers of the collection are live. *)
LEMMA CollectedAreLive ==
  ASSUME TypeOK, CollectedInv, NEW b \in Collected
  PROVE b \in Buffers /\ fate[b] = "live"
  BY CollectedFacts DEF CollectedInv, Live

(* The batch is a first part of the buffers with the found id. *)
LEMMA BatchFacts ==
  ASSUME TypeOK, Collected # {}
  PROVE /\ All \in Seq(Buffers) /\ Batch \in Seq(Buffers)
        /\ SetOf(All) = {b \in Collected : M(b).id = FoundId}
        /\ Len(Batch) \in 1 .. MAX_SUBFRAME_MSGS /\ Len(Batch) <= Len(All)
        /\ \A k \in 1 .. Len(Batch) : Batch[k] = All[k] /\ Batch[k] \in SetOf(All)
        /\ \E b \in Collected : M(b).id = FoundId
  <1> DEFINE P == {n \in Entries : Entry(n) # NONE}
             mx == MAX_SUBFRAME_MSGS
             len == Min({Len(All), mx})
  <1>1. P \in SUBSET Nat /\ P # {}
    BY CollectedFacts, EntryPlaces
  <1>2. Min(P) \in P
    <2> HIDE DEF P
    <2>1. \E x \in P : \A y \in P : x <= y
      BY <1>1, LeastNumber
    <2> QED
      BY <2>1, Zenon DEF Min
  <1>3. Entry(Min(P)) \in Collected /\ M(Entry(Min(P))).id = FoundId
    <2>1. FoundId = M(Entry(Min(P))).id
      BY DEF FoundId
    <2> QED
      BY <1>2, <2>1, CollectedFacts
  <1>4. All \in Seq(Buffers) /\ SetOf(All) = {b \in Collected : M(b).id = FoundId}
    BY WithIdFacts DEF All
  <1>5. Len(All) \in Nat /\ Len(All) >= 1
    <2>1. SetOf(All) # {}
      BY <1>3, <1>4
    <2> QED
      BY <1>4, <2>1 DEF SetOf
  <1>6. mx \in Nat \ {0}
    BY UplinkAssumption
  <1> HIDE DEF mx
  <1>7. len \in {Len(All), mx} /\ len <= Len(All) /\ len <= mx
    <2>1. \E x \in {Len(All), mx} : \A y \in {Len(All), mx} : x <= y
      BY <1>5, <1>6
    <2>2. len \in {Len(All), mx} /\ \A y \in {Len(All), mx} : len <= y
      BY <2>1, Zenon DEF Min
    <2> QED
      BY <2>2
  <1>8. Batch = SubSeq(All, 1, len)
    BY DEF Batch, mx
  <1> HIDE DEF len
  <1>9. len \in 1 .. mx /\ len \in 1 .. Len(All)
    BY <1>5, <1>6, <1>7
  <1>10. Batch \in Seq(Buffers) /\ Len(Batch) = len /\ \A k \in 1 .. len : Batch[k] = All[k]
    BY <1>4, <1>5, <1>8, <1>9
  <1>11. \A k \in 1 .. Len(Batch) : Batch[k] = All[k] /\ Batch[k] \in SetOf(All)
    BY <1>5, <1>9, <1>10 DEF SetOf
  <1> QED
    BY <1>3, <1>4, <1>7, <1>9, <1>10, <1>11 DEF mx

LEMMA RachResult ==
  ASSUME NEW batch \in Seq(Buffers)
  PROVE ResultOK(batch, oai_subframe_aggregate_rach_ind(batch))
  <1>1. DOMAIN batch = 1 .. Len(batch) /\ Sent \in Handled /\ "undecodable" \in Handled
    BY DEF Sent, Handled
  <1> QED
    BY <1>1 DEF ResultOK, oai_subframe_aggregate_rach_ind

LEMMA AggregateResult ==
  ASSUME NEW batch \in Seq(Buffers), Len(batch) >= 1, \A k \in 1 .. Len(batch) : M(batch[k]).pdus \in Nat,
         NEW fatal, NEW packed \in BOOLEAN
  PROVE ResultOK(batch, Aggregate(batch, fatal, packed))
  <1> DEFINE bad == {k \in Reached(batch) : ~M(batch[k]).ok}
             stops == {k \in Reached(batch) \cap fatal : M(batch[k]).ok}
             announced == PdusUpTo(batch, Max(Reached(batch)))
  <1>1. DOMAIN batch = 1 .. Len(batch) /\ Len(batch) \in Nat
    OBVIOUS
  <1>2. Sent \in Handled /\ "undecodable" \in Handled /\ "too_many_PDUs" \in Handled
    BY DEF Sent, Handled
  <1>3. Reached(batch) \in SUBSET (0 .. Len(batch)) /\ 1 \in Reached(batch)
    <2>1. PdusUpTo(batch, 1 - 1) < MAX_PDU
      BY PdusFacts, UplinkAssumption
    <2>2. 1 \in 1 .. Len(batch)
      BY <1>1
    <2> QED
      BY <1>1, <2>1, <2>2 DEF Reached
  <1>4. announced \in Nat
    <2>1. Max(Reached(batch)) \in Reached(batch)
      BY <1>1, <1>3, GreatestNumber
    <2> QED
      BY <1>3, <2>1, PdusFacts
  <1>5. Aggregate(batch, fatal, packed) =
          IF \E k \in bad : \A j \in stops : k < j
          THEN [fates |-> [k \in DOMAIN batch |-> "undecodable"], pdus |-> 0, aborts |-> FALSE]
          ELSE [fates |-> [k \in DOMAIN batch |-> IF k \in Reached(batch) THEN Sent ELSE "too_many_PDUs"],
                pdus |-> IF stops = {} THEN announced ELSE 0,
                aborts |-> stops # {} \/ (packed /\ announced > MAX_PDU)]
    BY DEF Aggregate
  <1> HIDE DEF bad, stops, announced
  <1>6. CASE \E k \in bad : \A j \in stops : k < j
    <2> DEFINE fates == [k \in DOMAIN batch |-> "undecodable"]
    <2>1. Aggregate(batch, fatal, packed) = [fates |-> fates, pdus |-> 0, aborts |-> FALSE]
      BY <1>5, <1>6
    <2>2. fates \in [1 .. Len(batch) -> Handled]
      BY <1>1, <1>2
    <2>3. 0 \in Nat /\ FALSE \in BOOLEAN
      OBVIOUS
    <2> HIDE DEF fates
    <2> QED
      BY <2>1, <2>2, <2>3 DEF ResultOK
  <1>7. CASE ~\E k \in bad : \A j \in stops : k < j
    <2> DEFINE fates == [k \in DOMAIN batch |-> IF k \in Reached(batch) THEN Sent ELSE "too_many_PDUs"]
               pdus == IF stops = {} THEN announced ELSE 0
               aborts == stops # {} \/ (packed /\ announced > MAX_PDU)
    <2>1. Aggregate(batch, fatal, packed) = [fates |-> fates, pdus |-> pdus, aborts |-> aborts]
      BY <1>5, <1>7
    <2>2. aborts \in BOOLEAN
      OBVIOUS
    <2>3. pdus \in Nat
      BY <1>4
    <2>4. fates \in [1 .. Len(batch) -> Handled]
      BY <1>1, <1>2
    <2> HIDE DEF fates, pdus, aborts
    <2> QED
      BY <2>1, <2>2, <2>3, <2>4 DEF ResultOK
  <1> QED
    BY <1>6, <1>7

(* The ids get_sfnsf and get_sfnslot know have an aggregator. *)
LteIdsKnown == Ids \subseteq {RACH, CRC, RX, CQI, HARQ, SR}
NrIdsKnown == Ids \subseteq {RACH, CRC, RX, UCI, SRS}

(* What the aggregators find in a batch. *)
LEMMA BatchMessages ==
  ASSUME TypeOK, OwnerInv, LabelInv, Collected # {}
  PROVE FoundId \in Ids /\ \A k \in 1 .. Len(Batch) : M(Batch[k]).pdus \in Nat
  <1>1. FoundId \in Ids
    BY BatchFacts DEF LabelInv, CollectedLabels
  <1>2. ASSUME NEW k \in 1 .. Len(Batch)
        PROVE M(Batch[k]).pdus \in Nat
    <2>1. Batch[k] \in Collected
      BY BatchFacts
    <2>2. Batch[k] \in Buffers /\ fate[Batch[k]] # "unsent"
      BY <2>1, CollectedAreLive DEF OwnerInv
    <2> QED
      BY <2>2, MessageType DEF OwnerInv
  <1> QED
    BY <1>1, <1>2

LEMMA LteSteps ==
  ASSUME LteIdsKnown, TypeOK, OwnerInv, LabelInv, Next
  PROVE UplinkNext
  <1>1. CASE oai_subframe_aggregate_messages
    <2> DEFINE result == oai_subframe_aggregate_message_id(FoundId, Batch)
    <2>1. /\ pc = "aggregate" /\ Collected # {}
          /\ TakeOut(All, Batch, result)
          /\ UNCHANGED <<threadVars, p7_config_g, msgs_from_ue, tick, i, msg, master_sfn_sf,
                         are_queues_empty, backlog>>
      BY <1>1 DEF oai_subframe_aggregate_messages, AggregateFound, All, Batch
    <2>2. /\ Batch \in Seq(Buffers) /\ Len(Batch) >= 1 /\ FoundId \in Ids
          /\ \A k \in 1 .. Len(Batch) : M(Batch[k]).pdus \in Nat
      BY <2>1, BatchFacts, BatchMessages, UplinkAssumption
    <2>3. ResultOK(Batch, oai_subframe_aggregate_rach_ind(Batch))
      BY <2>2, RachResult
    <2>4. \A fatal, packed : packed \in BOOLEAN => ResultOK(Batch, Aggregate(Batch, fatal, packed))
      BY <2>2, AggregateResult
    <2>5. TRUE \in BOOLEAN /\ FALSE \in BOOLEAN /\ p7_config_g \in BOOLEAN
      BY DEF TypeOK
    <2>6. /\ ResultOK(Batch, oai_subframe_aggregate_crc_ind(Batch))
          /\ ResultOK(Batch, oai_subframe_aggregate_rx_ind(Batch))
          /\ ResultOK(Batch, oai_subframe_aggregate_cqi_ind(Batch))
          /\ ResultOK(Batch, oai_subframe_aggregate_harq_ind(Batch))
          /\ ResultOK(Batch, oai_subframe_aggregate_sr_ind(Batch))
      BY <2>4, <2>5, Zenon DEF oai_subframe_aggregate_crc_ind, oai_subframe_aggregate_rx_ind,
         oai_subframe_aggregate_cqi_ind, oai_subframe_aggregate_harq_ind, oai_subframe_aggregate_sr_ind
    <2>7. \/ result = oai_subframe_aggregate_rach_ind(Batch)
          \/ result = oai_subframe_aggregate_crc_ind(Batch)
          \/ result = oai_subframe_aggregate_rx_ind(Batch)
          \/ result = oai_subframe_aggregate_cqi_ind(Batch)
          \/ result = oai_subframe_aggregate_harq_ind(Batch)
          \/ result = oai_subframe_aggregate_sr_ind(Batch)
      BY <2>2 DEF oai_subframe_aggregate_message_id, LteIdsKnown
    <2> HIDE DEF result
    <2>8. ResultOK(Batch, result)
      BY <2>3, <2>6, <2>7, Zenon
    <2>9. AggregateStep
      BY <2>1, <2>8, Zenon DEF AggregateStep
    <2> QED
      BY <2>9 DEF UplinkNext
  <1>2. CASE Next /\ ~oai_subframe_aggregate_messages
    BY <1>2, Zenon DEF Next, SubframeTask, UplinkNext
  <1> QED
    BY <1>1, <1>2

LEMMA NrSteps ==
  ASSUME NrIdsKnown, TypeOK, OwnerInv, LabelInv, SlotNext
  PROVE UplinkNext
  <1>1. CASE oai_slot_aggregate_messages
    <2> DEFINE result == oai_slot_aggregate_message_id(FoundId, Batch)
    <2>1. /\ pc = "aggregate" /\ Collected # {}
          /\ TakeOut(All, Batch, result)
          /\ UNCHANGED <<threadVars, p7_config_g, msgs_from_ue, tick, i, msg, master_sfn_sf,
                         are_queues_empty, backlog>>
      BY <1>1 DEF oai_slot_aggregate_messages, AggregateFound, All, Batch
    <2>2. /\ Batch \in Seq(Buffers) /\ Len(Batch) >= 1 /\ FoundId \in Ids
          /\ \A k \in 1 .. Len(Batch) : M(Batch[k]).pdus \in Nat
      BY <2>1, BatchFacts, BatchMessages, UplinkAssumption
    <2>3. ResultOK(Batch, oai_slot_aggregate_rach_ind(Batch))
      BY <2>2, RachResult DEF oai_slot_aggregate_rach_ind
    <2>4. \A fatal, packed : packed \in BOOLEAN => ResultOK(Batch, Aggregate(Batch, fatal, packed))
      BY <2>2, AggregateResult
    <2>5. TRUE \in BOOLEAN /\ FALSE \in BOOLEAN
      OBVIOUS
    <2>6. /\ ResultOK(Batch, oai_slot_aggregate_crc_ind(Batch))
          /\ ResultOK(Batch, oai_slot_aggregate_rx_data_ind(Batch))
          /\ ResultOK(Batch, oai_slot_aggregate_uci_ind(Batch))
          /\ ResultOK(Batch, oai_slot_aggregate_srs_ind(Batch))
      BY <2>4, <2>5, Zenon DEF oai_slot_aggregate_crc_ind, oai_slot_aggregate_rx_data_ind,
         oai_slot_aggregate_uci_ind, oai_slot_aggregate_srs_ind
    <2>7. \/ result = oai_slot_aggregate_rach_ind(Batch)
          \/ result = oai_slot_aggregate_crc_ind(Batch)
          \/ result = oai_slot_aggregate_rx_data_ind(Batch)
          \/ result = oai_slot_aggregate_uci_ind(Batch)
          \/ result = oai_slot_aggregate_srs_ind(Batch)
      BY <2>2 DEF oai_slot_aggregate_message_id, NrIdsKnown
    <2> HIDE DEF result
    <2>8. ResultOK(Batch, result)
      BY <2>3, <2>6, <2>7, Zenon
    <2>9. AggregateStep
      BY <2>1, <2>8, Zenon DEF AggregateStep
    <2> QED
      BY <2>9 DEF UplinkNext
  <1>2. CASE SlotNext /\ ~oai_slot_aggregate_messages
    BY <1>2, Zenon DEF SlotNext, oai_slot_task, nr_start_request, receive_message_from_nr_ue, StartSlot,
       dequeue_ue_slot_msgs, UplinkNext
  <1> QED
    BY <1>1, <1>2

-----------------------------------------------------------------------------
(* What one turn of the aggregation does.                                   *)

LEMMA LabelRange ==
  ASSUME NEW t \in Nat, NEW n \in Nat
  PROVE /\ sfn_sf(t) \in 0 .. PERIOD - 1 /\ sfn_sf_add(sfn_sf(t), n) \in 0 .. PERIOD - 1
        /\ sfn_sf_add(sfn_sf(t), 0) = sfn_sf(t)
  <1>1. PERIOD \in Nat \ {0}
    BY UplinkAssumption
  <1> DEFINE r == t % PERIOD
  <1>2. r \in 0 .. PERIOD - 1 /\ sfn_sf(t) = r
    BY <1>1, DivMod DEF sfn_sf
  <1> HIDE DEF r
  <1>3. (r + n) % PERIOD \in 0 .. PERIOD - 1
    BY <1>1, <1>2, DivMod
  <1>4. (r + 0) % PERIOD = r
    BY <1>1, <1>2, Wrap
  <1> QED
    BY <1>2, <1>3, <1>4 DEF sfn_sf_add

(* Buffers of one UE come in the order of their entries. *)
LEMMA EntriesInOrder ==
  ASSUME TypeOK, CollectedInv, NEW m \in Entries, NEW n \in Entries, m < n,
         Entry(m) # NONE, Entry(n) # NONE, Entry(m)[1] = Entry(n)[1]
  PROVE Entry(m)[2] < Entry(n)[2]
  <1>1. /\ Ue(m) \in UEs /\ Pos(m) \in 1 .. Len(subframe_msgs[Ue(m)]) /\ Entry(m) = subframe_msgs[Ue(m)][Pos(m)]
        /\ Ue(n) \in UEs /\ Pos(n) \in 1 .. Len(subframe_msgs[Ue(n)]) /\ Entry(n) = subframe_msgs[Ue(n)][Pos(n)]
    BY EntryFacts, EntryPlaces
  <1>2. Entry(m)[1] = Ue(m) /\ Entry(n)[1] = Ue(n)
    BY <1>1 DEF CollectedInv, Live
  <1>3. Ue(m) = Ue(n) /\ Pos(m) < Pos(n)
    BY <1>2, EntryPlaces
  <1>4. Len(subframe_msgs[Ue(n)]) \in Nat
    BY <1>1 DEF TypeOK
  <1>5. Pos(m) \in 1 .. Pos(n) - 1
    BY <1>1, <1>3, <1>4
  <1> QED
    BY <1>1, <1>3, <1>5 DEF CollectedInv

(* What is sent comes from the batch, under its own label and in order. *)
LEMMA IndicationFacts ==
  ASSUME TypeOK, OwnerInv, LabelInv, Collected # {}, NEW F
  PROVE LET ind == Indication(FoundId, Members(Batch, F)) IN
        /\ ind \in Seq([msg : Buffers, sfn_sf : 0 .. PERIOD - 1]) /\ Len(ind) <= MAX_SUBFRAME_MSGS
        /\ \A k \in 1 .. Len(ind) : ind[k].msg \in SetOf(All) /\ RightLabel(ind[k])
        /\ \A j, k \in 1 .. Len(ind) : j < k /\ ind[j].msg[1] = ind[k].msg[1] => ind[j].msg[2] < ind[k].msg[2]
  <1> DEFINE mem == Members(Batch, F)
             ind == Indication(FoundId, mem)
  <1>1. /\ Batch \in Seq(Buffers) /\ Len(Batch) \in 1 .. MAX_SUBFRAME_MSGS /\ Len(Batch) <= Len(All) /\ Len(All) \in Nat
        /\ \A k \in 1 .. Len(Batch) : Batch[k] = All[k] /\ Batch[k] \in SetOf(All)
        /\ SetOf(All) = {b \in Collected : M(b).id = FoundId}
    BY BatchFacts
  <1>2. mem \in Seq(Buffers) /\ Len(mem) <= Len(Batch)
    BY <1>1, MembersFacts
  <1>3. PICK o \in [1 .. Len(mem) -> 1 .. Len(Batch)] :
             /\ \A j, k \in 1 .. Len(mem) : j < k => o[j] < o[k]
             /\ \A k \in 1 .. Len(mem) : mem[k] = Batch[o[k]]
    BY <1>1, MembersFacts
  <1>4. PICK p \in [1 .. Len(All) -> Entries] :
             /\ \A j, k \in 1 .. Len(All) : j < k => p[j] < p[k]
             /\ \A k \in 1 .. Len(All) : All[k] = Entry(p[k]) /\ Entry(p[k]) # NONE
    BY WithIdFacts DEF All
  <1>5. ind = [k \in 1 .. Len(mem) |->
                 [msg |-> mem[k],
                  sfn_sf |-> IF FoundId = RACH THEN sfn_sf_add(sfn_sf(M(mem[k]).tick), RachShift)
                             ELSE sfn_sf(M(mem[Len(mem)]).tick)]]
    BY DEF Indication
  <1> HIDE DEF mem, ind
  <1>6. ASSUME NEW k \in 1 .. Len(mem)
        PROVE /\ mem[k] \in SetOf(All) /\ mem[k] \in Buffers /\ M(mem[k]).id = FoundId /\ M(mem[k]).tick \in Nat
              /\ sfn_sf(M(mem[k]).tick) = master_sfn_sf
    <2>1. mem[k] \in SetOf(All) /\ mem[k] \in Collected /\ M(mem[k]).id = FoundId
      BY <1>1, <1>3
    <2>2. mem[k] \in Buffers /\ fate[mem[k]] # "unsent"
      BY <2>1, CollectedAreLive DEF OwnerInv
    <2>3. M(mem[k]).tick \in Nat
      BY <2>2, MessageType DEF OwnerInv
    <2> QED
      BY <2>1, <2>2, <2>3 DEF LabelInv, CollectedLabels
  <1>7. ASSUME NEW k \in 1 .. Len(mem)
        PROVE /\ ind[k].msg = mem[k] /\ ind[k].sfn_sf \in 0 .. PERIOD - 1 /\ RightLabel(ind[k])
              /\ ind[k] \in [msg : Buffers, sfn_sf : 0 .. PERIOD - 1]
    <2>1. /\ ind[k] = [msg |-> mem[k], sfn_sf |-> ind[k].sfn_sf] /\ ind[k].msg = mem[k]
          /\ ind[k].sfn_sf = IF FoundId = RACH THEN sfn_sf_add(sfn_sf(M(mem[k]).tick), RachShift)
                             ELSE sfn_sf(M(mem[Len(mem)]).tick)
      BY <1>5
    <2>2. Len(mem) \in 1 .. Len(mem)
      BY <1>2
    <2>3. sfn_sf(M(mem[Len(mem)]).tick) = sfn_sf(M(mem[k]).tick)
      BY <1>6, <2>2
    <2>4. RachShift \in Nat
      BY UplinkAssumption
    <2>5. CASE FoundId = RACH
      <3>1. ind[k].sfn_sf = sfn_sf_add(sfn_sf(M(mem[k]).tick), RachShift)
        BY <2>1, <2>5
      <3> QED
        BY <1>6, <2>1, <2>4, <2>5, <3>1, LabelRange DEF RightLabel
    <2>6. CASE FoundId # RACH
      <3>1. ind[k].sfn_sf = sfn_sf_add(sfn_sf(M(mem[k]).tick), 0)
        BY <1>6, <2>1, <2>3, <2>6, LabelRange
      <3> QED
        BY <1>6, <2>1, <2>6, <3>1, LabelRange DEF RightLabel
    <2> QED
      BY <2>5, <2>6
  <1>8. ind \in Seq([msg : Buffers, sfn_sf : 0 .. PERIOD - 1]) /\ Len(ind) = Len(mem)
    <2>1. Len(mem) \in Nat /\ DOMAIN ind = 1 .. Len(mem) /\ ind = [k \in 1 .. Len(mem) |-> ind[k]]
      BY <1>2, <1>5
    <2> QED
      BY <1>7, <2>1
  <1>9. ASSUME NEW j \in 1 .. Len(mem), NEW k \in 1 .. Len(mem), j < k, mem[j][1] = mem[k][1]
        PROVE mem[j][2] < mem[k][2]
    <2>1. o[j] \in 1 .. Len(All) /\ o[k] \in 1 .. Len(All) /\ o[j] < o[k]
      BY <1>1, <1>3, <1>9
    <2>2. mem[j] = Entry(p[o[j]]) /\ mem[k] = Entry(p[o[k]])
      BY <1>1, <1>3, <1>4, <2>1
    <2>3. /\ p[o[j]] < p[o[k]] /\ p[o[j]] \in Entries /\ p[o[k]] \in Entries
          /\ Entry(p[o[j]]) # NONE /\ Entry(p[o[k]]) # NONE
      BY <1>4, <2>1
    <2> QED
      BY <1>9, <2>2, <2>3, EntriesInOrder DEF OwnerInv
  <1>10. Len(ind) <= MAX_SUBFRAME_MSGS
    BY <1>1, <1>2, <1>8, UplinkAssumption
  <1>11. \A k \in 1 .. Len(ind) : ind[k].msg \in SetOf(All) /\ RightLabel(ind[k])
    BY <1>6, <1>7, <1>8
  <1>12. \A j, k \in 1 .. Len(ind) : j < k /\ ind[j].msg[1] = ind[k].msg[1] => ind[j].msg[2] < ind[k].msg[2]
    <2> SUFFICES ASSUME NEW j \in 1 .. Len(mem), NEW k \in 1 .. Len(mem), j < k, ind[j].msg[1] = ind[k].msg[1]
                 PROVE ind[j].msg[2] < ind[k].msg[2]
      BY <1>8
    <2>1. ind[j].msg = mem[j] /\ ind[k].msg = mem[k]
      BY <1>7
    <2> QED
      BY <1>9, <2>1
  <1> QED
    BY <1>8, <1>10, <1>11, <1>12 DEF ind, mem

(* The turn takes out every buffer of one id, or the process ends. *)
LEMMA TakeOutFacts ==
  ASSUME TypeOK, OwnerInv, LabelInv, AggregateStep
  PROVE /\ pc = "aggregate" /\ number_of_pdus' \in Nat /\ Collected # {}
        /\ SetOf(All) = {b \in Collected : M(b).id = FoundId}
        /\ \/ pc' = "aborted" /\ UNCHANGED <<fate, indication, subframe_msgs>>
           \/ /\ pc' = pc
              /\ fate' \in [Buffers -> Fates]
              /\ \A b \in Buffers : IF b \in SetOf(All) THEN fate'[b] \in Handled ELSE fate'[b] = fate[b]
              /\ subframe_msgs' \in [UEs -> Seq(Buffers \cup {NONE})]
              /\ \A u \in UEs :
                   /\ Len(subframe_msgs'[u]) = Len(subframe_msgs[u])
                   /\ \A k \in 1 .. Len(subframe_msgs[u]) :
                        subframe_msgs'[u][k] = IF subframe_msgs[u][k] \in SetOf(All) THEN NONE ELSE subframe_msgs[u][k]
              /\ \E F : indication' = Indication(FoundId, Members(Batch, F))
  <1>1. /\ pc = "aggregate" /\ Collected # {}
        /\ \E result : ResultOK(Batch, result) /\ TakeOut(All, Batch, result)
    BY DEF AggregateStep
  <1>2. PICK result : ResultOK(Batch, result) /\ TakeOut(All, Batch, result)
    BY <1>1
  <1>3. /\ All \in Seq(Buffers) /\ Batch \in Seq(Buffers) /\ SetOf(All) = {b \in Collected : M(b).id = FoundId}
        /\ \A k \in 1 .. Len(Batch) : Batch[k] \in SetOf(All)
    BY <1>1, BatchFacts
  <1>4. number_of_pdus' \in Nat
    BY <1>2 DEF ResultOK, TakeOut
  <1>5. CASE result.aborts
    BY <1>1, <1>2, <1>3, <1>4, <1>5 DEF TakeOut
  <1>6. CASE ~result.aborts
    <2> DEFINE why(b) == result.fates[CHOOSE k \in DOMAIN Batch : Batch[k] = b]
    <2>1. /\ fate' = [b \in Buffers |-> IF b \in SetOf(Batch) THEN why(b)
                                       ELSE IF b \in SetOf(All) THEN "too_many_of_one_id" ELSE fate[b]]
          /\ indication' = Indication(FoundId, Members(Batch, {b \in Buffers : fate'[b] = "forwarded"}))
          /\ subframe_msgs' = [u \in UEs |-> [k \in 1 .. Len(subframe_msgs[u]) |->
                IF subframe_msgs[u][k] \in SetOf(All) THEN NONE ELSE subframe_msgs[u][k]]]
          /\ pc' = pc
      BY <1>2, <1>6 DEF TakeOut
    <2>2. DOMAIN Batch = 1 .. Len(Batch) /\ SetOf(Batch) = {Batch[k] : k \in 1 .. Len(Batch)}
      BY <1>3 DEF SetOf
    <2>3. \A b \in SetOf(Batch) : why(b) \in Handled /\ b \in SetOf(All)
      <3>1. SUFFICES ASSUME NEW b \in SetOf(Batch) PROVE why(b) \in Handled /\ b \in SetOf(All)
        OBVIOUS
      <3>2. \E k \in DOMAIN Batch : Batch[k] = b
        BY <2>2
      <3>3. (CHOOSE k \in DOMAIN Batch : Batch[k] = b) \in DOMAIN Batch
        BY <3>2, Zenon
      <3>4. result.fates \in [1 .. Len(Batch) -> Handled]
        BY <1>2 DEF ResultOK
      <3>5. why(b) \in Handled
        BY <2>2, <3>3, <3>4
      <3> QED
        BY <1>3, <2>2, <3>5
    <2>4. "too_many_of_one_id" \in Handled /\ Handled \subseteq Fates /\ fate \in [Buffers -> Fates]
      BY DEF Handled, Freed, Fates, TypeOK
    <2> HIDE DEF why
    <2>5. \A b \in Buffers : IF b \in SetOf(All) THEN fate'[b] \in Handled ELSE fate'[b] = fate[b]
      BY <2>1, <2>3, <2>4
    <2>6. fate' \in [Buffers -> Fates]
      <3>1. \A b \in Buffers : fate'[b] \in Fates
        BY <2>4, <2>5
      <3>2. fate' = [b \in Buffers |-> fate'[b]]
        BY <2>1
      <3> QED
        BY <3>1, <3>2
    <2>7. ASSUME NEW u \in UEs
          PROVE /\ subframe_msgs'[u] \in Seq(Buffers \cup {NONE})
                /\ Len(subframe_msgs'[u]) = Len(subframe_msgs[u])
                /\ \A k \in 1 .. Len(subframe_msgs[u]) :
                     subframe_msgs'[u][k] = IF subframe_msgs[u][k] \in SetOf(All) THEN NONE ELSE subframe_msgs[u][k]
      <3>1. subframe_msgs[u] \in Seq(Buffers \cup {NONE}) /\ Len(subframe_msgs[u]) \in Nat
        BY DEF TypeOK
      <3>2. subframe_msgs'[u] = [k \in 1 .. Len(subframe_msgs[u]) |->
                IF subframe_msgs[u][k] \in SetOf(All) THEN NONE ELSE subframe_msgs[u][k]]
        BY <2>1
      <3> QED
        BY <3>1, <3>2
    <2>8. subframe_msgs' \in [UEs -> Seq(Buffers \cup {NONE})]
      BY <2>1, <2>7
    <2> QED
      BY <1>1, <1>3, <1>4, <2>1, <2>5, <2>6, <2>7, <2>8
  <1>7. result.aborts \in BOOLEAN
    BY <1>2 DEF ResultOK
  <1> QED
    BY <1>5, <1>6

-----------------------------------------------------------------------------
(* What the other steps do to queues, collection and buffers.               *)

(* A buffer enters its queue once, as the youngest. *)
LEMMA ReceiveFacts ==
  ASSUME TypeOK, SentInv, NEW u \in UEs, receive_message_from_ue(u)
  PROVE LET b == <<u, Len(sent[u]) + 1>> IN
        /\ b \in Buffers /\ fate[b] = "unsent"
        /\ sent' \in [UEs -> Seq(Messages)] /\ Len(sent'[u]) = Len(sent[u]) + 1 /\ Len(sent'[u]) <= MaxMsgs
        /\ \A v \in UEs : v # u => sent'[v] = sent[v]
        /\ \A c \in Buffers : fate[c] # "unsent" => M(c)' = M(c)
        /\ fate' \in [Buffers -> Fates] /\ \A c \in Buffers : c # b => fate'[c] = fate[c]
        /\ \/ fate'[b] = "queue_full" /\ msgs_from_ue' = msgs_from_ue
           \/ /\ fate'[b] = "live" /\ Len(msgs_from_ue[u]) < MAX_QUEUE_SIZE
              /\ msgs_from_ue' \in [UEs -> Seq(Buffers)] /\ \A v \in UEs : v # u => msgs_from_ue'[v] = msgs_from_ue[v]
              /\ Len(msgs_from_ue'[u]) = Len(msgs_from_ue[u]) + 1
              /\ \A k \in 1 .. Len(msgs_from_ue[u]) : msgs_from_ue'[u][k] = msgs_from_ue[u][k]
              /\ msgs_from_ue'[u][Len(msgs_from_ue[u]) + 1] = b
  <1> DEFINE b == <<u, Len(sent[u]) + 1>>
             full == Len(msgs_from_ue[u]) >= MAX_QUEUE_SIZE
             why == IF full THEN "queue_full" ELSE "live"
  <1>1. PICK kind \in load.kinds, lag \in load.lags :
             lag <= tick /\ oai_subframe_handle_msg_from_ue(u, kind, tick - lag)
    BY DEF receive_message_from_ue
  <1> DEFINE m == [id |-> kind.id, ok |-> kind.ok, pdus |-> kind.pdus,
                   typed |-> kind.typed, tick |-> tick - lag]
  <1>2. /\ sent \in [UEs -> Seq(Messages)] /\ Len(sent[u]) \in Nat
        /\ msgs_from_ue \in [UEs -> Seq(Buffers)] /\ Len(msgs_from_ue[u]) \in Nat
        /\ fate \in [Buffers -> Fates] /\ load \in Loads /\ tick \in Nat
    BY UplinkAssumption DEF TypeOK
  <1>3. Len(sent[u]) < load.msgs[u] /\ load.msgs[u] \in 0 .. MaxMsgs /\ MaxMsgs \in Nat
    BY <1>2, UplinkAssumption DEF receive_message_from_ue, UEs
  <1>4. b \in Buffers /\ Len(sent[u]) + 1 <= MaxMsgs
    BY <1>2, <1>3 DEF Buffers
  <1>5. b[1] = u /\ b[2] = Len(sent[u]) + 1
    OBVIOUS
  <1>6. fate[b] = "unsent"
    BY <1>2, <1>4, <1>5 DEF SentInv
  <1>7. m \in Messages
    <2>1. kind.ok \in BOOLEAN /\ kind.pdus \in 0 .. MAX_PDU /\ kind.typed \in BOOLEAN /\ lag \in Int
      BY <1>1, <1>2, UplinkAssumption
    <2>2. kind.id \in UNION {{x.id : x \in l.kinds} : l \in Loads}
      BY <1>2
    <2>3. tick - lag \in Nat
      BY <1>1, <1>2, <2>1
    <2> QED
      BY <2>1, <2>2, <2>3 DEF Messages
  <1>8. /\ sent' = [sent EXCEPT ![u] = Append(@, m)]
        /\ msgs_from_ue' = IF full THEN msgs_from_ue ELSE [msgs_from_ue EXCEPT ![u] = Append(@, b)]
        /\ fate' = [c \in Buffers |-> IF c \in {b} THEN why ELSE fate[c]]
    BY <1>1 DEF oai_subframe_handle_msg_from_ue, Free
  <1> HIDE DEF m
  <1>9. /\ sent' \in [UEs -> Seq(Messages)] /\ sent'[u] = Append(sent[u], m)
        /\ \A v \in UEs : v # u => sent'[v] = sent[v]
    BY <1>2, <1>7, <1>8
  <1>10. /\ Len(sent'[u]) = Len(sent[u]) + 1 /\ \A k \in 1 .. Len(sent[u]) : sent'[u][k] = sent[u][k]
    BY <1>2, <1>7, <1>9
  <1>11. ASSUME NEW c \in Buffers, fate[c] # "unsent"
         PROVE M(c)' = M(c)
    <2>1. c[1] \in UEs /\ c[2] \in 1 .. Len(sent[c[1]])
      BY <1>11, MessageType
    <2>2. M(c) = sent[c[1]][c[2]] /\ M(c)' = sent'[c[1]][c[2]]
      BY DEF M
    <2> QED
      BY <1>9, <1>10, <2>1, <2>2
  <1>12. fate' \in [Buffers -> Fates] /\ fate'[b] = why /\ \A c \in Buffers : c # b => fate'[c] = fate[c]
    <2>1. why \in Fates
      BY DEF Fates, Freed
    <2> HIDE DEF b, why
    <2> QED
      BY <1>2, <1>4, <1>8, <2>1
  <1>13. CASE full
    BY <1>4, <1>6, <1>8, <1>9, <1>10, <1>11, <1>12, <1>13
  <1>14. CASE ~full
    <2>1. fate'[b] = "live" /\ Len(msgs_from_ue[u]) < MAX_QUEUE_SIZE
      BY <1>2, <1>12, <1>14, UplinkAssumption
    <2>2. msgs_from_ue' = [msgs_from_ue EXCEPT ![u] = Append(@, b)]
      BY <1>8, <1>14
    <2> HIDE DEF b
    <2>3. /\ msgs_from_ue' \in [UEs -> Seq(Buffers)] /\ msgs_from_ue'[u] = Append(msgs_from_ue[u], b)
          /\ \A v \in UEs : v # u => msgs_from_ue'[v] = msgs_from_ue[v]
      BY <1>2, <1>4, <2>2
    <2>4. /\ Len(msgs_from_ue'[u]) = Len(msgs_from_ue[u]) + 1
          /\ \A k \in 1 .. Len(msgs_from_ue[u]) : msgs_from_ue'[u][k] = msgs_from_ue[u][k]
          /\ msgs_from_ue'[u][Len(msgs_from_ue[u]) + 1] = b
      BY <1>2, <1>4, <2>3
    <2> QED
      BY <1>4, <1>6, <1>9, <1>10, <1>11, <1>12, <2>1, <2>3, <2>4, <1>3 DEF b
  <1> QED
    BY <1>13, <1>14

(* The oldest message of the queue is freed, kept in hand or collected. *)
LEMMA GetFacts ==
  ASSUME TypeOK, OwnerInv, LabelInv, GetMessage
  PROVE LET b == msgs_from_ue[i][1] IN
        /\ pc = "dequeue" /\ i \in UEs /\ Len(msgs_from_ue[i]) >= 1
        /\ b \in Buffers /\ Live(fate, b, i)
        /\ msgs_from_ue' \in [UEs -> Seq(Buffers)] /\ \A v \in UEs : v # i => msgs_from_ue'[v] = msgs_from_ue[v]
        /\ Len(msgs_from_ue'[i]) = Len(msgs_from_ue[i]) - 1
        /\ \A k \in 1 .. Len(msgs_from_ue[i]) - 1 : msgs_from_ue'[i][k] = msgs_from_ue[i][k + 1]
        /\ master_sfn_sf' \in (0 .. PERIOD - 1) \cup {NONE}
        /\ master_sfn_sf # NONE => master_sfn_sf' = master_sfn_sf
        /\ fate' \in [Buffers -> Fates] /\ \A c \in Buffers : c # b => fate'[c] = fate[c]
        /\ \/ /\ fate'[b] \in {"invalid", "stale", "too_many_from_ue"}
              /\ fate'[b] = "stale" => get_sf_delta(sfn_sf(tick), sfn_sf(M(b).tick)) > STALE
              /\ UNCHANGED <<pc, msg, subframe_msgs>>
           \/ pc' = "requeue" /\ msg' = b /\ UNCHANGED <<fate, subframe_msgs>>
           \/ /\ UNCHANGED <<pc, msg, fate>>
              /\ M(b).id \in Ids /\ sfn_sf(M(b).tick) = master_sfn_sf'
              /\ subframe_msgs' \in [UEs -> Seq(Buffers \cup {NONE})]
              /\ \A v \in UEs : v # i => subframe_msgs'[v] = subframe_msgs[v]
              /\ Len(subframe_msgs'[i]) = Len(subframe_msgs[i]) + 1 /\ Len(subframe_msgs'[i]) <= MAX_SUBFRAME_MSGS
              /\ \A k \in 1 .. Len(subframe_msgs[i]) : subframe_msgs'[i][k] = subframe_msgs[i][k]
              /\ subframe_msgs'[i][Len(subframe_msgs[i]) + 1] = b
  <1> DEFINE q == msgs_from_ue[i]
             b == q[1]
             s == subframe_msgs[i]
  <1>1. /\ i \in UEs /\ q \in Seq(Buffers) /\ Len(q) \in Nat
        /\ s \in Seq(Buffers \cup {NONE}) /\ Len(s) \in Nat /\ Len(s) <= MAX_SUBFRAME_MSGS
        /\ msgs_from_ue \in [UEs -> Seq(Buffers)] /\ subframe_msgs \in [UEs -> Seq(Buffers \cup {NONE})]
        /\ fate \in [Buffers -> Fates] /\ master_sfn_sf \in (0 .. PERIOD - 1) \cup {NONE}
    BY DEF TypeOK
  <1>2. pc = "dequeue" /\ q # <<>>
    BY DEF GetMessage
  <1>3. Len(q) >= 1 /\ b \in Buffers /\ b = Head(q) /\ Tail(q) \in Seq(Buffers)
    BY <1>1, <1>2
  <1>4. /\ Len(Tail(q)) = Len(q) - 1 /\ \A k \in 1 .. Len(q) - 1 : Tail(q)[k] = q[k + 1]
    BY <1>1, <1>2
  <1>5. Live(fate, b, i)
    BY <1>1, <1>3 DEF OwnerInv, QueueInv
  <1>6. /\ msgs_from_ue' \in [UEs -> Seq(Buffers)] /\ msgs_from_ue'[i] = Tail(q)
        /\ \A v \in UEs : v # i => msgs_from_ue'[v] = msgs_from_ue[v]
    <2>1. msgs_from_ue' = [msgs_from_ue EXCEPT ![i] = Tail(@)]
      BY DEF GetMessage
    <2> QED
      BY <1>1, <1>3, <2>1
  <1>7. /\ Len(msgs_from_ue'[i]) = Len(q) - 1
        /\ \A k \in 1 .. Len(q) - 1 : msgs_from_ue'[i][k] = q[k + 1]
    BY <1>4, <1>6
  <1>8. /\ master_sfn_sf' = IF get_sfnsf_ok(b) THEN Master(b) ELSE master_sfn_sf
        /\ \/ /\ ~get_sfnsf_ok(b)
              /\ Free({b}, "invalid")
              /\ UNCHANGED <<pc, msg, subframe_msgs>>
           \/ /\ get_sfnsf_ok(b)
              /\ Master(b) # sfn_sf(M(b).tick)
              /\ msg' = b
              /\ pc' = "requeue"
              /\ UNCHANGED <<fate, subframe_msgs>>
           \/ /\ get_sfnsf_ok(b)
              /\ Master(b) = sfn_sf(M(b).tick)
              /\ UNCHANGED <<pc, msg>>
              /\ IF get_sf_delta(sfn_sf(tick), sfn_sf(M(b).tick)) > STALE
                 THEN Free({b}, "stale") /\ UNCHANGED subframe_msgs
                 ELSE Collect(b)
    BY <1>3 DEF GetMessage
  <1>9. M(b).tick \in Nat
    BY <1>3, <1>5, MessageType DEF Live, OwnerInv
  <1>10. sfn_sf(M(b).tick) \in 0 .. PERIOD - 1
    BY <1>9, LabelRange
  <1>11. /\ master_sfn_sf' \in (0 .. PERIOD - 1) \cup {NONE}
         /\ master_sfn_sf # NONE => master_sfn_sf' = master_sfn_sf
    <2> HIDE DEF b
    <2> QED
      BY <1>1, <1>8, <1>10 DEF Master
  <1> DEFINE common == /\ pc = "dequeue" /\ i \in UEs /\ Len(msgs_from_ue[i]) >= 1
                       /\ b \in Buffers /\ Live(fate, b, i)
                       /\ msgs_from_ue' \in [UEs -> Seq(Buffers)]
                       /\ \A v \in UEs : v # i => msgs_from_ue'[v] = msgs_from_ue[v]
                       /\ Len(msgs_from_ue'[i]) = Len(msgs_from_ue[i]) - 1
                       /\ \A k \in 1 .. Len(msgs_from_ue[i]) - 1 : msgs_from_ue'[i][k] = msgs_from_ue[i][k + 1]
                       /\ master_sfn_sf' \in (0 .. PERIOD - 1) \cup {NONE}
                       /\ master_sfn_sf # NONE => master_sfn_sf' = master_sfn_sf
  <1>12. common
    BY <1>1, <1>2, <1>3, <1>5, <1>6, <1>7, <1>11
  <1> HIDE DEF common
  <1>13. ASSUME NEW why \in {"invalid", "stale", "too_many_from_ue"}, Free({b}, why)
         PROVE /\ fate' \in [Buffers -> Fates] /\ fate'[b] = why /\ \A c \in Buffers : c # b => fate'[c] = fate[c]
    <2>1. why \in Fates
      BY DEF Fates, Freed
    <2>2. fate' = [c \in Buffers |-> IF c \in {b} THEN why ELSE fate[c]]
      BY <1>13 DEF Free
    <2> HIDE DEF b
    <2> QED
      BY <1>1, <1>3, <2>1, <2>2
  <1>14. CASE ~get_sfnsf_ok(b)
    <2>1. Free({b}, "invalid") /\ UNCHANGED <<pc, msg, subframe_msgs>>
      BY <1>8, <1>14, Zenon
    <2> QED
      BY <1>12, <1>13, <2>1 DEF common
  <1>15. CASE get_sfnsf_ok(b) /\ Master(b) # sfn_sf(M(b).tick)
    <2>1. pc' = "requeue" /\ msg' = b /\ UNCHANGED <<fate, subframe_msgs>>
      BY <1>8, <1>15, Zenon
    <2> QED
      BY <1>1, <1>12, <2>1 DEF common
  <1>16. CASE get_sfnsf_ok(b) /\ Master(b) = sfn_sf(M(b).tick)
    <2>1. /\ UNCHANGED <<pc, msg>>
          /\ IF get_sf_delta(sfn_sf(tick), sfn_sf(M(b).tick)) > STALE
             THEN Free({b}, "stale") /\ UNCHANGED subframe_msgs
             ELSE Collect(b)
      BY <1>8, <1>16, Zenon
    <2>2. CASE get_sf_delta(sfn_sf(tick), sfn_sf(M(b).tick)) > STALE
      <3>1. Free({b}, "stale") /\ UNCHANGED <<pc, msg, subframe_msgs>>
        BY <2>1, <2>2, Zenon
      <3> QED
        BY <1>12, <1>13, <2>2, <3>1 DEF common
    <2>3. CASE ~(get_sf_delta(sfn_sf(tick), sfn_sf(M(b).tick)) > STALE) /\ Len(s) = MAX_SUBFRAME_MSGS
      <3>1. Free({b}, "too_many_from_ue") /\ UNCHANGED <<pc, msg, subframe_msgs>>
        BY <2>1, <2>3, Zenon DEF Collect
      <3> QED
        BY <1>12, <1>13, <3>1 DEF common
    <2>4. CASE ~(get_sf_delta(sfn_sf(tick), sfn_sf(M(b).tick)) > STALE) /\ Len(s) # MAX_SUBFRAME_MSGS
      <3>1. subframe_msgs' = [subframe_msgs EXCEPT ![i] = Append(@, b)] /\ UNCHANGED fate
        BY <2>1, <2>4, Zenon DEF Collect
      <3>2. M(b).id \in Ids /\ sfn_sf(M(b).tick) = master_sfn_sf'
        BY <1>8, <1>16 DEF get_sfnsf_ok
      <3> HIDE DEF b
      <3>3. /\ subframe_msgs' \in [UEs -> Seq(Buffers \cup {NONE})] /\ subframe_msgs'[i] = Append(s, b)
            /\ \A v \in UEs : v # i => subframe_msgs'[v] = subframe_msgs[v]
        BY <1>1, <1>3, <3>1
      <3>4. /\ Len(subframe_msgs'[i]) = Len(s) + 1 /\ \A k \in 1 .. Len(s) : subframe_msgs'[i][k] = s[k]
            /\ subframe_msgs'[i][Len(s) + 1] = b
        BY <1>1, <1>3, <3>3
      <3>5. Len(s) + 1 <= MAX_SUBFRAME_MSGS
        BY <1>1, <2>4, UplinkAssumption
      <3> QED
        BY <1>1, <1>12, <2>1, <3>1, <3>2, <3>3, <3>4, <3>5 DEF common, b
    <2> QED
      BY <2>2, <2>3, <2>4
  <1> QED
    BY <1>14, <1>15, <1>16

(* The task goes on to a later queue, or to the aggregation. *)
LEMMA NextUeFacts ==
  ASSUME TypeOK, NextUe
  PROVE /\ pc' \in {"dequeue", "aggregate"} /\ i' \in UEs
        /\ \A u \in UEs : pc' = "aggregate" \/ u < i' => u < i \/ u = i
  <1>1. i \in 1 .. num_ues /\ num_ues \in Nat \ {0} /\ UEs = 1 .. num_ues
    BY UplinkAssumption DEF TypeOK, UEs
  <1>2. CASE i = num_ues
    <2>1. pc' = "aggregate" /\ i' = i
      BY <1>2 DEF NextUe
    <2> QED
      BY <1>1, <1>2, <2>1
  <1>3. CASE i # num_ues
    <2>1. pc' = "dequeue" /\ i' = i + 1
      BY <1>3 DEF NextUe
    <2> QED
      BY <1>1, <1>3, <2>1
  <1> QED
    BY <1>2, <1>3

(* The message in hand goes back to the head of its queue, or is freed. *)
LEMMA RequeueFacts ==
  ASSUME TypeOK, OwnerInv, RequeueMessage
  PROVE /\ pc = "requeue" /\ i \in UEs /\ msg \in Buffers /\ Live(fate, msg, i) /\ msg' = NONE /\ are_queues_empty' = FALSE
        /\ fate' \in [Buffers -> Fates] /\ \A c \in Buffers : c # msg => fate'[c] = fate[c]
        /\ \/ fate'[msg] = "requeue_failed" /\ UNCHANGED msgs_from_ue
           \/ /\ UNCHANGED fate
              /\ msgs_from_ue' \in [UEs -> Seq(Buffers)] /\ \A v \in UEs : v # i => msgs_from_ue'[v] = msgs_from_ue[v]
              /\ Len(msgs_from_ue'[i]) = Len(msgs_from_ue[i]) + 1 /\ Len(msgs_from_ue'[i]) <= MAX_QUEUE_SIZE
              /\ msgs_from_ue'[i][1] = msg
              /\ \A k \in 1 .. Len(msgs_from_ue[i]) : msgs_from_ue'[i][k + 1] = msgs_from_ue[i][k]
  <1> DEFINE q == msgs_from_ue[i]
  <1>1. /\ i \in UEs /\ q \in Seq(Buffers) /\ Len(q) \in Nat /\ msgs_from_ue \in [UEs -> Seq(Buffers)]
        /\ fate \in [Buffers -> Fates] /\ msg \in Buffers \cup {NONE}
    BY DEF TypeOK
  <1>2. pc = "requeue" /\ requeue(msg) /\ msg' = NONE /\ are_queues_empty' = FALSE
    BY DEF RequeueMessage, QueueNotEmpty
  <1>3. msg \in Buffers /\ Live(fate, msg, i)
    BY <1>1, <1>2 DEF OwnerInv, HandInv
  <1>4. CASE Len(q) >= MAX_QUEUE_SIZE
    <2>1. fate' = [c \in Buffers |-> IF c \in {msg} THEN "requeue_failed" ELSE fate[c]] /\ UNCHANGED msgs_from_ue
      BY <1>2, <1>4 DEF requeue, Free
    <2>2. "requeue_failed" \in Fates
      BY DEF Fates, Freed
    <2>3. fate' \in [Buffers -> Fates] /\ fate'[msg] = "requeue_failed" /\ \A c \in Buffers : c # msg => fate'[c] = fate[c]
      BY <1>1, <1>3, <2>1, <2>2
    <2> QED
      BY <1>1, <1>2, <1>3, <2>1, <2>3
  <1>5. CASE ~(Len(q) >= MAX_QUEUE_SIZE)
    <2>1. msgs_from_ue' = [msgs_from_ue EXCEPT ![i] = <<msg>> \o @] /\ UNCHANGED fate
      BY <1>2, <1>5 DEF requeue
    <2>2. /\ <<msg>> \in Seq(Buffers) /\ Len(<<msg>>) = 1 /\ <<msg>>[1] = msg
      BY <1>3
    <2>3. <<msg>> \o q \in Seq(Buffers) /\ Len(<<msg>> \o q) = Len(q) + 1 /\ (<<msg>> \o q)[1] = msg
      BY <1>1, <2>2
    <2>4. \A k \in 1 .. Len(q) : (<<msg>> \o q)[k + 1] = q[k]
      BY <1>1, <2>2
    <2>5. /\ msgs_from_ue' \in [UEs -> Seq(Buffers)] /\ msgs_from_ue'[i] = <<msg>> \o q
          /\ \A v \in UEs : v # i => msgs_from_ue'[v] = msgs_from_ue[v]
      BY <1>1, <2>1, <2>3
    <2>6. Len(q) + 1 <= MAX_QUEUE_SIZE
      BY <1>1, <1>5, UplinkAssumption
    <2> QED
      BY <1>1, <1>2, <1>3, <2>1, <2>3, <2>4, <2>5, <2>6
  <1> QED
    BY <1>4, <1>5

-----------------------------------------------------------------------------
(* Every step keeps the types.                                              *)

LEMMA TypeInit == Init => TypeOK
  <1> SUFFICES ASSUME Init PROVE TypeOK
    OBVIOUS
  <1>1. num_ues \in Nat \ {0} /\ MaxMsgs \in Nat /\ MaxTick \in Nat /\ UEs = 1 .. num_ues
    BY UplinkAssumption DEF UEs
  <1>2. "unsent" \in Fates
    BY DEF Fates
  <1>3. /\ sent \in [UEs -> Seq(Messages)] /\ msgs_from_ue \in [UEs -> Seq(Buffers)]
        /\ subframe_msgs \in [UEs -> Seq(Buffers \cup {NONE})] /\ fate \in [Buffers -> Fates]
        /\ indication \in Seq([msg : Buffers, sfn_sf : 0 .. PERIOD - 1])
    BY <1>2 DEF Init
  <1>4. \A u \in UEs : /\ Len(sent[u]) <= MaxMsgs /\ Len(msgs_from_ue[u]) <= MAX_QUEUE_SIZE
                       /\ Len(subframe_msgs[u]) <= MAX_SUBFRAME_MSGS
    BY UplinkAssumption DEF Init
  <1>5. Len(indication) <= MAX_SUBFRAME_MSGS /\ backlog \in [UEs -> 0 .. MaxMsgs] /\ i \in UEs /\ tick \in 0 .. MaxTick
    BY <1>1, UplinkAssumption DEF Init
  <1> QED
    BY <1>3, <1>4, <1>5 DEF Init, TypeOK

LEMMA TypeStep ==
  ASSUME TypeOK, OwnerInv, LabelInv, [UplinkNext]_vars
  PROVE TypeOK'
  <1>1. CASE start_request
    BY <1>1 DEF start_request, TypeOK, threadVars, taskVars
  <1>2. CASE \E u \in UEs : receive_message_from_ue(u)
    <2>1. PICK u \in UEs : receive_message_from_ue(u)
      BY <1>2
    <2>2. UNCHANGED <<load, receiving, p7_config_g, tick, pc, i, msg, master_sfn_sf, subframe_msgs,
                      are_queues_empty, indication, number_of_pdus, backlog>>
      BY <2>1 DEF receive_message_from_ue, taskVars
    <2>3. /\ sent' \in [UEs -> Seq(Messages)] /\ Len(sent'[u]) <= MaxMsgs
          /\ \A v \in UEs : v # u => sent'[v] = sent[v]
          /\ fate' \in [Buffers -> Fates]
      BY <2>1, ReceiveFacts DEF OwnerInv
    <2>4. \/ msgs_from_ue' = msgs_from_ue
          \/ /\ Len(msgs_from_ue[u]) < MAX_QUEUE_SIZE
             /\ msgs_from_ue' \in [UEs -> Seq(Buffers)] /\ \A v \in UEs : v # u => msgs_from_ue'[v] = msgs_from_ue[v]
             /\ Len(msgs_from_ue'[u]) = Len(msgs_from_ue[u]) + 1
      BY <2>1, ReceiveFacts DEF OwnerInv
    <2>5. msgs_from_ue' \in [UEs -> Seq(Buffers)] /\ \A v \in UEs : Len(msgs_from_ue'[v]) <= MAX_QUEUE_SIZE
      <3>1. MAX_QUEUE_SIZE \in Nat /\ Len(msgs_from_ue[u]) \in Nat
        BY UplinkAssumption DEF TypeOK
      <3>2. msgs_from_ue \in [UEs -> Seq(Buffers)] /\ \A v \in UEs : Len(msgs_from_ue[v]) <= MAX_QUEUE_SIZE
        BY DEF TypeOK
      <3>3. Len(msgs_from_ue'[u]) <= MAX_QUEUE_SIZE
        BY <2>4, <3>1, <3>2
      <3> QED
        BY <2>4, <3>2, <3>3
    <2>6. \A v \in UEs : Len(sent'[v]) <= MaxMsgs
      BY <2>3 DEF TypeOK
    <2> QED
      BY <2>2, <2>3, <2>5, <2>6 DEF TypeOK
  <1>3. CASE \E u \in UEs : ReceiveThreadEnds(u)
    BY <1>3 DEF ReceiveThreadEnds, TypeOK, threadVars, taskVars
  <1>4. CASE StartSubframe
    <2>1. /\ tick' = tick + 1 /\ tick < MaxTick /\ pc' = "dequeue" /\ i' = 1 /\ master_sfn_sf' = NONE
          /\ subframe_msgs' = [u \in UEs |-> <<>>] /\ are_queues_empty' = TRUE
          /\ backlog' = [u \in UEs |-> Len(sent[u])]
          /\ UNCHANGED <<load, sent, receiving, fate, p7_config_g, msgs_from_ue, msg, indication, number_of_pdus>>
      BY <1>4 DEF StartSubframe, threadVars
    <2>2. tick' \in 0 .. MaxTick /\ i' \in UEs
      BY <2>1, UplinkAssumption DEF TypeOK, UEs
    <2>3. /\ subframe_msgs' \in [UEs -> Seq(Buffers \cup {NONE})]
          /\ \A u \in UEs : Len(subframe_msgs'[u]) <= MAX_SUBFRAME_MSGS
      BY <2>1, UplinkAssumption
    <2>4. backlog' \in [UEs -> 0 .. MaxMsgs]
      <3>1. \A u \in UEs : Len(sent[u]) \in 0 .. MaxMsgs
        BY UplinkAssumption DEF TypeOK
      <3> QED
        BY <2>1, <3>1
    <2> QED
      BY <2>1, <2>2, <2>3, <2>4 DEF TypeOK
  <1>5. CASE EmptyQueue
    <2>1. pc' \in {"dequeue", "aggregate"} /\ i' \in UEs
      BY <1>5, NextUeFacts DEF EmptyQueue
    <2> QED
      BY <1>5, <2>1 DEF EmptyQueue, TypeOK, threadVars
  <1>6. CASE GetMessage
    <2> DEFINE b == msgs_from_ue[i][1]
    <2>1. UNCHANGED <<load, sent, receiving, p7_config_g, tick, i, are_queues_empty, indication,
                      number_of_pdus, backlog>>
      BY <1>6 DEF GetMessage, threadVars
    <2>2. /\ i \in UEs /\ b \in Buffers /\ pc = "dequeue" /\ Len(msgs_from_ue[i]) >= 1
          /\ msgs_from_ue' \in [UEs -> Seq(Buffers)] /\ \A v \in UEs : v # i => msgs_from_ue'[v] = msgs_from_ue[v]
          /\ Len(msgs_from_ue'[i]) = Len(msgs_from_ue[i]) - 1
          /\ master_sfn_sf' \in (0 .. PERIOD - 1) \cup {NONE}
          /\ fate' \in [Buffers -> Fates]
      BY <1>6, GetFacts
    <2>3. \A v \in UEs : Len(msgs_from_ue'[v]) <= MAX_QUEUE_SIZE
      <3>1. MAX_QUEUE_SIZE \in Nat /\ Len(msgs_from_ue[i]) \in Nat /\ Len(msgs_from_ue[i]) <= MAX_QUEUE_SIZE
        BY UplinkAssumption DEF TypeOK
      <3>2. \A v \in UEs : Len(msgs_from_ue[v]) <= MAX_QUEUE_SIZE
        BY DEF TypeOK
      <3>3. Len(msgs_from_ue'[i]) <= MAX_QUEUE_SIZE
        BY <2>2, <3>1
      <3> QED
        BY <2>2, <3>2, <3>3
    <2>4. pc' \in {"dequeue", "requeue"} /\ msg' \in Buffers \cup {NONE}
      <3>1. (pc' = pc /\ msg' = msg) \/ (pc' = "requeue" /\ msg' = b)
        BY <1>6, GetFacts
      <3> QED
        BY <2>2, <3>1 DEF TypeOK
    <2>5. /\ subframe_msgs' \in [UEs -> Seq(Buffers \cup {NONE})]
          /\ \A u \in UEs : Len(subframe_msgs'[u]) <= MAX_SUBFRAME_MSGS
      <3>1. \/ subframe_msgs' = subframe_msgs
            \/ /\ subframe_msgs' \in [UEs -> Seq(Buffers \cup {NONE})]
               /\ \A v \in UEs : v # i => subframe_msgs'[v] = subframe_msgs[v]
               /\ Len(subframe_msgs'[i]) <= MAX_SUBFRAME_MSGS
        BY <1>6, GetFacts
      <3> QED
        BY <3>1 DEF TypeOK
    <2> HIDE DEF b
    <2> QED
      BY <2>1, <2>2, <2>3, <2>4, <2>5 DEF TypeOK
  <1>7. CASE RequeueMessage
    <2>1. UNCHANGED <<load, sent, receiving, p7_config_g, tick, master_sfn_sf, subframe_msgs, indication,
                      number_of_pdus, backlog>>
      BY <1>7 DEF RequeueMessage, threadVars
    <2>2. pc' \in {"dequeue", "aggregate"} /\ i' \in UEs
      BY <1>7, NextUeFacts DEF RequeueMessage, Break
    <2>3. msg' = NONE /\ are_queues_empty' = FALSE /\ fate' \in [Buffers -> Fates] /\ i \in UEs
      BY <1>7, RequeueFacts
    <2>4. \/ msgs_from_ue' = msgs_from_ue
          \/ /\ msgs_from_ue' \in [UEs -> Seq(Buffers)] /\ \A v \in UEs : v # i => msgs_from_ue'[v] = msgs_from_ue[v]
             /\ Len(msgs_from_ue'[i]) <= MAX_QUEUE_SIZE
      BY <1>7, RequeueFacts
    <2>5. msgs_from_ue' \in [UEs -> Seq(Buffers)] /\ \A v \in UEs : Len(msgs_from_ue'[v]) <= MAX_QUEUE_SIZE
      BY <2>4 DEF TypeOK
    <2> QED
      BY <2>1, <2>2, <2>3, <2>5 DEF TypeOK
  <1>8. CASE AggregateStep
    <2>1. UNCHANGED <<load, sent, receiving, p7_config_g, msgs_from_ue, tick, i, msg, master_sfn_sf,
                      are_queues_empty, backlog>>
      BY <1>8 DEF AggregateStep, threadVars
    <2>2. number_of_pdus' \in Nat /\ Collected # {} /\ pc = "aggregate"
      BY <1>8, TakeOutFacts
    <2>3. CASE pc' = "aborted" /\ UNCHANGED <<fate, indication, subframe_msgs>>
      BY <2>1, <2>2, <2>3 DEF TypeOK
    <2>4. CASE ~(pc' = "aborted" /\ UNCHANGED <<fate, indication, subframe_msgs>>)
      <3>1. /\ pc' = pc /\ fate' \in [Buffers -> Fates]
            /\ subframe_msgs' \in [UEs -> Seq(Buffers \cup {NONE})]
            /\ \A u \in UEs : Len(subframe_msgs'[u]) = Len(subframe_msgs[u])
            /\ \E F : indication' = Indication(FoundId, Members(Batch, F))
        BY <1>8, <2>4, TakeOutFacts
      <3>2. /\ indication' \in Seq([msg : Buffers, sfn_sf : 0 .. PERIOD - 1])
            /\ Len(indication') <= MAX_SUBFRAME_MSGS
        BY <2>2, <3>1, IndicationFacts
      <3>3. \A u \in UEs : Len(subframe_msgs'[u]) <= MAX_SUBFRAME_MSGS
        BY <3>1 DEF TypeOK
      <3> QED
        BY <2>1, <2>2, <3>1, <3>2, <3>3 DEF TypeOK
    <2> QED
      BY <2>3, <2>4
  <1>9. CASE EndSubframe
    <2>1. /\ subframe_msgs' \in [UEs -> Seq(Buffers \cup {NONE})]
          /\ \A u \in UEs : Len(subframe_msgs'[u]) <= MAX_SUBFRAME_MSGS
      BY <1>9, UplinkAssumption DEF EndSubframe
    <2> QED
      BY <1>9, <2>1 DEF EndSubframe, TypeOK, threadVars
  <1>10. CASE UNCHANGED vars
    BY <1>10 DEF TypeOK, vars, threadVars, taskVars
  <1> QED
    BY <1>1, <1>2, <1>3, <1>4, <1>5, <1>6, <1>7, <1>8, <1>9, <1>10 DEF UplinkNext

-----------------------------------------------------------------------------
(* Every step keeps each live buffer in one place.                          *)

LEMMA CollectedNext ==
  \A b : b \in Collected' <=> b # NONE /\ \E u \in UEs : \E k \in 1 .. Len(subframe_msgs'[u]) : b = subframe_msgs'[u][k]
  BY DEF Collected, SetOf

LEMMA OwnerInit == Init => OwnerInv
  <1> SUFFICES ASSUME Init PROVE OwnerInv
    OBVIOUS
  <1>1. \A u \in UEs : sent[u] = <<>> /\ msgs_from_ue[u] = <<>> /\ subframe_msgs[u] = <<>>
    BY DEF Init
  <1>2. \A b \in Buffers : fate[b] = "unsent" /\ b[1] \in UEs /\ b[2] \in Nat /\ b[2] >= 1
    BY UplinkAssumption DEF Init, Buffers
  <1>3. Len(<<>>) = 0 /\ 1 .. 0 = {}
    OBVIOUS
  <1>4. SentInv
    BY <1>1, <1>2, <1>3 DEF SentInv
  <1>5. QueueInv /\ CollectedInv
    BY <1>1, <1>3 DEF QueueInv, CollectedInv
  <1>6. HandInv /\ HeldInv
    BY <1>2 DEF Init, HandInv, HeldInv
  <1>7. IdleInv
    BY <1>1, <1>3 DEF IdleInv, Collected, SetOf
  <1> QED
    BY <1>4, <1>5, <1>6, <1>7 DEF OwnerInv

(* A step that touches no buffer. *)
LEMMA OwnerSame ==
  ASSUME OwnerInv, UNCHANGED <<sent, fate, msgs_from_ue, subframe_msgs, msg>>,
         pc' = "requeue" <=> pc = "requeue", i' = i \/ pc # "requeue", pc' = "tick" => pc = "tick"
  PROVE OwnerInv'
  <1>1. SentInv' /\ QueueInv' /\ CollectedInv'
    BY DEF OwnerInv, SentInv, QueueInv, CollectedInv, Live
  <1>2. HandInv'
    BY DEF OwnerInv, HandInv, Live
  <1>3. HeldInv'
    BY DEF OwnerInv, HeldInv, Held
  <1>4. IdleInv'
    BY DEF OwnerInv, IdleInv, Collected, SetOf
  <1> QED
    BY <1>1, <1>2, <1>3, <1>4 DEF OwnerInv

(* The buffers a UE's queue, hand and collection hold have been filled. *)
LEMMA HeldAreOlder ==
  ASSUME TypeOK, OwnerInv, NEW u \in UEs
  PROVE /\ \A k \in 1 .. Len(msgs_from_ue[u]) :
             msgs_from_ue[u][k] \in Buffers /\ msgs_from_ue[u][k][2] \in 1 .. Len(sent[u])
        /\ \A k \in 1 .. Len(subframe_msgs[u]) : subframe_msgs[u][k] # NONE =>
             subframe_msgs[u][k] \in Buffers /\ subframe_msgs[u][k][2] \in 1 .. Len(sent[u])
        /\ msg # NONE /\ i = u => msg \in Buffers /\ msg[2] \in 1 .. Len(sent[u])
  <1>1. \A c \in Buffers : Live(fate, c, u) => c[2] \in 1 .. Len(sent[u])
    BY MessageType DEF Live, OwnerInv
  <1>2. ASSUME NEW k \in 1 .. Len(msgs_from_ue[u])
        PROVE msgs_from_ue[u][k] \in Buffers /\ msgs_from_ue[u][k][2] \in 1 .. Len(sent[u])
    <2>1. msgs_from_ue[u][k] \in Buffers /\ Live(fate, msgs_from_ue[u][k], u)
      BY DEF TypeOK, OwnerInv, QueueInv
    <2> QED
      BY <1>1, <2>1
  <1>3. ASSUME NEW k \in 1 .. Len(subframe_msgs[u]), subframe_msgs[u][k] # NONE
        PROVE subframe_msgs[u][k] \in Buffers /\ subframe_msgs[u][k][2] \in 1 .. Len(sent[u])
    <2>1. subframe_msgs[u][k] \in Buffers \cup {NONE} /\ Live(fate, subframe_msgs[u][k], u)
      BY <1>3 DEF TypeOK, OwnerInv, CollectedInv
    <2> QED
      BY <1>1, <1>3, <2>1
  <1>4. ASSUME msg # NONE, i = u
        PROVE msg \in Buffers /\ msg[2] \in 1 .. Len(sent[u])
    <2>1. msg \in Buffers /\ Live(fate, msg, u)
      BY <1>4 DEF TypeOK, OwnerInv, HandInv
    <2> QED
      BY <1>1, <2>1
  <1> QED
    BY <1>2, <1>3, <1>4

LEMMA OwnerReceive ==
  ASSUME TypeOK, OwnerInv, NEW u \in UEs, receive_message_from_ue(u)
  PROVE OwnerInv'
  <1> DEFINE b == <<u, Len(sent[u]) + 1>>
             q == msgs_from_ue[u]
  <1>1. UNCHANGED <<pc, i, msg, subframe_msgs>>
    BY DEF receive_message_from_ue, taskVars
  <1>2. /\ b \in Buffers /\ fate[b] = "unsent"
        /\ Len(sent'[u]) = Len(sent[u]) + 1 /\ \A v \in UEs : v # u => sent'[v] = sent[v]
        /\ \A c \in Buffers : c # b => fate'[c] = fate[c]
        /\ fate'[b] \in {"queue_full", "live"}
    BY ReceiveFacts DEF OwnerInv
  <1>3. \/ fate'[b] = "queue_full" /\ msgs_from_ue' = msgs_from_ue
        \/ /\ fate'[b] = "live" /\ \A v \in UEs : v # u => msgs_from_ue'[v] = msgs_from_ue[v]
           /\ Len(msgs_from_ue'[u]) = Len(q) + 1
           /\ \A k \in 1 .. Len(q) : msgs_from_ue'[u][k] = q[k]
           /\ msgs_from_ue'[u][Len(q) + 1] = b
    BY ReceiveFacts DEF OwnerInv
  <1>4. b[1] = u /\ b[2] = Len(sent[u]) + 1 /\ Len(sent[u]) \in Nat /\ Len(q) \in Nat
    BY DEF TypeOK
  <1>5. \A c \in Buffers : c[1] \in UEs /\ c[2] \in Nat /\ (c[1] = u /\ c[2] = b[2] => c = b)
    BY <1>4, UplinkAssumption DEF Buffers
  <1> HIDE DEF b
  <1>6. \A c, v : Live(fate, c, v) /\ c \in Buffers => Live(fate', c, v)
    BY <1>2 DEF Live
  <1>7. /\ \A v \in UEs : \A k \in 1 .. Len(msgs_from_ue[v]) :
             msgs_from_ue[v][k] \in Buffers /\ Live(fate, msgs_from_ue[v][k], v) /\ Live(fate', msgs_from_ue[v][k], v)
        /\ \A k \in 1 .. Len(q) : q[k][2] \in Int /\ q[k][2] < b[2]
    <2>1. \A v \in UEs : \A k \in 1 .. Len(msgs_from_ue[v]) :
             msgs_from_ue[v][k] \in Buffers /\ Live(fate, msgs_from_ue[v][k], v)
      BY DEF TypeOK, OwnerInv, QueueInv
    <2>2. \A k \in 1 .. Len(q) : q[k][2] \in 1 .. Len(sent[u])
      BY HeldAreOlder
    <2> QED
      BY <1>4, <1>6, <2>1, <2>2
  <1>8. /\ \A v \in UEs : \A k \in 1 .. Len(subframe_msgs[v]) : subframe_msgs[v][k] # NONE =>
             subframe_msgs[v][k] \in Buffers /\ Live(fate', subframe_msgs[v][k], v)
        /\ \A k \in 1 .. Len(subframe_msgs[u]) : subframe_msgs[u][k] # NONE => subframe_msgs[u][k][2] < b[2]
    <2>1. \A v \in UEs : \A k \in 1 .. Len(subframe_msgs[v]) : subframe_msgs[v][k] # NONE =>
             subframe_msgs[v][k] \in Buffers /\ Live(fate, subframe_msgs[v][k], v)
      BY DEF TypeOK, OwnerInv, CollectedInv
    <2>2. \A k \in 1 .. Len(subframe_msgs[u]) : subframe_msgs[u][k] # NONE => subframe_msgs[u][k][2] \in 1 .. Len(sent[u])
      BY HeldAreOlder
    <2> QED
      BY <1>4, <1>6, <2>1, <2>2
  <1>9. msg # NONE => msg \in Buffers /\ Live(fate', msg, i) /\ i \in UEs /\ (i = u => msg[2] < b[2])
    <2>1. msg # NONE => msg \in Buffers /\ Live(fate, msg, i) /\ i \in UEs
      BY DEF TypeOK, OwnerInv, HandInv
    <2>2. msg # NONE /\ i = u => msg[2] \in 1 .. Len(sent[u])
      BY HeldAreOlder
    <2> QED
      BY <1>4, <1>6, <2>1, <2>2
  <1>10. SentInv'
    <2>1. ASSUME NEW c \in Buffers
          PROVE fate'[c] = "unsent" <=> c[2] > Len(sent'[c[1]])
      <3>1. fate[c] = "unsent" <=> c[2] > Len(sent[c[1]])
        BY DEF OwnerInv, SentInv
      <3>2. CASE c = b
        BY <1>2, <1>4, <3>2
      <3>3. CASE c # b /\ c[1] = u
        BY <1>2, <1>4, <1>5, <3>1, <3>3
      <3>4. CASE c # b /\ c[1] # u
        BY <1>2, <1>5, <3>1, <3>4
      <3> QED
        BY <3>2, <3>3, <3>4
    <2> QED
      BY <2>1 DEF SentInv
  <1>11. CASE fate'[b] = "queue_full"
    <2>1. msgs_from_ue' = msgs_from_ue
      BY <1>3, <1>11
    <2>2. QueueInv'
      BY <1>7, <2>1 DEF OwnerInv, QueueInv
    <2>3. CollectedInv'
      BY <1>1, <1>8, <2>1 DEF OwnerInv, CollectedInv
    <2>4. HandInv'
      BY <1>1, <1>9, <2>1 DEF OwnerInv, HandInv
    <2>5. HeldInv'
      BY <1>1, <1>2, <1>11, <2>1 DEF OwnerInv, HeldInv, Held
    <2>6. IdleInv'
      BY <1>1 DEF OwnerInv, IdleInv, Collected, SetOf
    <2> QED
      BY <1>10, <2>2, <2>3, <2>4, <2>5, <2>6 DEF OwnerInv
  <1>12. CASE fate'[b] = "live"
    <2>1. /\ \A v \in UEs : v # u => msgs_from_ue'[v] = msgs_from_ue[v]
          /\ Len(msgs_from_ue'[u]) = Len(q) + 1
          /\ \A k \in 1 .. Len(q) : msgs_from_ue'[u][k] = q[k]
          /\ msgs_from_ue'[u][Len(q) + 1] = b
      BY <1>3, <1>12
    <2>2. \A k \in 1 .. Len(msgs_from_ue'[u]) : k \in 1 .. Len(q) \/ k = Len(q) + 1
      BY <1>4, <2>1
    <2>3. Live(fate', b, u)
      BY <1>4, <1>12 DEF Live
    <2>4. QueueInv'
      <3>1. ASSUME NEW v \in UEs
            PROVE /\ \A k \in 1 .. Len(msgs_from_ue'[v]) : Live(fate', msgs_from_ue'[v][k], v)
                  /\ \A j, k \in 1 .. Len(msgs_from_ue'[v]) : j < k => msgs_from_ue'[v][j][2] < msgs_from_ue'[v][k][2]
        <4>1. CASE v = u
          <5>1. \A k \in 1 .. Len(msgs_from_ue'[v]) : Live(fate', msgs_from_ue'[v][k], v)
            BY <1>7, <2>1, <2>2, <2>3, <4>1
          <5>2. ASSUME NEW j \in 1 .. Len(msgs_from_ue'[u]), NEW k \in 1 .. Len(msgs_from_ue'[u]), j < k
                PROVE msgs_from_ue'[u][j][2] < msgs_from_ue'[u][k][2]
            <6>1. j \in 1 .. Len(q)
              BY <1>4, <2>1, <5>2
            <6>2. CASE k = Len(q) + 1
              BY <1>7, <2>1, <6>1, <6>2
            <6>3. CASE k \in 1 .. Len(q)
              <7>1. q[j][2] < q[k][2]
                BY <5>2, <6>1, <6>3 DEF OwnerInv, QueueInv
              <7> QED
                BY <2>1, <6>1, <6>3, <7>1
            <6> QED
              BY <2>2, <6>2, <6>3
          <5> QED
            BY <4>1, <5>1, <5>2
        <4>2. CASE v # u
          BY <1>7, <2>1, <4>2 DEF OwnerInv, QueueInv
        <4> QED
          BY <4>1, <4>2
      <3> QED
        BY <3>1 DEF QueueInv
    <2>5. CollectedInv'
      <3>1. ASSUME NEW v \in UEs, NEW k \in 1 .. Len(subframe_msgs[v]), subframe_msgs[v][k] # NONE
            PROVE /\ Live(fate', subframe_msgs[v][k], v)
                  /\ \A j \in 1 .. k - 1 : subframe_msgs[v][j] # NONE => subframe_msgs[v][j][2] < subframe_msgs[v][k][2]
                  /\ \A n \in 1 .. Len(msgs_from_ue'[v]) : subframe_msgs[v][k][2] < msgs_from_ue'[v][n][2]
        <4>1. /\ \A j \in 1 .. k - 1 : subframe_msgs[v][j] # NONE => subframe_msgs[v][j][2] < subframe_msgs[v][k][2]
              /\ \A n \in 1 .. Len(msgs_from_ue[v]) : subframe_msgs[v][k][2] < msgs_from_ue[v][n][2]
          BY <3>1 DEF OwnerInv, CollectedInv
        <4>2. \A n \in 1 .. Len(msgs_from_ue'[v]) : subframe_msgs[v][k][2] < msgs_from_ue'[v][n][2]
          BY <1>8, <2>1, <2>2, <3>1, <4>1
        <4> QED
          BY <1>8, <3>1, <4>1, <4>2
      <3> QED
        BY <1>1, <3>1 DEF CollectedInv
    <2>6. HandInv'
      <3>1. pc = "requeue" <=> msg # NONE
        BY DEF OwnerInv, HandInv
      <3>2. ASSUME msg # NONE
            PROVE /\ \A k \in 1 .. Len(subframe_msgs[i]) : subframe_msgs[i][k] # NONE => subframe_msgs[i][k][2] < msg[2]
                  /\ \A n \in 1 .. Len(msgs_from_ue'[i]) : msg[2] < msgs_from_ue'[i][n][2]
        <4>1. /\ \A k \in 1 .. Len(subframe_msgs[i]) : subframe_msgs[i][k] # NONE => subframe_msgs[i][k][2] < msg[2]
              /\ \A n \in 1 .. Len(msgs_from_ue[i]) : msg[2] < msgs_from_ue[i][n][2]
          BY <3>2 DEF OwnerInv, HandInv
        <4> QED
          BY <1>9, <2>1, <2>2, <3>2, <4>1
      <3> QED
        BY <1>1, <1>9, <3>1, <3>2 DEF HandInv
    <2>7. HeldInv'
      <3>1. ASSUME NEW c \in Buffers, fate'[c] = "live"
            PROVE Held(c)'
        <4>1. CASE c = b
          <5>1. Len(q) + 1 \in 1 .. Len(msgs_from_ue'[u])
            BY <1>4, <2>1
          <5> QED
            BY <1>4, <2>1, <4>1, <5>1 DEF Held
        <4>2. CASE c # b
          <5>1. Held(c) /\ c[1] \in UEs
            BY <1>2, <1>5, <3>1, <4>2 DEF OwnerInv, HeldInv
          <5>2. CASE \E k \in 1 .. Len(msgs_from_ue[c[1]]) : msgs_from_ue[c[1]][k] = c
            <6>1. PICK k \in 1 .. Len(msgs_from_ue[c[1]]) : msgs_from_ue[c[1]][k] = c
              BY <5>2
            <6>2. k \in 1 .. Len(msgs_from_ue'[c[1]]) /\ msgs_from_ue'[c[1]][k] = c
              BY <1>4, <2>1, <5>1, <6>1
            <6> QED
              BY <6>2 DEF Held
          <5>3. CASE \E k \in 1 .. Len(subframe_msgs[c[1]]) : subframe_msgs[c[1]][k] = c
            BY <1>1, <5>3 DEF Held
          <5>4. CASE msg = c
            BY <1>1, <5>4 DEF Held
          <5> QED
            BY <5>1, <5>2, <5>3, <5>4 DEF Held
        <4> QED
          BY <4>1, <4>2
      <3> QED
        BY <3>1 DEF HeldInv
    <2>8. IdleInv'
      BY <1>1 DEF OwnerInv, IdleInv, Collected, SetOf
    <2> QED
      BY <1>10, <2>4, <2>5, <2>6, <2>7, <2>8 DEF OwnerInv
  <1> QED
    BY <1>2, <1>11, <1>12

LEMMA OwnerGet ==
  ASSUME TypeOK, OwnerInv, LabelInv, GetMessage
  PROVE OwnerInv'
  <1> DEFINE q == msgs_from_ue[i]
             b == q[1]
             s == subframe_msgs[i]
  <1>1. UNCHANGED <<sent, i>>
    BY DEF GetMessage, threadVars
  <1>2. /\ pc = "dequeue" /\ i \in UEs /\ Len(q) >= 1 /\ b \in Buffers /\ Live(fate, b, i)
        /\ \A v \in UEs : v # i => msgs_from_ue'[v] = msgs_from_ue[v]
        /\ Len(msgs_from_ue'[i]) = Len(q) - 1
        /\ \A k \in 1 .. Len(q) - 1 : msgs_from_ue'[i][k] = q[k + 1]
        /\ \A c \in Buffers : c # b => fate'[c] = fate[c]
    BY GetFacts
  <1>3. Len(q) \in Nat /\ Len(s) \in Nat
    BY <1>2 DEF TypeOK
  <1>4. msg = NONE
    BY <1>2 DEF OwnerInv, HandInv
  <1>5. \A n \in 1 .. Len(msgs_from_ue'[i]) : n + 1 \in 1 .. Len(q) /\ n + 1 > 1 /\ msgs_from_ue'[i][n] = q[n + 1]
    BY <1>2, <1>3
  <1>6. \A n \in 1 .. Len(q) : n = 1 \/ (n - 1 \in 1 .. Len(msgs_from_ue'[i]) /\ msgs_from_ue'[i][n - 1] = q[n])
    <2>1. SUFFICES ASSUME NEW n \in 1 .. Len(q), n # 1
                   PROVE n - 1 \in 1 .. Len(msgs_from_ue'[i]) /\ msgs_from_ue'[i][n - 1] = q[n]
      OBVIOUS
    <2>2. n - 1 \in 1 .. Len(q) - 1 /\ (n - 1) + 1 = n
      BY <1>3, <2>1
    <2> QED
      BY <1>2, <2>2
  <1>7. \A n \in 1 .. Len(msgs_from_ue'[i]) : b[2] < msgs_from_ue'[i][n][2] /\ msgs_from_ue'[i][n] # b
    <2>1. SUFFICES ASSUME NEW n \in 1 .. Len(msgs_from_ue'[i])
                   PROVE b[2] < msgs_from_ue'[i][n][2] /\ msgs_from_ue'[i][n] # b
      OBVIOUS
    <2>2. 1 \in 1 .. Len(q)
      BY <1>2, <1>3
    <2>3. q[1][2] < q[n + 1][2]
      BY <1>2, <1>5, <2>1, <2>2 DEF OwnerInv, QueueInv
    <2>4. b[2] \in Int
      BY <1>2 DEF Buffers
    <2> QED
      BY <1>5, <2>1, <2>3, <2>4
  <1>8. \A v \in UEs : \A k \in 1 .. Len(subframe_msgs[v]) : subframe_msgs[v][k] # NONE =>
          /\ subframe_msgs[v][k] \in Buffers /\ subframe_msgs[v][k] # b /\ Live(fate, subframe_msgs[v][k], v)
          /\ v = i => subframe_msgs[v][k][2] < b[2]
    <2>1. SUFFICES ASSUME NEW v \in UEs, NEW k \in 1 .. Len(subframe_msgs[v]), subframe_msgs[v][k] # NONE
                   PROVE /\ subframe_msgs[v][k] \in Buffers /\ subframe_msgs[v][k] # b /\ Live(fate, subframe_msgs[v][k], v)
                         /\ v = i => subframe_msgs[v][k][2] < b[2]
      OBVIOUS
    <2>2. subframe_msgs[v][k] \in Buffers /\ Live(fate, subframe_msgs[v][k], v)
      BY <2>1 DEF TypeOK, OwnerInv, CollectedInv
    <2>3. v = i => subframe_msgs[v][k][2] < b[2]
      <3>1. 1 \in 1 .. Len(q)
        BY <1>2, <1>3
      <3> QED
        BY <2>1, <3>1 DEF OwnerInv, CollectedInv
    <2>4. b[2] \in Int /\ b[1] = i /\ subframe_msgs[v][k][1] = v
      BY <1>2, <2>2 DEF Buffers, Live
    <2> QED
      BY <2>2, <2>3, <2>4
  <1> HIDE DEF b
  <1>9. \A v \in UEs : \A k \in 1 .. Len(msgs_from_ue'[v]) :
          msgs_from_ue'[v][k] \in Buffers /\ msgs_from_ue'[v][k] # b /\ Live(fate', msgs_from_ue'[v][k], v)
    <2>1. SUFFICES ASSUME NEW v \in UEs, NEW k \in 1 .. Len(msgs_from_ue'[v])
                   PROVE msgs_from_ue'[v][k] \in Buffers /\ msgs_from_ue'[v][k] # b /\ Live(fate', msgs_from_ue'[v][k], v)
      OBVIOUS
    <2>2. \A w \in UEs : \A n \in 1 .. Len(msgs_from_ue[w]) :
             msgs_from_ue[w][n] \in Buffers /\ Live(fate, msgs_from_ue[w][n], w)
      BY DEF TypeOK, OwnerInv, QueueInv
    <2>3. CASE v = i
      <3>1. k + 1 \in 1 .. Len(q) /\ msgs_from_ue'[i][k] = q[k + 1] /\ msgs_from_ue'[i][k] # b
        BY <1>5, <1>7, <2>1, <2>3
      <3>2. q[k + 1] \in Buffers /\ Live(fate, q[k + 1], i)
        BY <1>2, <2>2, <3>1
      <3>3. fate'[q[k + 1]] = fate[q[k + 1]]
        BY <1>2, <3>1, <3>2
      <3> QED
        BY <2>3, <3>1, <3>2, <3>3 DEF Live
    <2>4. CASE v # i
      <3>1. msgs_from_ue'[v] = msgs_from_ue[v] /\ msgs_from_ue[v][k] \in Buffers /\ Live(fate, msgs_from_ue[v][k], v)
        BY <1>2, <2>1, <2>2, <2>4
      <3>2. msgs_from_ue[v][k] # b
        BY <1>2, <2>4, <3>1 DEF Live
      <3>3. fate'[msgs_from_ue[v][k]] = fate[msgs_from_ue[v][k]]
        BY <1>2, <3>1, <3>2
      <3> QED
        BY <3>1, <3>2, <3>3 DEF Live
    <2> QED
      BY <2>3, <2>4
  <1>10. QueueInv'
    <2>1. ASSUME NEW v \in UEs, NEW j \in 1 .. Len(msgs_from_ue'[v]), NEW k \in 1 .. Len(msgs_from_ue'[v]), j < k
          PROVE msgs_from_ue'[v][j][2] < msgs_from_ue'[v][k][2]
      <3>1. CASE v = i
        <4>1. j + 1 < k + 1
          BY <2>1
        <4>2. q[j + 1][2] < q[k + 1][2]
          BY <1>2, <1>5, <3>1, <4>1 DEF OwnerInv, QueueInv
        <4> QED
          BY <1>5, <3>1, <4>2
      <3>2. CASE v # i
        BY <1>2, <2>1, <3>2 DEF OwnerInv, QueueInv
      <3> QED
        BY <3>1, <3>2
    <2> QED
      BY <1>9, <2>1 DEF QueueInv
  <1>11. \A c \in Buffers : fate'[c] = fate[c] \/ c = b
    BY <1>2
  \* what stays in the collection is older than what stays in the queue
  <1>12. ASSUME NEW v \in UEs, NEW k \in 1 .. Len(subframe_msgs[v]), subframe_msgs[v][k] # NONE
         PROVE /\ Live(fate', subframe_msgs[v][k], v)
               /\ \A j \in 1 .. k - 1 : subframe_msgs[v][j] # NONE => subframe_msgs[v][j][2] < subframe_msgs[v][k][2]
               /\ \A n \in 1 .. Len(msgs_from_ue'[v]) : subframe_msgs[v][k][2] < msgs_from_ue'[v][n][2]
    <2>1. /\ \A j \in 1 .. k - 1 : subframe_msgs[v][j] # NONE => subframe_msgs[v][j][2] < subframe_msgs[v][k][2]
          /\ \A n \in 1 .. Len(msgs_from_ue[v]) : subframe_msgs[v][k][2] < msgs_from_ue[v][n][2]
      BY <1>12 DEF OwnerInv, CollectedInv
    <2>2. \A n \in 1 .. Len(msgs_from_ue'[v]) : subframe_msgs[v][k][2] < msgs_from_ue'[v][n][2]
      BY <1>2, <1>5, <2>1
    <2>3. Live(fate', subframe_msgs[v][k], v)
      BY <1>2, <1>8, <1>12 DEF Live
    <2> QED
      BY <2>1, <2>2, <2>3
  \* a live buffer other than b keeps its place
  <1>13. ASSUME NEW c \in Buffers, c # b, fate[c] = "live"
         PROVE \/ \E k \in 1 .. Len(msgs_from_ue'[c[1]]) : msgs_from_ue'[c[1]][k] = c
               \/ \E k \in 1 .. Len(subframe_msgs[c[1]]) : subframe_msgs[c[1]][k] = c
    <2>1. Held(c) /\ c[1] \in UEs /\ c # NONE
      BY <1>13, NoneAssumption DEF OwnerInv, HeldInv, Buffers
    <2>2. CASE \E k \in 1 .. Len(msgs_from_ue[c[1]]) : msgs_from_ue[c[1]][k] = c
      <3>1. PICK k \in 1 .. Len(msgs_from_ue[c[1]]) : msgs_from_ue[c[1]][k] = c
        BY <2>2
      <3>2. CASE c[1] = i
        <4>1. k # 1
          BY <1>13, <3>1, <3>2 DEF b
        <4>2. k - 1 \in 1 .. Len(msgs_from_ue'[i]) /\ msgs_from_ue'[i][k - 1] = c
          BY <1>6, <3>1, <3>2, <4>1
        <4> QED
          BY <3>2, <4>2
      <3>3. CASE c[1] # i
        BY <1>2, <2>1, <3>1, <3>3
      <3> QED
        BY <3>2, <3>3
    <2> QED
      BY <1>4, <2>1, <2>2 DEF Held
  <1>14. SentInv'
    <2>1. fate[b] = "live" /\ \A c \in Buffers : fate[c] = "unsent" <=> c[2] > Len(sent[c[1]])
      BY <1>2 DEF OwnerInv, SentInv, Live
    <2>2. fate'[b] \in {"live", "invalid", "stale", "too_many_from_ue"}
      <3>1. fate' = fate \/ fate'[b] \in {"invalid", "stale", "too_many_from_ue"}
        BY GetFacts DEF b
      <3> QED
        BY <2>1, <3>1
    <2>3. \A c \in Buffers : fate'[c] = "unsent" <=> fate[c] = "unsent"
      BY <1>11, <2>1, <2>2
    <2> QED
      BY <1>1, <2>1, <2>3 DEF SentInv
  <1>15. CASE fate'[b] \in {"invalid", "stale", "too_many_from_ue"} /\ UNCHANGED <<pc, msg, subframe_msgs>>
    <2>1. CollectedInv'
      BY <1>12, <1>15 DEF CollectedInv
    <2>2. HandInv'
      BY <1>2, <1>4, <1>15 DEF HandInv
    <2>3. HeldInv'
      <3>1. ASSUME NEW c \in Buffers, fate'[c] = "live"
            PROVE Held(c)'
        <4>1. c # b /\ fate[c] = "live"
          BY <1>11, <1>15, <3>1
        <4> QED
          BY <1>13, <1>15, <4>1 DEF Held
      <3> QED
        BY <3>1 DEF HeldInv
    <2>4. IdleInv'
      BY <1>2, <1>15 DEF IdleInv
    <2> QED
      BY <1>10, <1>14, <2>1, <2>2, <2>3, <2>4 DEF OwnerInv
  <1>16. CASE pc' = "requeue" /\ msg' = b /\ UNCHANGED <<fate, subframe_msgs>>
    <2>1. CollectedInv'
      BY <1>12, <1>16 DEF CollectedInv
    <2>2. HandInv'
      <3>1. b # NONE
        BY <1>2, NoneAssumption
      <3> QED
        BY <1>1, <1>2, <1>7, <1>8, <1>16, <3>1 DEF HandInv
    <2>3. HeldInv'
      <3>1. ASSUME NEW c \in Buffers, fate[c] = "live"
            PROVE Held(c)'
        <4>1. CASE c = b
          BY <1>16, <4>1 DEF Held
        <4>2. CASE c # b
          BY <1>13, <1>16, <3>1, <4>2 DEF Held
        <4> QED
          BY <4>1, <4>2
      <3> QED
        BY <1>16, <3>1 DEF HeldInv
    <2>4. IdleInv'
      BY <1>16 DEF IdleInv
    <2> QED
      BY <1>10, <1>14, <2>1, <2>2, <2>3, <2>4 DEF OwnerInv
  <1>17. CASE /\ UNCHANGED <<pc, msg, fate>>
              /\ \A v \in UEs : v # i => subframe_msgs'[v] = subframe_msgs[v]
              /\ Len(subframe_msgs'[i]) = Len(s) + 1
              /\ \A k \in 1 .. Len(s) : subframe_msgs'[i][k] = s[k]
              /\ subframe_msgs'[i][Len(s) + 1] = b
    <2>1. \A k \in 1 .. Len(subframe_msgs'[i]) : k \in 1 .. Len(s) \/ k = Len(s) + 1
      BY <1>3, <1>17
    <2>2. CollectedInv'
      <3>1. ASSUME NEW v \in UEs, NEW k \in 1 .. Len(subframe_msgs'[v]), subframe_msgs'[v][k] # NONE
            PROVE /\ Live(fate', subframe_msgs'[v][k], v)
                  /\ \A j \in 1 .. k - 1 : subframe_msgs'[v][j] # NONE => subframe_msgs'[v][j][2] < subframe_msgs'[v][k][2]
                  /\ \A n \in 1 .. Len(msgs_from_ue'[v]) : subframe_msgs'[v][k][2] < msgs_from_ue'[v][n][2]
        <4>1. CASE v # i
          BY <1>12, <1>17, <3>1, <4>1
        <4>2. CASE v = i /\ k \in 1 .. Len(s)
          <5>1. \A j \in 1 .. k - 1 : j \in 1 .. Len(s) /\ subframe_msgs'[i][j] = s[j]
            BY <1>3, <1>17, <4>2
          <5>2. subframe_msgs'[i][k] = s[k] /\ s[k] # NONE
            BY <1>17, <3>1, <4>2
          <5> QED
            BY <1>12, <4>2, <5>1, <5>2
        <4>3. CASE v = i /\ k = Len(s) + 1
          <5>1. subframe_msgs'[i][k] = b
            BY <1>17, <4>3
          <5>2. \A j \in 1 .. k - 1 : j \in 1 .. Len(s) /\ subframe_msgs'[i][j] = s[j]
            BY <1>3, <1>17, <4>3
          <5>3. Live(fate', b, i)
            BY <1>2, <1>17
          <5>4. \A j \in 1 .. k - 1 : subframe_msgs'[i][j] # NONE => subframe_msgs'[i][j][2] < b[2]
            BY <1>2, <1>8, <5>2
          <5> QED
            BY <1>7, <4>3, <5>1, <5>3, <5>4
        <4> QED
          BY <2>1, <4>1, <4>2, <4>3
      <3> QED
        BY <3>1 DEF CollectedInv
    <2>3. HandInv'
      BY <1>2, <1>4, <1>17 DEF HandInv
    <2>4. HeldInv'
      <3>1. ASSUME NEW c \in Buffers, fate[c] = "live"
            PROVE Held(c)'
        <4>1. CASE c = b
          <5>1. c[1] = i /\ Len(s) + 1 \in 1 .. Len(subframe_msgs'[i])
            BY <1>2, <1>3, <1>17, <4>1 DEF Live
          <5> QED
            BY <1>17, <4>1, <5>1 DEF Held
        <4>2. CASE c # b
          <5>1. c[1] \in UEs
            BY DEF Buffers
          <5>2. ASSUME NEW k \in 1 .. Len(subframe_msgs[c[1]]), subframe_msgs[c[1]][k] = c
                PROVE k \in 1 .. Len(subframe_msgs'[c[1]]) /\ subframe_msgs'[c[1]][k] = c
            BY <1>3, <1>17, <5>1, <5>2
          <5> QED
            BY <1>13, <3>1, <4>2, <5>2 DEF Held
        <4> QED
          BY <4>1, <4>2
      <3> QED
        BY <1>17, <3>1 DEF HeldInv
    <2>5. IdleInv'
      BY <1>2, <1>17 DEF IdleInv
    <2> QED
      BY <1>10, <1>14, <2>2, <2>3, <2>4, <2>5 DEF OwnerInv
  <1> QED
    BY <1>15, <1>16, <1>17, GetFacts DEF b

LEMMA OwnerRequeue ==
  ASSUME TypeOK, OwnerInv, RequeueMessage
  PROVE OwnerInv'
  <1> DEFINE q == msgs_from_ue[i]
  <1>1. UNCHANGED <<sent, subframe_msgs>> /\ pc' \in {"dequeue", "aggregate"} /\ msg' = NONE
    BY NextUeFacts DEF RequeueMessage, Break, threadVars
  <1>2. /\ i \in UEs /\ msg \in Buffers /\ Live(fate, msg, i) /\ msg # NONE
        /\ \A c \in Buffers : c # msg => fate'[c] = fate[c]
    BY RequeueFacts, NoneAssumption
  <1>3. Len(q) \in Nat
    BY <1>2 DEF TypeOK
  <1>4. /\ \A k \in 1 .. Len(subframe_msgs[i]) : subframe_msgs[i][k] # NONE => subframe_msgs[i][k][2] < msg[2]
        /\ \A n \in 1 .. Len(q) : msg[2] < q[n][2]
    BY <1>2 DEF OwnerInv, HandInv
  <1>5. HandInv' /\ IdleInv'
    BY <1>1 DEF HandInv, IdleInv
  <1>6. msg[2] \in Int /\ msg[1] = i
    BY <1>2 DEF Buffers, Live
  <1>7. \A c \in Buffers : c[1] \in UEs
    BY DEF Buffers
  <1>8. ASSUME NEW c \in Buffers, fate[c] = "live", c # msg
        PROVE \/ \E k \in 1 .. Len(msgs_from_ue[c[1]]) : msgs_from_ue[c[1]][k] = c
              \/ \E k \in 1 .. Len(subframe_msgs[c[1]]) : subframe_msgs[c[1]][k] = c
    BY <1>8 DEF OwnerInv, HeldInv, Held
  <1>9. CASE fate'[msg] = "requeue_failed" /\ UNCHANGED msgs_from_ue
    <2>1. \A v \in UEs : \A k \in 1 .. Len(msgs_from_ue[v]) : Live(fate', msgs_from_ue[v][k], v)
      <3>1. SUFFICES ASSUME NEW v \in UEs, NEW k \in 1 .. Len(msgs_from_ue[v])
                     PROVE Live(fate', msgs_from_ue[v][k], v)
        OBVIOUS
      <3>2. msgs_from_ue[v][k] \in Buffers /\ Live(fate, msgs_from_ue[v][k], v)
        BY DEF TypeOK, OwnerInv, QueueInv
      <3>3. msgs_from_ue[v][k] # msg
        BY <1>4, <1>6, <3>2 DEF Live
      <3> QED
        BY <1>2, <3>2, <3>3 DEF Live
    <2>2. QueueInv'
      BY <1>9, <2>1 DEF OwnerInv, QueueInv
    <2>3. \A v \in UEs : \A k \in 1 .. Len(subframe_msgs[v]) : subframe_msgs[v][k] # NONE => Live(fate', subframe_msgs[v][k], v)
      <3>1. SUFFICES ASSUME NEW v \in UEs, NEW k \in 1 .. Len(subframe_msgs[v]), subframe_msgs[v][k] # NONE
                     PROVE Live(fate', subframe_msgs[v][k], v)
        OBVIOUS
      <3>2. subframe_msgs[v][k] \in Buffers /\ Live(fate, subframe_msgs[v][k], v)
        BY <3>1 DEF TypeOK, OwnerInv, CollectedInv
      <3>3. subframe_msgs[v][k] # msg
        BY <1>4, <1>6, <3>1, <3>2 DEF Live
      <3> QED
        BY <1>2, <3>2, <3>3 DEF Live
    <2>4. CollectedInv'
      BY <1>1, <1>9, <2>3 DEF OwnerInv, CollectedInv
    <2>5. HeldInv'
      <3>1. ASSUME NEW c \in Buffers, fate'[c] = "live"
            PROVE Held(c)'
        <4>1. c # msg /\ fate[c] = "live"
          BY <1>2, <1>9, <3>1
        <4> QED
          BY <1>1, <1>8, <1>9, <4>1 DEF Held
      <3> QED
        BY <3>1 DEF HeldInv
    <2>6. SentInv'
      <3>1. fate[msg] # "unsent" /\ fate'[msg] # "unsent"
        BY <1>2, <1>9 DEF Live
      <3>2. \A c \in Buffers : fate'[c] = "unsent" <=> fate[c] = "unsent"
        BY <1>2, <3>1
      <3> QED
        BY <1>1, <3>2 DEF OwnerInv, SentInv
    <2> QED
      BY <1>5, <2>2, <2>4, <2>5, <2>6 DEF OwnerInv
  <1>10. CASE /\ UNCHANGED fate
              /\ \A v \in UEs : v # i => msgs_from_ue'[v] = msgs_from_ue[v]
              /\ Len(msgs_from_ue'[i]) = Len(q) + 1
              /\ msgs_from_ue'[i][1] = msg
              /\ \A k \in 1 .. Len(q) : msgs_from_ue'[i][k + 1] = q[k]
    <2>1. \A n \in 1 .. Len(msgs_from_ue'[i]) :
             \/ n = 1 /\ msgs_from_ue'[i][n] = msg
             \/ n > 1 /\ n - 1 \in 1 .. Len(q) /\ msgs_from_ue'[i][n] = q[n - 1]
      <3>1. SUFFICES ASSUME NEW n \in 1 .. Len(msgs_from_ue'[i]), n # 1
                     PROVE n > 1 /\ n - 1 \in 1 .. Len(q) /\ msgs_from_ue'[i][n] = q[n - 1]
        BY <1>10
      <3>2. n > 1 /\ n - 1 \in 1 .. Len(q) /\ (n - 1) + 1 = n
        BY <1>3, <1>10, <3>1
      <3>3. msgs_from_ue'[i][(n - 1) + 1] = q[n - 1]
        BY <1>10, <3>2
      <3> QED
        BY <3>2, <3>3
    <2>2. QueueInv'
      <3>1. ASSUME NEW v \in UEs
            PROVE /\ \A k \in 1 .. Len(msgs_from_ue'[v]) : Live(fate, msgs_from_ue'[v][k], v)
                  /\ \A j, k \in 1 .. Len(msgs_from_ue'[v]) : j < k => msgs_from_ue'[v][j][2] < msgs_from_ue'[v][k][2]
        <4>1. CASE v = i
          <5>1. \A k \in 1 .. Len(q) : Live(fate, q[k], i)
            BY <1>2 DEF OwnerInv, QueueInv
          <5>2. \A k \in 1 .. Len(msgs_from_ue'[v]) : Live(fate, msgs_from_ue'[v][k], v)
            BY <1>2, <2>1, <4>1, <5>1
          <5>3. ASSUME NEW j \in 1 .. Len(msgs_from_ue'[i]), NEW k \in 1 .. Len(msgs_from_ue'[i]), j < k
                PROVE msgs_from_ue'[i][j][2] < msgs_from_ue'[i][k][2]
            <6>1. k # 1 /\ k - 1 \in 1 .. Len(q) /\ msgs_from_ue'[i][k] = q[k - 1]
              BY <2>1, <5>3
            <6>2. CASE j = 1
              BY <1>4, <1>10, <6>1, <6>2
            <6>3. CASE j # 1
              <7>1. j - 1 \in 1 .. Len(q) /\ msgs_from_ue'[i][j] = q[j - 1] /\ j - 1 < k - 1
                BY <2>1, <5>3, <6>3
              <7>2. q[j - 1][2] < q[k - 1][2]
                BY <1>2, <6>1, <7>1 DEF OwnerInv, QueueInv
              <7> QED
                BY <6>1, <7>1, <7>2
            <6> QED
              BY <6>2, <6>3
          <5> QED
            BY <4>1, <5>2, <5>3
        <4>2. CASE v # i
          BY <1>10, <4>2 DEF OwnerInv, QueueInv
        <4> QED
          BY <4>1, <4>2
      <3> QED
        BY <1>10, <3>1 DEF QueueInv
    <2>3. CollectedInv'
      <3>1. ASSUME NEW v \in UEs, NEW k \in 1 .. Len(subframe_msgs[v]), subframe_msgs[v][k] # NONE
            PROVE /\ Live(fate, subframe_msgs[v][k], v)
                  /\ \A j \in 1 .. k - 1 : subframe_msgs[v][j] # NONE => subframe_msgs[v][j][2] < subframe_msgs[v][k][2]
                  /\ \A n \in 1 .. Len(msgs_from_ue'[v]) : subframe_msgs[v][k][2] < msgs_from_ue'[v][n][2]
        <4>1. /\ Live(fate, subframe_msgs[v][k], v)
              /\ \A j \in 1 .. k - 1 : subframe_msgs[v][j] # NONE => subframe_msgs[v][j][2] < subframe_msgs[v][k][2]
              /\ \A n \in 1 .. Len(msgs_from_ue[v]) : subframe_msgs[v][k][2] < msgs_from_ue[v][n][2]
          BY <3>1 DEF OwnerInv, CollectedInv
        <4>2. CASE v = i
          <5>1. \A n \in 1 .. Len(msgs_from_ue'[i]) : subframe_msgs[i][k][2] < msgs_from_ue'[i][n][2]
            BY <1>4, <2>1, <3>1, <4>1, <4>2
          <5> QED
            BY <4>1, <4>2, <5>1
        <4>3. CASE v # i
          BY <1>10, <4>1, <4>3
        <4> QED
          BY <4>2, <4>3
      <3> QED
        BY <1>1, <1>10, <3>1 DEF CollectedInv
    <2>4. HeldInv'
      <3>1. ASSUME NEW c \in Buffers, fate[c] = "live"
            PROVE Held(c)'
        <4>1. CASE c = msg
          <5>1. 1 \in 1 .. Len(msgs_from_ue'[i]) /\ c[1] = i
            BY <1>3, <1>6, <1>10, <4>1
          <5> QED
            BY <1>10, <4>1, <5>1 DEF Held
        <4>2. CASE c # msg
          <5>1. CASE \E k \in 1 .. Len(msgs_from_ue[c[1]]) : msgs_from_ue[c[1]][k] = c
            <6>1. PICK k \in 1 .. Len(msgs_from_ue[c[1]]) : msgs_from_ue[c[1]][k] = c
              BY <5>1
            <6>2. CASE c[1] = i
              <7>1. k + 1 \in 1 .. Len(msgs_from_ue'[i]) /\ msgs_from_ue'[i][k + 1] = c
                BY <1>3, <1>10, <6>1, <6>2
              <7> QED
                BY <6>2, <7>1 DEF Held
            <6>3. CASE c[1] # i
              BY <1>7, <1>10, <6>1, <6>3 DEF Held
            <6> QED
              BY <6>2, <6>3
          <5>2. CASE \E k \in 1 .. Len(subframe_msgs[c[1]]) : subframe_msgs[c[1]][k] = c
            BY <1>1, <5>2 DEF Held
          <5> QED
            BY <1>8, <3>1, <4>2, <5>1, <5>2
        <4> QED
          BY <4>1, <4>2
      <3> QED
        BY <1>10, <3>1 DEF HeldInv
    <2>5. SentInv'
      BY <1>1, <1>10 DEF OwnerInv, SentInv
    <2> QED
      BY <1>5, <2>2, <2>3, <2>4, <2>5 DEF OwnerInv
  <1> QED
    BY <1>9, <1>10, RequeueFacts

LEMMA OwnerTakeOut ==
  ASSUME TypeOK, OwnerInv, LabelInv, AggregateStep
  PROVE OwnerInv'
  <1>1. UNCHANGED <<sent, msgs_from_ue, msg, i>>
    BY DEF AggregateStep, threadVars
  <1>2. pc = "aggregate" /\ SetOf(All) = {b \in Collected : M(b).id = FoundId}
    BY TakeOutFacts
  <1>3. msg = NONE
    BY <1>2 DEF OwnerInv, HandInv
  <1>4. CASE pc' = "aborted" /\ UNCHANGED <<fate, subframe_msgs>>
    BY <1>1, <1>2, <1>4, OwnerSame
  <1>5. CASE /\ pc' = pc
             /\ \A b \in Buffers : IF b \in SetOf(All) THEN fate'[b] \in Handled ELSE fate'[b] = fate[b]
             /\ \A u \in UEs :
                  /\ Len(subframe_msgs'[u]) = Len(subframe_msgs[u])
                  /\ \A k \in 1 .. Len(subframe_msgs[u]) :
                       subframe_msgs'[u][k] = IF subframe_msgs[u][k] \in SetOf(All) THEN NONE ELSE subframe_msgs[u][k]
    <2>1. \A b \in SetOf(All) : b \in Buffers /\ fate[b] = "live" /\ b # NONE
      BY <1>2, CollectedAreLive, NoneAssumption DEF OwnerInv
    <2>2. "unsent" \notin Handled /\ "live" \notin Handled
      BY DEF Handled
    <2>3. SentInv'
      <3>1. \A c \in Buffers : fate'[c] = "unsent" <=> fate[c] = "unsent"
        BY <1>5, <2>1, <2>2
      <3> QED
        BY <1>1, <3>1 DEF OwnerInv, SentInv
    <2>4. ASSUME NEW u \in UEs, NEW k \in 1 .. Len(subframe_msgs[u]), subframe_msgs'[u][k] # NONE
          PROVE /\ subframe_msgs'[u][k] = subframe_msgs[u][k] /\ subframe_msgs[u][k] # NONE
                /\ subframe_msgs[u][k] \in Buffers /\ subframe_msgs[u][k] \notin SetOf(All)
      BY <1>5, <2>4 DEF TypeOK
    <2>5. CollectedInv'
      <3>1. ASSUME NEW u \in UEs, NEW k \in 1 .. Len(subframe_msgs[u]), subframe_msgs'[u][k] # NONE
            PROVE /\ Live(fate', subframe_msgs'[u][k], u)
                  /\ \A j \in 1 .. k - 1 : subframe_msgs'[u][j] # NONE => subframe_msgs'[u][j][2] < subframe_msgs'[u][k][2]
                  /\ \A n \in 1 .. Len(msgs_from_ue[u]) : subframe_msgs'[u][k][2] < msgs_from_ue[u][n][2]
        <4>1. /\ subframe_msgs'[u][k] = subframe_msgs[u][k] /\ subframe_msgs[u][k] # NONE
              /\ subframe_msgs[u][k] \in Buffers /\ subframe_msgs[u][k] \notin SetOf(All)
          BY <2>4, <3>1
        <4>2. /\ Live(fate, subframe_msgs[u][k], u)
              /\ \A j \in 1 .. k - 1 : subframe_msgs[u][j] # NONE => subframe_msgs[u][j][2] < subframe_msgs[u][k][2]
              /\ \A n \in 1 .. Len(msgs_from_ue[u]) : subframe_msgs[u][k][2] < msgs_from_ue[u][n][2]
          BY <4>1 DEF OwnerInv, CollectedInv
        <4>3. Live(fate', subframe_msgs[u][k], u)
          BY <1>5, <4>1, <4>2 DEF Live
        <4>4. \A j \in 1 .. k - 1 : j \in 1 .. Len(subframe_msgs[u])
          BY DEF TypeOK
        <4>5. \A j \in 1 .. k - 1 : subframe_msgs'[u][j] # NONE => subframe_msgs'[u][j][2] < subframe_msgs[u][k][2]
          BY <2>4, <4>2, <4>4
        <4> QED
          BY <4>1, <4>2, <4>3, <4>5
      <3> QED
        BY <1>1, <1>5, <3>1 DEF CollectedInv
    <2>6. \A u \in UEs : \A k \in 1 .. Len(msgs_from_ue[u]) : Live(fate', msgs_from_ue[u][k], u)
      <3>1. SUFFICES ASSUME NEW u \in UEs, NEW k \in 1 .. Len(msgs_from_ue[u])
                     PROVE Live(fate', msgs_from_ue[u][k], u)
        OBVIOUS
      <3> DEFINE b == msgs_from_ue[u][k]
      <3>2. b \in Buffers /\ Live(fate, b, u)
        BY DEF TypeOK, OwnerInv, QueueInv
      <3>3. b \notin SetOf(All)
        <4>1. SUFFICES ASSUME b \in Collected PROVE FALSE
          BY <1>2
        <4>2. PICK v \in UEs : \E n \in 1 .. Len(subframe_msgs[v]) : b = subframe_msgs[v][n] /\ b # NONE
          BY <4>1, CollectedFacts
        <4>3. Live(fate, b, v)
          BY <4>2 DEF OwnerInv, CollectedInv
        <4>4. v = u
          BY <3>2, <4>3 DEF Live
        <4>5. b[2] < b[2]
          BY <4>2, <4>4 DEF OwnerInv, CollectedInv
        <4>6. b[2] \in Int
          BY <3>2 DEF Buffers
        <4> QED
          BY <4>5, <4>6
      <3> QED
        BY <1>5, <3>2, <3>3 DEF Live
    <2>7. QueueInv'
      BY <1>1, <2>6 DEF OwnerInv, QueueInv
    <2>8. HandInv' /\ IdleInv'
      BY <1>1, <1>2, <1>3, <1>5 DEF HandInv, IdleInv
    <2>9. HeldInv'
      <3>1. ASSUME NEW c \in Buffers, fate'[c] = "live"
            PROVE Held(c)'
        <4>1. c \notin SetOf(All) /\ fate[c] = "live" /\ c # NONE /\ c[1] \in UEs
          BY <1>5, <2>2, <3>1, NoneAssumption DEF Buffers
        <4>2. Held(c)
          BY <4>1 DEF OwnerInv, HeldInv
        <4>3. CASE \E k \in 1 .. Len(msgs_from_ue[c[1]]) : msgs_from_ue[c[1]][k] = c
          BY <1>1, <4>3 DEF Held
        <4>4. CASE \E k \in 1 .. Len(subframe_msgs[c[1]]) : subframe_msgs[c[1]][k] = c
          BY <1>5, <4>1, <4>4 DEF Held
        <4> QED
          BY <1>3, <4>1, <4>2, <4>3, <4>4 DEF Held
      <3> QED
        BY <3>1 DEF HeldInv
    <2> QED
      BY <2>3, <2>5, <2>7, <2>8, <2>9 DEF OwnerInv
  <1> QED
    BY <1>4, <1>5, TakeOutFacts

(* The collection is empty when it is thrown away. *)
LEMMA OwnerReset ==
  ASSUME TypeOK, OwnerInv, Collected = {}, pc # "requeue", pc' # "requeue",
         UNCHANGED <<sent, fate, msgs_from_ue, msg>>, \A u \in UEs : subframe_msgs'[u] = <<>>
  PROVE OwnerInv'
  <1>1. Len(<<>>) = 0 /\ 1 .. 0 = {}
    OBVIOUS
  <1>2. \A u \in UEs : 1 .. Len(subframe_msgs'[u]) = {}
    BY <1>1
  <1>3. msg = NONE
    BY DEF OwnerInv, HandInv
  <1>4. SentInv' /\ QueueInv'
    BY DEF OwnerInv, SentInv, QueueInv, Live
  <1>5. CollectedInv'
    BY <1>2 DEF CollectedInv
  <1>6. HandInv'
    BY <1>3 DEF HandInv
  <1>7. Collected' = {}
    BY <1>2, CollectedNext
  <1>8. HeldInv'
    <2>1. ASSUME NEW c \in Buffers, fate[c] = "live"
          PROVE Held(c)'
      <3>1. Held(c) /\ c # NONE /\ c[1] \in UEs /\ c \notin Collected
        BY <2>1, NoneAssumption DEF OwnerInv, HeldInv, Buffers
      <3>2. \E k \in 1 .. Len(msgs_from_ue[c[1]]) : msgs_from_ue[c[1]][k] = c
        BY <1>3, <3>1, CollectedFacts DEF Held
      <3> QED
        BY <3>2 DEF Held
    <2> QED
      BY <2>1 DEF HeldInv
  <1> QED
    BY <1>4, <1>5, <1>6, <1>7, <1>8 DEF OwnerInv, IdleInv

LEMMA OwnerStep ==
  ASSUME TypeOK, OwnerInv, LabelInv, [UplinkNext]_vars
  PROVE OwnerInv'
  <1>1. CASE start_request
    BY <1>1, OwnerSame DEF start_request, threadVars, taskVars
  <1>2. CASE \E u \in UEs : receive_message_from_ue(u)
    BY <1>2, OwnerReceive
  <1>3. CASE \E u \in UEs : ReceiveThreadEnds(u)
    BY <1>3, OwnerSame DEF ReceiveThreadEnds, threadVars, taskVars
  <1>4. CASE StartSubframe
    <2>1. /\ pc = "tick" /\ pc' = "dequeue" /\ UNCHANGED <<sent, fate, msgs_from_ue, msg>>
          /\ \A u \in UEs : subframe_msgs'[u] = <<>>
      BY <1>4 DEF StartSubframe, threadVars
    <2>2. Collected = {}
      BY <2>1 DEF OwnerInv, IdleInv
    <2> QED
      BY <2>1, <2>2, OwnerReset
  <1>5. CASE EmptyQueue
    <2>1. pc = "dequeue" /\ pc' \in {"dequeue", "aggregate"} /\ UNCHANGED <<sent, fate, msgs_from_ue, subframe_msgs, msg>>
      BY <1>5, NextUeFacts DEF EmptyQueue, threadVars
    <2> QED
      BY <2>1, OwnerSame
  <1>6. CASE GetMessage
    BY <1>6, OwnerGet
  <1>7. CASE RequeueMessage
    BY <1>7, OwnerRequeue
  <1>8. CASE AggregateStep
    BY <1>8, OwnerTakeOut
  <1>9. CASE EndSubframe
    <2>1. /\ pc = "aggregate" /\ pc' = "tick" /\ UNCHANGED <<sent, fate, msgs_from_ue, msg>>
          /\ Collected = {} /\ \A u \in UEs : subframe_msgs'[u] = <<>>
      BY <1>9 DEF EndSubframe, threadVars
    <2> QED
      BY <2>1, OwnerReset
  <1>10. CASE UNCHANGED vars
    BY <1>10, OwnerSame DEF vars, threadVars, taskVars
  <1> QED
    BY <1>1, <1>2, <1>3, <1>4, <1>5, <1>6, <1>7, <1>8, <1>9, <1>10 DEF UplinkNext

-----------------------------------------------------------------------------
(* Every step keeps the labels.                                             *)

(* A message that has been sent is not changed any more. *)
LEMMA MessagesStay ==
  ASSUME TypeOK, OwnerInv, TypeOK', OwnerInv', [UplinkNext]_vars
  PROVE /\ \A u \in UEs : Len(sent[u]) <= Len(sent'[u])
        /\ \A c \in Buffers : fate[c] # "unsent" =>
             sent'[c[1]][c[2]] = sent[c[1]][c[2]] /\ fate'[c] # "unsent"
  <1>1. CASE \E u \in UEs : receive_message_from_ue(u)
    <2>1. PICK u \in UEs : receive_message_from_ue(u)
      BY <1>1
    <2>2. /\ Len(sent'[u]) = Len(sent[u]) + 1 /\ \A v \in UEs : v # u => sent'[v] = sent[v]
          /\ \A c \in Buffers : fate[c] # "unsent" => M(c)' = M(c)
      BY <2>1, ReceiveFacts DEF OwnerInv
    <2>3. \A v \in UEs : Len(sent[v]) \in Nat
      BY DEF TypeOK
    <2>4. \A v \in UEs : Len(sent[v]) <= Len(sent'[v])
      BY <2>2, <2>3
    <2>5. \A c \in Buffers : fate[c] # "unsent" => sent'[c[1]][c[2]] = sent[c[1]][c[2]]
      BY <2>2 DEF M
    <2>6. ASSUME NEW c \in Buffers, fate[c] # "unsent"
          PROVE fate'[c] # "unsent"
      <3>1. c[1] \in UEs /\ c[2] \in 1 .. Len(sent[c[1]])
        BY <2>6, MessageType DEF OwnerInv
      <3>2. Len(sent[c[1]]) <= Len(sent'[c[1]]) /\ Len(sent[c[1]]) \in Nat /\ Len(sent'[c[1]]) \in Nat
        <4>1. sent' \in [UEs -> Seq(Messages)]
          BY DEF TypeOK
        <4>2. Len(sent'[c[1]]) \in Nat
          BY <3>1, <4>1
        <4> QED
          BY <2>3, <2>4, <3>1, <4>2
      <3>3. ~(c[2] > Len(sent'[c[1]]))
        BY <3>1, <3>2
      <3> QED
        BY <3>3 DEF OwnerInv, SentInv
    <2> QED
      BY <2>4, <2>5, <2>6
  <1>2. CASE sent' = sent
    <2>1. \A v \in UEs : Len(sent[v]) \in Nat
      BY DEF TypeOK
    <2>2. \A c \in Buffers : fate'[c] = "unsent" <=> fate[c] = "unsent"
      BY <1>2 DEF OwnerInv, SentInv
    <2> QED
      BY <1>2, <2>1, <2>2
  <1>3. (\E u \in UEs : receive_message_from_ue(u)) \/ sent' = sent
    BY DEF UplinkNext, start_request, ReceiveThreadEnds, StartSubframe, EmptyQueue, GetMessage, RequeueMessage,
       AggregateStep, EndSubframe, vars, threadVars
  <1> QED
    BY <1>1, <1>2, <1>3

LEMMA LabelInit == Init => LabelInv
  BY DEF Init, LabelInv, CollectedLabels, SentLabels, Collected, SetOf

(* Where nothing new is sent the labels of the indication stay right. *)
LEMMA SameIndication ==
  ASSUME TypeOK, OwnerInv, TypeOK', OwnerInv', SentLabels, [UplinkNext]_vars, indication' = indication
  PROVE SentLabels'
  <1>1. ASSUME NEW k \in 1 .. Len(indication)
        PROVE fate'[indication[k].msg] # "unsent" /\ RightLabel(indication[k])'
    <2> DEFINE e == indication[k]
               c == e.msg
    <2>1. e \in [msg : Buffers, sfn_sf : 0 .. PERIOD - 1]
      <3> DEFINE T == [msg : Buffers, sfn_sf : 0 .. PERIOD - 1]
      <3>1. indication \in Seq(T)
        BY DEF TypeOK
      <3> HIDE DEF T
      <3>2. indication[k] \in T
        BY <3>1
      <3> QED
        BY <3>2 DEF T
    <2>2. c \in Buffers /\ fate[c] # "unsent" /\ RightLabel(e)
      BY <2>1 DEF SentLabels
    <2>3. sent'[c[1]][c[2]] = sent[c[1]][c[2]] /\ fate'[c] # "unsent"
      BY <2>2, MessagesStay
    <2> QED
      BY <2>2, <2>3 DEF RightLabel, M
  <1> QED
    BY <1>1 DEF SentLabels

(* Where nothing new is collected under another label neither do theirs. *)
LEMMA SameCollection ==
  ASSUME TypeOK, OwnerInv, TypeOK', OwnerInv', CollectedLabels, [UplinkNext]_vars,
         Collected' \subseteq Collected, master_sfn_sf' = master_sfn_sf \/ Collected = {}
  PROVE CollectedLabels'
  <1>1. ASSUME NEW c \in Collected'
        PROVE M(c)'.id \in Ids /\ sfn_sf(M(c)'.tick) = master_sfn_sf'
    <2>1. c \in Collected /\ master_sfn_sf' = master_sfn_sf
      OBVIOUS
    <2>2. c \in Buffers /\ fate[c] # "unsent"
      BY <2>1, CollectedAreLive DEF OwnerInv
    <2>3. M(c)' = M(c)
      BY <2>2, MessagesStay DEF M
    <2> QED
      BY <2>1, <2>3 DEF CollectedLabels
  <1> QED
    BY <1>1 DEF CollectedLabels, sfn_sf

LEMMA LabelStep ==
  ASSUME TypeOK, OwnerInv, LabelInv, TypeOK', OwnerInv', [UplinkNext]_vars
  PROVE LabelInv'
  <1>1. CASE GetMessage
    <2> DEFINE b == msgs_from_ue[i][1]
    <2>1. UNCHANGED <<sent, indication>>
      BY <1>1 DEF GetMessage, threadVars
    <2>2. SentLabels'
      BY <2>1, SameIndication DEF LabelInv
    <2>3. master_sfn_sf' = master_sfn_sf \/ Collected = {}
      <3>1. SUFFICES ASSUME NEW c \in Collected PROVE master_sfn_sf' = master_sfn_sf
        OBVIOUS
      <3>2. c \in Buffers /\ fate[c] # "unsent"
        BY CollectedAreLive DEF OwnerInv
      <3>3. M(c).tick \in Nat
        BY <3>2, MessageType DEF OwnerInv
      <3>4. sfn_sf(M(c).tick) = master_sfn_sf /\ sfn_sf(M(c).tick) \in 0 .. PERIOD - 1
        BY <3>3, LabelRange DEF LabelInv, CollectedLabels
      <3>5. master_sfn_sf # NONE
        BY <3>4, NoneAssumption
      <3> QED
        BY <1>1, <3>5, GetFacts
    <2>4. CASE subframe_msgs' = subframe_msgs
      <3>1. Collected' = Collected
        BY <2>4 DEF Collected
      <3> QED
        BY <2>2, <2>3, <3>1, SameCollection DEF LabelInv
    <2>5. CASE ~(subframe_msgs' = subframe_msgs)
      <3>1. /\ i \in UEs /\ M(b).id \in Ids /\ sfn_sf(M(b).tick) = master_sfn_sf'
            /\ \A v \in UEs : v # i => subframe_msgs'[v] = subframe_msgs[v]
            /\ Len(subframe_msgs'[i]) = Len(subframe_msgs[i]) + 1
            /\ \A k \in 1 .. Len(subframe_msgs[i]) : subframe_msgs'[i][k] = subframe_msgs[i][k]
            /\ subframe_msgs'[i][Len(subframe_msgs[i]) + 1] = b
        BY <1>1, <2>5, GetFacts
      <3>2. Len(subframe_msgs[i]) \in Nat
        BY <3>1 DEF TypeOK
      <3>3. \A k \in 1 .. Len(subframe_msgs'[i]) : k \in 1 .. Len(subframe_msgs[i]) \/ k = Len(subframe_msgs[i]) + 1
        BY <3>1, <3>2
      <3> HIDE DEF b
      <3>4. \A c \in Collected' : c = b \/ c \in Collected
        <4>1. SUFFICES ASSUME NEW c \in Collected', c # b PROVE c \in Collected
          OBVIOUS
        <4>2. c # NONE /\ \E u \in UEs : \E k \in 1 .. Len(subframe_msgs'[u]) : c = subframe_msgs'[u][k]
          BY CollectedNext
        <4>3. PICK u \in UEs : \E k \in 1 .. Len(subframe_msgs'[u]) : c = subframe_msgs'[u][k]
          BY <4>2
        <4>4. PICK k \in 1 .. Len(subframe_msgs'[u]) : c = subframe_msgs'[u][k]
          BY <4>3
        <4>5. k \in 1 .. Len(subframe_msgs[u]) /\ c = subframe_msgs[u][k]
          BY <3>1, <3>3, <4>1, <4>4
        <4> QED
          BY <4>2, <4>5, CollectedFacts
      <3>5. \A c \in Collected' : M(c).id \in Ids /\ sfn_sf(M(c).tick) = master_sfn_sf'
        BY <2>3, <3>1, <3>4 DEF LabelInv, CollectedLabels
      <3>6. CollectedLabels'
        BY <2>1, <3>5 DEF CollectedLabels, M, sfn_sf
      <3> QED
        BY <2>2, <3>6 DEF LabelInv
    <2> QED
      BY <2>4, <2>5
  <1>2. CASE AggregateStep
    <2>1. UNCHANGED <<sent, master_sfn_sf>>
      BY <1>2 DEF AggregateStep, threadVars
    <2>2. Collected # {} /\ SetOf(All) = {b \in Collected : M(b).id = FoundId}
      BY <1>2, TakeOutFacts
    <2>3. CASE UNCHANGED <<fate, indication, subframe_msgs>>
      <3>1. Collected' = Collected
        BY <2>3 DEF Collected
      <3> QED
        BY <2>1, <2>3, <3>1, SameCollection, SameIndication DEF LabelInv
    <2>4. CASE ~UNCHANGED <<fate, indication, subframe_msgs>>
      <3>1. /\ \A b \in Buffers : IF b \in SetOf(All) THEN fate'[b] \in Handled ELSE fate'[b] = fate[b]
            /\ \A u \in UEs :
                 /\ Len(subframe_msgs'[u]) = Len(subframe_msgs[u])
                 /\ \A k \in 1 .. Len(subframe_msgs[u]) :
                      subframe_msgs'[u][k] = IF subframe_msgs[u][k] \in SetOf(All) THEN NONE ELSE subframe_msgs[u][k]
            /\ \E F : indication' = Indication(FoundId, Members(Batch, F))
        BY <1>2, <2>4, TakeOutFacts
      <3>2. Collected' \subseteq Collected
        BY <3>1, CollectedNext, CollectedFacts
      <3>3. CollectedLabels'
        BY <2>1, <3>2, SameCollection DEF LabelInv
      <3>4. \A k \in 1 .. Len(indication') : indication'[k].msg \in SetOf(All) /\ RightLabel(indication'[k])
        BY <2>2, <3>1, IndicationFacts
      <3>5. \A b \in SetOf(All) : fate'[b] # "unsent"
        <4>1. "unsent" \notin Handled
          BY DEF Handled
        <4>2. \A b \in SetOf(All) : b \in Buffers
          BY <2>2, CollectedAreLive DEF OwnerInv
        <4> QED
          BY <3>1, <4>1, <4>2
      <3>6. SentLabels'
        BY <2>1, <3>4, <3>5 DEF SentLabels, RightLabel, M, sfn_sf, sfn_sf_add
      <3> QED
        BY <3>3, <3>6 DEF LabelInv
    <2> QED
      BY <2>3, <2>4
  <1>3. CASE StartSubframe \/ EndSubframe
    <2>1. indication' = indication /\ \A u \in UEs : subframe_msgs'[u] = <<>>
      BY <1>3 DEF StartSubframe, EndSubframe
    <2>2. Collected' = {}
      BY <2>1, CollectedNext
    <2>3. CollectedLabels'
      BY <2>2 DEF CollectedLabels
    <2> QED
      BY <2>1, <2>3, SameIndication DEF LabelInv
  <1>4. CASE UNCHANGED <<indication, subframe_msgs, master_sfn_sf>>
    <2>1. Collected' = Collected
      BY <1>4 DEF Collected
    <2> QED
      BY <1>4, <2>1, SameCollection, SameIndication DEF LabelInv
  <1>5. \/ GetMessage \/ AggregateStep \/ StartSubframe \/ EndSubframe
        \/ UNCHANGED <<indication, subframe_msgs, master_sfn_sf>>
    BY DEF UplinkNext, start_request, receive_message_from_ue, ReceiveThreadEnds, EmptyQueue, RequeueMessage,
       vars, threadVars, taskVars
  <1> QED
    BY <1>1, <1>2, <1>3, <1>4, <1>5

-----------------------------------------------------------------------------
(* Every step keeps the order and the backlog.                              *)

(* How a fate may change. *)
LEMMA FateSteps ==
  ASSUME TypeOK, OwnerInv, LabelInv, [UplinkNext]_vars, NEW c \in Buffers
  PROVE /\ fate'[c] = "live" => fate[c] \in {"live", "unsent"}
        /\ fate'[c] = "forwarded" => fate[c] = "forwarded" \/ (AggregateStep /\ c \in SetOf(All))
        /\ fate'[c] = "stale" => fate[c] = "stale" \/ (GetMessage /\ c = msgs_from_ue[i][1])
  <1>1. CASE \E u \in UEs : receive_message_from_ue(u)
    <2>1. PICK u \in UEs : receive_message_from_ue(u)
      BY <1>1
    <2> DEFINE b == <<u, Len(sent[u]) + 1>>
    <2>2. /\ fate[b] = "unsent" /\ (c # b => fate'[c] = fate[c]) /\ fate'[b] \in {"queue_full", "live"}
      BY <2>1, ReceiveFacts DEF OwnerInv
    <2> HIDE DEF b
    <2> QED
      BY <2>2
  <1>2. CASE GetMessage
    <2> DEFINE b == msgs_from_ue[i][1]
    <2>1. /\ (c # b => fate'[c] = fate[c]) /\ fate[b] = "live"
          /\ fate' = fate \/ fate'[b] \in {"invalid", "stale", "too_many_from_ue"}
      BY <1>2, GetFacts DEF Live
    <2> HIDE DEF b
    <2>2. CASE c = b
      BY <1>2, <2>1, <2>2 DEF b
    <2>3. CASE c # b
      BY <2>1, <2>3
    <2> QED
      BY <2>2, <2>3
  <1>3. CASE RequeueMessage
    <2>1. /\ (c # msg => fate'[c] = fate[c]) /\ fate[msg] = "live"
          /\ fate' = fate \/ fate'[msg] = "requeue_failed"
      BY <1>3, RequeueFacts DEF Live
    <2> QED
      BY <2>1
  <1>4. CASE AggregateStep
    <2>1. fate' = fate \/ (IF c \in SetOf(All) THEN fate'[c] \in Handled ELSE fate'[c] = fate[c])
      BY <1>4, TakeOutFacts
    <2>2. "live" \notin Handled /\ "stale" \notin Handled
      BY DEF Handled
    <2> QED
      BY <1>4, <2>1, <2>2
  <1>5. CASE fate' = fate
    BY <1>5
  <1>6. (\E u \in UEs : receive_message_from_ue(u)) \/ GetMessage \/ RequeueMessage \/ AggregateStep \/ fate' = fate
    BY DEF UplinkNext, start_request, ReceiveThreadEnds, StartSubframe, EmptyQueue, EndSubframe, vars
  <1> QED
    BY <1>1, <1>2, <1>3, <1>4, <1>5, <1>6

LEMMA OrderInit == Init => NoOvertaking
  <1> SUFFICES ASSUME Init PROVE NoOvertaking
    OBVIOUS
  <1>1. \A b \in Buffers : fate[b] = "unsent"
    BY DEF Init
  <1>2. Len(indication) = 0
    BY DEF Init
  <1> QED
    BY <1>1, <1>2 DEF NoOvertaking

LEMMA OrderStep ==
  ASSUME TypeOK, OwnerInv, LabelInv, TypeOK', OwnerInv', NoOvertaking, [UplinkNext]_vars
  PROVE NoOvertaking'
  <1>1. ASSUME NEW b \in Buffers, NEW c \in Buffers, b[1] = c[1], b[2] < c[2],
               fate'[b] = "live", fate'[c] = "forwarded"
        PROVE sent'[b[1]][b[2]].id # sent'[c[1]][c[2]].id
    <2>1. fate[b] \in {"live", "unsent"} /\ (fate[c] = "forwarded" \/ (AggregateStep /\ c \in SetOf(All)))
      BY <1>1, FateSteps
    <2>2. AggregateStep /\ c \in SetOf(All) => c \in Collected /\ fate[c] = "live" /\ M(c).id = FoundId
      BY TakeOutFacts, CollectedAreLive DEF OwnerInv
    <2>3. fate[c] # "unsent"
      BY <2>1, <2>2
    <2>4. fate[b] = "live"
      <3>1. c[1] \in UEs /\ c[2] \in 1 .. Len(sent[c[1]])
        BY <2>3, MessageType DEF OwnerInv
      <3>2. b[2] \in Nat /\ Len(sent[c[1]]) \in Nat
        <4>1. b[2] \in Nat
          BY UplinkAssumption DEF Buffers
        <4>2. \A v \in UEs : Len(sent[v]) \in Nat
          BY DEF TypeOK
        <4> QED
          BY <3>1, <4>1, <4>2
      <3>3. ~(b[2] > Len(sent[b[1]]))
        BY <1>1, <3>1, <3>2
      <3>4. fate[b] # "unsent"
        BY <3>3 DEF OwnerInv, SentInv
      <3> QED
        BY <2>1, <3>4
    <2>5. /\ sent'[b[1]][b[2]] = M(b) /\ sent'[c[1]][c[2]] = M(c)
      BY <2>3, <2>4, MessagesStay DEF M
    <2>6. CASE fate[c] = "forwarded"
      BY <1>1, <2>4, <2>5, <2>6 DEF NoOvertaking
    <2>7. CASE AggregateStep /\ c \in SetOf(All)
      <3>1. b \notin SetOf(All)
        <4>1. fate' = fate \/ (b \in SetOf(All) => fate'[b] \in Handled)
          BY <2>7, TakeOutFacts
        <4>2. fate[c] # fate'[c]
          BY <1>1, <2>2, <2>7
        <4>3. "live" \notin Handled
          BY DEF Handled
        <4> QED
          BY <1>1, <4>1, <4>2, <4>3
      <3>2. SetOf(All) = {x \in Collected : M(x).id = FoundId} /\ pc = "aggregate"
        BY <2>7, TakeOutFacts
      <3>3. b \in Collected
        <4>1. Held(b) /\ b # NONE /\ b[1] \in UEs
          BY <2>4, NoneAssumption DEF OwnerInv, HeldInv, Buffers
        <4>2. msg # b
          BY <3>2, <4>1 DEF OwnerInv, HandInv
        <4>3. ASSUME NEW k \in 1 .. Len(msgs_from_ue[b[1]]), msgs_from_ue[b[1]][k] = b
              PROVE FALSE
          <5>1. PICK v \in UEs : \E n \in 1 .. Len(subframe_msgs[v]) : c = subframe_msgs[v][n] /\ c # NONE
            BY <2>2, <2>7, CollectedFacts
          <5>2. PICK n \in 1 .. Len(subframe_msgs[v]) : c = subframe_msgs[v][n] /\ c # NONE
            BY <5>1
          <5>3. v = c[1]
            BY <5>2 DEF OwnerInv, CollectedInv, Live
          <5>4. c[2] < b[2]
            BY <1>1, <4>3, <5>2, <5>3 DEF OwnerInv, CollectedInv
          <5>5. b[2] \in Int /\ c[2] \in Int
            BY DEF Buffers
          <5> QED
            BY <1>1, <5>4, <5>5
        <4>4. \E k \in 1 .. Len(subframe_msgs[b[1]]) : subframe_msgs[b[1]][k] = b
          BY <4>1, <4>2, <4>3 DEF Held
        <4> QED
          BY <4>1, <4>4, CollectedFacts
      <3> QED
        BY <2>2, <2>5, <2>7, <3>1, <3>2, <3>3
    <2> QED
      BY <2>1, <2>6, <2>7
  <1>2. \A j, k \in 1 .. Len(indication') :
          j < k /\ indication'[j].msg[1] = indication'[k].msg[1] => indication'[j].msg[2] < indication'[k].msg[2]
    <2>1. CASE indication' = indication
      BY <2>1 DEF NoOvertaking
    <2>2. CASE indication' # indication
      <3>1. AggregateStep
        BY <2>2 DEF UplinkNext, start_request, receive_message_from_ue, ReceiveThreadEnds, StartSubframe, EmptyQueue,
           GetMessage, RequeueMessage, EndSubframe, vars, taskVars
      <3>2. Collected # {} /\ \E F : indication' = Indication(FoundId, Members(Batch, F))
        BY <2>2, <3>1, TakeOutFacts
      <3> QED
        BY <3>2, IndicationFacts
    <2> QED
      BY <2>1, <2>2
  <1> QED
    BY <1>1, <1>2 DEF NoOvertaking, M

LEMMA BacklogInit == Init => BacklogInv
  <1> SUFFICES ASSUME Init PROVE BacklogInv
    OBVIOUS
  <1>1. \A u \in UEs : backlog[u] = 0 /\ Len(sent[u]) = 0
    BY DEF Init
  <1>2. \A u \in UEs : ~Left(u)
    BY DEF Init, Left
  <1> QED
    BY <1>1, <1>2 DEF BacklogInv

LEMMA BacklogStep ==
  ASSUME TypeOK, OwnerInv, LabelInv, TypeOK', OwnerInv', BacklogInv, [UplinkNext]_vars
  PROVE BacklogInv'
  <1>1. \A u \in UEs : Len(sent[u]) <= Len(sent'[u]) /\ Len(sent[u]) \in Nat
    <2>1. \A u \in UEs : Len(sent[u]) \in Nat
      BY DEF TypeOK
    <2> QED
      BY <2>1, MessagesStay
  <1>2. \A u \in UEs : Len(sent'[u]) \in Nat /\ backlog[u] \in Nat
    <2>1. sent' \in [UEs -> Seq(Messages)] /\ backlog \in [UEs -> 0 .. MaxMsgs]
      BY DEF TypeOK
    <2> QED
      BY <2>1
  <1>3. \A u \in UEs : backlog'[u] <= Len(sent'[u])
    <2>1. CASE StartSubframe
      <3>1. \A u \in UEs : backlog'[u] = Len(sent[u])
        BY <2>1 DEF StartSubframe
      <3> QED
        BY <1>1, <1>2, <3>1
    <2>2. CASE backlog' = backlog
      BY <1>1, <1>2, <2>2 DEF BacklogInv
    <2>3. StartSubframe \/ backlog' = backlog
      BY DEF UplinkNext, start_request, receive_message_from_ue, ReceiveThreadEnds, EmptyQueue,
         GetMessage, RequeueMessage, AggregateStep, EndSubframe, vars, taskVars
    <2> QED
      BY <2>1, <2>2, <2>3
  <1>4. ASSUME are_queues_empty', NEW u \in UEs, Left(u)'
        PROVE \A k \in 1 .. Len(msgs_from_ue'[u]) : msgs_from_ue'[u][k][2] > backlog'[u]
    <2>1. CASE \E v \in UEs : receive_message_from_ue(v)
      <3>1. PICK v \in UEs : receive_message_from_ue(v)
        BY <2>1
      <3>2. UNCHANGED <<pc, i, are_queues_empty, backlog>>
        BY <3>1 DEF receive_message_from_ue, taskVars
      <3>3. \A k \in 1 .. Len(msgs_from_ue[u]) : msgs_from_ue[u][k][2] > backlog[u]
        BY <1>4, <3>2 DEF BacklogInv, Left
      <3>4. \/ msgs_from_ue' = msgs_from_ue
            \/ /\ \A w \in UEs : w # v => msgs_from_ue'[w] = msgs_from_ue[w]
               /\ Len(msgs_from_ue'[v]) = Len(msgs_from_ue[v]) + 1
               /\ \A k \in 1 .. Len(msgs_from_ue[v]) : msgs_from_ue'[v][k] = msgs_from_ue[v][k]
               /\ msgs_from_ue'[v][Len(msgs_from_ue[v]) + 1] = <<v, Len(sent[v]) + 1>>
        BY <3>1, ReceiveFacts DEF OwnerInv
      <3>5. CASE msgs_from_ue'[u] = msgs_from_ue[u]
        BY <3>2, <3>3, <3>5
      <3>6. CASE msgs_from_ue'[u] # msgs_from_ue[u]
        <4>1. /\ u = v /\ Len(msgs_from_ue'[u]) = Len(msgs_from_ue[u]) + 1
              /\ \A k \in 1 .. Len(msgs_from_ue[u]) : msgs_from_ue'[u][k] = msgs_from_ue[u][k]
              /\ msgs_from_ue'[u][Len(msgs_from_ue[u]) + 1] = <<u, Len(sent[u]) + 1>>
          BY <3>4, <3>6
        <4>2. Len(msgs_from_ue[u]) \in Nat
          BY DEF TypeOK
        <4>3. \A k \in 1 .. Len(msgs_from_ue'[u]) : k \in 1 .. Len(msgs_from_ue[u]) \/ k = Len(msgs_from_ue[u]) + 1
          BY <4>1, <4>2
        <4>4. Len(sent[u]) + 1 > backlog[u]
          BY <1>1, <1>2 DEF BacklogInv
        <4> QED
          BY <3>2, <3>3, <4>1, <4>3, <4>4
      <3> QED
        BY <3>5, <3>6
    <2>2. CASE StartSubframe
      <3>1. pc' = "dequeue" /\ i' = 1
        BY <2>2 DEF StartSubframe
      <3> QED
        BY <1>4, <3>1, UplinkAssumption DEF Left, UEs
    <2>3. CASE EmptyQueue
      <3>1. UNCHANGED <<msgs_from_ue, are_queues_empty, backlog>> /\ pc = "dequeue" /\ msgs_from_ue[i] = <<>> /\ NextUe
        BY <2>3 DEF EmptyQueue
      <3>2. u < i \/ u = i
        BY <1>4, <3>1, NextUeFacts DEF Left
      <3>3. CASE u = i
        BY <3>1, <3>3
      <3>4. CASE u < i
        BY <1>4, <3>1, <3>4 DEF BacklogInv, Left
      <3> QED
        BY <3>2, <3>3, <3>4
    <2>4. CASE GetMessage
      <3>1. UNCHANGED <<i, are_queues_empty, backlog>>
        BY <2>4 DEF GetMessage
      <3>2. /\ pc = "dequeue" /\ pc' \in {"dequeue", "requeue"} /\ i \in UEs
            /\ \A v \in UEs : v # i => msgs_from_ue'[v] = msgs_from_ue[v]
        BY <2>4, GetFacts
      <3>3. u < i /\ u # i
        BY <1>4, <3>1, <3>2 DEF Left, UEs
      <3> QED
        BY <1>4, <3>1, <3>2, <3>3 DEF BacklogInv, Left
    <2>5. CASE RequeueMessage
      BY <1>4, <2>5, RequeueFacts
    <2>6. CASE AggregateStep
      <3>1. UNCHANGED <<msgs_from_ue, are_queues_empty, backlog>> /\ pc = "aggregate"
        BY <2>6 DEF AggregateStep
      <3> QED
        BY <1>4, <3>1 DEF BacklogInv, Left
    <2>7. CASE EndSubframe
      BY <1>4, <2>7 DEF EndSubframe, Left
    <2>8. CASE UNCHANGED <<pc, i, msgs_from_ue, are_queues_empty, backlog>>
      BY <1>4, <2>8 DEF BacklogInv, Left
    <2>9. \/ \E v \in UEs : receive_message_from_ue(v)
          \/ StartSubframe \/ EmptyQueue \/ GetMessage \/ RequeueMessage \/ AggregateStep \/ EndSubframe
          \/ UNCHANGED <<pc, i, msgs_from_ue, are_queues_empty, backlog>>
      BY DEF UplinkNext, start_request, ReceiveThreadEnds, vars, taskVars
    <2> QED
      BY <2>1, <2>2, <2>3, <2>4, <2>5, <2>6, <2>7, <2>8, <2>9
  <1> QED
    BY <1>3, <1>4 DEF BacklogInv

-----------------------------------------------------------------------------
(* What follows.                                                            *)

(* Every live buffer has one holder and every other one none. *)
LEMMA OwnerCounts ==
  ASSUME TypeOK, OwnerInv
  PROVE OneOwner
  <1>1. SUFFICES ASSUME NEW b \in Buffers
                 PROVE Cardinality(Holders(b)) = IF fate[b] = "live" THEN 1 ELSE 0
    BY DEF OneOwner
  <1> DEFINE u == b[1]
             q == msgs_from_ue[u]
             s == subframe_msgs[u]
  <1>2. u \in UEs /\ b[2] \in Int /\ b # NONE
    BY NoneAssumption DEF Buffers
  <1>3. \A h : h \in Holders(b) <=>
          \/ \E k \in 1 .. Len(q) : q[k] = b /\ h = <<"queue", k>>
          \/ \E k \in 1 .. Len(s) : s[k] = b /\ h = <<"collected", k>>
          \/ msg = b /\ h = <<"in_hand", 1>>
    BY DEF Holders
  <1>4. \A k \in 1 .. Len(q) : q[k] = b => fate[b] = "live"
    BY <1>2 DEF OwnerInv, QueueInv, Live
  <1>5. \A k \in 1 .. Len(s) : s[k] = b => fate[b] = "live" /\ \A n \in 1 .. Len(q) : q[n] # b
    <2>1. SUFFICES ASSUME NEW k \in 1 .. Len(s), s[k] = b
                   PROVE fate[b] = "live" /\ \A n \in 1 .. Len(q) : q[n] # b
      OBVIOUS
    <2>2. Live(fate, b, u) /\ \A n \in 1 .. Len(q) : b[2] < q[n][2]
      BY <1>2, <2>1 DEF OwnerInv, CollectedInv
    <2> QED
      BY <1>2, <2>2 DEF Live
  <1>6. msg = b => /\ fate[b] = "live"
                   /\ \A k \in 1 .. Len(q) : q[k] # b
                   /\ \A k \in 1 .. Len(s) : s[k] # b
    <2>1. SUFFICES ASSUME msg = b
                   PROVE /\ fate[b] = "live" /\ \A k \in 1 .. Len(q) : q[k] # b
                         /\ \A k \in 1 .. Len(s) : s[k] # b
      OBVIOUS
    <2>2. /\ Live(fate, b, i)
          /\ \A k \in 1 .. Len(subframe_msgs[i]) : subframe_msgs[i][k] # NONE => subframe_msgs[i][k][2] < b[2]
          /\ \A n \in 1 .. Len(msgs_from_ue[i]) : b[2] < msgs_from_ue[i][n][2]
      BY <1>2, <2>1 DEF OwnerInv, HandInv
    <2>3. i = u
      BY <2>2 DEF Live
    <2> QED
      BY <1>2, <2>2, <2>3 DEF Live
  <1>7. \A j, k \in 1 .. Len(q) : q[j] = b /\ q[k] = b => j = k
    <2>1. SUFFICES ASSUME NEW j \in 1 .. Len(q), NEW k \in 1 .. Len(q), q[j] = b, q[k] = b, j < k PROVE FALSE
      OBVIOUS
    <2>2. q[j][2] < q[k][2]
      BY <1>2, <2>1 DEF OwnerInv, QueueInv
    <2> QED
      BY <1>2, <2>1, <2>2
  <1>8. \A j, k \in 1 .. Len(s) : s[j] = b /\ s[k] = b => j = k
    <2>1. SUFFICES ASSUME NEW j \in 1 .. Len(s), NEW k \in 1 .. Len(s), s[j] = b, s[k] = b, j < k PROVE FALSE
      OBVIOUS
    <2>2. j \in 1 .. k - 1
      BY <2>1
    <2>3. s[j][2] < s[k][2]
      BY <1>2, <2>1, <2>2 DEF OwnerInv, CollectedInv
    <2> QED
      BY <1>2, <2>1, <2>3
  <1>9. CASE fate[b] = "live"
    <2>1. Held(b)
      BY <1>9 DEF OwnerInv, HeldInv
    <2>2. \E h : h \in Holders(b)
      BY <1>3, <2>1 DEF Held
    <2>3. PICK h : h \in Holders(b)
      BY <2>2
    <2>4. \A x \in Holders(b) : x = h
      BY <1>3, <1>5, <1>6, <1>7, <1>8, <2>3
    <2>5. Holders(b) = {h}
      BY <2>3, <2>4
    <2> QED
      BY <1>9, <2>5, FS_Singleton
  <1>10. CASE fate[b] # "live"
    <2>1. Holders(b) = {}
      BY <1>3, <1>4, <1>5, <1>6, <1>10
    <2> QED
      BY <1>10, <2>1, FS_EmptySet
  <1> QED
    BY <1>9, <1>10

(* Of two numbers whose residues differ by more than a bound the first is   *)
(* the larger one by more than that, or the second lies in a later round.   *)
LEMMA Ages ==
  ASSUME NEW p \in Nat \ {0}, NEW bound \in Nat, NEW t \in Nat, NEW l \in Nat, (t % p) - (l % p) > bound
  PROVE t - l > bound \/ (l > t /\ l \div p # t \div p)
  <1> DEFINE a == t % p
             b == l % p
             x == t \div p
             y == l \div p
  <1>1. /\ x \in Int /\ a \in 0 .. p - 1 /\ t = x * p + a /\ y \in Int /\ b \in 0 .. p - 1 /\ l = y * p + b
        /\ a - b > bound
    <2>1. t \in Int /\ l \in Int
      OBVIOUS
    <2> QED
      BY <2>1, DivMod
  <1> HIDE DEF a, b, x, y
  <1>2. t - l = (x - y) * p + (a - b) /\ (x - y) * p \in Int
    BY <1>1
  <1>3. x - y \in Int /\ (x - y >= 1 \/ x - y = 0 \/ x - y <= -1)
    BY <1>1
  <1>4. CASE x - y >= 1
    <2>1. (x - y) * p >= p
      BY <1>3, <1>4, Product
    <2> QED
      BY <1>1, <1>2, <2>1
  <1>5. CASE x - y = 0
    <2>1. (x - y) * p = 0
      BY <1>3, <1>5, Product
    <2> QED
      BY <1>1, <1>2, <2>1
  <1>6. CASE x - y <= -1
    <2>1. (x - y) * p <= -p
      BY <1>3, <1>6, Product
    <2>2. l > t
      BY <1>1, <1>2, <2>1
    <2>3. y # x
      BY <1>1, <1>6
    <2> QED
      BY <2>2, <2>3 DEF x, y
  <1> QED
    BY <1>3, <1>4, <1>5, <1>6

(* A message is discarded as stale only where get_sf_delta is right. *)
LEMMA StaleStep ==
  ASSUME TypeOK, OwnerInv, LabelInv, [UplinkNext]_vars
  PROVE \A b \in Buffers : fate[b] = "live" /\ fate'[b] = "stale" =>
          \/ tick - M(b).tick > STALE
          \/ M(b).tick > tick /\ M(b).tick \div PERIOD # tick \div PERIOD
  <1>1. SUFFICES ASSUME NEW b \in Buffers, fate[b] = "live", fate'[b] = "stale"
                 PROVE \/ tick - M(b).tick > STALE
                       \/ M(b).tick > tick /\ M(b).tick \div PERIOD # tick \div PERIOD
    OBVIOUS
  <1>2. GetMessage /\ b = msgs_from_ue[i][1]
    BY <1>1, FateSteps
  <1>3. get_sf_delta(sfn_sf(tick), sfn_sf(M(b).tick)) > STALE
    <2>1. fate' = fate \/ (fate'[b] = "stale" => get_sf_delta(sfn_sf(tick), sfn_sf(M(b).tick)) > STALE)
      BY <1>2, GetFacts
    <2> QED
      BY <1>1, <2>1
  <1> DEFINE l == M(b).tick
  <1>4. (tick % PERIOD) - (l % PERIOD) > STALE
    BY <1>3 DEF get_sf_delta, sfn_sf
  <1>5. l \in Nat
    BY <1>1, MessageType DEF OwnerInv
  <1>6. tick \in Nat /\ PERIOD \in Nat \ {0} /\ STALE \in Nat
    BY UplinkAssumption DEF TypeOK
  <1> HIDE DEF l
  <1>7. tick - l > STALE \/ (l > tick /\ l \div PERIOD # tick \div PERIOD)
    BY <1>4, <1>5, <1>6, Ages
  <1> QED
    BY <1>7 DEF l

(* An NR aggregator ends the process only over a message at a fatal place.  *)
LEMMA FatalAborts ==
  ASSUME NEW batch \in Seq(Buffers), NEW fatal, Aggregate(batch, fatal, FALSE).aborts
  PROVE \E k \in (1 .. Len(batch)) \cap fatal : M(batch[k]).ok
  <1> DEFINE bad == {k \in Reached(batch) : ~M(batch[k]).ok}
             stops == {k \in Reached(batch) \cap fatal : M(batch[k]).ok}
             announced == PdusUpTo(batch, Max(Reached(batch)))
             none == [k \in DOMAIN batch |-> "undecodable"]
             some == [k \in DOMAIN batch |-> IF k \in Reached(batch) THEN Sent ELSE "too_many_PDUs"]
             pdus == IF stops = {} THEN announced ELSE 0
             aborts == stops # {} \/ (FALSE /\ announced > MAX_PDU)
  <1>1. Aggregate(batch, fatal, FALSE) =
          IF \E k \in bad : \A j \in stops : k < j
          THEN [fates |-> none, pdus |-> 0, aborts |-> FALSE]
          ELSE [fates |-> some, pdus |-> pdus, aborts |-> aborts]
    BY DEF Aggregate
  <1>2. aborts => stops # {}
    OBVIOUS
  <1>3. stops # {} => \E k \in (1 .. Len(batch)) \cap fatal : M(batch[k]).ok
    BY DEF Reached
  <1> HIDE DEF bad, stops, announced, none, some, pdus, aborts
  <1>4. [fates |-> none, pdus |-> 0, aborts |-> FALSE].aborts = FALSE
    OBVIOUS
  <1>5. [fates |-> some, pdus |-> pdus, aborts |-> aborts].aborts = aborts
    OBVIOUS
  <1>6. aborts
    BY <1>1, <1>4, <1>5, Zenon
  <1> QED
    BY <1>2, <1>3, <1>6, Zenon

LEMMA AbortStep ==
  ASSUME NrIdsKnown, TypeOK, OwnerInv, LabelInv, AbortsOnlyOnEmptyOrUntyped, [SlotNext]_vars
  PROVE AbortsOnlyOnEmptyOrUntyped'
  <1>1. CASE pc = "aborted"
    <2>1. UNCHANGED <<pc, sent, subframe_msgs>>
      BY <1>1 DEF SlotNext, oai_slot_task, nr_start_request, start_request, receive_message_from_nr_ue,
         receive_message_from_ue, ReceiveThreadEnds, StartSlot, StartSubframe, dequeue_ue_slot_msgs, EmptyQueue,
         GetMessage, RequeueMessage, oai_slot_aggregate_messages, AggregateFound, EndSubframe, Running,
         vars, threadVars, taskVars
    <2> QED
      BY <2>1 DEF AbortsOnlyOnEmptyOrUntyped, Collected, SetOf, M
  <1>2. CASE pc # "aborted" /\ pc' = "aborted"
    <2>1. oai_slot_aggregate_messages
      BY <1>2, NextUeFacts, GetFacts DEF SlotNext, oai_slot_task, nr_start_request, start_request,
         receive_message_from_nr_ue, receive_message_from_ue, ReceiveThreadEnds, StartSlot, StartSubframe,
         dequeue_ue_slot_msgs, EmptyQueue, RequeueMessage, Break, EndSubframe, vars, threadVars, taskVars
    <2> DEFINE result == oai_slot_aggregate_message_id(FoundId, Batch)
    <2>2. Collected # {} /\ TakeOut(All, Batch, result) /\ UNCHANGED sent
      BY <2>1 DEF oai_slot_aggregate_messages, AggregateFound, All, Batch, threadVars
    <2>3. result.aborts /\ UNCHANGED subframe_msgs
      BY <1>2, <2>2 DEF TakeOut
    <2>4. /\ Batch \in Seq(Buffers) /\ FoundId \in Ids
          /\ \A k \in 1 .. Len(Batch) : Batch[k] \in Collected /\ M(Batch[k]).id = FoundId
      BY <2>2, BatchFacts, BatchMessages
    <2>5. \/ result = oai_slot_aggregate_rach_ind(Batch)
          \/ result = oai_slot_aggregate_crc_ind(Batch)
          \/ FoundId = RX /\ result = oai_slot_aggregate_rx_data_ind(Batch)
          \/ FoundId = UCI /\ result = oai_slot_aggregate_uci_ind(Batch)
          \/ result = oai_slot_aggregate_srs_ind(Batch)
      BY <2>4 DEF oai_slot_aggregate_message_id, NrIdsKnown
    <2>6. ~oai_subframe_aggregate_rach_ind(Batch).aborts
      BY DEF oai_subframe_aggregate_rach_ind
    <2> HIDE DEF result
    <2>7. ~Aggregate(Batch, {}, FALSE).aborts
      <3>1. SUFFICES ASSUME Aggregate(Batch, {}, FALSE).aborts PROVE FALSE
        BY Zenon
      <3>2. \E k \in (1 .. Len(Batch)) \cap {} : M(Batch[k]).ok
        BY <2>4, <3>1, FatalAborts, Zenon
      <3> QED
        BY <3>2
    <2>8. \/ FoundId = RX /\ Aggregate(Batch, Empty(Batch), FALSE).aborts
          \/ FoundId = UCI /\ Aggregate(Batch, Empty(Batch) \cup Untyped(Batch), FALSE).aborts
      <3>1. \/ result = oai_subframe_aggregate_rach_ind(Batch)
            \/ result = Aggregate(Batch, {}, FALSE)
            \/ FoundId = RX /\ result = Aggregate(Batch, Empty(Batch), FALSE)
            \/ FoundId = UCI /\ result = Aggregate(Batch, Empty(Batch) \cup Untyped(Batch), FALSE)
        BY <2>5, Zenon DEF oai_slot_aggregate_rach_ind, oai_slot_aggregate_crc_ind, oai_slot_aggregate_rx_data_ind,
           oai_slot_aggregate_uci_ind, oai_slot_aggregate_srs_ind
      <3> QED
        BY <2>3, <2>6, <2>7, <3>1, Zenon
    <2>9. PICK k \in 1 .. Len(Batch) :
             /\ M(Batch[k]).ok
             /\ \/ FoundId \in {RX, UCI} /\ k \in Empty(Batch)
                \/ FoundId = UCI /\ k \in Untyped(Batch)
      BY <2>4, <2>8, FatalAborts
    <2>10. /\ Batch[k] \in Collected /\ M(Batch[k]).ok
           /\ \/ M(Batch[k]).id \in {RX, UCI} /\ M(Batch[k]).pdus = 0
              \/ M(Batch[k]).id = UCI /\ M(Batch[k]).pdus > 0 /\ ~M(Batch[k]).typed
      BY <2>4, <2>9 DEF Empty, Untyped
    <2> QED
      BY <2>2, <2>3, <2>10 DEF AbortsOnlyOnEmptyOrUntyped, Collected, SetOf, M
  <1>3. CASE pc' # "aborted"
    BY <1>3 DEF AbortsOnlyOnEmptyOrUntyped
  <1> QED
    BY <1>1, <1>2, <1>3

-----------------------------------------------------------------------------
(* What is left out of an aggregate.                                        *)

(* The PDUs of a set of buffers. *)
TotalPdus(B) == MapThenSumSet(LAMBDA c : M(c).pdus, B)

(* Those of the first messages of a batch are what the aggregator counted. *)
LEMMA BatchSum ==
  ASSUME NEW batch \in Seq(Buffers), \A k \in 1 .. Len(batch) : M(batch[k]).pdus \in Nat,
         \A j, k \in 1 .. Len(batch) : batch[j] = batch[k] => j = k, NEW r \in 0 .. Len(batch)
  PROVE TotalPdus({batch[k] : k \in 1 .. r}) = PdusUpTo(batch, r)
  <1> DEFINE a == [k \in 1 .. r |-> batch[k]]
             S == {a[k] : k \in 1 .. r}
             w == [c \in S |-> M(c).pdus]
             h == CHOOSE h : h = [s \in SUBSET S |-> IF s = {} THEN 0 ELSE M(Picked(s)).pdus + h[s \ {Picked(s)}]]
             f == [k \in 0 .. r |-> PdusUpTo(batch, k)]
  <1>1. r \in Nat /\ Len(batch) \in Nat /\ r <= Len(batch)
    OBVIOUS
  <1>2. a \in [1 .. r -> S] /\ \A k \in 1 .. r : k \in 1 .. Len(batch) /\ a[k] = batch[k]
    BY <1>1
  <1>3. IsFiniteSet(S)
    <2>1. IsFiniteSet(1 .. r)
      BY <1>1, FS_Interval
    <2>2. a \in Surjection(1 .. r, S)
      BY <1>2 DEF Surjection
    <2> HIDE DEF S, a
    <2> QED
      BY <2>1, <2>2, FS_Surjection
  <1>4. S = {batch[k] : k \in 1 .. r}
    BY <1>2
  <1>5. w \in [S -> Nat] /\ \A c \in S : w[c] = M(c).pdus
    BY <1>2
  <1>6. \A j, k \in 1 .. r : a[j] = a[k] => j = k
    BY <1>2
  <1>7. f[0] = 0 /\ f[r] = PdusUpTo(batch, r)
    BY <1>1, PdusFacts
  <1>8. \A j \in 1 .. r : f[j] = f[j - 1] + w[a[j]]
    <2>1. SUFFICES ASSUME NEW j \in 1 .. r PROVE f[j] = f[j - 1] + w[a[j]]
      OBVIOUS
    <2>2. j \in 1 .. Len(batch) /\ j \in 0 .. r /\ j - 1 \in 0 .. r
      BY <1>1
    <2>3. f[j] = PdusUpTo(batch, j) /\ f[j - 1] = PdusUpTo(batch, j - 1)
      BY <2>2
    <2>4. w[a[j]] = M(batch[j]).pdus
      BY <1>2, <1>5
    <2>5. PdusUpTo(batch, j) = PdusUpTo(batch, j - 1) + M(batch[j]).pdus
      BY <2>2, PdusFacts
    <2> HIDE DEF f, w, a
    <2> QED
      BY <2>3, <2>4, <2>5
  <1>9. TotalPdus(S) = h[S]
    <2> HIDE DEF S
    <2> QED
      BY DEF TotalPdus, MapThenSumSet, MapThenFoldSet, Picked
  <1> HIDE DEF S, w, a, f
  <1>10. \A s \in SUBSET S : s # {} => Picked(s) \in S
    BY <1>3, PickedFacts
  <1>17. PICK g : Recursion(w, S, g)
    BY <1>3, <1>5, SetSumExists
  <1>11. g = [s \in SUBSET S |-> IF s = {} THEN 0 ELSE w[Picked(s)] + g[s \ {Picked(s)}]]
    BY <1>17, Zenon DEF Recursion
  <1>12. g = [s \in SUBSET S |-> IF s = {} THEN 0 ELSE M(Picked(s)).pdus + g[s \ {Picked(s)}]]
    <2>1. \A s \in SUBSET S : (IF s = {} THEN 0 ELSE w[Picked(s)] + g[s \ {Picked(s)}]) =
                              (IF s = {} THEN 0 ELSE M(Picked(s)).pdus + g[s \ {Picked(s)}])
      BY <1>5, <1>10
    <2> QED
      BY <1>11, <2>1, Zenon
  <1>13. h = [s \in SUBSET S |-> IF s = {} THEN 0 ELSE M(Picked(s)).pdus + h[s \ {Picked(s)}]]
    BY <1>12, Zenon
  <1> HIDE DEF h
  <1>14. Adds(w, S, h)
    <2>1. \A s \in SUBSET S : h[s] = IF s = {} THEN 0 ELSE M(Picked(s)).pdus + h[s \ {Picked(s)}]
      BY <1>13, Zenon
    <2> QED
      BY <1>5, <1>10, <2>1 DEF Adds
  <1>18. S = {a[k] : k \in 1 .. r}
    BY Zenon DEF S
  <1>15. SumIs(h, S, f[r])
    BY <1>1, <1>2, <1>3, <1>5, <1>6, <1>7, <1>8, <1>14, <1>18, SequenceSum
  <1>16. h[S] = f[r]
    BY <1>15, Zenon DEF SumIs
  <1> QED
    BY <1>4, <1>7, <1>9, <1>16, Zenon

(* A message an aggregator does not reach comes after a full list. *)
LEMMA NotReached ==
  ASSUME NEW batch \in Seq(Buffers), \A k \in 1 .. Len(batch) : M(batch[k]).pdus \in Nat,
         NEW c \in 1 .. Len(batch), c \notin Reached(batch)
  PROVE \E r \in 0 .. Len(batch) : Reached(batch) = 1 .. r /\ PdusUpTo(batch, r) >= MAX_PDU
  <1> DEFINE n == Len(batch)
             U == {k \in 1 .. n : k \notin Reached(batch)}
             f == [k \in 0 .. n |-> PdusUpTo(batch, k)]
             p == [k \in 1 .. n |-> M(batch[k]).pdus]
  <1>1. n \in Nat /\ U \in SUBSET Nat /\ U # {} /\ DOMAIN batch = 1 .. n /\ MAX_PDU \in Nat
    BY UplinkAssumption
  <1>2. /\ f \in [0 .. n -> Nat] /\ p \in [1 .. n -> Nat]
        /\ \A k \in 0 .. n : f[k] = PdusUpTo(batch, k)
    BY PdusFacts
  <1>3. \A k \in 1 .. n : f[k] = f[k - 1] + p[k]
    <2>1. \A k \in 1 .. n : k \in 0 .. n /\ k - 1 \in 0 .. n /\ p[k] = M(batch[k]).pdus
      BY <1>1
    <2> HIDE DEF f, p
    <2> QED
      BY <1>2, <2>1, PdusFacts
  <1>4. \A k : k \in Reached(batch) <=> k \in 1 .. n /\ f[k - 1] < MAX_PDU
    <2>1. \A k \in 1 .. n : k - 1 \in 0 .. n
      BY <1>1
    <2> HIDE DEF f
    <2> QED
      BY <1>1, <1>2, <2>1 DEF Reached
  <1>5. PICK u \in U : \A y \in U : u <= y
    <2> HIDE DEF U
    <2> QED
      BY <1>1, LeastNumber
  <1>6. u \in 1 .. n /\ u \notin Reached(batch) /\ \A k \in 1 .. n : k < u => k \in Reached(batch)
    BY <1>1, <1>5
  <1> HIDE DEF U, f, p, n
  <1>7. f[u - 1] >= MAX_PDU
    <2>1. u - 1 \in 0 .. n
      BY <1>1, <1>6
    <2>2. ~(f[u - 1] < MAX_PDU)
      BY <1>4, <1>6
    <2>3. f[u - 1] \in Nat
      BY <1>2, <2>1
    <2> QED
      BY <1>1, <2>2, <2>3
  <1> DEFINE N == {m \in Nat : u - 1 + m <= n => f[u - 1 + m] >= MAX_PDU}
  <1>8. 0 \in N
    <2>1. u - 1 + 0 = u - 1
      BY <1>6
    <2> QED
      BY <1>7, <2>1
  <1>9. ASSUME NEW m \in Nat, m \in N
        PROVE m + 1 \in N
    <2>1. SUFFICES ASSUME u - 1 + (m + 1) <= n PROVE f[u - 1 + (m + 1)] >= MAX_PDU
      OBVIOUS
    <2>2. PICK k : k = u - 1 + (m + 1)
      OBVIOUS
    <2>3. k \in 1 .. n /\ k - 1 = u - 1 + m /\ k - 1 \in 0 .. n /\ u - 1 + m <= n
      BY <1>1, <1>6, <2>1, <2>2
    <2>4. f[k - 1] >= MAX_PDU
      BY <1>9, <2>3
    <2>5. f[k] = f[k - 1] + p[k] /\ f[k - 1] \in Nat /\ p[k] \in Nat
      BY <1>2, <1>3, <2>3
    <2>6. f[k] >= MAX_PDU
      BY <1>1, <2>4, <2>5
    <2> QED
      BY <2>2, <2>6
  <1> HIDE DEF N
  <1>10. Nat \subseteq N
    BY <1>8, <1>9, SetInduction
  <1>11. \A k \in 1 .. n : k >= u => k \notin Reached(batch)
    <2>1. SUFFICES ASSUME NEW k \in 1 .. n, k >= u PROVE k \notin Reached(batch)
      OBVIOUS
    <2>2. PICK m : m = k - u
      OBVIOUS
    <2>3. m \in Nat /\ u - 1 + m = k - 1 /\ k - 1 <= n /\ k - 1 \in 0 .. n
      BY <1>1, <1>6, <2>1, <2>2
    <2>4. f[k - 1] >= MAX_PDU
      BY <1>10, <2>3 DEF N
    <2>5. f[k - 1] \in Nat
      BY <1>2, <2>3
    <2>6. ~(f[k - 1] < MAX_PDU)
      BY <1>1, <2>4, <2>5
    <2> QED
      BY <1>4, <2>6
  <1>12. u - 1 \in 0 .. n /\ \A k : k \in 1 .. u - 1 <=> k \in 1 .. n /\ k < u
    BY <1>1, <1>6
  <1>13. Reached(batch) = 1 .. u - 1
    <2>1. \A k : k \in Reached(batch) => k \in 1 .. n
      BY <1>4
    <2>2. \A k \in 1 .. n : k < u \/ k >= u
      BY <1>1, <1>6
    <2>3. \A k : k \in Reached(batch) <=> k \in 1 .. u - 1
      BY <1>6, <1>11, <1>12, <2>1, <2>2
    <2> QED
      BY <2>3, Zenon
  <1>14. PdusUpTo(batch, u - 1) >= MAX_PDU
    BY <1>2, <1>7, <1>12
  <1> QED
    BY <1>12, <1>13, <1>14 DEF n

(* No buffer is twice in a batch. *)
LEMMA BatchDistinct ==
  ASSUME TypeOK, OwnerInv, Collected # {}
  PROVE \A j, k \in 1 .. Len(Batch) : Batch[j] = Batch[k] => j = k
  <1>1. PICK o \in [1 .. Len(All) -> Entries] :
          /\ \A j, k \in 1 .. Len(All) : j < k => o[j] < o[k]
          /\ \A k \in 1 .. Len(All) : All[k] = Entry(o[k]) /\ Entry(o[k]) # NONE
    BY WithIdFacts DEF All
  <1>2. /\ Len(All) \in Nat /\ Len(Batch) \in Nat /\ Len(Batch) <= Len(All)
        /\ \A k \in 1 .. Len(Batch) : Batch[k] = All[k]
    BY BatchFacts
  <1>3. ASSUME NEW j \in 1 .. Len(Batch), NEW k \in 1 .. Len(Batch), j < k
        PROVE Batch[j] # Batch[k]
    <2>1. j \in 1 .. Len(All) /\ k \in 1 .. Len(All)
      BY <1>2
    <2>2. PICK m \in Entries : m = o[j]
      BY <1>1, <2>1
    <2>3. PICK n \in Entries : n = o[k]
      BY <1>1, <2>1
    <2>4. m < n /\ Batch[j] = Entry(m) /\ Entry(m) # NONE /\ Batch[k] = Entry(n) /\ Entry(n) # NONE
      BY <1>1, <1>2, <1>3, <2>1, <2>2, <2>3
    <2>5. SUFFICES ASSUME Entry(m) = Entry(n) PROVE FALSE
      BY <2>4
    <2>6. Entry(m)[1] = Entry(n)[1] /\ Entry(m)[2] = Entry(n)[2]
      BY <2>5, Zenon
    <2>7. Entry(m)[2] < Entry(n)[2]
      BY <2>4, <2>6, EntriesInOrder DEF OwnerInv
    <2>8. Entry(n) \in Buffers
      BY <2>4, EntryFacts
    <2>9. Entry(n)[2] \in Int
      BY <2>8, UplinkAssumption DEF Buffers
    <2> QED
      BY <2>6, <2>7, <2>9
  <1>4. SUFFICES ASSUME NEW j \in 1 .. Len(Batch), NEW k \in 1 .. Len(Batch), Batch[j] = Batch[k] PROVE j = k
    OBVIOUS
  <1>5. ~(j < k) /\ ~(k < j)
    BY <1>3, <1>4
  <1> QED
    BY <1>2, <1>5

(* An aggregator leaves out what it does not reach. *)
LEMMA LeftOut ==
  ASSUME NEW batch \in Seq(Buffers), NEW fatal, NEW packed, NEW c \in 1 .. Len(batch),
         Aggregate(batch, fatal, packed).fates[c] = "too_many_PDUs"
  PROVE /\ c \notin Reached(batch)
        /\ \A k \in 1 .. Len(batch) : Aggregate(batch, fatal, packed).fates[k] =
                                        IF k \in Reached(batch) THEN Sent ELSE "too_many_PDUs"
  <1> DEFINE bad == {k \in Reached(batch) : ~M(batch[k]).ok}
             stops == {k \in Reached(batch) \cap fatal : M(batch[k]).ok}
             announced == PdusUpTo(batch, Max(Reached(batch)))
             none == [k \in DOMAIN batch |-> "undecodable"]
             some == [k \in DOMAIN batch |-> IF k \in Reached(batch) THEN Sent ELSE "too_many_PDUs"]
             pdus == IF stops = {} THEN announced ELSE 0
             aborts == stops # {} \/ (packed /\ announced > MAX_PDU)
  <1>1. Aggregate(batch, fatal, packed) =
          IF \E k \in bad : \A j \in stops : k < j
          THEN [fates |-> none, pdus |-> 0, aborts |-> FALSE]
          ELSE [fates |-> some, pdus |-> pdus, aborts |-> aborts]
    BY DEF Aggregate
  <1> HIDE DEF bad, stops, announced, none, some, pdus, aborts
  <1>2. Aggregate(batch, fatal, packed).fates = none \/ Aggregate(batch, fatal, packed).fates = some
    <2>1. [fates |-> none, pdus |-> 0, aborts |-> FALSE].fates = none
      OBVIOUS
    <2>2. [fates |-> some, pdus |-> pdus, aborts |-> aborts].fates = some
      OBVIOUS
    <2> QED
      BY <1>1, <2>1, <2>2, Zenon
  <1>3. DOMAIN batch = 1 .. Len(batch)
    OBVIOUS
  <1>4. none[c] # "too_many_PDUs"
    BY <1>3 DEF none
  <1>5. Aggregate(batch, fatal, packed).fates = some
    BY <1>2, <1>4, Zenon
  <1>6. \A k \in 1 .. Len(batch) : some[k] = IF k \in Reached(batch) THEN Sent ELSE "too_many_PDUs"
    BY <1>3 DEF some
  <1>7. Sent # "too_many_PDUs"
    BY DEF Sent
  <1>8. c \notin Reached(batch)
    <2>1. some[c] = "too_many_PDUs"
      BY <1>5, Zenon
    <2> QED
      BY <1>6, <1>7, <2>1
  <1> QED
    BY <1>5, <1>6, <1>8, Zenon

(* Only the aggregation leaves a buffer out. *)
LEMMA CutSteps ==
  ASSUME TypeOK, OwnerInv, LabelInv, [Next]_vars, NEW c \in Buffers, fate[c] = "live", fate'[c] = "too_many_PDUs"
  PROVE oai_subframe_aggregate_messages
  <1>1. CASE \E u \in UEs : receive_message_from_ue(u)
    <2>1. PICK u \in UEs : receive_message_from_ue(u)
      BY <1>1
    <2> DEFINE b == <<u, Len(sent[u]) + 1>>
    <2>2. fate[b] = "unsent" /\ (c # b => fate'[c] = fate[c])
      BY <2>1, ReceiveFacts DEF OwnerInv
    <2> HIDE DEF b
    <2> QED
      BY <2>2
  <1>2. CASE GetMessage
    <2> DEFINE b == msgs_from_ue[i][1]
    <2>1. /\ (c # b => fate'[c] = fate[c])
          /\ fate' = fate \/ fate'[b] \in {"invalid", "stale", "too_many_from_ue"}
      BY <1>2, GetFacts DEF Live
    <2> HIDE DEF b
    <2> QED
      BY <2>1
  <1>3. CASE RequeueMessage
    <2>1. /\ (c # msg => fate'[c] = fate[c])
          /\ fate' = fate \/ fate'[msg] = "requeue_failed"
      BY <1>3, RequeueFacts DEF Live
    <2> QED
      BY <2>1
  <1>4. CASE fate' = fate
    BY <1>4
  <1>5. \/ oai_subframe_aggregate_messages
        \/ \E u \in UEs : receive_message_from_ue(u)
        \/ GetMessage \/ RequeueMessage \/ fate' = fate
    BY DEF Next, SubframeTask, start_request, ReceiveThreadEnds, StartSubframe, EmptyQueue, EndSubframe, vars
  <1> QED
    BY <1>1, <1>2, <1>3, <1>4, <1>5

(* Without room for it a message is left out, and never without need. *)
LEMMA CutStep ==
  ASSUME LteIdsKnown, TypeOK, OwnerInv, LabelInv, [Next]_vars, NEW b \in Buffers,
         fate[b] = "live", fate'[b] = "too_many_PDUs"
  PROVE TotalPdus({c \in Buffers : fate[c] = "live" /\ fate'[c] \in {"forwarded", "no_P7"} /\ M(c).id = M(b).id})
          >= MAX_PDU
  <1> DEFINE result == oai_subframe_aggregate_message_id(FoundId, Batch)
             taken == {c \in Buffers : fate[c] = "live" /\ fate'[c] \in {"forwarded", "no_P7"} /\ M(c).id = M(b).id}
             place(c) == CHOOSE k \in DOMAIN Batch : Batch[k] = c
  <1>1. oai_subframe_aggregate_messages
    BY CutSteps
  <1>2. Collected # {} /\ TakeOut(All, Batch, result)
    BY <1>1 DEF oai_subframe_aggregate_messages, AggregateFound, All, Batch
  <1>3. /\ Batch \in Seq(Buffers) /\ DOMAIN Batch = 1 .. Len(Batch) /\ FoundId \in Ids
        /\ SetOf(Batch) = {Batch[k] : k \in 1 .. Len(Batch)}
        /\ \A k \in 1 .. Len(Batch) : M(Batch[k]).pdus \in Nat
    BY <1>2, BatchFacts, BatchMessages DEF SetOf
  <1>4. \A k \in 1 .. Len(Batch) :
          Batch[k] \in Buffers /\ fate[Batch[k]] = "live" /\ M(Batch[k]).id = FoundId
    BY <1>2, BatchFacts, CollectedAreLive DEF OwnerInv
  <1>5. \A j, k \in 1 .. Len(Batch) : Batch[j] = Batch[k] => j = k
    BY <1>2, BatchDistinct
  <1>6. fate' = [c \in Buffers |-> IF c \in SetOf(Batch) THEN result.fates[place(c)]
                                   ELSE IF c \in SetOf(All) THEN "too_many_of_one_id" ELSE fate[c]]
    BY <1>2 DEF TakeOut
  <1>7. \A k \in 1 .. Len(Batch) : place(Batch[k]) = k
    <2>1. SUFFICES ASSUME NEW k \in 1 .. Len(Batch) PROVE place(Batch[k]) = k
      OBVIOUS
    <2>2. place(Batch[k]) \in DOMAIN Batch /\ Batch[place(Batch[k])] = Batch[k]
      BY <1>3, Zenon
    <2> HIDE DEF place
    <2> QED
      BY <1>3, <1>5, <2>2
  <1> HIDE DEF result, place
  <1>8. \A k \in 1 .. Len(Batch) : fate'[Batch[k]] = result.fates[k]
    BY <1>3, <1>4, <1>6, <1>7
  <1>9. \A c \in Buffers : c \notin SetOf(Batch) => fate'[c] \in {"too_many_of_one_id", fate[c]}
    BY <1>6
  <1>10. PICK k \in 1 .. Len(Batch) : b = Batch[k] /\ result.fates[k] = "too_many_PDUs"
    <2>1. b \in SetOf(Batch)
      BY <1>9
    <2> QED
      BY <1>3, <1>8, <2>1
  <1>11. \/ result = oai_subframe_aggregate_rach_ind(Batch)
         \/ \E fatal, packed : result = Aggregate(Batch, fatal, packed)
    <2>1. \/ result = oai_subframe_aggregate_rach_ind(Batch)
          \/ result = oai_subframe_aggregate_crc_ind(Batch)
          \/ result = oai_subframe_aggregate_rx_ind(Batch)
          \/ result = oai_subframe_aggregate_cqi_ind(Batch)
          \/ result = oai_subframe_aggregate_harq_ind(Batch)
          \/ result = oai_subframe_aggregate_sr_ind(Batch)
      BY <1>3 DEF result, oai_subframe_aggregate_message_id, LteIdsKnown
    <2> QED
      BY <2>1, Zenon DEF oai_subframe_aggregate_crc_ind, oai_subframe_aggregate_rx_ind,
         oai_subframe_aggregate_cqi_ind, oai_subframe_aggregate_harq_ind, oai_subframe_aggregate_sr_ind
  <1>12. result # oai_subframe_aggregate_rach_ind(Batch)
    <2>1. oai_subframe_aggregate_rach_ind(Batch).fates[k] # "too_many_PDUs"
      BY <1>3 DEF oai_subframe_aggregate_rach_ind, Sent
    <2> QED
      BY <1>10, <2>1, Zenon
  <1>13. /\ k \notin Reached(Batch)
         /\ \A j \in 1 .. Len(Batch) : result.fates[j] = IF j \in Reached(Batch) THEN Sent ELSE "too_many_PDUs"
    <2>1. PICK fatal, packed : result = Aggregate(Batch, fatal, packed)
      BY <1>11, <1>12
    <2>2. Aggregate(Batch, fatal, packed).fates[k] = "too_many_PDUs"
      BY <1>10, <2>1, Zenon
    <2>3. /\ k \notin Reached(Batch)
          /\ \A j \in 1 .. Len(Batch) : Aggregate(Batch, fatal, packed).fates[j] =
                                          IF j \in Reached(Batch) THEN Sent ELSE "too_many_PDUs"
      BY <1>3, <2>2, LeftOut
    <2> QED
      BY <2>1, <2>3, Zenon
  <1>14. PICK r \in 0 .. Len(Batch) : Reached(Batch) = 1 .. r /\ PdusUpTo(Batch, r) >= MAX_PDU
    BY <1>3, <1>13, NotReached
  <1>15. Sent \in {"forwarded", "no_P7"} /\ "too_many_PDUs" \notin {"forwarded", "no_P7"}
    BY DEF Sent
  <1>16. \A j \in 1 .. r : j \in 1 .. Len(Batch)
    BY <1>3
  <1>17. taken = {Batch[j] : j \in 1 .. r}
    <2>1. ASSUME NEW c \in taken
          PROVE \E j \in 1 .. r : c = Batch[j]
      <3>1. c \in Buffers /\ fate[c] = "live" /\ fate'[c] \in {"forwarded", "no_P7"}
        OBVIOUS
      <3>2. c \in SetOf(Batch)
        BY <1>9, <3>1
      <3>3. PICK j \in 1 .. Len(Batch) : c = Batch[j]
        BY <1>3, <3>2
      <3>4. j \in Reached(Batch)
        BY <1>8, <1>13, <1>15, <3>1, <3>3
      <3> QED
        BY <1>14, <3>3, <3>4
    <2>2. ASSUME NEW j \in 1 .. r
          PROVE Batch[j] \in taken
      <3>1. j \in 1 .. Len(Batch) /\ j \in Reached(Batch)
        BY <1>14, <1>16
      <3>2. fate'[Batch[j]] \in {"forwarded", "no_P7"}
        BY <1>8, <1>13, <1>15, <3>1
      <3>3. M(Batch[j]).id = M(b).id
        BY <1>4, <1>10, <3>1
      <3> QED
        BY <1>4, <3>1, <3>2, <3>3
    <2> HIDE DEF taken
    <2> QED
      BY <2>1, <2>2
  <1> HIDE DEF taken
  <1>18. TotalPdus({Batch[j] : j \in 1 .. r}) = PdusUpTo(Batch, r)
    BY <1>3, <1>5, BatchSum
  <1>19. TotalPdus(taken) = PdusUpTo(Batch, r)
    BY <1>17, <1>18, Zenon
  <1>20. TotalPdus(taken) >= MAX_PDU
    BY <1>14, <1>19
  <1> QED
    BY <1>20, Zenon DEF taken

-----------------------------------------------------------------------------
(* The theorems, for LTE and for NR.                                        *)

UplinkInv == TypeOK /\ OwnerInv /\ LabelInv /\ NoOvertaking /\ BacklogInv

LEMMA InvInit == Init => UplinkInv
  BY TypeInit, OwnerInit, LabelInit, OrderInit, BacklogInit DEF UplinkInv

LEMMA InvStep ==
  ASSUME UplinkInv, [UplinkNext]_vars
  PROVE UplinkInv'
  <1>1. TypeOK /\ OwnerInv /\ LabelInv /\ NoOvertaking /\ BacklogInv
    BY DEF UplinkInv
  <1>2. TypeOK' /\ OwnerInv'
    BY <1>1, TypeStep, OwnerStep
  <1> QED
    BY <1>1, <1>2, LabelStep, OrderStep, BacklogStep DEF UplinkInv

LEMMA InvConsequences ==
  ASSUME UplinkInv
  PROVE OneOwner /\ OneLabelPerSubframe /\ NoSleepOnBacklog
  <1>1. TypeOK /\ OwnerInv /\ LabelInv /\ BacklogInv
    BY DEF UplinkInv
  <1>2. OneLabelPerSubframe
    BY <1>1 DEF LabelInv, CollectedLabels, SentLabels, OneLabelPerSubframe, RightLabel, SetOf
  <1>3. NoSleepOnBacklog
    BY <1>1 DEF BacklogInv, Left, NoSleepOnBacklog, SetOf
  <1> QED
    BY <1>1, <1>2, <1>3, OwnerCounts

(* The inductive invariant holds of the LTE uplink: receive threads, start  *)
(* request and subframe task in any interleaving.                           *)
THEOREM SubframeInv ==
  ASSUME LteIdsKnown
  PROVE Spec => []UplinkInv
  <1>1. UplinkInv /\ [Next]_vars => UplinkInv'
    <2>1. SUFFICES ASSUME UplinkInv, [Next]_vars PROVE UplinkInv'
      OBVIOUS
    <2>2. TypeOK /\ OwnerInv /\ LabelInv
      BY <2>1 DEF UplinkInv
    <2>3. [UplinkNext]_vars
      BY <2>1, <2>2, LteSteps
    <2> QED
      BY <2>1, <2>3, InvStep
  <1> QED
    BY <1>1, InvInit, PTL DEF Spec

(* And of the NR uplink with the slot task. *)
THEOREM SlotInv ==
  ASSUME NrIdsKnown
  PROVE SlotSpec => []UplinkInv
  <1>1. UplinkInv /\ [SlotNext]_vars => UplinkInv'
    <2>1. SUFFICES ASSUME UplinkInv, [SlotNext]_vars PROVE UplinkInv'
      OBVIOUS
    <2>2. TypeOK /\ OwnerInv /\ LabelInv
      BY <2>1 DEF UplinkInv
    <2>3. [UplinkNext]_vars
      BY <2>1, <2>2, NrSteps
    <2> QED
      BY <2>1, <2>3, InvStep
  <1> QED
    BY <1>1, InvInit, PTL DEF SlotSpec

(* No queue of msgs_from_ue and no msgs array of subframe_msgs_t is ever    *)
(* written beyond its end, and every buffer has one of the known fates.     *)
THEOREM SubframeType ==
  ASSUME LteIdsKnown
  PROVE Spec => []TypeOK
  <1>1. UplinkInv => TypeOK
    BY DEF UplinkInv
  <1> QED
    BY <1>1, SubframeInv, PTL

THEOREM SlotType ==
  ASSUME NrIdsKnown
  PROVE SlotSpec => []TypeOK
  <1>1. UplinkInv => TypeOK
    BY DEF UplinkInv
  <1> QED
    BY <1>1, SlotInv, PTL

(* Each message buffer that has been queued and not freed is in one place:  *)
(* its UE's queue, the task's hand or the collection; a freed one is in     *)
(* none.  So dequeue_ue_msgs and the aggregation neither lose a buffer nor  *)
(* free or read one twice, whatever arrives meanwhile.                      *)
THEOREM SubframeBuffersHaveOneOwner ==
  ASSUME LteIdsKnown
  PROVE Spec => []OneOwner
  <1>1. UplinkInv => OneOwner
    BY InvConsequences
  <1> QED
    BY <1>1, SubframeInv, PTL

THEOREM SlotBuffersHaveOneOwner ==
  ASSUME NrIdsKnown
  PROVE SlotSpec => []OneOwner
  <1>1. UplinkInv => OneOwner
    BY InvConsequences
  <1> QED
    BY <1>1, SlotInv, PTL

(* All that dequeue_ue_msgs collects in one subframe has one sfn_sf, and    *)
(* each PDU reaches the eNB under the sfn_sf of its own message.            *)
THEOREM SubframesDoNotMix ==
  ASSUME LteIdsKnown
  PROVE Spec => []OneLabelPerSubframe
  <1>1. UplinkInv => OneLabelPerSubframe
    BY InvConsequences
  <1> QED
    BY <1>1, SubframeInv, PTL

THEOREM SlotsDoNotMix ==
  ASSUME NrIdsKnown
  PROVE SlotSpec => []OneLabelPerSubframe
  <1>1. UplinkInv => OneLabelPerSubframe
    BY InvConsequences
  <1> QED
    BY <1>1, SlotInv, PTL

(* The eNB sees the messages of one id of one UE in the order sent, across  *)
(* put-backs with requeue, full queues and concurrent arrivals.             *)
THEOREM SubframeMessagesKeepTheirOrder ==
  ASSUME LteIdsKnown
  PROVE Spec => []NoOvertaking
  <1>1. UplinkInv => NoOvertaking
    BY DEF UplinkInv
  <1> QED
    BY <1>1, SubframeInv, PTL

THEOREM SlotMessagesKeepTheirOrder ==
  ASSUME NrIdsKnown
  PROVE SlotSpec => []NoOvertaking
  <1>1. UplinkInv => NoOvertaking
    BY DEF UplinkInv
  <1> QED
    BY <1>1, SlotInv, PTL

(* The task goes to sleep only when it has emptied every queue of what was  *)
(* there when the subframe began: the are_queues_empty flag is never wrong  *)
(* on the side that would delay a message.                                  *)
THEOREM SubframeTaskCatchesUp ==
  ASSUME LteIdsKnown
  PROVE Spec => []NoSleepOnBacklog
  <1>1. UplinkInv => NoSleepOnBacklog
    BY InvConsequences
  <1> QED
    BY <1>1, SubframeInv, PTL

THEOREM SlotTaskCatchesUp ==
  ASSUME NrIdsKnown
  PROVE SlotSpec => []NoSleepOnBacklog
  <1>1. UplinkInv => NoSleepOnBacklog
    BY InvConsequences
  <1> QED
    BY <1>1, SlotInv, PTL

(* get_sf_delta, a plain difference of two wrapped numbers, discards only   *)
(* messages that are older than the limit, except labels of the next round. *)
THEOREM SubframeStaleIsOld ==
  ASSUME LteIdsKnown
  PROVE Spec => OnlyOldIsStale
  <1> DEFINE A == \A b \in Buffers : fate[b] = "live" /\ fate'[b] = "stale" =>
                    \/ tick - M(b).tick > STALE
                    \/ M(b).tick > tick /\ M(b).tick \div PERIOD # tick \div PERIOD
  <1>1. UplinkInv /\ [Next]_vars => [A]_vars
    <2>1. SUFFICES ASSUME UplinkInv, [Next]_vars PROVE A
      OBVIOUS
    <2>2. TypeOK /\ OwnerInv /\ LabelInv
      BY <2>1 DEF UplinkInv
    <2>3. [UplinkNext]_vars
      BY <2>1, <2>2, LteSteps
    <2> QED
      BY <2>2, <2>3, StaleStep
  <1>2. OnlyOldIsStale <=> [][A]_vars
    BY DEF OnlyOldIsStale
  <1> HIDE DEF A
  <1> QED
    BY <1>1, <1>2, SubframeInv, PTL DEF Spec

(* A message is left out of an LTE aggregate only if the messages of its id *)
(* that went in fill the list of NFAPI_*_IND_MAX_PDU entries, for every     *)
(* mixture of bodies: Reached and the sum over the buffers taken agree.     *)
THEOREM SubframeCutsOnlyWhenFull ==
  ASSUME LteIdsKnown
  PROVE Spec => CutOnlyWhenFull
  <1> DEFINE A == \A b \in Buffers : fate[b] = "live" /\ fate'[b] = "too_many_PDUs" =>
                    TotalPdus({c \in Buffers : /\ fate[c] = "live"
                                               /\ fate'[c] \in {"forwarded", "no_P7"}
                                               /\ M(c).id = M(b).id}) >= MAX_PDU
  <1>1. UplinkInv /\ [Next]_vars => [A]_vars
    <2>1. SUFFICES ASSUME UplinkInv, [Next]_vars PROVE A
      OBVIOUS
    <2>2. TypeOK /\ OwnerInv /\ LabelInv
      BY <2>1 DEF UplinkInv
    <2> QED
      BY <2>1, <2>2, CutStep
  <1>2. CutOnlyWhenFull <=> [][A]_vars
    BY DEF CutOnlyWhenFull, TotalPdus
  <1> HIDE DEF A
  <1> QED
    BY <1>1, <1>2, SubframeInv, PTL DEF Spec

THEOREM SlotStaleIsOld ==
  ASSUME NrIdsKnown
  PROVE SlotSpec => OnlyOldIsStale
  <1> DEFINE A == \A b \in Buffers : fate[b] = "live" /\ fate'[b] = "stale" =>
                    \/ tick - M(b).tick > STALE
                    \/ M(b).tick > tick /\ M(b).tick \div PERIOD # tick \div PERIOD
  <1>1. UplinkInv /\ [SlotNext]_vars => [A]_vars
    <2>1. SUFFICES ASSUME UplinkInv, [SlotNext]_vars PROVE A
      OBVIOUS
    <2>2. TypeOK /\ OwnerInv /\ LabelInv
      BY <2>1 DEF UplinkInv
    <2>3. [UplinkNext]_vars
      BY <2>1, <2>2, NrSteps
    <2> QED
      BY <2>2, <2>3, StaleStep
  <1>2. OnlyOldIsStale <=> [][A]_vars
    BY DEF OnlyOldIsStale
  <1> HIDE DEF A
  <1> QED
    BY <1>1, <1>2, SlotInv, PTL DEF SlotSpec

(* The slot task aborts only over an RX_DATA or UCI message without PDUs or *)
(* a UCI message whose first PDU is of no known type: no other message, in  *)
(* no order and number, ends the process.                                   *)
THEOREM SlotAbortsOnlyOnEmptyOrUntyped ==
  ASSUME NrIdsKnown
  PROVE SlotSpec => []AbortsOnlyOnEmptyOrUntyped
  <1>1. Init => AbortsOnlyOnEmptyOrUntyped
    BY DEF Init, AbortsOnlyOnEmptyOrUntyped
  <1>2. UplinkInv /\ AbortsOnlyOnEmptyOrUntyped /\ [SlotNext]_vars => AbortsOnlyOnEmptyOrUntyped'
    BY AbortStep DEF UplinkInv
  <1> QED
    BY <1>1, <1>2, SlotInv, PTL DEF SlotSpec

=============================================================================
