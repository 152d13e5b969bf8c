------------------------ MODULE DataAlgorithms_proofs ------------------------
(***************************************************************************)
(* Proofs about the algorithms without state, each for every input it can  *)
(* be given, and from these that the inputs of MCServices are handled as   *)
(* AlgorithmsAgree says.                                                   *)
(*                                                                         *)
(* Sums, recursions and extremes are functions and choices here, whose     *)
(* existence is proved with the principle of the least number.             *)
(***************************************************************************)
EXTENDS MCServices, FiniteSetTheorems, NaturalsInduction, WellFoundedInduction,
        SequenceTheorems, TLAPS

(* The principle of the least number, in place of an induction.            *)
LEMMA LeastNumber ==
  ASSUME NEW T \in SUBSET Nat, T # {}
  PROVE  \E x \in T : \A y \in T : x <= y
  <1> DEFINE R == OpToRel(<, Nat)
  <1>1. IsWellFoundedOn(R, Nat)
    BY NatLessThanWellFounded
  <1>2. \A x, y \in Nat : y < x => <<y, x>> \in R
    BY DEF OpToRel
  <1> HIDE DEF R
  <1>3. PICK x \in T : \A y \in T : <<y, x>> \notin R
    BY <1>1, WFMin
  <1>4. \A y \in T : x \in Nat /\ y \in Nat /\ ~(y < x)
    BY <1>2, <1>3
  <1> QED BY <1>3, <1>4

Some(s) == CHOOSE x \in s : TRUE

LEMMA OneLess ==
  ASSUME NEW S, IsFiniteSet(S), NEW s \in SUBSET S, s # {}
  PROVE  /\ Some(s) \in s /\ IsFiniteSet(s) /\ Cardinality(s) \in Nat \ {0}
         /\ s \ {Some(s)} \in SUBSET S /\ Cardinality(s \ {Some(s)}) = Cardinality(s) - 1
  <1>1. Some(s) \in s
    BY DEF Some
  <1>2. IsFiniteSet(s)
    BY FS_Subset
  <1>3. Cardinality(s) \in Nat /\ Cardinality(s) # 0
    BY <1>2, FS_CardinalityType, FS_EmptySet
  <1>4. Cardinality(s \ {Some(s)}) = Cardinality(s) - 1
    BY <1>1, <1>2, FS_RemoveElement
  <1> QED BY <1>1, <1>2, <1>3, <1>4

LEMMA DivMod ==
  ASSUME NEW r \in Nat, NEW n \in Nat \ {0}
  PROVE  r = n * (r \div n) + (r % n) /\ r % n \in 0..(n - 1) /\ r \div n \in Nat
  OBVIOUS

(***************************************************************************)
(* Sums.  A sum is a recursive function over the subsets of the domain.    *)
(* That there is one, and what it adds up to, follows from the principle   *)
(* of the least number: what holds of no elements, and of some elements if *)
(* it holds of all but one of them, holds of all.                          *)
(***************************************************************************)
Totals(f, D, g) == g = [s \in D |-> IF s = {} THEN 0 ELSE f[Some(s)] + g[s \ {Some(s)}]]
Small(S, n) == {s \in SUBSET S : Cardinality(s) <= n}

LEMMA FromTheEmptySet ==
  ASSUME NEW S, IsFiniteSet(S), NEW Good, {} \in Good,
         \A s \in SUBSET S : s # {} /\ s \ {Some(s)} \in Good => s \in Good
  PROVE  S \in Good
  <1> DEFINE T == {Cardinality(s) : s \in {s \in SUBSET S : s \notin Good}}
  <1>1. ASSUME T # {} PROVE FALSE
    <2>1. T \in SUBSET Nat
      BY FS_Subset, FS_CardinalityType
    <2>2. PICK x \in T : \A y \in T : x <= y
      <3> HIDE DEF T
      <3> QED BY <1>1, <2>1, LeastNumber
    <2>3. PICK s \in SUBSET S : s \notin Good /\ x = Cardinality(s)
      OBVIOUS
    <2>4. s # {} /\ s \ {Some(s)} \notin Good
      BY <2>3
    <2>5. /\ Cardinality(s) \in Nat \ {0} /\ s \ {Some(s)} \in SUBSET S
          /\ Cardinality(s \ {Some(s)}) = Cardinality(s) - 1
      BY <2>4, OneLess
    <2>6. Cardinality(s) - 1 \in T
      BY <2>4, <2>5
    <2>7. x <= x - 1 /\ x \in Nat
      <3> HIDE DEF T
      <3> QED BY <2>1, <2>2, <2>3, <2>6
    <2> QED BY <2>7
  <1> QED BY <1>1

LEMMA TotalsThere ==
  ASSUME NEW f, NEW S, IsFiniteSet(S)
  PROVE  \E g : Totals(f, SUBSET S, g)
  <1> DEFINE T == {n \in Nat : ~\E g : Totals(f, Small(S, n), g)}
  <1>1. ASSUME T # {} PROVE FALSE
    <2>1. PICK x \in T : \A y \in T : x <= y
      <3>1. T \in SUBSET Nat
        OBVIOUS
      <3> HIDE DEF T
      <3> QED BY <1>1, <3>1, LeastNumber
    <2>2. x \in Nat /\ ~\E g : Totals(f, Small(S, x), g)
      OBVIOUS
    <2>3. CASE x = 0
      <3>1. ASSUME NEW s \in Small(S, 0), s # {} PROVE FALSE
        <4>1. s \in SUBSET S /\ Cardinality(s) <= 0
          BY DEF Small
        <4>2. Cardinality(s) \in Nat \ {0}
          BY <3>1, <4>1, OneLess
        <4> QED BY <4>1, <4>2
      <3>2. Totals(f, Small(S, 0), [s \in Small(S, 0) |-> 0])
        BY <3>1 DEF Totals
      <3> QED BY <2>2, <2>3, <3>2
    <2>4. CASE x # 0
      <3>1. x - 1 \in Nat /\ x - 1 \notin T
        BY <2>1, <2>2, <2>4
      <3>2. PICK g : Totals(f, Small(S, x - 1), g)
        BY <3>1
      <3> DEFINE more(s) == IF s = {} THEN 0 ELSE f[Some(s)] + g[s \ {Some(s)}]
                 h == [s \in Small(S, x) |-> more(s)]
      <3>3. \A s \in Small(S, x - 1) : g[s] = more(s) /\ s \in Small(S, x)
        <4>1. \A s \in Small(S, x - 1) : g[s] = more(s)
          BY <3>2 DEF Totals
        <4>2. \A s \in Small(S, x - 1) : s \in Small(S, x)
          BY <2>2, FS_Subset, FS_CardinalityType DEF Small
        <4> QED BY <4>1, <4>2
      <3>4. \A s \in Small(S, x) : s # {} => s \ {Some(s)} \in Small(S, x - 1)
        BY <2>2, OneLess DEF Small
      <3> HIDE DEF more
      <3>5. \A s \in Small(S, x) : s # {} => h[s \ {Some(s)}] = g[s \ {Some(s)}]
        BY <3>3, <3>4
      <3>6. \A s \in Small(S, x) :
              more(s) = IF s = {} THEN 0 ELSE f[Some(s)] + h[s \ {Some(s)}]
        BY <3>5 DEF more
      <3>7. Totals(f, Small(S, x), h)
        BY <3>6 DEF Totals
      <3> QED BY <2>2, <3>7
    <2> QED BY <2>3, <2>4
  <1>2. Cardinality(S) \in Nat /\ Cardinality(S) \notin T
    BY <1>1, FS_CardinalityType
  <1>3. Small(S, Cardinality(S)) = SUBSET S
    BY FS_Subset DEF Small
  <1> QED BY <1>2, <1>3

(* A function whose values can be added.                                   *)
Addable(f) == IsFiniteSet(DOMAIN f) /\ \A i \in DOMAIN f : f[i] \in Int

(* What g knows of the sums over parts of f's domain.                      *)
Adds(f, g) ==
  \A s \in SUBSET DOMAIN f :
    /\ s = {} => g[s] = 0
    /\ s # {} => /\ Some(s) \in s /\ f[Some(s)] \in Int
                 /\ g[s] = f[Some(s)] + g[s \ {Some(s)}]

LEMMA SumIs ==
  ASSUME NEW f, Addable(f)
  PROVE  \E g : Adds(f, g) /\ Algorithms!Sum(f) = g[DOMAIN f]
  <1>1. Algorithms!Sum(f) = (CHOOSE g : Totals(f, SUBSET DOMAIN f, g))[DOMAIN f]
    BY DEF Algorithms!Sum, Algorithms!MapThenSumSet, Algorithms!MapThenFoldSet,
           Totals, Some
  <1>2. PICK g : g = (CHOOSE h : Totals(f, SUBSET DOMAIN f, h))
    OBVIOUS
  <1>3. Totals(f, SUBSET DOMAIN f, g)
    BY <1>2, TotalsThere DEF Addable
  <1>4. ASSUME NEW s \in SUBSET DOMAIN f
        PROVE  /\ s = {} => g[s] = 0
               /\ s # {} => /\ Some(s) \in s /\ f[Some(s)] \in Int
                            /\ g[s] = f[Some(s)] + g[s \ {Some(s)}]
    <2>1. g[s] = IF s = {} THEN 0 ELSE f[Some(s)] + g[s \ {Some(s)}]
      BY <1>3 DEF Totals
    <2>2. s # {} => Some(s) \in s
      BY DEF Some
    <2> QED BY <2>1, <2>2 DEF Addable
  <1> QED BY <1>1, <1>2, <1>4 DEF Adds

(* A sum of numbers between lo and hi is between as many times lo and hi.  *)
LEMMA SumBetween ==
  ASSUME NEW f, Addable(f), NEW lo \in Int, NEW hi \in Int,
         \A i \in DOMAIN f : lo <= f[i] /\ f[i] <= hi
  PROVE  /\ Algorithms!Sum(f) \in Int
         /\ lo * Cardinality(DOMAIN f) <= Algorithms!Sum(f)
         /\ Algorithms!Sum(f) <= hi * Cardinality(DOMAIN f)
  <1>1. PICK g : Adds(f, g) /\ Algorithms!Sum(f) = g[DOMAIN f]
    BY SumIs
  <1> DEFINE Good == {s \in SUBSET DOMAIN f :
                        /\ g[s] \in Int
                        /\ lo * Cardinality(s) <= g[s] /\ g[s] <= hi * Cardinality(s)}
  <1>2. {} \in Good
    <2>1. g[{}] = 0
      BY <1>1 DEF Adds
    <2> QED BY <2>1, FS_EmptySet
  <1>3. ASSUME NEW s \in SUBSET DOMAIN f, s # {}, s \ {Some(s)} \in Good
        PROVE  s \in Good
    <2>1. PICK n \in Nat, x \in Int, t \in Int :
            /\ Cardinality(s) = n + 1 /\ Cardinality(s \ {Some(s)}) = n
            /\ x = f[Some(s)] /\ t = g[s \ {Some(s)}] /\ g[s] = x + t
      <3>1. /\ Cardinality(s) \in Nat \ {0}
            /\ Cardinality(s \ {Some(s)}) = Cardinality(s) - 1
        BY <1>3, OneLess DEF Addable
      <3>2. /\ Cardinality(s) - 1 \in Nat /\ Cardinality(s) = (Cardinality(s) - 1) + 1
        BY <3>1
      <3> QED BY <1>1, <1>3, <3>1, <3>2 DEF Adds
    <2>2. lo <= x /\ x <= hi
      BY <1>1, <1>3, <2>1 DEF Adds
    <2>3. lo * n <= t /\ t <= hi * n
      BY <1>3, <2>1
    <2>4. lo * (n + 1) <= x + t /\ x + t <= hi * (n + 1)
      BY <2>2, <2>3
    <2> QED BY <2>1, <2>4
  <1>4. IsFiniteSet(DOMAIN f)
    BY DEF Addable
  <1>5. DOMAIN f \in Good
    <2> HIDE DEF Good
    <2> QED BY <1>2, <1>3, <1>4, FromTheEmptySet
  <1> QED BY <1>1, <1>5

LEMMA SumIsInt ==
  ASSUME NEW f, Addable(f)
  PROVE  Algorithms!Sum(f) \in Int
  <1>1. PICK g : Adds(f, g) /\ Algorithms!Sum(f) = g[DOMAIN f]
    BY SumIs
  <1> DEFINE Good == {s \in SUBSET DOMAIN f : g[s] \in Int}
  <1>2. {} \in Good
    <2>1. g[{}] = 0
      BY <1>1 DEF Adds
    <2> QED BY <2>1
  <1>3. ASSUME NEW s \in SUBSET DOMAIN f, s # {}, s \ {Some(s)} \in Good
        PROVE  s \in Good
    BY <1>1, <1>3 DEF Adds
  <1>4. IsFiniteSet(DOMAIN f)
    BY DEF Addable
  <1>5. DOMAIN f \in Good
    <2> HIDE DEF Good
    <2> QED BY <1>2, <1>3, <1>4, FromTheEmptySet
  <1> QED BY <1>1, <1>5

(* Sums are linear.                                                        *)
LEMMA SumIsLinear ==
  ASSUME NEW f, Addable(f), NEW h, Addable(h), DOMAIN h = DOMAIN f,
         NEW a \in Int, NEW b \in Int,
         NEW m, DOMAIN m = DOMAIN f, \A i \in DOMAIN f : m[i] = a * f[i] + b * h[i]
  PROVE  /\ Addable(m)
         /\ Algorithms!Sum(m) = a * Algorithms!Sum(f) + b * Algorithms!Sum(h)
  <1>1. Addable(m)
    BY DEF Addable
  <1>3. PICK g : Adds(f, g) /\ Algorithms!Sum(f) = g[DOMAIN f]
    BY SumIs
  <1>4. PICK k : Adds(h, k) /\ Algorithms!Sum(h) = k[DOMAIN h]
    BY SumIs
  <1>5. PICK l : Adds(m, l) /\ Algorithms!Sum(m) = l[DOMAIN m]
    BY <1>1, SumIs
  <1> DEFINE Good == {s \in SUBSET DOMAIN f :
                        g[s] \in Int /\ k[s] \in Int /\ l[s] = a * g[s] + b * k[s]}
  <1>6. {} \in Good
    <2>1. g[{}] = 0 /\ k[{}] = 0 /\ l[{}] = 0
      BY <1>1, <1>3, <1>4, <1>5 DEF Adds
    <2> QED BY <2>1
  <1>7. ASSUME NEW s \in SUBSET DOMAIN f, s # {}, s \ {Some(s)} \in Good
        PROVE  s \in Good
    <2> DEFINE i == Some(s)
               t == s \ {i}
    <2>1. i \in DOMAIN f /\ f[i] \in Int /\ g[s] = f[i] + g[t]
      BY <1>3, <1>7 DEF Adds
    <2>2. h[i] \in Int /\ k[s] = h[i] + k[t]
      BY <1>4, <1>7 DEF Adds
    <2>3. l[s] = m[i] + l[t]
      BY <1>1, <1>5, <1>7 DEF Adds
    <2>4. g[t] \in Int /\ k[t] \in Int /\ l[t] = a * g[t] + b * k[t]
      BY <1>7
    <2>5. m[i] = a * f[i] + b * h[i]
      BY <2>1
    <2> HIDE DEF i, t
    <2>6. PICK fi \in Int, hi \in Int, gt \in Int, kt \in Int :
            fi = f[i] /\ hi = h[i] /\ gt = g[t] /\ kt = k[t]
      BY <2>1, <2>2, <2>4
    <2>7. (a * fi + b * hi) + (a * gt + b * kt) = a * (fi + gt) + b * (hi + kt)
      OBVIOUS
    <2> QED BY <2>1, <2>2, <2>3, <2>4, <2>5, <2>6, <2>7
  <1>8. IsFiniteSet(DOMAIN f)
    BY DEF Addable
  <1>9. DOMAIN f \in Good
    <2> HIDE DEF Good
    <2> QED BY <1>6, <1>7, <1>8, FromTheEmptySet
  <1> QED BY <1>1, <1>3, <1>4, <1>5, <1>9

LEMMA SumOfTwo ==
  ASSUME NEW f, Addable(f), NEW h, Addable(h), DOMAIN h = DOMAIN f,
         NEW m, DOMAIN m = DOMAIN f, \A i \in DOMAIN f : m[i] = f[i] + h[i]
  PROVE  Addable(m) /\ Algorithms!Sum(m) = Algorithms!Sum(f) + Algorithms!Sum(h)
  <1>1. \A i \in DOMAIN f : m[i] = 1 * f[i] + 1 * h[i]
    BY DEF Addable
  <1>2. \A a \in Int, b \in Int :
          (\A i \in DOMAIN f : m[i] = a * f[i] + b * h[i])
            => Addable(m) /\ Algorithms!Sum(m) = a * Algorithms!Sum(f) + b * Algorithms!Sum(h)
    BY SumIsLinear
  <1>3. Addable(m) /\ Algorithms!Sum(m) = 1 * Algorithms!Sum(f) + 1 * Algorithms!Sum(h)
    BY <1>1, <1>2, 1 \in Int
  <1>4. Algorithms!Sum(f) \in Int /\ Algorithms!Sum(h) \in Int
    BY SumIsInt
  <1> QED BY <1>3, <1>4

LEMMA SumTimes ==
  ASSUME NEW f, Addable(f), NEW c \in Int,
         NEW m, DOMAIN m = DOMAIN f, \A i \in DOMAIN f : m[i] = c * f[i]
  PROVE  Addable(m) /\ Algorithms!Sum(m) = c * Algorithms!Sum(f)
  <1>1. \A i \in DOMAIN f : m[i] = c * f[i] + 0 * f[i]
    BY DEF Addable
  <1>2. \A a \in Int, b \in Int :
          (\A i \in DOMAIN f : m[i] = a * f[i] + b * f[i])
            => Addable(m) /\ Algorithms!Sum(m) = a * Algorithms!Sum(f) + b * Algorithms!Sum(f)
    BY SumIsLinear
  <1>3. Addable(m) /\ Algorithms!Sum(m) = c * Algorithms!Sum(f) + 0 * Algorithms!Sum(f)
    BY <1>1, <1>2, 0 \in Int
  <1>4. Algorithms!Sum(f) \in Int
    BY SumIsInt
  <1> QED BY <1>3, <1>4

LEMMA SumIsOrdered ==
  ASSUME NEW f, Addable(f), NEW h, Addable(h), DOMAIN h = DOMAIN f,
         \A i \in DOMAIN f : f[i] <= h[i]
  PROVE  Algorithms!Sum(f) <= Algorithms!Sum(h)
  <1>1. PICK g : Adds(f, g) /\ Algorithms!Sum(f) = g[DOMAIN f]
    BY SumIs
  <1>2. PICK k : Adds(h, k) /\ Algorithms!Sum(h) = k[DOMAIN h]
    BY SumIs
  <1> DEFINE Good == {s \in SUBSET DOMAIN f : g[s] \in Int /\ k[s] \in Int /\ g[s] <= k[s]}
  <1>3. {} \in Good
    <2>1. g[{}] = 0 /\ k[{}] = 0
      BY <1>1, <1>2 DEF Adds
    <2> QED BY <2>1
  <1>4. ASSUME NEW s \in SUBSET DOMAIN f, s # {}, s \ {Some(s)} \in Good
        PROVE  s \in Good
    <2> DEFINE i == Some(s)
               t == s \ {i}
    <2>1. i \in DOMAIN f /\ f[i] \in Int /\ g[s] = f[i] + g[t]
      BY <1>1, <1>4 DEF Adds
    <2>2. h[i] \in Int /\ k[s] = h[i] + k[t]
      BY <1>2, <1>4 DEF Adds
    <2>3. g[t] \in Int /\ k[t] \in Int /\ g[t] <= k[t]
      BY <1>4
    <2> HIDE DEF i, t
    <2> QED BY <2>1, <2>2, <2>3
  <1>5. IsFiniteSet(DOMAIN f)
    BY DEF Addable
  <1>6. DOMAIN f \in Good
    <2> HIDE DEF Good
    <2> QED BY <1>3, <1>4, <1>5, FromTheEmptySet
  <1> QED BY <1>1, <1>2, <1>6

LEMMA SumHasEach ==
  ASSUME NEW f, Addable(f), \A i \in DOMAIN f : f[i] >= 0
  PROVE  Algorithms!Sum(f) \in Nat /\ \A i \in DOMAIN f : f[i] <= Algorithms!Sum(f)
  <1>1. PICK g : Adds(f, g) /\ Algorithms!Sum(f) = g[DOMAIN f]
    BY SumIs
  <1> DEFINE Good == {s \in SUBSET DOMAIN f : g[s] \in Nat /\ \A i \in s : f[i] <= g[s]}
  <1>2. {} \in Good
    <2>1. g[{}] = 0
      BY <1>1 DEF Adds
    <2> QED BY <2>1
  <1>3. ASSUME NEW s \in SUBSET DOMAIN f, s # {}, s \ {Some(s)} \in Good
        PROVE  s \in Good
    <2> DEFINE t == s \ {Some(s)}
    <2>1. /\ Some(s) \in DOMAIN f /\ f[Some(s)] \in Int /\ f[Some(s)] >= 0
          /\ g[s] = f[Some(s)] + g[t]
      BY <1>1, <1>3 DEF Adds
    <2>2. g[t] \in Nat /\ \A i \in t : f[i] <= g[t]
      BY <1>3
    <2>3. g[s] \in Nat /\ f[Some(s)] <= g[s] /\ g[t] <= g[s]
      BY <2>1, <2>2
    <2>4. \A i \in s : f[i] \in Int
      BY DEF Addable
    <2>5. \A i \in s : f[i] <= g[s]
      BY <2>2, <2>3, <2>4
    <2> QED BY <2>3, <2>5
  <1>4. IsFiniteSet(DOMAIN f)
    BY DEF Addable
  <1>5. DOMAIN f \in Good
    <2> HIDE DEF Good
    <2> QED BY <1>2, <1>3, <1>4, FromTheEmptySet
  <1> QED BY <1>1, <1>5

(* A sum of ones counts.                                                   *)
LEMMA SumCounts ==
  ASSUME NEW D, IsFiniteSet(D), NEW E \in SUBSET D
  PROVE  Algorithms!Sum([i \in D |-> IF i \in E THEN 1 ELSE 0]) = Cardinality(E)
  <1> DEFINE f == [i \in D |-> IF i \in E THEN 1 ELSE 0]
  <1>1. Addable(f) /\ DOMAIN f = D
    BY DEF Addable
  <1>2. \A i \in D : f[i] = IF i \in E THEN 1 ELSE 0
    OBVIOUS
  <1> HIDE DEF f
  <1>3. PICK g : Adds(f, g) /\ Algorithms!Sum(f) = g[DOMAIN f]
    BY <1>1, SumIs
  <1> DEFINE Good == {s \in SUBSET D : g[s] = Cardinality(s \cap E)}
  <1>4. {} \in Good
    <2>1. g[{}] = 0
      BY <1>3 DEF Adds
    <2>2. {} \cap E = {}
      OBVIOUS
    <2> QED BY <2>1, <2>2, FS_EmptySet
  <1>5. ASSUME NEW s \in SUBSET D, s # {}, s \ {Some(s)} \in Good
        PROVE  s \in Good
    <2> DEFINE i == Some(s)
               t == s \ {i}
    <2>1. i \in s /\ g[s] = f[i] + g[t]
      BY <1>1, <1>3, <1>5 DEF Adds
    <2>2. g[t] = Cardinality(t \cap E)
      BY <1>5
    <2>3. IsFiniteSet(s \cap E) /\ IsFiniteSet(t \cap E)
      BY FS_Subset
    <2>4. Cardinality(s \cap E) \in Nat /\ Cardinality(t \cap E) \in Nat
      BY <2>3, FS_CardinalityType
    <2>5. CASE i \in E
      <3>1. t \cap E = (s \cap E) \ {i} /\ i \in s \cap E
        BY <2>1, <2>5
      <3>2. Cardinality(t \cap E) = Cardinality(s \cap E) - 1
        BY <2>3, <3>1, FS_RemoveElement
      <3>3. f[i] = 1
        BY <1>2, <2>1, <2>5
      <3> HIDE DEF i, t
      <3> QED BY <2>1, <2>2, <2>4, <3>2, <3>3
    <2>6. CASE i \notin E
      <3>1. t \cap E = s \cap E
        BY <2>6
      <3>2. f[i] = 0
        BY <1>2, <2>1, <2>6
      <3>3. Cardinality(t \cap E) = Cardinality(s \cap E)
        BY <3>1
      <3> HIDE DEF i, t
      <3> QED BY <2>1, <2>2, <2>4, <3>2, <3>3
    <2> QED BY <2>5, <2>6
  <1>6. D \in Good
    <2> HIDE DEF Good
    <2> QED BY <1>4, <1>5, FromTheEmptySet
  <1>7. D \cap E = E
    OBVIOUS
  <1>8. Algorithms!Sum(f) = Cardinality(E)
    BY <1>1, <1>3, <1>6, <1>7
  <1> QED BY <1>8 DEF f

(* The least and the greatest of a finite set of numbers.                  *)
LEMMA LeastOf ==
  ASSUME NEW S, IsFiniteSet(S), S # {}, \A x \in S : x \in Int
  PROVE  Algorithms!Min(S) \in S /\ \A x \in S : Algorithms!Min(S) <= x
  <1> DEFINE Good == {s \in SUBSET S : s # {} => \E x \in s : \A y \in s : x <= y}
  <1>1. {} \in Good
    OBVIOUS
  <1>2. ASSUME NEW s \in SUBSET S, s # {}, s \ {Some(s)} \in Good
        PROVE  s \in Good
    <2>1. Some(s) \in s
      BY <1>2, OneLess
    <2>2. CASE s \ {Some(s)} = {}
      <3>1. \A y \in s : y = Some(s)
        BY <2>2
      <3>2. \A y \in s : Some(s) <= y
        BY <2>1, <3>1
      <3> QED BY <2>1, <3>2
    <2>3. CASE s \ {Some(s)} # {}
      <3>1. PICK x \in s \ {Some(s)} : \A y \in s \ {Some(s)} : x <= y
        BY <1>2, <2>3
      <3>2. \A y \in s : y = Some(s) \/ x <= y
        BY <3>1
      <3>3. \A y \in s : y \in Int
        OBVIOUS
      <3>4. CASE x <= Some(s)
        <4>1. \A y \in s : x <= y
          BY <3>2, <3>4
        <4> QED BY <3>1, <4>1
      <3>5. CASE ~(x <= Some(s))
        <4>1. \A y \in s : Some(s) <= y
          BY <2>1, <3>2, <3>3, <3>5
        <4> QED BY <2>1, <4>1
      <3> QED BY <3>4, <3>5
    <2> QED BY <2>2, <2>3
  <1>3. S \in Good
    <2> HIDE DEF Good
    <2> QED BY <1>1, <1>2, FromTheEmptySet
  <1>4. \E x \in S : \A y \in S : x <= y
    BY <1>3
  <1> QED BY <1>4 DEF Algorithms!Min

LEMMA GreatestOf ==
  ASSUME NEW S, IsFiniteSet(S), S # {}, \A x \in S : x \in Int
  PROVE  Algorithms!Max(S) \in S /\ \A x \in S : x <= Algorithms!Max(S)
  <1> DEFINE N == {-x : x \in S}
  <1>1. IsFiniteSet(N) /\ N # {} /\ \A x \in N : x \in Int
    <2> DEFINE f == [x \in S |-> -x]
    <2>1. f \in Surjection(S, N)
      BY DEF Surjection
    <2>2. IsFiniteSet(N)
      BY <2>1, FS_Surjection
    <2> QED BY <2>2
  <1>2. Algorithms!Min(N) \in N /\ \A x \in N : Algorithms!Min(N) <= x
    <2> HIDE DEF N
    <2> QED BY <1>1, LeastOf
  <1>3. PICK x \in S : Algorithms!Min(N) = -x
    BY <1>2
  <1>4. \A y \in S : -x <= -y /\ y \in Int
    BY <1>2, <1>3
  <1>5. \A y \in S : x >= y
    BY <1>4
  <1>6. Algorithms!Max(S) \in S /\ \A y \in S : Algorithms!Max(S) >= y
    BY <1>5 DEF Algorithms!Max
  <1> QED BY <1>6

LEMMA OfTwo ==
  ASSUME NEW a \in Int, NEW b \in Int
  PROVE  /\ Algorithms!Min({a, b}) = IF a <= b THEN a ELSE b
         /\ Algorithms!Max({a, b}) = IF a <= b THEN b ELSE a
  <1>1. \A c : c \in {a, b} => c = a \/ c = b
    OBVIOUS
  <1>2. IsFiniteSet({a, b})
    <2>1. {a, b} = {a} \cup {b}
      OBVIOUS
    <2>2. IsFiniteSet({a}) /\ IsFiniteSet({b})
      BY FS_Singleton
    <2>3. IsFiniteSet({a} \cup {b})
      BY <2>2, FS_Union
    <2> QED BY <2>1, <2>3
  <1>3. Algorithms!Min({a, b}) \in {a, b} /\ \A x \in {a, b} : Algorithms!Min({a, b}) <= x
    BY <1>2, LeastOf
  <1>4. Algorithms!Max({a, b}) \in {a, b} /\ \A x \in {a, b} : x <= Algorithms!Max({a, b})
    BY <1>2, GreatestOf
  <1> QED BY <1>3, <1>4

(* Math.round.                                                             *)
LEMMA DivisionIs ==
  ASSUME NEW a \in Int, NEW b \in Nat \ {0}
  PROVE  /\ a \div b \in Int /\ b * (a \div b) <= a /\ a < b * (a \div b) + b
         /\ \A q \in Int : b * q <= a => q <= a \div b
         /\ \A q \in Int : a < b * q => a \div b < q
  OBVIOUS

LEMMA RoundedBetween ==
  ASSUME NEW n \in Nat \ {0}, NEW s \in Int, NEW lo \in Int, NEW hi \in Int,
         lo * n <= s, s <= hi * n
  PROVE  Algorithms!Rounded(s, n) \in Int /\ lo <= Algorithms!Rounded(s, n)
                                        /\ Algorithms!Rounded(s, n) <= hi
  <1> DEFINE a == 2 * s + n
             b == 2 * n
  <1>1. a \in Int /\ b \in Nat \ {0} /\ hi + 1 \in Int
    OBVIOUS
  <1>2. b * lo <= a /\ a < b * (hi + 1)
    OBVIOUS
  <1>3. Algorithms!Rounded(s, n) = a \div b
    BY DEF Algorithms!Rounded
  <1> HIDE DEF a, b
  <1>4. a \div b \in Int /\ lo <= a \div b /\ a \div b < hi + 1
    BY <1>1, <1>2, DivisionIs
  <1> QED BY <1>3, <1>4

LEMMA AlgorithmsCardinality == \A S : Algorithms!Cardinality(S) = Cardinality(S)
  BY DEF Algorithms!Cardinality, Cardinality

(***************************************************************************)
(* The algorithms without state, each for every input of its type.         *)
(***************************************************************************)

(* Of own and remote records whose writing tells what they mean, the       *)
(* channel's values win and no change goes unreported (conflict-resolver). *)
THEOREM RemoteAlwaysWins ==
  ASSUME NEW own, NEW remote,
         \A f \in DOMAIN own \cap DOMAIN remote :
           Algorithms!ValuesEqual(own[f], remote[f]) => own[f].means = remote[f].means
  PROVE  Algorithms!RemoteWins(own, remote)
  <1> DEFINE resolved == Algorithms!Resolve(own, remote)
             clash == Algorithms!Conflicts(own, remote)
  <1>1. \A f \in DOMAIN own \cup DOMAIN remote :
          resolved[f] = IF f \in clash \/ f \notin DOMAIN own THEN remote[f] ELSE own[f]
    BY DEF Algorithms!Resolve
  <1>2. \A f \in DOMAIN own \cap DOMAIN remote :
          f \notin clash => own[f].means = remote[f].means
    BY DEF Algorithms!Conflicts
  <1>3. clash \subseteq DOMAIN own \cap DOMAIN remote
    BY DEF Algorithms!Conflicts
  <1> HIDE DEF resolved, clash
  <1>4. \A f \in DOMAIN remote : resolved[f].means = remote[f].means
    BY <1>1, <1>2
  <1>5. \A f \in DOMAIN own \ DOMAIN remote : resolved[f] = own[f]
    BY <1>1, <1>3
  <1>6. \A f \in DOMAIN own : resolved[f].means # own[f].means => f \in clash
    BY <1>1
  <1> QED BY <1>4, <1>5, <1>6 DEF Algorithms!RemoteWins, resolved, clash

StockItem == [quantity : Nat, threshold : Nat]
KpiRow(Metric) == [metric : Metric, value : Int]

(* A warehouse is reported short only if each of its items is              *)
(* (inventory-service).                                                    *)
THEOREM ShortIsShort ==
  ASSUME NEW items \in Seq(StockItem), NEW capacity
  PROVE  Algorithms!ShortMeansAllShort(items, capacity)
  <1> DEFINE quantities == [i \in DOMAIN items |-> items[i].quantity]
             stock == Algorithms!Sum(quantities)
             thresholds == {items[i].threshold : i \in DOMAIN items}
  <1>1. \A i \in DOMAIN items : items[i].quantity \in Nat /\ items[i].threshold \in Nat
    <2>1. \A i \in DOMAIN items : items[i] \in StockItem
      OBVIOUS
    <2> QED BY <2>1 DEF StockItem
  <1>2. Algorithms!Level(items, capacity).belowSafetyThreshold
          = (stock < IF items = <<>> THEN 0 ELSE Algorithms!Min(thresholds))
    BY DEF Algorithms!Level
  <1>3. SUFFICES ASSUME NEW i \in DOMAIN items, stock < Algorithms!Min(thresholds)
                 PROVE  items[i].quantity < items[i].threshold
    <2>1. ASSUME NEW i \in DOMAIN items PROVE items # <<>>
      OBVIOUS
    <2> QED BY <1>2, <1>3, <2>1 DEF Algorithms!ShortMeansAllShort
  <1>4. IsFiniteSet(DOMAIN items)
    BY FS_Interval, DOMAIN items = 1..Len(items), Len(items) \in Nat
  <1>5. IsFiniteSet(thresholds) /\ thresholds # {} /\ \A x \in thresholds : x \in Int
    <2> DEFINE f == [j \in DOMAIN items |-> items[j].threshold]
    <2>1. f \in Surjection(DOMAIN items, thresholds)
      BY DEF Surjection
    <2>2. IsFiniteSet(thresholds)
      BY <1>4, <2>1, FS_Surjection
    <2> QED BY <1>1, <2>2
  <1>6. Algorithms!Min(thresholds) \in Int /\ Algorithms!Min(thresholds) <= items[i].threshold
    <2>1. items[i].threshold \in thresholds
      OBVIOUS
    <2> HIDE DEF thresholds
    <2> QED BY <1>5, <2>1, LeastOf
  <1>7. items[i].quantity <= stock /\ stock \in Nat
    <2>1. /\ Addable(quantities) /\ DOMAIN quantities = DOMAIN items
          /\ \A j \in DOMAIN items : quantities[j] >= 0
      BY <1>1, <1>4 DEF Addable
    <2>2. quantities[i] = items[i].quantity
      OBVIOUS
    <2> HIDE DEF quantities
    <2> QED BY <2>1, <2>2, SumHasEach
  <1>8. items[i].quantity \in Nat /\ items[i].threshold \in Nat
    BY <1>1
  <1> HIDE DEF stock, thresholds
  <1> QED BY <1>3, <1>6, <1>7, <1>8

(* The average of rates lies between two of them (kpi-query-service).      *)
THEOREM AveragesAreBetween ==
  ASSUME NEW Metric, NEW list \in Seq(KpiRow(Metric))
  PROVE  Algorithms!AveragesLieBetween(list)
  <1> DEFINE rates == Algorithms!ValuesOf(list, "fulfillment_rate")
             rate == Algorithms!Averaged(rates)
             n == Cardinality(DOMAIN rates)
  <1>1. Algorithms!BuildKPIMetrics(list).fulfillmentRate = rate
    BY DEF Algorithms!BuildKPIMetrics
  <1>2. SUFFICES ASSUME DOMAIN rates # {}
                 PROVE  /\ \E i \in DOMAIN rates : rates[i] <= rate
                        /\ \E i \in DOMAIN rates : rates[i] >= rate
    BY <1>1 DEF Algorithms!AveragesLieBetween
  <1>3. Addable(rates)
    <2>1. DOMAIN rates \subseteq DOMAIN list
      BY DEF Algorithms!ValuesOf
    <2>2. IsFiniteSet(DOMAIN list)
      BY FS_Interval, DOMAIN list = 1..Len(list), Len(list) \in Nat
    <2>3. IsFiniteSet(DOMAIN rates)
      BY <2>1, <2>2, FS_Subset
    <2>4. \A i \in DOMAIN list : list[i] \in KpiRow(Metric)
      OBVIOUS
    <2>5. \A i \in DOMAIN rates : rates[i] = list[i].value
      BY DEF Algorithms!ValuesOf
    <2>6. \A i \in DOMAIN rates : rates[i] \in Int
      <3> HIDE DEF rates
      <3> QED BY <2>1, <2>4, <2>5 DEF KpiRow
    <2> QED BY <2>3, <2>6 DEF Addable
  <1>4. rate = Algorithms!Rounded(Algorithms!Sum(rates), n)
    <2> HIDE DEF rates
    <2> QED BY <1>2, AlgorithmsCardinality DEF Algorithms!Averaged
  <1> HIDE DEF rates, rate
  <1>5. n \in Nat \ {0}
    BY <1>2, <1>3, FS_CardinalityType, FS_EmptySet DEF Addable
  <1>6. Algorithms!Sum(rates) \in Int
    BY <1>3, SumIsInt
  <1>7. \A i \in DOMAIN rates : rates[i] \in Int
    BY <1>3 DEF Addable
  <1>8. IsFiniteSet({rates[i] : i \in DOMAIN rates}) /\ {rates[i] : i \in DOMAIN rates} # {}
    <2> DEFINE f == [i \in DOMAIN rates |-> rates[i]]
    <2>1. f \in Surjection(DOMAIN rates, {rates[i] : i \in DOMAIN rates})
      BY DEF Surjection
    <2> QED BY <1>2, <1>3, <2>1, FS_Surjection DEF Addable
  <1>9. PICK l \in DOMAIN rates, g \in DOMAIN rates :
          \A i \in DOMAIN rates : rates[l] <= rates[i] /\ rates[i] <= rates[g]
    <2> DEFINE all == {rates[i] : i \in DOMAIN rates}
    <2>1. IsFiniteSet(all) /\ all # {} /\ \A x \in all : x \in Int
      BY <1>7, <1>8
    <2>2. \A i \in DOMAIN rates : rates[i] \in all
      OBVIOUS
    <2>3. \A x \in all : \E i \in DOMAIN rates : x = rates[i]
      OBVIOUS
    <2> HIDE DEF all
    <2>4. PICK l \in DOMAIN rates : Algorithms!Min(all) = rates[l]
      BY <2>1, <2>3, LeastOf
    <2>5. PICK g \in DOMAIN rates : Algorithms!Max(all) = rates[g]
      BY <2>1, <2>3, GreatestOf
    <2>6. \A i \in DOMAIN rates : rates[l] <= rates[i]
      BY <2>1, <2>2, <2>4, LeastOf
    <2>7. \A i \in DOMAIN rates : rates[i] <= rates[g]
      BY <2>1, <2>2, <2>5, GreatestOf
    <2> QED BY <2>6, <2>7
  <1>10. rates[l] * n <= Algorithms!Sum(rates) /\ Algorithms!Sum(rates) <= rates[g] * n
    BY <1>3, <1>7, <1>9, SumBetween
  <1>11. rates[l] <= rate /\ rate <= rates[g] /\ rate \in Int
    <2> HIDE DEF n
    <2> QED BY <1>4, <1>5, <1>6, <1>7, <1>10, RoundedBetween
  <1> QED BY <1>7, <1>11

LEMMA SumOfOnes ==
  ASSUME NEW D, IsFiniteSet(D), NEW c \in Int
  PROVE  /\ Addable([i \in D |-> c])
         /\ Algorithms!Sum([i \in D |-> c]) = c * Cardinality(D)
  <1> DEFINE f == [i \in D |-> c]
  <1>1. Addable(f) /\ DOMAIN f = D /\ \A i \in DOMAIN f : c <= f[i] /\ f[i] <= c
    BY DEF Addable
  <1> HIDE DEF f
  <1>2. /\ Algorithms!Sum(f) \in Int
        /\ c * Cardinality(D) <= Algorithms!Sum(f) /\ Algorithms!Sum(f) <= c * Cardinality(D)
    BY <1>1, SumBetween
  <1>3. c * Cardinality(D) \in Int
    BY FS_CardinalityType
  <1>4. Algorithms!Sum(f) = c * Cardinality(D)
    BY <1>2, <1>3
  <1> QED BY <1>1, <1>4 DEF f

LEMMA SquaresAre ==
  ASSUME NEW r \in Seq(Int)
  PROVE  /\ Addable(r) /\ Addable([j \in DOMAIN r |-> r[j] * r[j]])
         /\ Algorithms!Sum(r) \in Int /\ Algorithms!Squares(r) \in Int
  <1>1. \A j \in DOMAIN r : r[j] \in Int
    OBVIOUS
  <1>2. IsFiniteSet(DOMAIN r)
    BY FS_Interval, DOMAIN r = 1..Len(r), Len(r) \in Nat
  <1>3. Addable(r) /\ Addable([j \in DOMAIN r |-> r[j] * r[j]])
    BY <1>1, <1>2 DEF Addable
  <1> QED BY <1>3, SumIsInt DEF Algorithms!Squares

(* A window moved up by one.                                               *)
LEMMA MovedUp ==
  ASSUME NEW r \in Seq(Int), NEW u \in Seq(Int), Len(u) = Len(r),
         \A j \in 1..Len(r) : u[j] = r[j] + 1
  PROVE  /\ Algorithms!Sum(u) = Algorithms!Sum(r) + Len(r)
         /\ Algorithms!Squares(u) = Algorithms!Squares(r) + 2 * Algorithms!Sum(r) + Len(r)
  <1> DEFINE sq == [j \in DOMAIN r |-> r[j] * r[j]]
             uq == [j \in DOMAIN u |-> u[j] * u[j]]
             ones == [j \in DOMAIN r |-> 1]
             more == [j \in DOMAIN r |-> r[j] + u[j]]
  <1>1. PICK n \in Nat : n = Len(r)
    OBVIOUS
  <1>2. DOMAIN r = 1..n /\ DOMAIN u = 1..n /\ \A j \in 1..n : r[j] \in Int /\ u[j] = r[j] + 1
    BY <1>1
  <1>3. IsFiniteSet(DOMAIN r) /\ Cardinality(DOMAIN r) = n
    BY <1>2, FS_Interval
  <1>4. /\ Addable(r) /\ Addable(u) /\ Addable(sq) /\ Algorithms!Sum(r) \in Int
        /\ Algorithms!Sum(sq) \in Int /\ Algorithms!Sum(sq) = Algorithms!Squares(r)
        /\ Algorithms!Sum(uq) = Algorithms!Squares(u)
    BY SquaresAre DEF Algorithms!Squares
  <1>5. Addable(ones) /\ Algorithms!Sum(ones) = n
    <2>1. 1 \in Int /\ 1 * n = n
      OBVIOUS
    <2>2. Addable(ones) /\ Algorithms!Sum(ones) = 1 * Cardinality(DOMAIN r)
      BY <1>3, <2>1, SumOfOnes
    <2> QED BY <1>3, <2>1, <2>2
  <1>6. /\ DOMAIN sq = DOMAIN r /\ DOMAIN uq = DOMAIN r /\ DOMAIN ones = DOMAIN r
        /\ DOMAIN more = DOMAIN r /\ DOMAIN u = DOMAIN r
        /\ \A j \in DOMAIN r : u[j] = r[j] + ones[j]
        /\ \A j \in DOMAIN r : more[j] = r[j] + u[j]
    BY <1>2
  <1>7. \A j \in DOMAIN r : uq[j] = sq[j] + more[j]
    <2> TAKE j \in DOMAIN r
    <2>1. PICK x \in Int : x = r[j] /\ u[j] = x + 1
      BY <1>2
    <2>2. sq[j] = x * x /\ more[j] = x + (x + 1) /\ uq[j] = (x + 1) * (x + 1)
      BY <1>2, <2>1
    <2>3. (x + 1) * (x + 1) = x * x + (x + (x + 1))
      OBVIOUS
    <2> HIDE DEF sq, uq, more, ones
    <2> QED BY <2>2, <2>3
  <1> HIDE DEF sq, uq, ones, more
  <1>8. Algorithms!Sum(u) = Algorithms!Sum(r) + n
    BY <1>4, <1>5, <1>6, SumOfTwo
  <1>9. Addable(more) /\ Algorithms!Sum(more) = Algorithms!Sum(r) + Algorithms!Sum(u)
    BY <1>4, <1>6, SumOfTwo
  <1>10. Algorithms!Sum(uq) = Algorithms!Sum(sq) + Algorithms!Sum(more)
    <2>1. DOMAIN more = DOMAIN sq /\ DOMAIN uq = DOMAIN sq
      BY <1>6
    <2>2. \A j \in DOMAIN sq : uq[j] = sq[j] + more[j]
      BY <1>6, <1>7
    <2> QED BY <1>4, <1>9, <2>1, <2>2, SumOfTwo
  <1> QED BY <1>1, <1>4, <1>8, <1>9, <1>10

(* A window ends before the point it judges.                               *)
WindowFrom(i, w) == IF 1 <= i - w THEN i - w ELSE 1

LEMMA WindowIs ==
  ASSUME NEW values \in Seq(Int), NEW w \in Nat \ {0}, NEW i \in DOMAIN values
  PROVE  /\ WindowFrom(i, w) \in 1..i
         /\ Algorithms!Max({1, i - w}) = WindowFrom(i, w)
         /\ Algorithms!Window(values, i, w) \in Seq(Int)
         /\ Len(Algorithms!Window(values, i, w)) = i - WindowFrom(i, w)
         /\ \A j \in 1..(i - WindowFrom(i, w)) :
              Algorithms!Window(values, i, w)[j] = values[j + WindowFrom(i, w) - 1]
  <1>1. i \in Nat \ {0} /\ i <= Len(values) /\ Len(values) \in Nat
    OBVIOUS
  <1>2. PICK a \in 1..i : a = WindowFrom(i, w) /\ Algorithms!Max({1, i - w}) = a
    <2>1. 1 \in Int /\ i - w \in Int
      BY <1>1
    <2>2. Algorithms!Max({1, i - w}) = IF 1 <= i - w THEN i - w ELSE 1
      BY <2>1, OfTwo
    <2>3. WindowFrom(i, w) \in 1..i
      BY <1>1 DEF WindowFrom
    <2> QED BY <2>2, <2>3 DEF WindowFrom
  <1>3. Algorithms!Window(values, i, w) = SubSeq(values, a, i - 1)
    BY <1>2 DEF Algorithms!Window
  <1>4. PICK n \in Nat : n = Len(values) /\ i <= n /\ DOMAIN values = 1..n
    BY <1>1
  <1>5. a \in Int /\ i - 1 \in Int /\ \A j \in a..(i - 1) : values[j] \in Int
    <2>1. \A j \in 1..n : values[j] \in Int
      BY <1>4
    <2>2. \A j \in a..(i - 1) : j \in 1..n
      BY <1>1, <1>2, <1>4
    <2> QED BY <1>1, <1>2, <2>1, <2>2
  <1>6. PICK x \in Seq(Int) :
          /\ x = SubSeq(values, a, i - 1)
          /\ Len(x) = (IF a <= i - 1 THEN (i - 1) - a + 1 ELSE 0)
          /\ \A j \in 1..((i - 1) - a + 1) : x[j] = values[a + j - 1]
    <2>1. /\ SubSeq(values, a, i - 1) \in Seq(Int)
          /\ Len(SubSeq(values, a, i - 1)) = IF a <= i - 1 THEN (i - 1) - a + 1 ELSE 0
          /\ \A j \in 1..((i - 1) - a + 1) : SubSeq(values, a, i - 1)[j] = values[a + j - 1]
      <3>1. \A b, c \in Int :
              (\A j \in b..c : values[j] \in Int) =>
                /\ SubSeq(values, b, c) \in Seq(Int)
                /\ Len(SubSeq(values, b, c)) = IF b <= c THEN c - b + 1 ELSE 0
                /\ \A j \in 1..(c - b + 1) : SubSeq(values, b, c)[j] = values[b + j - 1]
        BY SubSeqProperties
      <3> QED BY <1>5, <3>1, Zenon
    <2> QED BY <2>1
  <1>7. (i - 1) - a + 1 = i - a /\ Len(x) = i - a
    BY <1>1, <1>2, <1>6
  <1>8. \A j \in 1..(i - a) : x[j] = values[j + a - 1]
    <2> TAKE j \in 1..(i - a)
    <2>1. j \in 1..((i - 1) - a + 1) /\ a + j - 1 = j + a - 1
      BY <1>1, <1>2
    <2>2. x[j] = values[a + j - 1]
      BY <1>6, <2>1, Zenon
    <2> QED BY <2>1, <2>2, Zenon
  <1> QED BY <1>2, <1>3, <1>6, <1>7, <1>8

LEMMA JudgedTheSame ==
  ASSUME NEW v \in Int, NEW r \in Seq(Int), NEW u \in Seq(Int), Len(u) = Len(r),
         \A j \in 1..Len(r) : u[j] = r[j] + 1, NEW threshold \in Int
  PROVE  Algorithms!IsAnomaly(v + 1, u, threshold) <=> Algorithms!IsAnomaly(v, r, threshold)
  <1>1. PICK n \in Nat, s \in Int, q \in Int :
          n = Len(r) /\ s = Algorithms!Sum(r) /\ q = Algorithms!Squares(r)
    <2>1. Algorithms!Sum(r) \in Int /\ Algorithms!Squares(r) \in Int
      BY SquaresAre
    <2>2. Len(r) \in Nat
      OBVIOUS
    <2> QED BY <2>1, <2>2
  <1>2. /\ Len(u) = n /\ Algorithms!Sum(u) = s + n
        /\ Algorithms!Squares(u) = q + 2 * s + n
    BY <1>1, MovedUp
  <1>3. n * (v + 1) - (s + n) = n * v - s
    OBVIOUS
  <1>4. n * (q + 2 * s + n) - (s + n) * (s + n) = n * q - s * s
    OBVIOUS
  <1> QED BY <1>1, <1>2, <1>3, <1>4 DEF Algorithms!IsAnomaly

LEMMA EqualsAreNormal ==
  ASSUME NEW v \in Int, NEW r \in Seq(Int), \A j \in 1..Len(r) : r[j] = v, NEW threshold \in Int
  PROVE  ~Algorithms!IsAnomaly(v, r, threshold)
  <1> DEFINE squares == [j \in DOMAIN r |-> r[j] * r[j]]
  <1>1. PICK n \in Nat, s \in Int, q \in Int :
          n = Len(r) /\ s = Algorithms!Sum(r) /\ q = Algorithms!Squares(r)
    <2>1. Algorithms!Sum(r) \in Int /\ Algorithms!Squares(r) \in Int
      BY SquaresAre
    <2>2. Len(r) \in Nat
      OBVIOUS
    <2> QED BY <2>1, <2>2
  <1>2. DOMAIN r = 1..n /\ IsFiniteSet(DOMAIN r) /\ Cardinality(DOMAIN r) = n
    <2>1. DOMAIN r = 1..n /\ 1 \in Int /\ n \in Int
      BY <1>1
    <2>2. IsFiniteSet(1..n) /\ Cardinality(1..n) = n
      BY <2>1, FS_Interval
    <2> QED BY <2>1, <2>2
  <1>3. s = v * n
    <2>1. Addable(r)
      BY SquaresAre
    <2>3. \A j \in DOMAIN r : v <= r[j] /\ r[j] <= v
      BY <1>1, <1>2
    <2>2. v * n <= s /\ s <= v * n
      BY <1>1, <1>2, <2>1, <2>3, SumBetween
    <2> QED BY <2>2
  <1>4. q = (v * v) * n
    <2>1. Addable(squares) /\ q = Algorithms!Sum(squares) /\ DOMAIN squares = DOMAIN r
      BY <1>1, SquaresAre DEF Algorithms!Squares
    <2>2. v * v \in Int /\ \A j \in DOMAIN squares : squares[j] = v * v
      BY <1>1, <1>2
    <2>3. \A j \in DOMAIN squares : v * v <= squares[j] /\ squares[j] <= v * v
      BY <2>2
    <2> HIDE DEF squares
    <2>4. (v * v) * n <= q /\ q <= (v * v) * n
      BY <1>2, <2>1, <2>2, <2>3, SumBetween
    <2> QED BY <2>4
  <1>5. n * v - s = 0
    BY <1>3
  <1>6. n * q - s * s = 0
    BY <1>3, <1>4
  <1>7. ~(0 * 0 > threshold * threshold * 0)
    OBVIOUS
  <1> QED BY <1>1, <1>5, <1>6, <1>7 DEF Algorithms!IsAnomaly

(* A point is judged by the window before it, and by how far it is from    *)
(* that window (anomaly-detector).                                         *)
THEOREM AnomaliesStandOut ==
  ASSUME NEW values \in Seq(Int), NEW w \in Nat \ {0}, NEW threshold \in Int
  PROVE  Algorithms!AnomaliesAreRelative(values, w, threshold)
  <1> DEFINE found == Algorithms!Detect(values, w, threshold)
             up == [i \in DOMAIN values |-> values[i] + 1]
  <1>1. PICK n \in Nat : n = Len(values) /\ DOMAIN values = 1..n
    OBVIOUS
  <1>2. \A i \in 1..n : values[i] \in Int
    BY <1>1
  <1>3. ASSUME NEW i \in DOMAIN values
        PROVE  Algorithms!Detect(SubSeq(values, 1, i), w, threshold) = SubSeq(found, 1, i)
    <2> DEFINE past == SubSeq(values, 1, i)
    <2>1. i \in 1..n
      BY <1>1
    <2>2. past \in Seq(Int) /\ DOMAIN past = 1..i /\ \A j \in 1..i : past[j] = values[j]
      BY <1>1, <2>1
    <2> HIDE DEF past
    <2>3. ASSUME NEW j \in 1..i
          PROVE  Algorithms!Window(past, j, w) = Algorithms!Window(values, j, w)
      <3>1. j \in DOMAIN past /\ j \in DOMAIN values /\ j \in Nat
        BY <1>1, <2>1, <2>2
      <3>2. PICK a \in 1..j, x \in Seq(Int), y \in Seq(Int) :
              /\ a = WindowFrom(j, w)
              /\ x = Algorithms!Window(past, j, w) /\ y = Algorithms!Window(values, j, w)
        BY <2>2, <3>1, WindowIs
      <3>3. Len(x) = j - a /\ \A k \in 1..(j - a) : x[k] = past[k + a - 1]
        <4>1. /\ Len(Algorithms!Window(past, j, w)) = j - WindowFrom(j, w)
              /\ \A k \in 1..(j - WindowFrom(j, w)) :
                   Algorithms!Window(past, j, w)[k] = past[k + WindowFrom(j, w) - 1]
          BY <2>2, <3>1, WindowIs
        <4> QED BY <3>2, <4>1
      <3>4. Len(y) = j - a /\ \A k \in 1..(j - a) : y[k] = values[k + a - 1]
        <4>1. /\ Len(Algorithms!Window(values, j, w)) = j - WindowFrom(j, w)
              /\ \A k \in 1..(j - WindowFrom(j, w)) :
                   Algorithms!Window(values, j, w)[k] = values[k + WindowFrom(j, w) - 1]
          BY <3>1, WindowIs
        <4> QED BY <3>2, <4>1
      <3>5. ASSUME NEW k \in 1..(j - a) PROVE past[k + a - 1] = values[k + a - 1]
        <4>1. k + a - 1 \in 1..i
          BY <2>1
        <4> QED BY <2>2, <4>1
      <3>6. x = y
        <4>1. \A k \in 1..Len(x) : x[k] = y[k]
          BY <3>3, <3>4, <3>5
        <4> QED BY <3>3, <3>4, <4>1
      <3> QED BY <3>2, <3>6
    <2>4. Algorithms!Detect(past, w, threshold) =
            [j \in 1..i |-> Algorithms!IsAnomaly(values[j], Algorithms!Window(values, j, w), threshold)]
      BY <2>2, <2>3 DEF Algorithms!Detect
    <2>5. SubSeq(found, 1, i) = [j \in 1..i |-> found[j]]
      <3>1. found \in Seq({found[j] : j \in 1..n}) /\ Len(found) = n
        BY <1>1 DEF Algorithms!Detect
      <3> HIDE DEF found
      <3> QED BY <2>1, <3>1
    <2>6. \A j \in 1..i :
            found[j] = Algorithms!IsAnomaly(values[j], Algorithms!Window(values, j, w), threshold)
      BY <1>1, <2>1 DEF Algorithms!Detect
    <2> HIDE DEF found
    <2> QED BY <2>4, <2>5, <2>6 DEF past
  <1>4. Algorithms!Detect(up, w, threshold) = found
    <2>1. up \in Seq(Int) /\ DOMAIN up = 1..n /\ \A i \in 1..n : up[i] = values[i] + 1
      BY <1>1, <1>2
    <2> HIDE DEF up
    <2>2. ASSUME NEW i \in 1..n
          PROVE  Algorithms!IsAnomaly(up[i], Algorithms!Window(up, i, w), threshold)
                   <=> Algorithms!IsAnomaly(values[i], Algorithms!Window(values, i, w), threshold)
      <3>1. i \in DOMAIN up /\ i \in DOMAIN values /\ i \in Nat
        BY <1>1, <2>1
      <3>2. PICK a \in 1..i, x \in Seq(Int), y \in Seq(Int) :
              /\ a = WindowFrom(i, w)
              /\ x = Algorithms!Window(up, i, w) /\ y = Algorithms!Window(values, i, w)
        BY <2>1, <3>1, WindowIs
      <3>3. Len(x) = i - a /\ \A k \in 1..(i - a) : x[k] = up[k + a - 1]
        <4>1. /\ Len(Algorithms!Window(up, i, w)) = i - WindowFrom(i, w)
              /\ \A k \in 1..(i - WindowFrom(i, w)) :
                   Algorithms!Window(up, i, w)[k] = up[k + WindowFrom(i, w) - 1]
          BY <2>1, <3>1, WindowIs
        <4> QED BY <3>2, <4>1
      <3>4. Len(y) = i - a /\ \A k \in 1..(i - a) : y[k] = values[k + a - 1]
        <4>1. /\ Len(Algorithms!Window(values, i, w)) = i - WindowFrom(i, w)
              /\ \A k \in 1..(i - WindowFrom(i, w)) :
                   Algorithms!Window(values, i, w)[k] = values[k + WindowFrom(i, w) - 1]
          BY <3>1, WindowIs
        <4> QED BY <3>2, <4>1
      <3>5. ASSUME NEW k \in 1..(i - a) PROVE up[k + a - 1] = values[k + a - 1] + 1
        <4>1. k + a - 1 \in 1..n
          OBVIOUS
        <4> QED BY <2>1, <4>1
      <3>6. Len(x) = Len(y) /\ \A k \in 1..Len(y) : x[k] = y[k] + 1
        BY <3>3, <3>4, <3>5
      <3>7. values[i] \in Int /\ up[i] = values[i] + 1
        BY <1>2, <2>1
      <3>8. Algorithms!IsAnomaly(values[i] + 1, x, threshold)
              <=> Algorithms!IsAnomaly(values[i], y, threshold)
        BY <3>6, <3>7, JudgedTheSame
      <3> QED BY <3>2, <3>7, <3>8
    <2> QED BY <1>1, <2>1, <2>2 DEF Algorithms!Detect, Algorithms!IsAnomaly
  <1>5. ASSUME NEW i \in DOMAIN values,
               \A j \in Algorithms!Max({1, i - w})..(i - 1) : values[j] = values[i]
        PROVE  ~found[i]
    <2>1. PICK a \in 1..i, x \in Seq(Int) :
            /\ a = WindowFrom(i, w) /\ a = Algorithms!Max({1, i - w})
            /\ x = Algorithms!Window(values, i, w)
      BY WindowIs
    <2>2. Len(x) = i - a /\ \A k \in 1..(i - a) : x[k] = values[k + a - 1]
      <3>1. /\ Len(Algorithms!Window(values, i, w)) = i - WindowFrom(i, w)
            /\ \A k \in 1..(i - WindowFrom(i, w)) :
                 Algorithms!Window(values, i, w)[k] = values[k + WindowFrom(i, w) - 1]
        BY WindowIs
      <3> QED BY <2>1, <3>1
    <2>3. ASSUME NEW k \in 1..(i - a) PROVE values[k + a - 1] = values[i]
      <3>1. k + a - 1 \in a..(i - 1)
        BY <1>1
      <3> QED BY <1>5, <2>1, <3>1
    <2>5. values[i] \in Int /\ \A k \in 1..Len(x) : x[k] = values[i]
      <3>1. values[i] \in Int
        OBVIOUS
      <3>2. ASSUME NEW k \in 1..(i - a) PROVE x[k] = values[i]
        <4>1. x[k] = values[k + a - 1]
          BY <2>2
        <4>2. values[k + a - 1] = values[i]
          BY <2>3
        <4> QED BY <4>1, <4>2
      <3> QED BY <2>2, <3>1, <3>2
    <2>4. ~Algorithms!IsAnomaly(values[i], Algorithms!Window(values, i, w), threshold)
      BY <2>1, <2>5, EqualsAreNormal
    <2> QED BY <2>4 DEF Algorithms!Detect
  <1> HIDE DEF found
  <1> QED BY <1>3, <1>4, <1>5 DEF Algorithms!AnomaliesAreRelative, found

LEMMA CountOfTwo ==
  ASSUME NEW A, IsFiniteSet(A), NEW B, IsFiniteSet(B), A \cap B = {}
  PROVE  /\ IsFiniteSet(A \cup B) /\ Cardinality(A) \in Nat /\ Cardinality(B) \in Nat
         /\ Cardinality(A \cup B) = Cardinality(A) + Cardinality(B)
  <1>1. Cardinality(A \cap B) = 0
    BY FS_EmptySet
  <1>2. Cardinality(A) \in Nat /\ Cardinality(B) \in Nat
    BY FS_CardinalityType
  <1>3. /\ IsFiniteSet(A \cup B)
        /\ Cardinality(A \cup B) = Cardinality(A) + Cardinality(B) - Cardinality(A \cap B)
    BY FS_Union
  <1> QED BY <1>1, <1>2, <1>3

(* Every moment of a period lies in one bucket (kpi-aggregator).           *)
THEOREM BucketsFit ==
  ASSUME NEW start \in Int, NEW end \in Int, NEW length \in Nat \ {0}
  PROVE  Algorithms!BucketsTile(start, end, length)
  <1> DEFINE Last(s) == IF s + length <= end THEN s + length ELSE end
             In(t) == {b \in Algorithms!Buckets(start, end, length) : b.start <= t /\ t < b.end}
  <1>1. ASSUME NEW s \in Int PROVE Algorithms!Min({s + length, end}) = Last(s)
    BY s + length \in Int, OfTwo
  <1>2. ASSUME NEW b \in Algorithms!Buckets(start, end, length)
        PROVE  \E k \in 0..(end - start) :
                 /\ start + k * length <= end - 1 /\ start <= start + k * length
                 /\ b = [start |-> start + k * length, end |-> Last(start + k * length)]
    <2>1. PICK s \in {start + k * length : k \in 0..(end - start)} \cap start..(end - 1) :
            b = [start |-> s, end |-> Algorithms!Min({s + length, end})]
      BY DEF Algorithms!Buckets
    <2>2. PICK k \in 0..(end - start) : s = start + k * length
      OBVIOUS
    <2>3. s \in Int /\ start <= s /\ s <= end - 1
      OBVIOUS
    <2>4. b = [start |-> s, end |-> Last(s)]
      BY <1>1, <2>1, <2>3
    <2> HIDE DEF Last
    <2> QED BY <2>2, <2>3, <2>4
  <1>3. ASSUME NEW t \in Int PROVE \A c : (c \in In(t)) => t \in start..(end - 1)
    <2> SUFFICES ASSUME NEW c \in In(t) PROVE t \in start..(end - 1)
      OBVIOUS
    <2>1. c \in Algorithms!Buckets(start, end, length) /\ c.start <= t /\ t < c.end
      OBVIOUS
    <2>2. PICK k \in 0..(end - start) :
            /\ start + k * length <= end - 1 /\ start <= start + k * length
            /\ c = [start |-> start + k * length, end |-> Last(start + k * length)]
      BY <1>2, <2>1
    <2>3. PICK s \in Int : s = start + k * length /\ start <= s /\ s <= end - 1
                           /\ s <= t /\ t < Last(s)
      BY <2>1, <2>2
    <2> QED BY <2>3
  <1>4. ASSUME NEW t \in start..(end - 1)
        PROVE  \E b : In(t) = {b}
    <2>1. PICK d \in Nat : d = t - start /\ t = start + d /\ d <= end - start - 1
      OBVIOUS
    <2>2. PICK k \in Int : k = d \div length /\ length * k <= d /\ d < length * k + length
      BY <2>1, DivisionIs
    <2>3. k \in Nat
      BY <2>2
    <2>4. k <= d
      <3>1. k <= length * k
        BY <2>3
      <3> QED BY <2>2, <3>1
    <2>5. k \in 0..(end - start)
      BY <2>1, <2>3, <2>4
    <2>6. PICK s \in Int : s = start + k * length
      BY <2>3
    <2>7. /\ s \in start..(end - 1) /\ s <= t /\ t < s + length
      BY <2>1, <2>2, <2>3, <2>6
    <2> DEFINE b == [start |-> s, end |-> Last(s)]
    <2>8. b \in In(t)
      <3>1. b \in Algorithms!Buckets(start, end, length)
        <4>1. b = [start |-> s, end |-> Algorithms!Min({s + length, end})]
          BY <1>1
        <4>2. s \in {start + j * length : j \in 0..(end - start)} \cap start..(end - 1)
          BY <2>5, <2>6, <2>7
        <4> HIDE DEF b
        <4> QED BY <4>1, <4>2 DEF Algorithms!Buckets
      <3>2. b.start = s /\ b.end = Last(s)
        OBVIOUS
      <3>3. s <= t /\ t < Last(s)
        BY <2>7
      <3> HIDE DEF b, Last
      <3> QED BY <3>1, <3>2, <3>3
    <2>9. ASSUME NEW c \in In(t) PROVE c = b
      <3>1. PICK j \in 0..(end - start) :
              c = [start |-> start + j * length, end |-> Last(start + j * length)]
        BY <1>2
      <3>2. start + j * length <= t /\ t < Last(start + j * length)
        BY <3>1
      <3>3. j * length <= d /\ d < j * length + length
        <4>1. PICK m \in Int : m = j * length
          OBVIOUS
        <4>2. start + m <= t /\ t < Last(start + m)
          BY <3>2, <4>1
        <4>3. m <= d /\ d < m + length
          BY <2>1, <4>2
        <4> QED BY <4>1, <4>3
      <3>4. j <= k /\ k <= j
        <4>1. length * j <= d /\ d < length * (j + 1)
          BY <3>3
        <4>2. length * k <= d /\ d < length * (k + 1)
          BY <2>2
        <4>3. \A p \in Int, q \in Int : p < q => length * (p + 1) <= length * q
          OBVIOUS
        <4>4. ~(j < k)
          <5>1. j < k => length * (j + 1) <= length * k
            BY <2>3, <4>3
          <5>2. length * (j + 1) \in Int /\ length * k \in Int
            BY <2>3
          <5> QED BY <2>1, <4>1, <4>2, <5>1, <5>2
        <4>5. ~(k < j)
          <5>1. k < j => length * (k + 1) <= length * j
            BY <2>3, <4>3
          <5>2. length * (k + 1) \in Int /\ length * j \in Int
            BY <2>3
          <5> QED BY <2>1, <4>1, <4>2, <5>1, <5>2
        <4> QED BY <2>3, <4>4, <4>5
      <3>5. j = k
        BY <2>3, <3>4
      <3> QED BY <2>6, <3>1, <3>5
    <2> HIDE DEF b, In
    <2> QED BY <2>8, <2>9
  <1> HIDE DEF Last, In
  <1>5. ASSUME NEW t \in (start - 1)..(end + 1)
        PROVE  Algorithms!Cardinality(In(t)) = IF t \in start..(end - 1) THEN 1 ELSE 0
    <2>1. CASE t \in start..(end - 1)
      <3>1. PICK b : In(t) = {b}
        BY <1>4, <2>1
      <3>2. Cardinality(In(t)) = 1
        BY <3>1, FS_Singleton
      <3> QED BY <2>1, <3>2, AlgorithmsCardinality
    <2>2. CASE t \notin start..(end - 1)
      <3>1. In(t) = {}
        BY <1>3, <2>2
      <3>2. Cardinality(In(t)) = 0
        BY <3>1, FS_EmptySet
      <3> QED BY <2>2, <3>2, AlgorithmsCardinality
    <2> QED BY <2>1, <2>2
  <1> QED BY <1>5 DEF Algorithms!BucketsTile, In

Statuses == {"pending", "confirmed", "corrected", "rejected"}
AccuracyRow == [status : Statuses, matchType : MatchTypes]

(* The total is of the rows the first statement found, the kinds exceed it *)
(* by the rows added before the second, and the warning is given exactly   *)
(* where the rounded rate of the decisions is below 85 percent             *)
(* (accuracy-service).                                                     *)
THEOREM AccuracyIsTrue ==
  ASSUME NEW found \in Seq(AccuracyRow), NEW later \in Seq(AccuracyRow)
  PROVE  Algorithms!AccuracyIsFair(found, later)
  <1> DEFINE D == DOMAIN found
             E == DOMAIN later
             St(x) == {i \in D : found[i].status = x}
             Ty(x) == {i \in E : later[i].matchType = x}
  <1>1. PICK n \in Nat, l \in Nat :
          /\ n = Len(found) /\ D = 1..n
          /\ l = Len(later) /\ E = 1..l
    OBVIOUS
  <1>2. /\ IsFiniteSet(D) /\ Cardinality(D) = n
        /\ IsFiniteSet(E) /\ Cardinality(E) = l
    <2>1. \A k \in Nat : IsFiniteSet(1..k) /\ Cardinality(1..k) = k
      BY FS_Interval
    <2> QED BY <1>1, <2>1
  <1>3. /\ \A i \in D : found[i].status \in Statuses
        /\ \A i \in E : later[i].matchType \in MatchTypes
    <2>1. /\ \A i \in D : found[i] \in AccuracyRow
          /\ \A i \in E : later[i] \in AccuracyRow
      OBVIOUS
    <2> QED BY <2>1 DEF AccuracyRow
  <1> HIDE DEF D, E
  <1>4. \A x : IsFiniteSet(St(x)) /\ IsFiniteSet(Ty(x))
    BY <1>2, FS_Subset
  <1>5. \A x : /\ Algorithms!CountOf(found, "status", x) = Cardinality(St(x))
               /\ Algorithms!CountOf(later, "matchType", x) = Cardinality(Ty(x))
    BY AlgorithmsCardinality DEF Algorithms!CountOf, D, E
  <1>6. PICK p \in Nat, c \in Nat, e \in Nat, r \in Nat :
          /\ p = Cardinality(St("pending")) /\ c = Cardinality(St("confirmed"))
          /\ e = Cardinality(St("corrected")) /\ r = Cardinality(St("rejected"))
    BY <1>4, FS_CardinalityType
  <1>7. p + c + e + r = n
    <2> DEFINE A == St("pending") \cup St("confirmed")
               B == A \cup St("corrected")
    <2>1. IsFiniteSet(A) /\ Cardinality(A) = p + c
      BY <1>4, <1>6, CountOfTwo, St("pending") \cap St("confirmed") = {}
    <2>2. IsFiniteSet(B) /\ Cardinality(B) = Cardinality(A) + e
      <3>1. A \cap St("corrected") = {}
        OBVIOUS
      <3>2. IsFiniteSet(St("corrected")) /\ e = Cardinality(St("corrected"))
        BY <1>4, <1>6
      <3> HIDE DEF A, St
      <3>3. IsFiniteSet(A \cup St("corrected"))
        BY <2>1, <3>1, <3>2, CountOfTwo, Zenon
      <3>4. Cardinality(A \cup St("corrected")) = Cardinality(A) + Cardinality(St("corrected"))
        BY <2>1, <3>1, <3>2, CountOfTwo, Zenon
      <3> QED BY <3>2, <3>3, <3>4
    <2>3. B \cup St("rejected") = D
      BY <1>3 DEF Statuses
    <2>4. Cardinality(B \cup St("rejected")) = Cardinality(B) + r
      <3>1. B \cap St("rejected") = {}
        OBVIOUS
      <3> HIDE DEF B
      <3> QED BY <1>4, <1>6, <2>2, <3>1, CountOfTwo
    <2> HIDE DEF A, B
    <2> QED BY <1>2, <2>1, <2>2, <2>3, <2>4
  <1>8. PICK h \in Nat, v \in Nat, o \in Nat :
          /\ h = Cardinality(Ty("high_confidence")) /\ v = Cardinality(Ty("needs_review"))
          /\ o = Cardinality(Ty("no_match"))
    BY <1>4, FS_CardinalityType
  <1>9. h + v + o = l
    <2> DEFINE A == Ty("high_confidence") \cup Ty("needs_review")
    <2>1. IsFiniteSet(A) /\ Cardinality(A) = h + v
      BY <1>4, <1>8, CountOfTwo, Ty("high_confidence") \cap Ty("needs_review") = {}
    <2>2. A \cup Ty("no_match") = E
      BY <1>3 DEF MatchTypes
    <2>3. Cardinality(A \cup Ty("no_match")) = Cardinality(A) + o
      <3>1. A \cap Ty("no_match") = {}
        OBVIOUS
      <3> HIDE DEF A
      <3> QED BY <1>4, <1>8, <2>1, <3>1, CountOfTwo
    <2> HIDE DEF A
    <2> QED BY <1>2, <2>1, <2>2, <2>3
  <1> HIDE DEF St, Ty
  <1> DEFINE stats == Algorithms!CalculateStats(found, later)
             accuracy == IF c + e > 0 THEN Algorithms!Rate(c, c + e) ELSE 10000
  <1>10. /\ stats.totalMatches = c + e + p + r /\ stats.accuracy = accuracy
         /\ stats.types["high_confidence"] = h /\ stats.types["needs_review"] = v
         /\ stats.types["no_match"] = o
    BY <1>5, <1>6, <1>8 DEF Algorithms!CalculateStats
  <1>11. accuracy < 8500 <=> 20000 * c + (c + e) < 17000 * (c + e) /\ c + e > 0
    <2>1. CASE c + e > 0
      <3>1. PICK d \in Nat \ {0}, a \in Int, b \in Nat \ {0} :
              d = c + e /\ a = 2 * (c * 10000) + d /\ b = 2 * d
        BY <2>1
      <3>2. accuracy = a \div b
        BY <2>1, <3>1 DEF Algorithms!Rate, Algorithms!Rounded
      <3>3. a \div b < 8500 <=> a < b * 8500
        BY <3>1, DivisionIs
      <3> HIDE DEF accuracy
      <3> QED BY <2>1, <3>1, <3>2, <3>3
    <2>2. CASE ~(c + e > 0)
      BY <2>2
    <2> QED BY <2>1, <2>2
  <1> HIDE DEF accuracy
  <1>12. Algorithms!Warned(found, later) <=> 20000 * c < 16999 * (c + e)
    <2>1. Algorithms!Warned(found, later) <=> accuracy < 8500
      BY <1>10 DEF Algorithms!Warned
    <2>2. 20000 * c + (c + e) < 17000 * (c + e) /\ c + e > 0 <=> 20000 * c < 16999 * (c + e)
      OBVIOUS
    <2> QED BY <1>11, <2>1, <2>2
  <1>13. stats.totalMatches = Len(found)
    BY <1>1, <1>7, <1>10
  <1>14. stats.types["high_confidence"] + stats.types["needs_review"] + stats.types["no_match"]
           - stats.totalMatches = Len(later) - Len(found)
    BY <1>1, <1>7, <1>9, <1>10
  <1>15. /\ c = Algorithms!CountOf(found, "status", "confirmed")
         /\ e = Algorithms!CountOf(found, "status", "corrected")
    BY <1>5, <1>6
  <1> HIDE DEF stats
  <1> QED BY <1>12, <1>13, <1>14, <1>15 DEF Algorithms!AccuracyIsFair, stats

LEMMA ImageIsFinite ==
  ASSUME NEW f, IsFiniteSet(DOMAIN f)
  PROVE  IsFiniteSet({f[i] : i \in DOMAIN f})
  <1> DEFINE g == [i \in DOMAIN f |-> f[i]]
  <1>1. g \in Surjection(DOMAIN f, {f[i] : i \in DOMAIN f})
    BY DEF Surjection
  <1> QED BY <1>1, FS_Surjection

Run(Status) == [status : Status, duration : Nat]
Reach(runs, limit) == IF limit <= Len(runs) THEN limit ELSE Len(runs)

LEMMA RecentAre ==
  ASSUME NEW Status, NEW runs \in Seq(Run(Status)), NEW limit \in Nat
  PROVE  /\ DOMAIN Algorithms!Recent(runs, limit) = 1..Reach(runs, limit)
         /\ Reach(runs, limit) \in Nat /\ Reach(runs, limit) <= Len(runs)
  <1>1. PICK n \in Nat, m \in Nat : n = Len(runs) /\ m = Reach(runs, limit) /\ m <= n
    BY Len(runs) \in Nat DEF Reach
  <1>2. Algorithms!Min({limit, n}) = m
    BY <1>1, OfTwo DEF Reach
  <1>3. PICK x : x = SubSeq(runs, 1, m) /\ x \in Seq(Run(Status)) /\ Len(x) = IF 1 <= m THEN m - 1 + 1 ELSE 0
    <2>1. 1 \in Int /\ m \in Int /\ \A i \in 1..m : runs[i] \in Run(Status)
      <3>1. \A i \in 1..n : runs[i] \in Run(Status)
        BY <1>1
      <3> QED BY <1>1, <3>1
    <2>2. /\ SubSeq(runs, 1, m) \in Seq(Run(Status))
          /\ Len(SubSeq(runs, 1, m)) = IF 1 <= m THEN m - 1 + 1 ELSE 0
      <3> HIDE <1>1, <1>2
      <3> QED BY <2>1, SubSeqProperties
    <2> QED BY <2>2
  <1>4. DOMAIN x = 1..m
    BY <1>1, <1>3
  <1> QED BY <1>1, <1>2, <1>3, <1>4 DEF Algorithms!Recent

(* The rate of failures is one, and average durations lie between measured *)
(* ones (the route of the sync statistics).                                *)
THEOREM StatsAreSound ==
  ASSUME NEW Status, NEW jobs \in Seq(Seq(Run(Status)))
  PROVE  Algorithms!StatsAreConsistent(jobs)
  <1> DEFINE D == DOMAIN jobs
             R == UNION {{jobs[j][i] : i \in DOMAIN jobs[j]} : j \in D}
             F == {run \in R : run.status = "failed"}
             P == {run \in R : run.duration > 0}
             In(j, limit, W) == {i \in 1..Reach(jobs[j], limit) : jobs[j][i] \in W}
             count(limit, W) == [j \in D |-> Cardinality(In(j, limit, W))]
  <1>1. IsFiniteSet(D)
    BY FS_Interval, D = 1..Len(jobs), Len(jobs) \in Nat
  <1>2. \A j \in D : jobs[j] \in Seq(Run(Status))
    OBVIOUS
  <1>3. \A j \in D, limit \in Nat :
          /\ DOMAIN Algorithms!Recent(jobs[j], limit) = 1..Reach(jobs[j], limit)
          /\ Reach(jobs[j], limit) \in Nat /\ Reach(jobs[j], limit) <= Len(jobs[j])
    BY <1>2, RecentAre
  <1>4. \A j \in D : \A i \in DOMAIN jobs[j] : jobs[j][i] \in Run(Status) /\ jobs[j][i] \in R
    BY <1>2
  <1>5. \A j \in D : \A i \in 1..Reach(jobs[j], 50) : jobs[j][i] \in Run(Status) /\ jobs[j][i] \in R
    <2> TAKE j \in D
    <2> TAKE i \in 1..Reach(jobs[j], 50)
    <2>1. DOMAIN jobs[j] = 1..Len(jobs[j]) /\ Len(jobs[j]) \in Nat
      BY <1>2
    <2>2. Reach(jobs[j], 50) \in Nat /\ Reach(jobs[j], 50) <= Len(jobs[j])
      BY <1>3
    <2>3. i \in DOMAIN jobs[j]
      BY <2>1, <2>2
    <2> HIDE DEF R, D
    <2> QED BY <1>4, <2>3
  <1> HIDE DEF R, F, P, D
  <1>6. \A j \in D, limit \in Nat : \A W :
          IsFiniteSet(In(j, limit, W)) /\ Cardinality(In(j, limit, W)) \in Nat
    <2> TAKE j \in D, limit \in Nat
    <2> TAKE W
    <2>1. IsFiniteSet(1..Reach(jobs[j], limit))
      BY <1>3, FS_Interval
    <2>2. IsFiniteSet(In(j, limit, W))
      BY <2>1, FS_Subset
    <2> QED BY <2>2, FS_CardinalityType
  <1>7. \A limit \in Nat : \A W :
          /\ Algorithms!CountRuns(jobs, limit, W) = Algorithms!Sum(count(limit, W))
          /\ Addable(count(limit, W)) /\ DOMAIN count(limit, W) = D
          /\ \A j \in D : count(limit, W)[j] \in Nat
    <2> TAKE limit \in Nat
    <2> TAKE W
    <2>1. \A j \in D :
            {i \in DOMAIN Algorithms!Recent(jobs[j], limit) : jobs[j][i] \in W} = In(j, limit, W)
      BY <1>3
    <2>2. [j \in DOMAIN jobs |->
             Algorithms!Cardinality(
               {i \in DOMAIN Algorithms!Recent(jobs[j], limit) : jobs[j][i] \in W})]
            = count(limit, W)
      BY <2>1, AlgorithmsCardinality DEF D
    <2>3. /\ DOMAIN count(limit, W) = D
          /\ \A j \in D : count(limit, W)[j] \in Nat
      BY <1>6
    <2>4. Addable(count(limit, W))
      <3> HIDE DEF count
      <3> QED BY <1>1, <2>3 DEF Addable
    <2> HIDE DEF count, In
    <2> QED BY <2>2, <2>3, <2>4 DEF Algorithms!CountRuns
  <1> DEFINE total == count(50, R)
             failed == count(50, F)
             ok == count(10, R \ F)
             timed == count(50, P)
             duration == [j \in D |->
               Algorithms!Sum([i \in 1..Reach(jobs[j], 50) |-> jobs[j][i].duration])]
             stats == Algorithms!SyncStats(jobs)
             average == IF Algorithms!Sum(timed) > 0
                        THEN Algorithms!Rounded(Algorithms!Sum(duration), Algorithms!Sum(timed))
                        ELSE 0
  <1>8. /\ stats.lastHourSyncs = Algorithms!Min({Algorithms!Sum(ok), Algorithms!Sum(total)})
        /\ stats.failureRate.part = Algorithms!Sum(failed)
        /\ stats.failureRate.whole = Algorithms!Sum(total)
        /\ stats.avgDuration = average
    <2>1. [j \in DOMAIN jobs |-> Algorithms!Sum(
             [i \in DOMAIN Algorithms!Recent(jobs[j], 50) |-> jobs[j][i].duration])] = duration
      BY <1>3 DEF D
    <2> HIDE DEF count, duration
    <2>2. /\ Algorithms!CountRuns(jobs, 50, R) = Algorithms!Sum(total)
          /\ Algorithms!CountRuns(jobs, 50, F) = Algorithms!Sum(failed)
          /\ Algorithms!CountRuns(jobs, 10, R \ F) = Algorithms!Sum(ok)
          /\ Algorithms!CountRuns(jobs, 50, P) = Algorithms!Sum(timed)
      BY <1>7
    <2> HIDE DEF total, failed, ok, timed
    <2> QED BY <2>1, <2>2 DEF Algorithms!SyncStats, R, F, P, D
  <1> DEFINE both == [j \in D |-> ok[j] + failed[j]]
  <1>9. \A j \in D : ok[j] + failed[j] <= total[j]
    <2> TAKE j \in D
    <2>1. In(j, 10, R \ F) \cap In(j, 50, F) = {}
      OBVIOUS
    <2>2. In(j, 10, R \ F) \cup In(j, 50, F) \subseteq In(j, 50, R)
      <3>1. \A i \in 1..Reach(jobs[j], 10) : i \in 1..Reach(jobs[j], 50)
        <4>1. Len(jobs[j]) \in Nat
          BY <1>2
        <4> QED BY <4>1 DEF Reach
      <3>2. \A run \in F : run \in R
        BY DEF F
      <3> QED BY <3>1, <3>2
    <2> HIDE DEF In
    <2>3. /\ IsFiniteSet(In(j, 10, R \ F)) /\ IsFiniteSet(In(j, 50, F))
          /\ IsFiniteSet(In(j, 50, R))
          /\ Cardinality(In(j, 10, R \ F)) \in Nat /\ Cardinality(In(j, 50, F)) \in Nat
          /\ Cardinality(In(j, 50, R)) \in Nat
      BY <1>6
    <2>4. Cardinality(In(j, 10, R \ F)) + Cardinality(In(j, 50, F)) <= Cardinality(In(j, 50, R))
      <3>1. Cardinality(In(j, 10, R \ F) \cup In(j, 50, F))
              = Cardinality(In(j, 10, R \ F)) + Cardinality(In(j, 50, F))
        BY <2>1, <2>3, CountOfTwo
      <3>2. Cardinality(In(j, 10, R \ F) \cup In(j, 50, F)) <= Cardinality(In(j, 50, R))
        BY <2>2, <2>3, FS_Subset
      <3> QED BY <3>1, <3>2
    <2> QED BY <2>4
  <1>10. stats.lastHourSyncs + stats.failureRate.part <= stats.failureRate.whole
    <2>1. /\ Addable(ok) /\ Addable(failed) /\ Addable(total)
          /\ DOMAIN ok = D /\ DOMAIN failed = D /\ DOMAIN total = D
      <3> HIDE DEF count
      <3> QED BY <1>7
    <2>2. DOMAIN both = D /\ \A j \in D : both[j] = ok[j] + failed[j] /\ both[j] <= total[j]
      BY <1>9
    <2> HIDE DEF ok, failed, total, both
    <2>3. Addable(both) /\ Algorithms!Sum(both) = Algorithms!Sum(ok) + Algorithms!Sum(failed)
      BY <2>1, <2>2, SumOfTwo
    <2>4. Algorithms!Sum(both) <= Algorithms!Sum(total)
      BY <2>1, <2>2, <2>3, SumIsOrdered
    <2>5. PICK o \in Int, f \in Int, t \in Int :
            o = Algorithms!Sum(ok) /\ f = Algorithms!Sum(failed) /\ t = Algorithms!Sum(total)
      BY <2>1, SumIsInt
    <2>6. stats.lastHourSyncs <= o /\ stats.lastHourSyncs \in Int
      <3>1. Algorithms!Min({o, t}) = IF o <= t THEN o ELSE t
        BY OfTwo
      <3> QED BY <1>8, <2>5, <3>1
    <2>7. o + f <= t
      BY <2>3, <2>4, <2>5
    <2> HIDE DEF stats
    <2> QED BY <1>8, <2>5, <2>6, <2>7
  <1> DEFINE some == {{jobs[j][i].duration : i \in 1..Reach(jobs[j], 50)} : j \in D}
             durations == (UNION some) \ {0}
  <1>11. (UNION {{jobs[j][i].duration : i \in DOMAIN Algorithms!Recent(jobs[j], 50)} :
                   j \in DOMAIN jobs}) \ {0} = durations
    <2> DEFINE a(j) == {jobs[j][i].duration : i \in DOMAIN Algorithms!Recent(jobs[j], 50)}
               b(j) == {jobs[j][i].duration : i \in 1..Reach(jobs[j], 50)}
    <2>1. \A j \in D : a(j) = b(j)
      BY <1>3
    <2>2. {{jobs[j][i].duration : i \in DOMAIN Algorithms!Recent(jobs[j], 50)} : j \in DOMAIN jobs}
            = some
      <3> HIDE DEF a, b
      <3>1. {a(j) : j \in D} = {b(j) : j \in D}
        BY <2>1
      <3>2. {b(j) : j \in D} = some
        BY DEF b
      <3>3. {a(j) : j \in D}
              = {{jobs[j][i].duration : i \in DOMAIN Algorithms!Recent(jobs[j], 50)} : j \in DOMAIN jobs}
        BY DEF a, D
      <3> QED BY <3>1, <3>2, <3>3
    <2> HIDE DEF some
    <2> QED BY <2>2
  <1>12. ASSUME durations # {}
         PROVE  average \in Algorithms!Min(durations)..Algorithms!Max(durations)
    <2>1. IsFiniteSet(durations)
      <3>1. ASSUME NEW j \in D
            PROVE  IsFiniteSet({jobs[j][i].duration : i \in 1..Reach(jobs[j], 50)})
        <4> DEFINE f == [i \in 1..Reach(jobs[j], 50) |-> jobs[j][i].duration]
        <4>1. IsFiniteSet(DOMAIN f)
          <5>1. Reach(jobs[j], 50) \in Int /\ 1 \in Int
            BY <1>3
          <5>2. IsFiniteSet(1..Reach(jobs[j], 50))
            BY <5>1, FS_Interval
          <5> QED BY <5>2
        <4>2. IsFiniteSet({f[i] : i \in DOMAIN f})
          <5> HIDE DEF f
          <5> QED BY <4>1, ImageIsFinite
        <4> QED BY <4>2
      <3>2. IsFiniteSet(some)
        <4> DEFINE f == [j \in D |-> {jobs[j][i].duration : i \in 1..Reach(jobs[j], 50)}]
        <4>1. IsFiniteSet(DOMAIN f)
          BY <1>1
        <4>2. IsFiniteSet({f[j] : j \in DOMAIN f})
          <5> HIDE DEF f
          <5> QED BY <4>1, ImageIsFinite
        <4> QED BY <4>2
      <3>3. \A s \in some : IsFiniteSet(s)
        BY <3>1
      <3> HIDE DEF some
      <3>4. IsFiniteSet(UNION some)
        BY <3>2, <3>3, FS_UNION
      <3> QED BY <3>4, FS_Subset
    <2>2. \A j \in D : \A i \in 1..Reach(jobs[j], 50) : jobs[j][i].duration \in Nat
      BY <1>5 DEF Run
    <2>3. \A x \in durations : x \in Nat \ {0}
      BY <2>2
    <2>4. \A j \in D : \A i \in 1..Reach(jobs[j], 50) :
            jobs[j][i].duration # 0 => jobs[j][i].duration \in durations
      OBVIOUS
    <2>5. \A x \in durations : \E j \in D : \E i \in 1..Reach(jobs[j], 50) :
            x = jobs[j][i].duration
      OBVIOUS
    <2> HIDE DEF durations
    <2>6. PICK lo \in Nat, hi \in Nat :
            /\ lo = Algorithms!Min(durations) /\ hi = Algorithms!Max(durations)
            /\ \A x \in durations : lo <= x /\ x <= hi
      <3>1. \A x \in durations : x \in Int
        BY <2>3
      <3>2. /\ Algorithms!Min(durations) \in durations
            /\ \A x \in durations : Algorithms!Min(durations) <= x
        BY <1>12, <2>1, <3>1, LeastOf
      <3>3. /\ Algorithms!Max(durations) \in durations
            /\ \A x \in durations : x <= Algorithms!Max(durations)
        BY <1>12, <2>1, <3>1, GreatestOf
      <3> QED BY <2>3, <3>2, <3>3
    <2>7. ASSUME NEW j \in D
          PROVE  /\ duration[j] \in Int
                 /\ lo * timed[j] <= duration[j] /\ duration[j] <= hi * timed[j]
      <3> DEFINE I == 1..Reach(jobs[j], 50)
                 E == In(j, 50, P)
                 d == [i \in I |-> jobs[j][i].duration]
                 ind == [i \in I |-> IF i \in E THEN 1 ELSE 0]
                 los == [i \in I |-> lo * ind[i]]
                 his == [i \in I |-> hi * ind[i]]
      <3>1. IsFiniteSet(I) /\ E \in SUBSET I
        <4>1. Reach(jobs[j], 50) \in Int /\ 1 \in Int
          BY <1>3
        <4>2. IsFiniteSet(1..Reach(jobs[j], 50))
          BY <4>1, FS_Interval
        <4> QED BY <4>2
      <3>2. Algorithms!Sum(ind) = Cardinality(E)
        <4> HIDE DEF I, E
        <4> QED BY <3>1, SumCounts
      <3>3. \A i \in I : d[i] \in Nat /\ (i \in E <=> d[i] # 0)
                         /\ (d[i] # 0 => lo <= d[i] /\ d[i] <= hi)
        <4> TAKE i \in I
        <4>1. jobs[j][i] \in R /\ jobs[j][i].duration \in Nat
          BY <1>5, <2>2
        <4>2. i \in E <=> jobs[j][i].duration > 0
          BY <4>1 DEF P
        <4>3. jobs[j][i].duration # 0 => jobs[j][i].duration \in durations
          BY <2>4
        <4>4. d[i] = jobs[j][i].duration
          OBVIOUS
        <4> HIDE DEF d, E, I
        <4> QED BY <2>6, <4>1, <4>2, <4>3, <4>4
      <3>4. \A i \in I : ind[i] = IF i \in E THEN 1 ELSE 0
        OBVIOUS
      <3>5. \A i \in I : los[i] = lo * ind[i] /\ his[i] = hi * ind[i]
        OBVIOUS
      <3>6. DOMAIN d = I /\ DOMAIN ind = I /\ DOMAIN los = I /\ DOMAIN his = I
        OBVIOUS
      <3>7. duration[j] = Algorithms!Sum(d) /\ timed[j] = Cardinality(E)
        OBVIOUS
      <3> HIDE DEF d, ind, los, his, I, E
      <3>8. Addable(d) /\ Addable(ind)
        BY <3>1, <3>3, <3>4, <3>6 DEF Addable
      <3>9. /\ Addable(los) /\ Algorithms!Sum(los) = lo * Algorithms!Sum(ind)
            /\ Addable(his) /\ Algorithms!Sum(his) = hi * Algorithms!Sum(ind)
        <4>1. lo \in Int /\ hi \in Int
          OBVIOUS
        <4>2. Addable(los) /\ Algorithms!Sum(los) = lo * Algorithms!Sum(ind)
          BY <3>5, <3>6, <3>8, <4>1, SumTimes
        <4>3. Addable(his) /\ Algorithms!Sum(his) = hi * Algorithms!Sum(ind)
          BY <3>5, <3>6, <3>8, <4>1, SumTimes
        <4> QED BY <4>2, <4>3
      <3>10. \A i \in I : los[i] <= d[i] /\ d[i] <= his[i]
        BY <3>3, <3>4, <3>5
      <3>11. Algorithms!Sum(los) <= Algorithms!Sum(d)
        BY <3>6, <3>8, <3>9, <3>10, SumIsOrdered
      <3>12. Algorithms!Sum(d) <= Algorithms!Sum(his)
        BY <3>6, <3>8, <3>9, <3>10, SumIsOrdered
      <3>13. Algorithms!Sum(d) \in Int
        BY <3>8, SumIsInt
      <3> HIDE DEF duration, timed
      <3> QED BY <3>2, <3>7, <3>9, <3>11, <3>12, <3>13
    <2>8. Addable(timed) /\ DOMAIN timed = D /\ \A j \in D : timed[j] \in Nat
      <3> HIDE DEF count
      <3> QED BY <1>7
    <2>9. DOMAIN duration = D
      OBVIOUS
    <2>10. PICK j \in D : timed[j] >= 1
      <3>1. PICK x \in durations : TRUE
        BY <1>12
      <3>2. PICK k \in D : \E i \in 1..Reach(jobs[k], 50) : x = jobs[k][i].duration
        BY <2>5
      <3>5. PICK i \in 1..Reach(jobs[k], 50) : x = jobs[k][i].duration
        BY <3>2
      <3>3. i \in In(k, 50, P)
        BY <1>5, <2>3, <3>5 DEF P
      <3>4. Cardinality(In(k, 50, P)) # 0 /\ Cardinality(In(k, 50, P)) \in Nat
        <4> HIDE DEF In
        <4>1. IsFiniteSet(In(k, 50, P)) /\ Cardinality(In(k, 50, P)) \in Nat
          BY <1>6
        <4> QED BY <3>3, <4>1, FS_EmptySet
      <3>6. timed[k] = Cardinality(In(k, 50, P))
        OBVIOUS
      <3> HIDE DEF timed, In
      <3>7. timed[k] >= 1
        BY <3>4, <3>6
      <3> QED BY <3>7
    <2> DEFINE los == [k \in D |-> lo * timed[k]]
               his == [k \in D |-> hi * timed[k]]
    <2>11. /\ DOMAIN los = D /\ DOMAIN his = D
           /\ \A k \in D : los[k] = lo * timed[k] /\ his[k] = hi * timed[k]
      OBVIOUS
    <2> HIDE DEF timed, duration, los, his
    <2>12. Addable(duration)
      BY <1>1, <2>7, <2>9 DEF Addable
    <2>13. /\ Addable(los) /\ Algorithms!Sum(los) = lo * Algorithms!Sum(timed)
           /\ Addable(his) /\ Algorithms!Sum(his) = hi * Algorithms!Sum(timed)
      <3>1. lo \in Int /\ hi \in Int
        OBVIOUS
      <3>2. Addable(los) /\ Algorithms!Sum(los) = lo * Algorithms!Sum(timed)
        BY <2>8, <2>11, <3>1, SumTimes
      <3>3. Addable(his) /\ Algorithms!Sum(his) = hi * Algorithms!Sum(timed)
        BY <2>8, <2>11, <3>1, SumTimes
      <3> QED BY <3>2, <3>3
    <2>14. Algorithms!Sum(los) <= Algorithms!Sum(duration)
      BY <2>7, <2>9, <2>11, <2>12, <2>13, SumIsOrdered
    <2>15. Algorithms!Sum(duration) <= Algorithms!Sum(his)
      BY <2>7, <2>9, <2>11, <2>12, <2>13, SumIsOrdered
    <2>16. PICK n \in Nat \ {0}, s \in Int :
             n = Algorithms!Sum(timed) /\ s = Algorithms!Sum(duration)
      <3>1. Algorithms!Sum(timed) \in Nat /\ timed[j] <= Algorithms!Sum(timed)
        BY <2>8, SumHasEach
      <3>2. Algorithms!Sum(timed) # 0
        BY <2>8, <2>10, <3>1
      <3>3. Algorithms!Sum(duration) \in Int
        BY <2>12, SumIsInt
      <3> QED BY <3>1, <3>2, <3>3
    <2>17. average = Algorithms!Rounded(s, n)
      BY <2>16
    <2>18. lo * n <= s /\ s <= hi * n
      BY <2>13, <2>14, <2>15, <2>16
    <2>19. average \in Int /\ lo <= average /\ average <= hi
      <3>1. lo \in Int /\ hi \in Int
        OBVIOUS
      <3>2. /\ Algorithms!Rounded(s, n) \in Int /\ lo <= Algorithms!Rounded(s, n)
            /\ Algorithms!Rounded(s, n) <= hi
        BY <2>18, <3>1, RoundedBetween
      <3> HIDE DEF average
      <3> QED BY <2>17, <3>2
    <2> HIDE DEF average
    <2> QED BY <2>6, <2>19
  <1> HIDE DEF average, durations, stats
  <1> QED BY <1>8, <1>10, <1>11, <1>12 DEF Algorithms!StatsAreConsistent, stats

CronPart == [shape : {"*", "*/n", "a", "a-b", "a-b/n", "a/n"}, a : Nat, b : Nat, n : Nat]
CronField == SUBSET CronPart
Expression ==
  [minute : CronField, hour : CronField, dayOfMonth : CronField, month : CronField,
   dayOfWeek : CronField]

(* The values of a field that parses.                                      *)
FieldFits(values, field, min, max) ==
  /\ values \subseteq min..max
  /\ \A v : Algorithms!Matches(field, v, min, max) <=> v \in values

LEMMA FieldIs ==
  ASSUME NEW field \in CronField, NEW min \in Nat, NEW max \in Nat,
         Algorithms!ParseCronField(field, min, max) # {}
  PROVE  FieldFits(Algorithms!ParseCronField(field, min, max), field, min, max)
  <1>1. \A part \in field : Algorithms!PartParses(part, min, max)
    BY DEF Algorithms!ParseCronField
  <1>2. Algorithms!ParseCronField(field, min, max)
          = UNION {Algorithms!PartValues(part, min, max) : part \in field}
    BY <1>1 DEF Algorithms!ParseCronField
  <1>3. ASSUME NEW part \in field
        PROVE  Algorithms!PartValues(part, min, max) \subseteq min..max
    <2>1. part \in CronPart
      BY DEF CronField
    <2>2. Algorithms!First(part, min) \in Nat /\ Algorithms!Last(part, max) \in Nat
      BY <2>1 DEF CronPart, Algorithms!First, Algorithms!Last
    <2>3. Algorithms!First(part, min) >= min /\ Algorithms!Last(part, max) <= max
      BY <1>1 DEF Algorithms!PartParses
    <2>4. \A v \in Algorithms!First(part, min)..Algorithms!Last(part, max) : v \in min..max
      BY <2>2, <2>3
    <2> QED BY <2>4 DEF Algorithms!PartValues
  <1>4. ASSUME NEW v
        PROVE  Algorithms!Matches(field, v, min, max)
                 <=> \E part \in field : v \in Algorithms!PartValues(part, min, max)
    BY DEF Algorithms!Matches, Algorithms!PartValues
  <1> QED BY <1>2, <1>3, <1>4 DEF FieldFits

LEMMA MinGapIs ==
  ASSUME NEW V \in SUBSET Int, IsFiniteSet(V), V # {}, NEW wrapAt \in Nat
  PROVE  /\ Algorithms!MinGap(V, wrapAt) \in Int
         /\ \A x, y \in V : x < y => /\ Algorithms!MinGap(V, wrapAt) <= y - x
                                     /\ Algorithms!MinGap(V, wrapAt) <= wrapAt - y + x
  <1>1. Algorithms!Cardinality(V) = Cardinality(V) /\ Cardinality(V) \in Nat
    BY AlgorithmsCardinality, FS_CardinalityType
  <1>2. CASE Cardinality(V) <= 1
    <2>1. Cardinality(V) # 0
      BY FS_EmptySet
    <2>2. Cardinality(V) = 1
      BY <1>1, <1>2, <2>1
    <2>3. PICK e : V = {e}
      BY <2>2, FS_Singleton
    <2>4. \A x, y \in V : ~(x < y)
      BY <2>3
    <2>5. Algorithms!MinGap(V, wrapAt) = wrapAt
      BY <1>1, <1>2 DEF Algorithms!MinGap
    <2> QED BY <2>4, <2>5
  <1>3. CASE ~(Cardinality(V) <= 1)
    <2> DEFINE least == Algorithms!Min(V)
               greatest == Algorithms!Max(V)
               S == Algorithms!Gaps(V) \cup {wrapAt - greatest + least}
    <2>1. least \in Int /\ greatest \in Int /\ \A x \in V : least <= x /\ x <= greatest
      <3>1. \A x \in V : x \in Int
        OBVIOUS
      <3> QED BY <3>1, LeastOf, GreatestOf
    <2>2. Algorithms!MinGap(V, wrapAt) = Algorithms!Min(S)
      BY <1>1, <1>3 DEF Algorithms!MinGap
    <2> DEFINE pairs == {p \in V \X V : p[1] < p[2]}
               f == [p \in pairs |-> p[2] - p[1]]
    <2>3. Algorithms!Gaps(V) = {f[p] : p \in DOMAIN f}
      BY DEF Algorithms!Gaps
    <2>4. IsFiniteSet(DOMAIN f)
      <3>1. IsFiniteSet(V \X V)
        BY FS_Product
      <3> QED BY <3>1, FS_Subset
    <2>5. \A p \in DOMAIN f : f[p] \in Int
      <3>1. \A x, y \in V : y - x \in Int
        OBVIOUS
      <3>2. \A p \in pairs : p[1] \in V /\ p[2] \in V
        OBVIOUS
      <3>3. DOMAIN f = pairs /\ \A p \in pairs : f[p] = p[2] - p[1]
        OBVIOUS
      <3> HIDE DEF f, pairs
      <3> QED BY <3>1, <3>2, <3>3
    <2>6. \A x, y \in V : x < y => y - x \in Algorithms!Gaps(V)
      <3> TAKE x, y \in V
      <3> HAVE x < y
      <3>1. <<x, y>> \in pairs /\ f[<<x, y>>] = y - x
        OBVIOUS
      <3> QED BY <2>3, <3>1
    <2>7. IsFiniteSet(Algorithms!Gaps(V)) /\ \A g \in Algorithms!Gaps(V) : g \in Int
      <3> HIDE DEF f
      <3>1. IsFiniteSet({f[p] : p \in DOMAIN f})
        BY <2>4, ImageIsFinite
      <3> QED BY <2>3, <2>5, <3>1
    <2>8. IsFiniteSet(S) /\ S # {} /\ \A g \in S : g \in Int
      <3>1. IsFiniteSet({wrapAt - greatest + least})
        BY FS_Singleton
      <3>2. IsFiniteSet(S)
        BY <2>7, <3>1, FS_Union
      <3> HIDE DEF least, greatest
      <3> QED BY <2>1, <2>7, <3>2
    <2>9. wrapAt - greatest + least \in S /\ \A x, y \in V : x < y => y - x \in S
      BY <2>6
    <2> HIDE DEF S
    <2>10. PICK m \in Int : m = Algorithms!MinGap(V, wrapAt) /\ \A g \in S : m <= g
      BY <2>2, <2>8, LeastOf
    <2>11. ASSUME NEW x \in V, NEW y \in V, x < y
           PROVE  m <= y - x /\ m <= wrapAt - y + x
      <3>1. m <= y - x /\ m <= wrapAt - greatest + least
        BY <2>9, <2>10, <2>11
      <3>2. least <= x /\ y <= greatest /\ x \in Int /\ y \in Int
        BY <2>1
      <3> HIDE DEF least, greatest
      <3> QED BY <2>1, <3>1, <3>2
    <2> QED BY <2>10, <2>11
  <1> QED BY <1>2, <1>3

LEMMA Bounded == IsFiniteSet(0..6) /\ IsFiniteSet(1..31) /\ IsFiniteSet(0..1439)
  <1>1. ASSUME NEW lo \in Int, NEW hi \in Int PROVE IsFiniteSet(lo..hi)
    BY FS_Interval
  <1>2. IsFiniteSet(0..6)
    BY <1>1, 0 \in Int, 6 \in Int
  <1>3. IsFiniteSet(1..31)
    BY <1>1, 1 \in Int, 31 \in Int
  <1>4. PICK hi \in Int : hi = 1439
    OBVIOUS
  <1>5. IsFiniteSet(0..hi)
    BY <1>1, 0 \in Int
  <1>6. IsFiniteSet(0..1439)
    BY <1>4, <1>5
  <1> QED BY <1>2, <1>3, <1>6

(* A moment's day, and its minute within the day.                          *)
Clock(t, day, h, m) ==
  h = (t \div 60) % 24 /\ m = t % 60 /\ t = 1440 * day + h * 60 + m

LEMMA MomentIs ==
  ASSUME NEW t \in Nat
  PROVE  \E day \in Nat, h \in 0..23, m \in 0..59 : Clock(t, day, h, m)
  <1>1. PICK a \in Nat, m \in 0..59 : a = t \div 60 /\ m = t % 60 /\ t = 60 * a + m
    <2>1. t \div 60 \in Nat /\ t % 60 \in 0..59 /\ t = 60 * (t \div 60) + (t % 60)
      BY DivMod, 60 \in Nat \ {0}
    <2> QED BY <2>1
  <1>2. PICK day \in Nat, h \in 0..23 : h = a % 24 /\ a = 24 * day + h
    <2>1. a \div 24 \in Nat /\ a % 24 \in 0..23 /\ a = 24 * (a \div 24) + (a % 24)
      BY DivMod, 24 \in Nat \ {0}
    <2> QED BY <2>1
  <1>3. t = 1440 * day + h * 60 + m
    BY <1>1, <1>2
  <1>4. Clock(t, day, h, m)
    BY <1>1, <1>2, <1>3 DEF Clock
  <1> QED BY <1>4

(* A job whose schedule is accepted never runs twice within five minutes   *)
(* (cron-validator).                                                       *)
THEOREM CronsKeepDistance ==
  ASSUME NEW expr \in Expression
  PROVE  Algorithms!CronKeepsItsDistance(expr)
  <1> DEFINE times == Algorithms!Parsed(expr)
             E == Algorithms!ExecutionTimes(times)
  <1>1. SUFFICES ASSUME Algorithms!Parses(times),
                        Algorithms!CalculateMinInterval(times) \in 5..(24 * 60),
                        NEW t \in 0..(2 * 24 * 60 - 1), Algorithms!RunsAt(expr, t),
                        NEW u \in (t + 1)..(t + 4), Algorithms!RunsAt(expr, u)
                 PROVE  FALSE
    BY DEF Algorithms!CronKeepsItsDistance, Algorithms!ValidateCronExpression
  <1>2. /\ expr.minute \in CronField /\ expr.hour \in CronField
        /\ expr.dayOfMonth \in CronField /\ expr.dayOfWeek \in CronField
    BY DEF Expression
  <1>3. /\ times.minutes = Algorithms!ParseCronField(expr.minute, 0, 59)
        /\ times.hours = Algorithms!ParseCronField(expr.hour, 0, 23)
        /\ times.daysOfMonth = Algorithms!ParseCronField(expr.dayOfMonth, 1, 31)
        /\ times.daysOfWeek = Algorithms!ParseCronField(expr.dayOfWeek, 0, 6)
        /\ DOMAIN times = {"minutes", "hours", "daysOfMonth", "months", "daysOfWeek"}
    BY DEF Algorithms!Parsed
  <1> HIDE DEF times
  <1>4. /\ times.minutes # {} /\ times.hours # {}
        /\ times.daysOfMonth # {} /\ times.daysOfWeek # {}
    BY <1>1, <1>3 DEF Algorithms!Parses
  <1>5. /\ FieldFits(times.minutes, expr.minute, 0, 59) /\ FieldFits(times.hours, expr.hour, 0, 23)
        /\ FieldFits(times.daysOfMonth, expr.dayOfMonth, 1, 31)
        /\ FieldFits(times.daysOfWeek, expr.dayOfWeek, 0, 6)
    <2>1. 0 \in Nat /\ 1 \in Nat /\ 6 \in Nat /\ 23 \in Nat /\ 31 \in Nat /\ 59 \in Nat
      OBVIOUS
    <2>2. FieldFits(times.minutes, expr.minute, 0, 59)
      <3>1. Algorithms!ParseCronField(expr.minute, 0, 59) # {}
        BY <1>3, <1>4
      <3>2. FieldFits(Algorithms!ParseCronField(expr.minute, 0, 59), expr.minute, 0, 59)
        BY <1>2, <2>1, <3>1, FieldIs
      <3> QED BY <1>3, <3>2
    <2>3. FieldFits(times.hours, expr.hour, 0, 23)
      <3>1. Algorithms!ParseCronField(expr.hour, 0, 23) # {}
        BY <1>3, <1>4
      <3>2. FieldFits(Algorithms!ParseCronField(expr.hour, 0, 23), expr.hour, 0, 23)
        BY <1>2, <2>1, <3>1, FieldIs
      <3> QED BY <1>3, <3>2
    <2>4. FieldFits(times.daysOfMonth, expr.dayOfMonth, 1, 31)
      <3>1. Algorithms!ParseCronField(expr.dayOfMonth, 1, 31) # {}
        BY <1>3, <1>4
      <3>2. FieldFits(Algorithms!ParseCronField(expr.dayOfMonth, 1, 31), expr.dayOfMonth, 1, 31)
        BY <1>2, <2>1, <3>1, FieldIs
      <3> QED BY <1>3, <3>2
    <2>5. FieldFits(times.daysOfWeek, expr.dayOfWeek, 0, 6)
      <3>1. Algorithms!ParseCronField(expr.dayOfWeek, 0, 6) # {}
        BY <1>3, <1>4
      <3>2. FieldFits(Algorithms!ParseCronField(expr.dayOfWeek, 0, 6), expr.dayOfWeek, 0, 6)
        BY <1>2, <2>1, <3>1, FieldIs
      <3> QED BY <1>3, <3>2
    <2> QED BY <2>2, <2>3, <2>4, <2>5
  <1>6. /\ times.minutes \subseteq 0..59 /\ times.hours \subseteq 0..23
        /\ times.daysOfMonth \subseteq 1..31 /\ times.daysOfWeek \subseteq 0..6
    BY <1>5 DEF FieldFits
  <1>7. /\ \A v : Algorithms!Matches(expr.minute, v, 0, 59) => v \in times.minutes
        /\ \A v : Algorithms!Matches(expr.hour, v, 0, 23) => v \in times.hours
    BY <1>5 DEF FieldFits
  <1>8. Algorithms!DayGap(times) \in Int
    <2>1. Algorithms!MinGap(times.daysOfWeek, 7) \in Int
      <3>1. times.daysOfWeek \in SUBSET Int /\ 7 \in Nat
        BY <1>6
      <3>2. IsFiniteSet(times.daysOfWeek)
        BY <1>6, Bounded, FS_Subset
      <3> QED BY <1>4, <3>1, <3>2, MinGapIs
    <2>2. Algorithms!MinGap(times.daysOfMonth, 31) \in Int
      <3>1. times.daysOfMonth \in SUBSET Int /\ 31 \in Nat
        BY <1>6
      <3>2. IsFiniteSet(times.daysOfMonth)
        BY <1>6, Bounded, FS_Subset
      <3> QED BY <1>4, <3>1, <3>2, MinGapIs
    <2> QED BY <2>1, <2>2 DEF Algorithms!DayGap
  <1>9. Algorithms!MinGap(E, 24 * 60) >= 5
    <2>1. PICK g \in Int : g = Algorithms!DayGap(times)
      BY <1>8
    <2>2. g > 1 => ~(g * 24 * 60 \in 5..(24 * 60))
      OBVIOUS
    <2>3. ~(g > 1)
      BY <1>1, <2>1, <2>2 DEF Algorithms!CalculateMinInterval
    <2>4. Algorithms!MinGap(E, 24 * 60) \in 5..(24 * 60)
      BY <1>1, <2>1, <2>3 DEF Algorithms!CalculateMinInterval
    <2> HIDE DEF E
    <2> QED BY <2>4
  <1>10. PICK day \in Nat, h \in 0..23, m \in 0..59 : Clock(t, day, h, m)
    <2>1. t \in Nat
      OBVIOUS
    <2> QED BY <2>1, MomentIs, Zenon
  <1>11. PICK date \in Nat, k \in 0..23, n \in 0..59 : Clock(u, date, k, n)
    <2>1. u \in Nat
      OBVIOUS
    <2> QED BY <2>1, MomentIs, Zenon
  <1>12. h * 60 + m \in E /\ k * 60 + n \in E
    <2>1. h \in times.hours /\ m \in times.minutes
      <3>1. (t \div 60) % 24 = h /\ t % 60 = m
        BY <1>10, Zenon DEF Clock
      <3>2. /\ Algorithms!Matches(expr.hour, (t \div 60) % 24, 0, 23)
            /\ Algorithms!Matches(expr.minute, t % 60, 0, 59)
        BY <1>1 DEF Algorithms!RunsAt
      <3>3. /\ Algorithms!Matches(expr.hour, h, 0, 23)
            /\ Algorithms!Matches(expr.minute, m, 0, 59)
        BY <3>1, <3>2, Zenon
      <3> QED BY <1>7, <3>3, Zenon
    <2>2. k \in times.hours /\ n \in times.minutes
      <3>1. (u \div 60) % 24 = k /\ u % 60 = n
        BY <1>11, Zenon DEF Clock
      <3>2. /\ Algorithms!Matches(expr.hour, (u \div 60) % 24, 0, 23)
            /\ Algorithms!Matches(expr.minute, u % 60, 0, 59)
        BY <1>1 DEF Algorithms!RunsAt
      <3>3. /\ Algorithms!Matches(expr.hour, k, 0, 23)
            /\ Algorithms!Matches(expr.minute, n, 0, 59)
        BY <3>1, <3>2, Zenon
      <3> QED BY <1>7, <3>3, Zenon
    <2> QED BY <2>1, <2>2 DEF Algorithms!ExecutionTimes
  <1>13. E \subseteq 0..1439
    <2>1. \A x \in 0..23, y \in 0..59 : x * 60 + y \in 0..1439
      OBVIOUS
    <2>2. ASSUME NEW z \in E PROVE z \in 0..1439
      <3>1. PICK x \in times.hours, y \in times.minutes : z = x * 60 + y
        BY DEF Algorithms!ExecutionTimes
      <3>2. x \in 0..23 /\ y \in 0..59
        BY <1>6
      <3> QED BY <2>1, <3>1, <3>2
    <2> QED BY <2>2
  <1> HIDE DEF E
  <1>14. E \in SUBSET Int /\ IsFiniteSet(E) /\ E # {} /\ 24 * 60 \in Nat
    <2>1. PICK hi \in Int : hi = 1439
      OBVIOUS
    <2>2. E \subseteq 0..hi
      BY <1>13, <2>1
    <2>4. IsFiniteSet(0..hi)
      BY FS_Interval, 0 \in Int
    <2>5. IsFiniteSet(E)
      <3> HIDE <2>1
      <3> QED BY <2>2, <2>4, FS_Subset
    <2>3. E \in SUBSET Int /\ 24 * 60 \in Nat
      BY <1>13
    <2> QED BY <1>12, <2>3, <2>5
  <1>15. PICK gap \in Int : /\ gap = Algorithms!MinGap(E, 24 * 60) /\ gap >= 5
                            /\ \A x, y \in E : x < y => gap <= y - x /\ gap <= 24 * 60 - y + x
    BY <1>9, <1>14, MinGapIs
  <1> DEFINE M == 0..1439
  <1>16. E \subseteq M
    BY <1>13
  <1> HIDE DEF M
  <1>17. PICK e \in M : e = h * 60 + m /\ e \in E
    BY <1>12, <1>16, Zenon
  <1>18. PICK d \in M : d = k * 60 + n /\ d \in E
    BY <1>12, <1>16, Zenon
  <1>19. e \in 0..1439 /\ d \in 0..1439
    BY DEF M
  <1>20. t = 1440 * day + e /\ u = 1440 * date + d /\ t + 1 <= u /\ u <= t + 4
    BY <1>10, <1>11, <1>17, <1>18 DEF Clock
  <1>21. date = day \/ date = day + 1
    BY <1>19, <1>20
  <1>22. (e < d /\ d - e <= 4) \/ (d < e /\ 24 * 60 - e + d <= 4)
    BY <1>19, <1>20, <1>21
  <1>23. e < d => 5 <= d - e
    BY <1>15, <1>17, <1>18, <1>19
  <1>24. d < e => 5 <= 24 * 60 - e + d
    BY <1>15, <1>17, <1>18, <1>19
  <1> QED BY <1>19, <1>22, <1>23, <1>24

LEMMA Sizes == Cardinality(0..6) = 7 /\ Cardinality(1..31) = 31
  <1>1. ASSUME NEW lo \in Int, NEW hi \in Int, lo <= hi
        PROVE  Cardinality(lo..hi) = hi - lo + 1
    BY <1>1, FS_Interval
  <1>2. ASSUME NEW lo \in Int, NEW hi \in Int, NEW n \in Int, lo <= hi, n = hi - lo + 1
        PROVE  Cardinality(lo..hi) = n
    BY <1>1, <1>2
  <1>3. 0 <= 6 /\ 7 = 6 - 0 + 1 /\ 1 <= 31 /\ 31 = 31 - 1 + 1
    OBVIOUS
  <1>4. Cardinality(0..6) = 7
    BY <1>2, <1>3, 0 \in Int, 6 \in Int, 7 \in Int
  <1>5. Cardinality(1..31) = 31
    BY <1>2, <1>3, 1 \in Int, 31 \in Int
  <1> QED BY <1>4, <1>5

(* Of all the days of a week, or of some that leave no gap, two are        *)
(* neighbours.                                                             *)
LEMMA Neighbours ==
  ASSUME NEW W \in SUBSET (0..6), W # {},
         Cardinality(W) < 7 => ~(Algorithms!MinGap(W, 7) > 1)
  PROVE  \E d \in W : (d + 1) % 7 \in W
  <1>1. IsFiniteSet(W) /\ Cardinality(W) \in Nat /\ \A x \in W : x \in Int
    <2>1. IsFiniteSet(W)
      BY Bounded, FS_Subset
    <2>2. Cardinality(W) \in Nat
      BY <2>1, FS_CardinalityType
    <2> QED BY <2>1, <2>2
  <1>2. CASE ~(Cardinality(W) < 7)
    <2>1. Cardinality(0..6) = 7
      BY Sizes
    <2>2. Cardinality(W) <= Cardinality(0..6) /\ (Cardinality(0..6) = Cardinality(W) => 0..6 = W)
      BY Bounded, FS_Subset
    <2>3. W = 0..6
      BY <1>1, <1>2, <2>1, <2>2
    <2> QED BY <2>3
  <1>3. CASE Cardinality(W) < 7
    <2> DEFINE least == Algorithms!Min(W)
               greatest == Algorithms!Max(W)
               S == Algorithms!Gaps(W) \cup {7 - greatest + least}
    <2>1. least \in W /\ greatest \in W
      BY <1>1, LeastOf, GreatestOf
    <2>2. ~(Algorithms!MinGap(W, 7) > 1)
      BY <1>3
    <2>3. Algorithms!MinGap(W, 7) = Algorithms!Min(S)
      BY <2>2 DEF Algorithms!MinGap
    <2>4. IsFiniteSet(S)
      <3>1. Algorithms!Gaps(W) \subseteq 0..6
        <4>1. ASSUME NEW p \in W \X W, p[1] < p[2] PROVE p[2] - p[1] \in 0..6
          <5>1. PICK x \in 0..6, y \in 0..6 : p[1] = x /\ p[2] = y
            OBVIOUS
          <5> QED BY <4>1, <5>1
        <4> QED BY <4>1 DEF Algorithms!Gaps
      <3>2. IsFiniteSet(0..6)
        BY Bounded
      <3>3. IsFiniteSet(Algorithms!Gaps(W)) /\ IsFiniteSet({7 - greatest + least})
        BY <3>1, <3>2, FS_Subset, FS_Singleton
      <3> QED BY <3>3, FS_Union
    <2>5. \A g \in Algorithms!Gaps(W) : \E x, y \in W : x < y /\ g = y - x
      BY DEF Algorithms!Gaps
    <2>6. \A g \in S : g \in Int
      <3> HIDE DEF least, greatest
      <3> QED BY <1>1, <2>1, <2>5
    <2>7. Algorithms!Min(S) \in S
      <3>1. S # {}
        OBVIOUS
      <3> HIDE DEF S
      <3> QED BY <2>4, <2>6, <3>1, LeastOf
    <2>8. PICK g \in S : g = Algorithms!MinGap(W, 7) /\ g \in Int /\ ~(g > 1)
      BY <2>2, <2>3, <2>6, <2>7
    <2>9. CASE g \in Algorithms!Gaps(W)
      <3>1. PICK x, y \in W : x < y /\ g = y - x
        BY <2>5, <2>9
      <3>2. (x + 1) % 7 = y
        BY <2>8, <3>1
      <3> QED BY <3>2
    <2>10. CASE g = 7 - greatest + least
      <3> HIDE DEF least, greatest
      <3>1. greatest = 6 /\ least = 0
        BY <2>1, <2>8, <2>10
      <3> QED BY <2>1, <3>1
    <2> QED BY <2>9, <2>10
  <1> QED BY <1>2, <1>3

(* The moment a scheduler reads as this day, hour and minute.              *)
LEMMA ReadAs ==
  ASSUME NEW day \in Nat, NEW h \in 0..23, NEW m \in 0..59,
         NEW t, t = 1440 * day + h * 60 + m
  PROVE  t \div 1440 = day /\ (t \div 60) % 24 = h /\ t % 60 = m
  <1>1. t \div 1440 = day
    OBVIOUS
  <1>2. t \div 60 = 24 * day + h /\ t % 60 = m
    OBVIOUS
  <1>3. (24 * day + h) % 24 = h
    OBVIOUS
  <1> QED BY <1>1, <1>2, <1>3

(* An accepted job that goes by the days of the week runs on two days in a *)
(* row (cron-validator).                                                   *)
THEOREM CronsRunOnNeighbours ==
  ASSUME NEW expr \in Expression
  PROVE  Algorithms!CronRunsTwoDaysRunning(expr)
  <1> DEFINE times == Algorithms!Parsed(expr)
  <1>1. SUFFICES ASSUME Algorithms!Parses(times),
                        Algorithms!CalculateMinInterval(times) \in 5..(24 * 60),
                        times.daysOfMonth = 1..31
                 PROVE  \E t \in 0..(7 * 24 * 60 - 1) :
                          /\ Algorithms!RunsInWeek(expr, t)
                          /\ Algorithms!RunsInWeek(expr, t + 24 * 60)
    BY DEF Algorithms!CronRunsTwoDaysRunning, Algorithms!ValidateCronExpression
  <1>2. expr.minute \in CronField /\ expr.hour \in CronField /\ expr.dayOfWeek \in CronField
    BY DEF Expression
  <1>3. /\ times.minutes = Algorithms!ParseCronField(expr.minute, 0, 59)
        /\ times.hours = Algorithms!ParseCronField(expr.hour, 0, 23)
        /\ times.daysOfWeek = Algorithms!ParseCronField(expr.dayOfWeek, 0, 6)
        /\ DOMAIN times = {"minutes", "hours", "daysOfMonth", "months", "daysOfWeek"}
    BY DEF Algorithms!Parsed
  <1> HIDE DEF times
  <1>4. times.minutes # {} /\ times.hours # {} /\ times.daysOfWeek # {}
    BY <1>1, <1>3 DEF Algorithms!Parses
  <1>5. /\ FieldFits(times.minutes, expr.minute, 0, 59)
        /\ FieldFits(times.hours, expr.hour, 0, 23)
        /\ FieldFits(times.daysOfWeek, expr.dayOfWeek, 0, 6)
    <2>1. FieldFits(times.minutes, expr.minute, 0, 59)
      BY <1>2, <1>3, <1>4, FieldIs, 0 \in Nat, 59 \in Nat
    <2>2. FieldFits(times.hours, expr.hour, 0, 23)
      BY <1>2, <1>3, <1>4, FieldIs, 0 \in Nat, 23 \in Nat
    <2>3. FieldFits(times.daysOfWeek, expr.dayOfWeek, 0, 6)
      BY <1>2, <1>3, <1>4, FieldIs, 0 \in Nat, 6 \in Nat
    <2> QED BY <2>1, <2>2, <2>3
  <1>6. PICK h \in 0..23, m \in 0..59 : h \in times.hours /\ m \in times.minutes
    BY <1>4, <1>5 DEF FieldFits
  <1>7. times.daysOfWeek \in SUBSET (0..6)
    BY <1>5 DEF FieldFits
  <1>8. Cardinality(times.daysOfWeek) < 7 => ~(Algorithms!MinGap(times.daysOfWeek, 7) > 1)
    <2>1. Cardinality(times.daysOfMonth) = 31
      BY <1>1, Sizes
    <2>2. SUFFICES ASSUME Cardinality(times.daysOfWeek) < 7
                   PROVE  ~(Algorithms!MinGap(times.daysOfWeek, 7) > 1)
      OBVIOUS
    <2>3. Algorithms!DayGap(times) = Algorithms!MinGap(times.daysOfWeek, 7)
      BY <2>1, <2>2, AlgorithmsCardinality DEF Algorithms!DayGap
    <2>4. PICK g \in Int : g = Algorithms!MinGap(times.daysOfWeek, 7)
      <3>1. times.daysOfWeek \in SUBSET Int /\ IsFiniteSet(times.daysOfWeek) /\ 7 \in Nat
        BY <1>7, Bounded, FS_Subset
      <3> QED BY <1>4, <3>1, MinGapIs
    <2>5. g > 1 => ~(g * 24 * 60 \in 5..(24 * 60))
      OBVIOUS
    <2> QED BY <1>1, <2>3, <2>4, <2>5 DEF Algorithms!CalculateMinInterval
  <1>9. PICK d \in 0..6 : d \in times.daysOfWeek /\ (d + 1) % 7 \in times.daysOfWeek
    BY <1>4, <1>7, <1>8, Neighbours
  <1> DEFINE t == 1440 * d + h * 60 + m
             u == 1440 * (d + 1) + h * 60 + m
  <1>10. t \in 0..(7 * 24 * 60 - 1) /\ u = t + 24 * 60
    OBVIOUS
  <1>11. /\ t \div (24 * 60) = d /\ (t \div 60) % 24 = h /\ t % 60 = m
         /\ u \div (24 * 60) = d + 1 /\ (u \div 60) % 24 = h /\ u % 60 = m
    <2>1. /\ d \in Nat /\ d + 1 \in Nat /\ 24 * 60 = 1440
          /\ t = 1440 * d + h * 60 + m /\ u = 1440 * (d + 1) + h * 60 + m
      OBVIOUS
    <2> HIDE DEF t, u
    <2>2. t \div 1440 = d /\ (t \div 60) % 24 = h /\ t % 60 = m
      BY <2>1, ReadAs
    <2>3. u \div 1440 = d + 1 /\ (u \div 60) % 24 = h /\ u % 60 = m
      BY <2>1, ReadAs
    <2> QED BY <2>1, <2>2, <2>3
  <1>12. d % 7 = d
    OBVIOUS
  <1> HIDE DEF t, u
  <1>13. Algorithms!RunsInWeek(expr, t) /\ Algorithms!RunsInWeek(expr, u)
    <2>1. /\ Algorithms!Matches(expr.hour, h, 0, 23)
          /\ Algorithms!Matches(expr.minute, m, 0, 59)
          /\ Algorithms!Matches(expr.dayOfWeek, d, 0, 6)
          /\ Algorithms!Matches(expr.dayOfWeek, (d + 1) % 7, 0, 6)
      BY <1>5, <1>6, <1>9 DEF FieldFits
    <2> QED BY <1>11, <1>12, <2>1, Zenon DEF Algorithms!RunsInWeek, Algorithms!RunsAt
  <1> QED BY <1>10, <1>13

(* Array.find.                                                             *)
LEMMA FoundIs ==
  ASSUME NEW list, NEW P \in SUBSET (1..Len(list)), Len(list) \in Nat
  PROVE  /\ Algorithms!Found(P) \in Nat
         /\ Algorithms!Found(P) = 0 => P = {}
         /\ Algorithms!Found(P) # 0 => Algorithms!Found(P) \in P
  <1>1. CASE P = {}
    BY <1>1 DEF Algorithms!Found
  <1>2. CASE P # {}
    <2>1. IsFiniteSet(1..Len(list))
      BY FS_Interval, 1 \in Int, Len(list) \in Int
    <2>2. IsFiniteSet(P)
      BY <2>1, FS_Subset
    <2>5. \A x \in P : x \in Int
      OBVIOUS
    <2>3. Algorithms!Min(P) \in P
      BY <1>2, <2>2, <2>5, LeastOf
    <2>4. \A x \in P : x \in Nat /\ x # 0
      OBVIOUS
    <2> QED BY <1>2, <2>3, <2>4 DEF Algorithms!Found
  <1> QED BY <1>1, <1>2

(* Attributes that agree count ten, others three, of the keys' ten each.   *)
LEMMA SimilarityIs ==
  ASSUME NEW a, NEW b, IsFiniteSet(DOMAIN a), IsFiniteSet(DOMAIN b)
  PROVE  \E s, n \in Nat : /\ s = Algorithms!Similarity(a, b)
                           /\ n = Algorithms!Cardinality(Algorithms!Keys(a, b))
                           /\ s <= 10 * n
                           /\ n = 0 <=> Algorithms!Keys(a, b) = {}
  <1> DEFINE shared == DOMAIN a \cap DOMAIN b
             same == {k \in shared : a[k] = b[k]}
             others == shared \ same
             keys == DOMAIN a \cup DOMAIN b
  <1>1. same \in SUBSET keys /\ others \in SUBSET keys /\ same \cap others = {}
    OBVIOUS
  <1>2. /\ Algorithms!Similarity(a, b) = 10 * Cardinality(same) + 3 * Cardinality(others)
        /\ Algorithms!Keys(a, b) = keys
    BY AlgorithmsCardinality DEF Algorithms!Similarity, Algorithms!Keys
  <1>3. IsFiniteSet(keys)
    BY FS_Union
  <1> HIDE DEF shared, same, others, keys
  <1>4. IsFiniteSet(same) /\ IsFiniteSet(others)
    BY <1>1, <1>3, FS_Subset
  <1>5. IsFiniteSet(same \cup others) /\ IsFiniteSet({})
    BY <1>4, FS_Union, FS_EmptySet
  <1>6. Cardinality(same \cup others) = Cardinality(same) + Cardinality(others)
    <2>1. Cardinality(same \cup others)
            = Cardinality(same) + Cardinality(others) - Cardinality(same \cap others)
      BY <1>4, FS_Union
    <2>2. Cardinality(same \cap others) = 0
      BY <1>1, FS_EmptySet
    <2>3. Cardinality(same) \in Nat /\ Cardinality(others) \in Nat
      BY <1>4, FS_CardinalityType
    <2> QED BY <2>1, <2>2, <2>3
  <1>7. Cardinality(same \cup others) <= Cardinality(keys)
    <2>1. same \cup others \in SUBSET keys
      BY <1>1
    <2> QED BY <1>3, <2>1, FS_Subset
  <1>8. PICK p \in Nat, q \in Nat, n \in Nat :
          p = Cardinality(same) /\ q = Cardinality(others) /\ n = Cardinality(keys)
    BY <1>3, <1>4, FS_CardinalityType
  <1>9. n = 0 <=> keys = {}
    BY <1>3, <1>8, FS_EmptySet
  <1>10. p + q <= n
    BY <1>6, <1>7, <1>8
  <1>11. 10 * p + 3 * q \in Nat /\ 10 * p + 3 * q <= 10 * n
    BY <1>10
  <1>12. Algorithms!Cardinality(keys) = n
    BY <1>8, AlgorithmsCardinality
  <1> QED BY <1>2, <1>8, <1>9, <1>11, <1>12

(* Of fractions the relation "not less" is transitive.                     *)
LEMMA Products == \A a, b \in Nat : a * b \in Nat
  OBVIOUS

LEMMA Times ==
  ASSUME NEW a \in Nat, NEW b \in Nat, NEW c \in Nat, a <= b
  PROVE  a * c <= b * c
  OBVIOUS

LEMMA Cancelled ==
  ASSUME NEW a \in Nat, NEW b \in Nat, NEW c \in Nat \ {0}, a * c <= b * c
  PROVE  a <= b
  <1>1. ASSUME b + 1 <= a PROVE FALSE
    <2>1. (b + 1) * c <= a * c
      BY <1>1, Times, b + 1 \in Nat
    <2>2. (b + 1) * c = b * c + c
      OBVIOUS
    <2> QED BY <2>1, <2>2
  <1> QED BY <1>1

LEMMA Fractions ==
  ASSUME NEW s \in Nat, NEW m \in Nat, NEW t \in Nat, NEW n \in Nat \ {0},
         NEW u \in Nat, NEW o \in Nat,
         s * n <= t * m, t * o <= u * n
  PROVE  s * o <= u * m
  <1>1. (s * n) * o <= (t * m) * o
    BY Times, s * n \in Nat, t * m \in Nat
  <1>2. (t * o) * m <= (u * n) * m
    BY Times, t * o \in Nat, u * n \in Nat
  <1>3. (s * n) * o = (s * o) * n /\ (t * m) * o = (t * o) * m /\ (u * n) * m = (u * m) * n
    OBVIOUS
  <1>4. (s * o) * n <= (u * m) * n
    <2>1. \A x, y, z \in Nat : x <= y /\ y <= z => x <= z
      OBVIOUS
    <2>2. s * o \in Nat /\ u * m \in Nat /\ (s * n) * o \in Nat /\ (t * m) * o \in Nat
          /\ (u * n) * m \in Nat
      OBVIOUS
    <2> QED BY <1>1, <1>2, <1>3, <2>1, <2>2
  <1> QED BY <1>4, Cancelled, s * o \in Nat, u * m \in Nat

(* Of finitely many fractions with a positive denominator one is greatest. *)
LEMMA GreatestFraction ==
  ASSUME NEW P, IsFiniteSet(P), P # {}, NEW s \in [P -> Nat], NEW n \in [P -> Nat \ {0}]
  PROVE  \E i \in P : \A j \in P : s[j] * n[i] <= s[i] * n[j]
  <1> DEFINE Best(D, i) == i \in D /\ \A j \in D : s[j] * n[i] <= s[i] * n[j]
             Good == {D \in SUBSET P : D # {} => \E i \in D : Best(D, i)}
  <1>1. {} \in Good
    OBVIOUS
  <1>2. ASSUME NEW D \in SUBSET P, D # {}, D \ {Some(D)} \in Good
        PROVE  D \in Good
    <2> DEFINE e == Some(D)
    <2>1. e \in D /\ e \in P
      BY <1>2, OneLess
    <2>2. s[e] * n[e] <= s[e] * n[e]
      <3>1. s[e] \in Nat /\ n[e] \in Nat
        BY <2>1
      <3> QED BY <3>1
    <2> HIDE DEF e
    <2>3. CASE D \ {e} = {}
      <3>1. Best(D, e)
        BY <2>1, <2>2, <2>3
      <3> QED BY <2>1, <3>1
    <2>4. CASE D \ {e} # {}
      <3>1. PICK i \in D \ {e} : Best(D \ {e}, i)
        BY <1>2, <2>4 DEF e
      <3>2. i \in P /\ s[i] \in Nat /\ n[i] \in Nat \ {0} /\ s[e] \in Nat /\ n[e] \in Nat \ {0}
        BY <2>1
      <3>3. CASE s[e] * n[i] <= s[i] * n[e]
        <4>1. Best(D, i)
          BY <3>1, <3>3
        <4> QED BY <3>1, <4>1
      <3>4. CASE ~(s[e] * n[i] <= s[i] * n[e])
        <4>1. s[i] * n[e] <= s[e] * n[i]
          <5>1. s[i] * n[e] \in Nat /\ s[e] * n[i] \in Nat
            BY <3>2
          <5> QED BY <3>4, <5>1
        <4>2. ASSUME NEW j \in D \ {e}
              PROVE  s[j] * n[e] <= s[e] * n[j]
          <5>1. s[j] \in Nat /\ n[j] \in Nat
            OBVIOUS
          <5>2. s[j] * n[i] <= s[i] * n[j]
            BY <3>1
          <5> QED BY <3>2, <4>1, <5>1, <5>2, Fractions
        <4>3. Best(D, e)
          BY <2>1, <2>2, <4>2
        <4> QED BY <2>1, <4>3
      <3> QED BY <3>3, <3>4
    <2> QED BY <2>3, <2>4
  <1>3. P \in Good
    <2> HIDE DEF Good
    <2> QED BY <1>1, <1>2, FromTheEmptySet
  <1> QED BY <1>3

(* A SKU and a correction, as far as the matcher reads them.               *)
HasAttributes(x) == IsFiniteSet(DOMAIN x.attributes)

(* A SKU that shares half of its attributes with one has a most similar    *)
(* one among those that share as much.                                     *)
LEMMA OneIsMostSimilar ==
  ASSUME NEW sku, HasAttributes(sku), NEW skus, Len(skus) \in Nat,
         DOMAIN skus = 1..Len(skus), \A i \in DOMAIN skus : HasAttributes(skus[i]),
         NEW k \in DOMAIN skus, Algorithms!AtLeast(sku.attributes, skus[k].attributes, 5)
  PROVE  Algorithms!MostSimilar(sku, skus) # {}
  <1> DEFINE s == [i \in DOMAIN skus |-> Algorithms!Similarity(sku.attributes, skus[i].attributes)]
             n == [i \in DOMAIN skus |->
                     Algorithms!Cardinality(Algorithms!Keys(sku.attributes, skus[i].attributes))]
             P == {i \in DOMAIN skus : n[i] # 0}
  <1>1. ASSUME NEW i \in DOMAIN skus
        PROVE  /\ s[i] \in Nat /\ n[i] \in Nat /\ s[i] <= 10 * n[i]
               /\ Algorithms!AtLeast(sku.attributes, skus[i].attributes, 5)
                    <=> n[i] # 0 /\ s[i] >= 5 * n[i]
    <2>1. IsFiniteSet(DOMAIN sku.attributes) /\ IsFiniteSet(DOMAIN skus[i].attributes)
      BY DEF HasAttributes
    <2>2. PICK p, q \in Nat : /\ p = Algorithms!Similarity(sku.attributes, skus[i].attributes)
                              /\ q = Algorithms!Cardinality(
                                       Algorithms!Keys(sku.attributes, skus[i].attributes))
                              /\ p <= 10 * q
                              /\ q = 0 <=> Algorithms!Keys(sku.attributes, skus[i].attributes) = {}
      BY <2>1, SimilarityIs
    <2> QED BY <2>2 DEF Algorithms!AtLeast
  <1>2. \A i, j \in DOMAIN skus :
          Algorithms!MoreSimilar(sku, skus[j], skus[i]) <=> s[j] * n[i] > s[i] * n[j]
    BY DEF Algorithms!MoreSimilar
  <1>3. IsFiniteSet(P)
    <2>1. IsFiniteSet(1..Len(skus))
      BY FS_Interval, 1 \in Int, Len(skus) \in Int
    <2> QED BY <2>1, FS_Subset
  <1>4. DOMAIN s = DOMAIN skus /\ DOMAIN n = DOMAIN skus
    OBVIOUS
  <1>5. P \in SUBSET DOMAIN skus /\ \A i \in DOMAIN skus : i \in P <=> n[i] # 0
    OBVIOUS
  <1> HIDE DEF s, n, P
  <1>6. k \in P
    BY <1>1, <1>5
  <1>7. PICK i \in P : \A j \in P : s[j] * n[i] <= s[i] * n[j]
    <2> DEFINE f == [j \in P |-> s[j]]
               g == [j \in P |-> n[j]]
    <2>1. f \in [P -> Nat] /\ g \in [P -> Nat \ {0}]
      BY <1>1, <1>5
    <2>2. \A j \in P : f[j] = s[j] /\ g[j] = n[j]
      OBVIOUS
    <2> HIDE DEF f, g
    <2>3. PICK i \in P : \A j \in P : f[j] * g[i] <= f[i] * g[j]
      BY <1>3, <1>6, <2>1, GreatestFraction
    <2> QED BY <2>2, <2>3
  <1>8. i \in DOMAIN skus /\ n[i] \in Nat \ {0} /\ s[i] \in Nat
    BY <1>1, <1>5
  <1>9. ASSUME NEW j \in DOMAIN skus
        PROVE  ~Algorithms!MoreSimilar(sku, skus[j], skus[i])
    <2>1. s[j] \in Nat /\ n[j] \in Nat /\ s[j] <= 10 * n[j]
      BY <1>1
    <2>2. s[j] * n[i] \in Nat /\ s[i] * n[j] \in Nat
      <3>1. s[i] \in Nat /\ n[i] \in Nat /\ s[j] \in Nat /\ n[j] \in Nat
        BY <1>8, <2>1
      <3> QED BY <3>1, Products, Zenon
    <2>3. CASE j \in P
      BY <1>2, <1>7, <1>8, <2>2, <2>3
    <2>4. CASE j \notin P
      <3>1. n[j] = 0 /\ s[j] = 0
        BY <1>5, <2>1, <2>4
      <3>2. s[j] * n[i] = 0 /\ s[i] * n[j] = 0
        BY <1>8, <3>1
      <3> QED BY <1>2, <1>8, <3>2
    <2> QED BY <2>3, <2>4
  <1>10. s[i] >= 5 * n[i]
    <2>1. s[k] \in Nat /\ n[k] \in Nat \ {0} /\ 5 * n[k] <= s[k] * 1
      <3>1. s[k] \in Nat /\ n[k] \in Nat \ {0} /\ s[k] >= 5 * n[k]
        BY <1>1, <1>6
      <3> QED BY <3>1
    <2>2. s[k] * n[i] <= s[i] * n[k]
      BY <1>6, <1>7
    <2>3. 5 * n[i] <= s[i] * 1
      BY <1>8, <2>1, <2>2, Fractions, 5 \in Nat, 1 \in Nat
    <2> QED BY <1>8, <2>3
  <1>11. Algorithms!AtLeast(sku.attributes, skus[i].attributes, 5)
    BY <1>1, <1>8, <1>10
  <1> QED BY <1>8, <1>9, <1>11 DEF Algorithms!MostSimilar

(* A match proposes one of the SKUs given or none; it is sure only of a    *)
(* name that is the same or a choice a user made; it gives up only on a    *)
(* SKU that shares no name and not half of its attributes with any         *)
(* (fallback-matcher).                                                     *)
THEOREM MatchesAreJustified ==
  ASSUME NEW sku, HasAttributes(sku),
         NEW skus, Len(skus) \in Nat, DOMAIN skus = 1..Len(skus),
         \A i \in DOMAIN skus : HasAttributes(skus[i]),
         NEW choices, Len(choices) \in Nat, DOMAIN choices = 1..Len(choices)
  PROVE  Algorithms!MatchIsJustified(sku, skus, choices)
  <1> DEFINE Same == {i \in DOMAIN skus : skus[i].name = sku.name}
             Normal == {i \in DOMAIN skus : skus[i].normal = sku.normal}
             Historic == Algorithms!Historical(sku, skus, choices)
             Like == Algorithms!MostSimilar(sku, skus)
             result == Algorithms!Match(sku, skus, choices)
             given == {skus[i] : i \in DOMAIN skus}
  <1>1. PICK e \in Nat : e = Algorithms!Found(Same) /\ (e = 0 => Same = {}) /\ (e # 0 => e \in Same)
    BY FoundIs, Same \in SUBSET (1..Len(skus))
  <1>2. PICK n \in Nat : /\ n = Algorithms!Found(Normal) /\ (n # 0 => n \in Normal)
    BY FoundIs, Normal \in SUBSET (1..Len(skus))
  <1>3. PICK h \in Nat : /\ h = Algorithms!Found(Historic) /\ (h # 0 => h \in Historic)
    <2>1. Historic \in SUBSET (1..Len(choices))
      BY DEF Algorithms!Historical
    <2> QED BY <2>1, FoundIs
  <1>4. PICK s \in Nat : s = Algorithms!Found(Like) /\ (s = 0 => Like = {}) /\ (s # 0 => s \in Like)
    <2>1. Like \in SUBSET (1..Len(skus))
      BY DEF Algorithms!MostSimilar
    <2> QED BY <2>1, FoundIs
  <1>5. result = CASE e > 0 -> Algorithms!Result(skus[e].id, 95, "high_confidence")
                   [] e = 0 /\ n > 0 -> Algorithms!Result(skus[n].id, 80, "needs_review")
                   [] e + n = 0 /\ h > 0 ->
                        Algorithms!Result(choices[h].sku, 90, "high_confidence")
                   [] e + n + h = 0 /\ s > 0 -> Algorithms!AttributeMatch(sku, skus[s])
                   [] OTHER -> Algorithms!Result(Algorithms!Null, 0, "no_match")
    BY <1>1, <1>2, <1>3, <1>4 DEF Algorithms!Match
  <1> DEFINE Justified ==
        /\ result.matchType # "no_match" => \E g \in given : g.id = result.systemSkuId
        /\ result.matchType = "high_confidence" =>
             \/ \E g \in given : g.id = result.systemSkuId /\ g.name = sku.name
             \/ \E c \in DOMAIN choices : choices[c].sku = result.systemSkuId
        /\ result.matchType = "no_match" =>
             \A g \in given :
               g.name # sku.name /\ ~Algorithms!AtLeast(sku.attributes, g.attributes, 5)
        /\ (result.confidence >= 85) <=> (result.matchType = "high_confidence")
  <1>6. SUFFICES Justified
    BY DEF Algorithms!MatchIsJustified
  <1> HIDE DEF result
  <1>7. CASE e > 0
    <2>1. result = Algorithms!Result(skus[e].id, 95, "high_confidence")
      BY <1>5, <1>7
    <2>2. result.systemSkuId = skus[e].id /\ result.confidence = 95
          /\ result.matchType = "high_confidence"
      BY <2>1 DEF Algorithms!Result
    <2>3. skus[e] \in given /\ skus[e].name = sku.name
      <3>1. e \in Same
        BY <1>1, <1>7
      <3>2. e \in DOMAIN skus /\ skus[e].name = sku.name
        BY <3>1
      <3> QED BY <3>2
    <2> QED BY <2>2, <2>3
  <1>8. CASE e = 0 /\ n > 0
    <2>1. result = Algorithms!Result(skus[n].id, 80, "needs_review")
      BY <1>5, <1>8
    <2>2. result.systemSkuId = skus[n].id /\ result.confidence = 80
          /\ result.matchType = "needs_review"
      BY <2>1 DEF Algorithms!Result
    <2>3. skus[n] \in given
      <3>1. n \in Normal
        BY <1>2, <1>8
      <3>2. n \in DOMAIN skus
        BY <3>1
      <3> QED BY <3>2
    <2> QED BY <2>2, <2>3
  <1>9. CASE e = 0 /\ n = 0 /\ h > 0
    <2>1. result = Algorithms!Result(choices[h].sku, 90, "high_confidence")
      BY <1>5, <1>9
    <2>2. result.systemSkuId = choices[h].sku /\ result.confidence = 90
          /\ result.matchType = "high_confidence"
      BY <2>1 DEF Algorithms!Result
    <2>3. h \in DOMAIN choices /\ \E i \in DOMAIN skus : skus[i].id = choices[h].sku
      BY <1>3, <1>9 DEF Algorithms!Historical
    <2> QED BY <2>2, <2>3
  <1>10. CASE e = 0 /\ n = 0 /\ h = 0 /\ s > 0
    <2>1. result = Algorithms!AttributeMatch(sku, skus[s])
      BY <1>5, <1>10
    <2>2. s \in DOMAIN skus /\ Algorithms!AtLeast(sku.attributes, skus[s].attributes, 5)
      BY <1>4, <1>10 DEF Algorithms!MostSimilar
    <2> DEFINE own == sku.attributes
               other == skus[s].attributes
               confidence == Algorithms!Rounded(
                 7 * Algorithms!Similarity(own, other),
                 Algorithms!Cardinality(Algorithms!Keys(own, other)))
    <2>3. confidence \in Int /\ confidence <= 70
      <3>1. PICK p, q \in Nat : /\ p = Algorithms!Similarity(own, other)
                                /\ q = Algorithms!Cardinality(Algorithms!Keys(own, other))
                                /\ p <= 10 * q
                                /\ q = 0 <=> Algorithms!Keys(own, other) = {}
        <4>1. IsFiniteSet(DOMAIN own) /\ IsFiniteSet(DOMAIN other)
          BY <2>2 DEF HasAttributes
        <4> QED BY <4>1, SimilarityIs
      <3>2. q \in Nat \ {0}
        BY <2>2, <3>1 DEF Algorithms!AtLeast
      <3>3. 0 * q <= 7 * p /\ 7 * p <= 70 * q /\ 7 * p \in Int
        BY <3>1, <3>2
      <3>4. Algorithms!Rounded(7 * p, q) \in Int /\ Algorithms!Rounded(7 * p, q) <= 70
        <4>1. 0 \in Int /\ 70 \in Int
          OBVIOUS
        <4> QED BY <3>2, <3>3, <4>1, RoundedBetween
      <3> QED BY <3>1, <3>4
    <2>4. result = Algorithms!Result(skus[s].id, confidence,
                     IF confidence >= 85 THEN "high_confidence" ELSE "needs_review")
      BY <2>1 DEF Algorithms!AttributeMatch
    <2> HIDE DEF confidence
    <2>5. result.systemSkuId = skus[s].id /\ result.confidence = confidence
          /\ result.matchType = "needs_review"
      <3>1. ~(confidence >= 85)
        BY <2>3
      <3> QED BY <2>4, <3>1 DEF Algorithms!Result
    <2>6. skus[s] \in given
      BY <2>2
    <2>7. ~(result.confidence >= 85)
      BY <2>3, <2>5
    <2> QED BY <2>5, <2>6, <2>7
  <1>11. CASE e = 0 /\ n = 0 /\ h = 0 /\ s = 0
    <2>1. result = Algorithms!Result(Algorithms!Null, 0, "no_match")
      BY <1>5, <1>11
    <2>2. result.confidence = 0 /\ result.matchType = "no_match"
      BY <2>1 DEF Algorithms!Result
    <2>3. ASSUME NEW i \in DOMAIN skus
          PROVE  /\ skus[i].name # sku.name
                 /\ ~Algorithms!AtLeast(sku.attributes, skus[i].attributes, 5)
      <3>1. skus[i].name # sku.name
        BY <1>1, <1>11
      <3>2. ~Algorithms!AtLeast(sku.attributes, skus[i].attributes, 5)
        BY <1>4, <1>11, OneIsMostSimilar
      <3> QED BY <3>1, <3>2
    <2> QED BY <2>2, <2>3
  <1> QED BY <1>7, <1>8, <1>9, <1>10, <1>11

(* A listing in pages: what is listed from a place on is its page and what *)
(* is listed from the next place on.                                       *)
Pages(w, size, g) ==
  g = [c \in 0..Len(w) |->
         SubSeq(w, c + 1, Algorithms!Min({c + size, Len(w)}))
           \o (IF c + size < Len(w) THEN g[c + size] ELSE <<>>)]

LEMMA PagesThere ==
  ASSUME NEW V, NEW w \in Seq(V), NEW size \in Nat \ {0}
  PROVE  Pages(w, size, [c \in 0..Len(w) |-> SubSeq(w, c + 1, Len(w))])
  <1> DEFINE n == Len(w)
             h == [c \in 0..n |-> SubSeq(w, c + 1, n)]
  <1>1. n \in Nat
    OBVIOUS
  <1>2. \A c \in 0..n : h[c] = SubSeq(w, c + 1, n)
    OBVIOUS
  <1>3. DOMAIN h = 0..n
    OBVIOUS
  <1> HIDE DEF n, h
  <1>4. ASSUME NEW c \in 0..n
        PROVE  h[c] = SubSeq(w, c + 1, Algorithms!Min({c + size, n}))
                        \o (IF c + size < n THEN h[c + size] ELSE <<>>)
    <2>1. Algorithms!Min({c + size, n}) = IF c + size <= n THEN c + size ELSE n
      <3>1. c + size \in Int /\ n \in Int
        BY <1>1
      <3> QED BY <3>1, OfTwo
    <2>2. CASE c + size < n
      <3>1. Algorithms!Min({c + size, n}) = c + size
        <4>1. c + size <= n
          BY <1>1, <2>2
        <4> QED BY <2>1, <4>1
      <3>2. c + size \in 0..n
        BY <1>1, <2>2
      <3>3. h[c + size] = SubSeq(w, c + size + 1, n)
        BY <1>2, <3>2
      <3>4. SubSeq(w, c + 1, c + size) \o SubSeq(w, c + size + 1, n) = SubSeq(w, c + 1, n)
        <4>1. /\ c + 1 \in 1..(n + 1) /\ c + size \in (c + 1) - 1..n
              /\ n \in (c + size)..n
          BY <1>1, <2>2
        <4> QED BY <4>1, ConcatAdjacentSubSeq DEF n
      <3> QED BY <1>2, <2>2, <3>1, <3>3, <3>4
    <2>3. CASE ~(c + size < n)
      <3>1. Algorithms!Min({c + size, n}) = n
        BY <1>1, <2>1, <2>3
      <3>2. SubSeq(w, c + 1, n) \in Seq(V)
        <4>1. \A i \in (c + 1)..n : w[i] \in V
          BY DEF n
        <4>2. c + 1 \in Int /\ n \in Int
          BY <1>1
        <4> HIDE DEF n
        <4> QED BY <4>1, <4>2, SubSeqProperties
      <3>3. SubSeq(w, c + 1, n) \o <<>> = SubSeq(w, c + 1, n)
        BY <3>2, ConcatEmptySeq
      <3> QED BY <1>2, <2>3, <3>1, <3>3
    <2> QED BY <2>2, <2>3
  <1>5. h = [c \in 0..n |-> h[c]]
    BY <1>3 DEF h
  <1>6. h = [c \in 0..n |-> SubSeq(w, c + 1, Algorithms!Min({c + size, n}))
                              \o (IF c + size < n THEN h[c + size] ELSE <<>>)]
    BY <1>4, <1>5
  <1> QED BY <1>6 DEF Pages, h, n

(* And nothing else: the first place from the end at which two listings    *)
(* differed would have a next place at which they do.                      *)
LEMMA PagesAreWhole ==
  ASSUME NEW V, NEW w \in Seq(V), NEW size \in Nat \ {0}, NEW g, Pages(w, size, g)
  PROVE  g[0] = w
  <1> DEFINE n == Len(w)
             h == [c \in 0..n |-> SubSeq(w, c + 1, n)]
             Front(c) == SubSeq(w, c + 1, Algorithms!Min({c + size, n}))
             T == {k \in 0..n : g[n - k] # h[n - k]}
  <1>1. n \in Nat
    OBVIOUS
  <1>2. \A c \in 0..n : g[c] = Front(c) \o (IF c + size < n THEN g[c + size] ELSE <<>>)
    BY DEF Pages
  <1>3. \A c \in 0..n : h[c] = Front(c) \o (IF c + size < n THEN h[c + size] ELSE <<>>)
    <2>1. Pages(w, size, h)
      BY PagesThere
    <2> HIDE DEF h
    <2> QED BY <2>1 DEF Pages
  <1>4. h[0] = w
    <2>1. h[0] = SubSeq(w, 1, Len(w))
      BY <1>1
    <2>2. SubSeq(w, 1, Len(w)) = w
      <3>1. \A i \in 1..Len(w) : w[i] \in V
        OBVIOUS
      <3>2. 1 \in Int /\ Len(w) \in Int
        OBVIOUS
      <3>3. /\ SubSeq(w, 1, Len(w)) \in Seq(V)
            /\ Len(SubSeq(w, 1, Len(w))) = IF 1 <= Len(w) THEN Len(w) - 1 + 1 ELSE 0
            /\ \A i \in 1..(Len(w) - 1 + 1) : SubSeq(w, 1, Len(w))[i] = w[1 + i - 1]
        BY <3>1, <3>2, SubSeqProperties
      <3>4. Len(SubSeq(w, 1, Len(w))) = Len(w)
            /\ \A i \in 1..Len(w) : SubSeq(w, 1, Len(w))[i] = w[i]
        BY <3>3
      <3> QED BY <3>3, <3>4, SeqEqual
    <2> QED BY <2>1, <2>2
  <1> HIDE DEF n, h, Front
  <1>5. T = {}
    <2>1. SUFFICES ASSUME T # {} PROVE FALSE
      OBVIOUS
    <2>2. PICK k \in T : \A l \in T : k <= l
      BY <1>1, <2>1, LeastNumber, T \in SUBSET Nat
    <2>3. k \in 0..n /\ g[n - k] # h[n - k]
      BY <2>2
    <2>4. n - k \in 0..n
      BY <1>1, <2>3
    <2>5. ASSUME (n - k) + size < n
          PROVE  g[(n - k) + size] = h[(n - k) + size]
      <3>1. k - size \in 0..n /\ ~(k <= k - size) /\ n - (k - size) = (n - k) + size
        BY <1>1, <2>3, <2>5
      <3>2. k - size \notin T
        BY <2>2, <3>1
      <3>3. g[n - (k - size)] = h[n - (k - size)]
        BY <3>1, <3>2
      <3> QED BY <3>1, <3>3
    <2>6. g[n - k] = h[n - k]
      BY <1>2, <1>3, <2>4, <2>5
    <2> QED BY <2>3, <2>6
  <1>6. g[0] = h[0]
    <2>1. \A k \in 0..n : g[n - k] = h[n - k]
      BY <1>5
    <2>2. n \in 0..n /\ n - n = 0
      BY <1>1
    <2> QED BY <2>1, <2>2
  <1> QED BY <1>4, <1>6

Listed(source, config, items, size, g) ==
  g = [cursor \in 0..Len(items) |->
         LET fetched == Algorithms!FetchRecords(source, config, cursor,
                                             Algorithms!Answer(items, size, cursor))
         IN  fetched.records \o (IF fetched.hasMore THEN g[fetched.nextCursor] ELSE <<>>)]

LEMMA ListedInPages ==
  ASSUME NEW source, NEW config, NEW Item, NEW items \in Seq(Item), NEW size \in Nat \ {0},
         NEW g
  PROVE  Listed(source, config, items, size, g)
           <=> Pages([i \in DOMAIN items |->
                        Algorithms!Transformed(source, config.dataType, items[i])], size, g)
  <1> DEFINE Made(item) == Algorithms!Transformed(source, config.dataType, item)
             w == [i \in DOMAIN items |-> Made(items[i])]
             V == {Made(item) : item \in Item}
             n == Len(items)
  <1>1. n \in Nat /\ DOMAIN items = 1..n
    OBVIOUS
  <1>2. w \in Seq(V) /\ Len(w) = n
    OBVIOUS
  <1>3. \A i \in 1..n : w[i] = Made(items[i]) /\ w[i] \in V /\ items[i] \in Item
    OBVIOUS
  <1> HIDE DEF w, n, V
  <1>4. ASSUME NEW c \in 0..n
        PROVE  LET fetched == Algorithms!FetchRecords(source, config, c,
                                                   Algorithms!Answer(items, size, c))
               IN  /\ fetched.records = SubSeq(w, c + 1, Algorithms!Min({c + size, n}))
                   /\ fetched.hasMore <=> c + size < n
                   /\ c + size < n => fetched.nextCursor = c + size
    <2> DEFINE reply == Algorithms!Answer(items, size, c)
               fetched == Algorithms!FetchRecords(source, config, c, reply)
    <2>1. PICK m \in Int : m = Algorithms!Min({c + size, n}) /\ c <= m /\ m <= n
      <3>1. c + size \in Int /\ n \in Int
        BY <1>1
      <3>2. Algorithms!Min({c + size, n}) = IF c + size <= n THEN c + size ELSE n
        BY <3>1, OfTwo
      <3> QED BY <1>1, <3>2
    <2>2. /\ reply.items = SubSeq(items, c + 1, m)
          /\ reply.hasMore = (c + size < n)
          /\ reply.cursor = IF c + size < n THEN c + size ELSE 0
      BY <2>1 DEF Algorithms!Answer, n
    <2>3. /\ fetched.records = [i \in DOMAIN reply.items |-> Made(reply.items[i])]
          /\ fetched.hasMore = reply.hasMore
          /\ fetched.nextCursor = IF reply.cursor = 0 THEN c ELSE reply.cursor
      BY DEF Algorithms!FetchRecords
    <2>4. /\ SubSeq(items, c + 1, m) \in Seq(Item)
          /\ Len(SubSeq(items, c + 1, m)) = IF c + 1 <= m THEN m - (c + 1) + 1 ELSE 0
          /\ \A i \in 1..(m - (c + 1) + 1) : SubSeq(items, c + 1, m)[i] = items[c + 1 + i - 1]
      <3>1. c + 1 \in Int /\ \A i \in (c + 1)..m : items[i] \in Item
        BY <1>1, <1>3, <2>1
      <3>2. \A a, b \in Int : (\A i \in a..b : items[i] \in Item) =>
              /\ SubSeq(items, a, b) \in Seq(Item)
              /\ Len(SubSeq(items, a, b)) = IF a <= b THEN b - a + 1 ELSE 0
              /\ \A i \in 1..(b - a + 1) : SubSeq(items, a, b)[i] = items[a + i - 1]
        BY SubSeqProperties
      <3> QED BY <2>1, <3>1, <3>2, Zenon
    <2>5. /\ SubSeq(w, c + 1, m) \in Seq(V)
          /\ Len(SubSeq(w, c + 1, m)) = IF c + 1 <= m THEN m - (c + 1) + 1 ELSE 0
          /\ \A i \in 1..(m - (c + 1) + 1) : SubSeq(w, c + 1, m)[i] = w[c + 1 + i - 1]
      <3>1. c + 1 \in Int /\ \A i \in (c + 1)..m : w[i] \in V
        BY <1>1, <1>3, <2>1
      <3> QED BY <3>1, SubSeqProperties
    <2>6. PICK l \in Nat : l = m - c
      BY <2>1
    <2>7. PICK x : /\ x = SubSeq(items, c + 1, m) /\ DOMAIN x = 1..l
                   /\ \A i \in 1..l : x[i] = items[c + i]
      <3>1. Len(SubSeq(items, c + 1, m)) = l /\ m - (c + 1) + 1 = l
        BY <2>1, <2>4, <2>6
      <3>2. ASSUME NEW i \in 1..l
            PROVE  SubSeq(items, c + 1, m)[i] = items[c + i]
        <4>1. i \in 1..(m - (c + 1) + 1) /\ c + 1 + i - 1 = c + i
          BY <3>1
        <4>2. SubSeq(items, c + 1, m)[i] = items[c + 1 + i - 1]
          BY <2>4, <4>1
        <4> QED BY <4>1, <4>2
      <3>3. DOMAIN SubSeq(items, c + 1, m) = 1..l
        BY <2>4, <3>1
      <3> QED BY <3>2, <3>3
    <2>8. PICK y : /\ y = SubSeq(w, c + 1, m) /\ y = [i \in 1..l |-> y[i]]
                   /\ \A i \in 1..l : y[i] = w[c + i]
      <3>1. Len(SubSeq(w, c + 1, m)) = l /\ m - (c + 1) + 1 = l
        BY <2>1, <2>5, <2>6
      <3>2. ASSUME NEW i \in 1..l
            PROVE  SubSeq(w, c + 1, m)[i] = w[c + i]
        <4>1. i \in 1..(m - (c + 1) + 1) /\ c + 1 + i - 1 = c + i
          BY <3>1
        <4>2. SubSeq(w, c + 1, m)[i] = w[c + 1 + i - 1]
          BY <2>5, <4>1
        <4> QED BY <4>1, <4>2
      <3>3. SubSeq(w, c + 1, m) = [i \in 1..l |-> SubSeq(w, c + 1, m)[i]]
        BY <2>5, <3>1
      <3> QED BY <3>2, <3>3
    <2>9. \A i \in 1..l : Made(x[i]) = y[i]
      <3> TAKE i \in 1..l
      <3>1. c + i \in 1..n
        BY <1>1, <2>1, <2>6
      <3>2. y[i] = w[c + i] /\ x[i] = items[c + i]
        BY <2>7, <2>8
      <3> HIDE DEF Made
      <3> QED BY <1>3, <3>1, <3>2
    <2>10. fetched.records = SubSeq(w, c + 1, m)
      <3>1. fetched.records = [i \in 1..l |-> Made(x[i])]
        BY <2>2, <2>3, <2>7
      <3> HIDE DEF Made, fetched, reply
      <3> QED BY <2>8, <2>9, <3>1
    <2>11. c + size < n => c + size # 0
      BY <1>1
    <2> HIDE DEF fetched, reply
    <2>12. /\ fetched.hasMore <=> c + size < n
           /\ c + size < n => fetched.nextCursor = c + size
      BY <2>2, <2>3, <2>11
    <2> QED BY <2>1, <2>10, <2>12 DEF fetched, reply
  <1> DEFINE F == [cursor \in 0..n |->
                     LET fetched == Algorithms!FetchRecords(source, config, cursor,
                                                         Algorithms!Answer(items, size, cursor))
                     IN  fetched.records \o (IF fetched.hasMore THEN g[fetched.nextCursor] ELSE <<>>)]
             P == [c \in 0..n |-> SubSeq(w, c + 1, Algorithms!Min({c + size, n}))
                                    \o (IF c + size < n THEN g[c + size] ELSE <<>>)]
  <1>5. F = P
    <2>1. ASSUME NEW c \in 0..n PROVE F[c] = P[c]
      BY <1>4, <2>1
    <2> QED BY <2>1
  <1>6. Listed(source, config, items, size, g) <=> g = F
    BY DEF Listed, n
  <1>7. Pages(w, size, g) <=> g = P
    BY <1>2 DEF Pages
  <1> HIDE DEF F, P
  <1> QED BY <1>5, <1>6, <1>7 DEF w

LEMMA ListingHasAll ==
  ASSUME NEW source, NEW config, NEW Item, NEW items \in Seq(Item), NEW size \in Nat \ {0}
  PROVE  Algorithms!FetchAllRecords(source, config, items, size)
           = [i \in DOMAIN items |-> Algorithms!Transformed(source, config.dataType, items[i])]
  <1> DEFINE w == [i \in DOMAIN items |->
                     Algorithms!Transformed(source, config.dataType, items[i])]
             V == {Algorithms!Transformed(source, config.dataType, item) : item \in Item}
  <1>1. w \in Seq(V)
    OBVIOUS
  <1>2. PICK g : g = CHOOSE h : Listed(source, config, items, size, h)
    OBVIOUS
  <1>3. Algorithms!FetchAllRecords(source, config, items, size) = g[0]
    BY <1>2 DEF Algorithms!FetchAllRecords, Listed
  <1>4. \E h : Listed(source, config, items, size, h)
    <2>1. \E h : Pages(w, size, h)
      <3> HIDE DEF w, V
      <3> QED BY <1>1, PagesThere
    <2> QED BY <2>1, ListedInPages
  <1>5. Listed(source, config, items, size, g)
    BY <1>2, <1>4
  <1>6. Pages(w, size, g)
    BY <1>5, ListedInPages
  <1>7. g[0] = w
    <2> HIDE DEF w, V
    <2> QED BY <1>1, <1>6, PagesAreWhole
  <1> QED BY <1>3, <1>7

LEMMA SameHead ==
  ASSUME NEW U, NEW a \in Seq(U), NEW s \in Seq(U), NEW b \in Seq(U), NEW t \in Seq(U),
         Len(a) = 1, Len(b) = 1, a \o s = b \o t
  PROVE  a = b /\ s = t
  <1>1. (a \o s)[1] = a[1] /\ (b \o t)[1] = b[1]
    <2>1. /\ \A i \in 1..Len(a) + Len(s) : (a \o s)[i] = IF i <= Len(a) THEN a[i] ELSE s[i - Len(a)]
          /\ \A i \in 1..Len(b) + Len(t) : (b \o t)[i] = IF i <= Len(b) THEN b[i] ELSE t[i - Len(b)]
      BY ConcatProperties
    <2>2. 1 \in 1..Len(a) + Len(s) /\ 1 <= Len(a) /\ 1 \in 1..Len(b) + Len(t) /\ 1 <= Len(b)
      OBVIOUS
    <2> QED BY <2>1, <2>2
  <1>2. \A i \in 1..Len(a) : a[i] = b[i]
    BY <1>1
  <1>3. a = b
    BY <1>2, SeqEqual
  <1> QED BY <1>3, ConcatSimplifications

LEMMA Assoc ==
  ASSUME NEW U, NEW p \in Seq(U), NEW a \in Seq(U), NEW s \in Seq(U)
  PROVE  p \o a \o s = p \o (a \o s)
  OBVIOUS
LEMMA SameEnd ==
  ASSUME NEW U, NEW p \in Seq(U)
  PROVE  \A a, s, b, t \in Seq(U) : p \o a \o s = p \o b \o t => a \o s = b \o t
  <1> DEFINE J(x, y) == x \o y
             Q == Seq(U)
  <1>1. \A x, y \in Q : J(J(p, x), y) = J(p, J(x, y))
    BY Assoc
  <1>2. \A x, y \in Q : J(x, y) \in Q
    OBVIOUS
  <1>3. \A x, y \in Q : J(p, x) = J(p, y) => x = y
    BY ConcatSimplifications, Zenon
  <1>4. SUFFICES \A a, s, b, t \in Q : J(J(p, a), s) = J(J(p, b), t) => J(a, s) = J(b, t)
    OBVIOUS
  <1> HIDE DEF J, Q
  <1> QED BY <1>1, <1>2, <1>3

(* What a channel lists: keys of one or two names, which are not empty.    *)
ChannelKey(Word, type) ==
  IF type = "inventory"
  THEN {<<a, b>> : a \in Seq(Word) \ {<<>>}, b \in Seq(Word) \ {<<>>}}
  ELSE {<<a>> : a \in Seq(Word) \ {<<>>}}
ChannelItem(Word, type) == [key : ChannelKey(Word, type), updatedAt : Nat, active : BOOLEAN]

(* A listing in pages of any size has each item once, in the channel's     *)
(* order, and items with different keys are told apart, unless a key has   *)
(* two names and the first of one has a hyphen (the adapters).             *)
THEOREM ListingsAreWhole ==
  ASSUME NEW source \in {"shopify", "wms", "erp"}, NEW config, NEW Word,
         NEW items \in Seq(ChannelItem(Word, config.dataType)), NEW size \in Nat \ {0}
  PROVE  Algorithms!ListingIsWhole(source, config, items, size)
  <1> DEFINE type == config.dataType
             Item == ChannelItem(Word, type)
             Nonempty == Seq(Word) \ {<<>>}
             Made(item) == Algorithms!Transformed(source, type, item)
             rest(item) == IF Len(item.key) = 2 THEN item.key[2] ELSE <<>>
             records == Algorithms!FetchAllRecords(source, config, items, size)
             Split(key) == Len(key) = 2 /\ Len(key[1]) > 1
             U == Word \cup {"shopify", "wms", "erp", "inventory", "movement", type}
  <1>1. records = [i \in DOMAIN items |-> Made(items[i])]
    BY ListingHasAll
  <1>2. PICK prefix \in Seq(U) : \A item : Made(item).id = prefix \o item.key[1] \o rest(item)
    <2>1. CASE source = "shopify"
      <3>1. \A item : Made(item).id = <<"shopify", type>> \o item.key[1] \o rest(item)
        BY <2>1
        DEF Algorithms!Transformed, Algorithms!ShopifyRecord, Algorithms!RecordOf
      <3>2. <<"shopify", type>> \in Seq(U)
        OBVIOUS
      <3> QED BY <3>1, <3>2
    <2>2. CASE source = "wms" /\ type = "inventory"
      <3>1. \A item : Made(item).id = <<"wms", "inventory">> \o item.key[1] \o rest(item)
        BY <2>2
        DEF Algorithms!Transformed, Algorithms!WmsRecord, Algorithms!RecordOf
      <3>2. <<"wms", "inventory">> \in Seq(U)
        OBVIOUS
      <3> QED BY <3>1, <3>2
    <2>3. CASE source = "wms" /\ type # "inventory"
      <3>1. \A item : Made(item).id = <<"wms", "movement">> \o item.key[1] \o rest(item)
        BY <2>3
        DEF Algorithms!Transformed, Algorithms!WmsRecord, Algorithms!RecordOf
      <3>2. <<"wms", "movement">> \in Seq(U)
        OBVIOUS
      <3> QED BY <3>1, <3>2
    <2>4. CASE source = "erp"
      <3>1. \A item : Made(item).id = <<"erp", type>> \o item.key[1] \o rest(item)
        BY <2>4
        DEF Algorithms!Transformed, Algorithms!ErpRecord, Algorithms!RecordOf
      <3>2. <<"erp", type>> \in Seq(U)
        OBVIOUS
      <3> QED BY <3>1, <3>2
    <2> QED BY <2>1, <2>2, <2>3, <2>4
  <1>3. \A item \in Item : /\ item.key[1] \in Nonempty /\ rest(item) \in Seq(Word)
                           /\ Len(item.key) = IF type = "inventory" THEN 2 ELSE 1
                           /\ item.key = IF type = "inventory" THEN <<item.key[1], rest(item)>>
                                        ELSE <<item.key[1]>>
    <2>1. ASSUME NEW item \in Item, type = "inventory"
          PROVE  /\ item.key[1] \in Nonempty /\ rest(item) \in Seq(Word) /\ Len(item.key) = 2
                 /\ item.key = <<item.key[1], rest(item)>>
      <3>1. PICK a \in Nonempty, b \in Nonempty : item.key = <<a, b>>
        BY <2>1 DEF ChannelItem, ChannelKey
      <3> QED BY <3>1
    <2>2. ASSUME NEW item \in Item, type # "inventory"
          PROVE  /\ item.key[1] \in Nonempty /\ rest(item) \in Seq(Word) /\ Len(item.key) = 1
                 /\ item.key = <<item.key[1]>>
      <3>1. PICK a \in Nonempty : item.key = <<a>>
        BY <2>2 DEF ChannelItem, ChannelKey
      <3>2. Len(item.key) = 1 /\ item.key[1] = a
        BY <3>1
      <3>3. rest(item) = <<>>
        BY <3>2
      <3> QED BY <3>1, <3>2, <3>3
    <2> HIDE DEF Item, Nonempty, rest
    <2> QED BY <2>1, <2>2
  <1> HIDE DEF Made, rest, records, Item
  <1>4. \A i \in DOMAIN items : items[i] \in Item /\ records[i] = Made(items[i])
    BY <1>1 DEF Item
  <1>5. ASSUME NEW a \in Item, NEW b \in Item, Made(a).id = Made(b).id, a.key # b.key
        PROVE  Split(a.key) \/ Split(b.key)
    <2>1. PICK x, s, y, t \in Seq(U) :
            x = a.key[1] /\ s = rest(a) /\ y = b.key[1] /\ t = rest(b)
      <3>1. /\ a.key[1] \in Seq(Word) /\ rest(a) \in Seq(Word)
            /\ b.key[1] \in Seq(Word) /\ rest(b) \in Seq(Word)
        BY <1>3
      <3>2. \A x \in Seq(Word) : x \in Seq(U)
        OBVIOUS
      <3> QED BY <3>1, <3>2
    <2> HIDE DEF U
    <2>2. x \o s = y \o t
      <3>1. prefix \o x \o s = prefix \o y \o t
        BY <1>2, <1>5, <2>1
      <3> DEFINE J(c, d) == c \o d
                 Q == Seq(U)
      <3>2. \A c, d, e, f \in Q : J(J(prefix, c), d) = J(J(prefix, e), f) => J(c, d) = J(e, f)
        BY SameEnd
      <3>3. x \in Q /\ s \in Q /\ y \in Q /\ t \in Q
        OBVIOUS
      <3>4. J(J(prefix, x), s) = J(J(prefix, y), t)
        BY <3>1
      <3>5. J(x, s) = J(y, t)
        <4> HIDE DEF J, Q
        <4> QED BY <3>2, <3>3, <3>4
      <3> QED BY <3>5
    <2>3. CASE type # "inventory"
      <3>1. rest(a) = <<>> /\ rest(b) = <<>>
        BY <1>3, <2>3 DEF rest
      <3>2. a.key[1] = b.key[1]
        BY <2>1, <2>2, <3>1, ConcatEmptySeq
      <3>3. a.key = <<a.key[1]>> /\ b.key = <<b.key[1]>>
        BY <1>3, <2>3
      <3> QED BY <1>5, <3>2, <3>3
    <2>4. CASE type = "inventory" /\ ~(Len(a.key[1]) > 1) /\ ~(Len(b.key[1]) > 1)
      <3>1. /\ a.key = <<a.key[1], rest(a)>> /\ b.key = <<b.key[1], rest(b)>>
            /\ a.key[1] \in Nonempty /\ b.key[1] \in Nonempty
        BY <1>3, <2>4
      <3>2. Len(a.key[1]) = 1 /\ Len(b.key[1]) = 1
        <4>1. ASSUME NEW w \in Nonempty PROVE Len(w) \in Nat \ {0}
          <5>1. w \in Seq(Word) /\ w # <<>>
            OBVIOUS
          <5>2. Len(w) \in Nat
            BY <5>1, LenProperties
          <5>3. Len(w) # 0
            BY <5>1, EmptySeq
          <5> QED BY <5>2, <5>3
        <4>2. Len(a.key[1]) \in Nat \ {0} /\ Len(b.key[1]) \in Nat \ {0}
          BY <3>1, <4>1
        <4>3. Len(a.key[1]) # 0 /\ Len(b.key[1]) # 0
          BY <4>2
        <4>4. \A l \in Nat : l # 0 /\ ~(l > 1) => l = 1
          OBVIOUS
        <4> HIDE DEF Split, U, rest, Nonempty
        <4> QED BY <2>4, <4>2, <4>4
      <3>3. a.key[1] = b.key[1] /\ rest(a) = rest(b)
        <4>1. Len(x) = 1 /\ Len(y) = 1
          BY <2>1, <3>2
        <4>2. x = y /\ s = t
          BY <2>2, <4>1, SameHead
        <4> QED BY <2>1, <4>2
      <3> QED BY <1>5, <3>1, <3>3
    <2>5. type = "inventory" => Len(a.key) = 2 /\ Len(b.key) = 2
      BY <1>3
    <2> QED BY <2>3, <2>4, <2>5
  <1>6. \A i, j \in DOMAIN items :
          records[i].id = records[j].id /\ items[i].key # items[j].key
            => Split(items[i].key) \/ Split(items[j].key)
    BY <1>4, <1>5
  <1> QED BY <1>1, <1>6 DEF Algorithms!ListingIsWhole, records, Made

-----------------------------------------------------------------------------
(***************************************************************************)
(* The inputs that MCServices takes are of the types above.                *)
(***************************************************************************)
LEMMA UpToIsSeq ==
  ASSUME NEW n \in Nat, NEW S, NEW T, \A x \in S : x \in T, NEW s \in UpTo(n, S)
  PROVE  s \in Seq(T)
  <1>1. PICK i \in 0..n : s \in [1..i -> S]
    BY DEF UpTo
  <1>2. i \in Nat
    OBVIOUS
  <1>3. s \in [1..i -> T]
    BY <1>1
  <1> QED BY <1>2, <1>3, SeqDef

LEMMA PartIs ==
  /\ \A shape \in {"*", "*/n", "a", "a-b", "a-b/n", "a/n"}, a \in Nat, b \in Nat, n \in Nat :
       Part(shape, a, b, n) \in CronPart
  /\ \A a \in Nat : At(a) \in CronPart
  BY DEF Part, At, CronPart

LEMMA FieldsAre ==
  /\ Every \in CronField
  /\ \A m \in Minutes : m \in CronField
  /\ \A h \in Hours : h \in CronField
  /\ \A d \in Days : d[1] \in CronField /\ d[2] \in CronField /\ d[3] \in CronField
  <1>1. /\ At(0) \in CronPart /\ At(1) \in CronPart /\ At(3) \in CronPart
        /\ At(4) \in CronPart /\ At(5) \in CronPart /\ At(6) \in CronPart
        /\ At(15) \in CronPart /\ At(23) \in CronPart
        /\ At(58) \in CronPart /\ At(60) \in CronPart
    BY PartIs
  <1>2. Part("*", 0, 0, 0) \in CronPart
    BY PartIs
  <1>3. /\ Part("*/n", 0, 0, 5) \in CronPart /\ Part("*/n", 0, 0, 7) \in CronPart
        /\ Part("*/n", 0, 0, 0) \in CronPart /\ Part("a-b/n", 10, 40, 6) \in CronPart
        /\ Part("a/n", 5, 0, 20) \in CronPart /\ Part("a-b", 3, 1, 0) \in CronPart
        /\ Part("a-b", 1, 3, 0) \in CronPart
    BY PartIs
  <1>4. Part("a-b", 22, 23, 0) \in CronPart /\ Part("a-b", 1, 5, 0) \in CronPart
    BY PartIs
  <1>5. Every \in CronField
    BY <1>2 DEF Every, CronField
  <1>6. ASSUME NEW m \in Minutes PROVE m \in CronField
    BY <1>1, <1>3 DEF Minutes, CronField
  <1>7. ASSUME NEW h \in Hours PROVE h \in CronField
    BY <1>1, <1>4 DEF Hours, CronField
  <1>8. ASSUME NEW d \in Days
        PROVE  d[1] \in CronField /\ d[2] \in CronField /\ d[3] \in CronField
    <2>1. /\ {Part("a-b", 1, 5, 0)} \in CronField /\ {At(1)} \in CronField
          /\ {At(1), At(15)} \in CronField /\ {Part("a-b", 1, 3, 0)} \in CronField
          /\ {At(0)} \in CronField /\ {At(1), At(3), At(5)} \in CronField
          /\ {At(0), At(6)} \in CronField
      BY <1>1, <1>3, <1>4 DEF CronField
    <2> QED BY <1>5, <2>1 DEF Days
  <1> QED BY <1>5, <1>6, <1>7, <1>8

LEMMA CronsAre == \A c \in Crons : c \in Expression
  <1>1. ASSUME NEW m \in CronField, NEW h \in CronField, NEW d \in CronField,
               NEW n \in CronField, NEW w \in CronField
        PROVE  [minute |-> m, hour |-> h, dayOfMonth |-> d, month |-> n, dayOfWeek |-> w]
                 \in Expression
    BY DEF Expression
  <1>2. ASSUME NEW m \in Minutes \cup {Every}, NEW h \in Hours, NEW d \in Days
        PROVE  [minute |-> m, hour |-> h, dayOfMonth |-> d[1], month |-> d[2],
                dayOfWeek |-> d[3]] \in Expression
    BY <1>1, FieldsAre
  <1>3. ASSUME NEW m \in Minutes
        PROVE  [minute |-> m, hour |-> Every, dayOfMonth |-> Every, month |-> Every,
                dayOfWeek |-> Every] \in Expression
    BY <1>1, FieldsAre
  <1>4. ASSUME NEW c \in Crons
        PROVE  \/ \E m \in Minutes \cup {Every}, h \in Hours, d \in Days :
                    c = [minute |-> m, hour |-> h, dayOfMonth |-> d[1], month |-> d[2],
                         dayOfWeek |-> d[3]]
               \/ \E m \in Minutes :
                    c = [minute |-> m, hour |-> Every, dayOfMonth |-> Every, month |-> Every,
                         dayOfWeek |-> Every]
    BY SMT DEF Crons
  <1> QED BY <1>2, <1>3, <1>4, Zenon

LEMMA RecordsAre ==
  ASSUME NEW own \in Records, NEW remote \in Records
  PROVE  \A f \in DOMAIN own \cap DOMAIN remote :
           Algorithms!ValuesEqual(own[f], remote[f]) => own[f].means = remote[f].means
  <1>1. ASSUME NEW r \in Records, NEW f \in DOMAIN r PROVE r[f] \in FieldValues
    <2>1. PICK F \in SUBSET {"f", "g"} : r \in [F -> FieldValues]
      BY DEF Records
    <2> QED BY <2>1
  <1>2. \A v, w \in FieldValues : v.written = w.written => v.means = w.means
    BY DEF FieldValues
  <1> QED BY <1>1, <1>2 DEF Algorithms!ValuesEqual

LEMMA SkusAre ==
  \A id, name : \A a \in Attributes : HasAttributes(Sku(id, name, a))
  <1>1. IsFiniteSet({"k", "l"})
    <2>1. IsFiniteSet({"k"}) /\ IsFiniteSet({"l"})
      BY FS_Singleton, Zenon
    <2>2. {"k", "l"} = {"k"} \cup {"l"}
      OBVIOUS
    <2> QED BY <2>1, <2>2, FS_Union
  <1>2. ASSUME NEW a \in Attributes PROVE IsFiniteSet(DOMAIN a)
    <2>1. DOMAIN a \in SUBSET {"k", "l"}
      BY DEF Attributes
    <2> QED BY <1>1, <2>1, FS_Subset
  <1>3. ASSUME NEW id, NEW name, NEW a PROVE Sku(id, name, a).attributes = a
    BY DEF Sku
  <1> QED BY <1>2, <1>3 DEF HasAttributes

LEMMA GivenAre ==
  ASSUME NEW skus \in Given
  PROVE  /\ Len(skus) \in Nat /\ DOMAIN skus = 1..Len(skus)
         /\ \A i \in DOMAIN skus : HasAttributes(skus[i])
  <1> DEFINE S == {Sku("s", n, a) : n \in Names, a \in Attributes}
             T == {x \in S : HasAttributes(x)}
  <1>1. CASE skus \in UpTo(1, S)
    <2>1. \A x \in S : x \in T
      BY SkusAre
    <2> HIDE DEF S, T
    <2>2. skus \in Seq(T)
      BY <1>1, <2>1, UpToIsSeq, 1 \in Nat
    <2>3. Len(skus) \in Nat /\ DOMAIN skus = 1..Len(skus) /\ \A i \in DOMAIN skus : skus[i] \in T
      BY <2>2
    <2> QED BY <2>3 DEF T
  <1>2. ASSUME NEW n \in Names, NEW m \in Names, NEW a \in Attributes,
               skus = <<Sku("s", n, [k |-> "x"]), Sku("t", m, a)>>
        PROVE  /\ Len(skus) \in Nat /\ DOMAIN skus = 1..Len(skus)
               /\ \A i \in DOMAIN skus : HasAttributes(skus[i])
    <2>1. [k |-> "x"] \in Attributes
      <3>1. [k |-> "x"] \in [{"k"} -> {"x", "y"}]
        OBVIOUS
      <3> QED BY <3>1 DEF Attributes
    <2>2. HasAttributes(Sku("s", n, [k |-> "x"])) /\ HasAttributes(Sku("t", m, a))
      BY <2>1, SkusAre
    <2>3. PICK x, y : x = Sku("s", n, [k |-> "x"]) /\ y = Sku("t", m, a)
      OBVIOUS
    <2>4. skus = <<x, y>> /\ HasAttributes(x) /\ HasAttributes(y)
      BY <1>2, <2>2, <2>3
    <2>5. Len(skus) = 2 /\ DOMAIN skus = 1..2 /\ skus[1] = x /\ skus[2] = y
      BY <2>4
    <2> QED BY <2>4, <2>5
  <1> QED BY <1>1, <1>2 DEF Given

LEMMA CorrectionsAre ==
  \A c \in Corrections : Len(c) \in Nat /\ DOMAIN c = 1..Len(c)
  <1>1. \A x, y : /\ Len(<<>>) = 0 /\ DOMAIN <<>> = 1..0
                  /\ Len(<<x>>) = 1 /\ DOMAIN <<x>> = 1..1
                  /\ Len(<<x, y>>) = 2 /\ DOMAIN <<x, y>> = 1..2
    OBVIOUS
  <1> QED BY <1>1 DEF Corrections

Measures == {"order_count", "fulfillment_rate"}
Outcomes == {"failed", "success"}

LEMMA RowsAre ==
  /\ \A r \in KpiRows : r \in KpiRow(Measures)
  /\ \A r \in MappingRows \cup LaterRows : r \in AccuracyRow
  /\ \A r \in Runs : r \in Run(Outcomes)
  /\ \A r \in Items : r \in StockItem
  <1>1. ASSUME NEW r \in KpiRows PROVE r \in KpiRow(Measures)
    BY DEF KpiRows, KpiRow, Measures
  <1>2. ASSUME NEW r \in MappingRows \cup LaterRows PROVE r \in AccuracyRow
    BY DEF MappingRows, LaterRows, AccuracyRow, Statuses, MatchTypes
  <1>3. ASSUME NEW r \in Runs PROVE r \in Run(Outcomes)
    BY DEF Runs, Run, Outcomes
  <1>4. ASSUME NEW r \in Items PROVE r \in StockItem
    BY DEF Items, StockItem
  <1> QED BY <1>1, <1>2, <1>3, <1>4

Letters == {"a", "b"}

LEMMA WordsAre == \A w \in Words : w \in Seq(Letters) \ {<<>>}
  <1>1. ASSUME NEW S, NEW a \in S, NEW b \in S
        PROVE  <<a>> \in Seq(S) \ {<<>>} /\ <<b>> \in Seq(S) \ {<<>>}
               /\ <<a, b>> \in Seq(S) \ {<<>>}
    <2>1. <<a>> \in Seq(S) /\ <<b>> \in Seq(S) /\ <<a, b>> \in Seq(S)
      OBVIOUS
    <2>2. Len(<<a>>) = 1 /\ Len(<<b>>) = 1 /\ Len(<<a, b>>) = 2 /\ Len(<<>>) = 0
      OBVIOUS
    <2> QED BY <2>1, <2>2
  <1>2. "a" \in Letters /\ "b" \in Letters
    BY DEF Letters
  <1>3. ASSUME NEW w \in Words PROVE w = <<"a">> \/ w = <<"b">> \/ w = <<"a", "b">>
    BY DEF Words
  <1> QED BY <1>1, <1>2, <1>3, Zenon

LEMMA KeysAre == \A type : \A k \in KeysOf(type) : k \in ChannelKey(Letters, type)
  <1> DEFINE W == Seq(Letters) \ {<<>>}
  <1>1. ASSUME NEW type, type = "inventory", NEW k \in KeysOf(type)
        PROVE  k \in ChannelKey(Letters, type)
    <2>1. PICK v \in Words, w \in Words : k = <<v, w>>
      BY <1>1 DEF KeysOf
    <2>2. PICK x \in W, y \in W : k = <<x, y>>
      BY <2>1, WordsAre
    <2> HIDE DEF W
    <2>3. k \in {<<a, b>> : a \in W, b \in W}
      BY <2>2
    <2> QED BY <2>3, <1>1 DEF ChannelKey, W
  <1>2. ASSUME NEW type, type # "inventory", NEW k \in KeysOf(type)
        PROVE  k \in ChannelKey(Letters, type)
    <2>1. PICK w \in Words : k = <<w>>
      BY <1>2 DEF KeysOf
    <2>2. PICK x \in W : k = <<x>>
      BY <2>1, WordsAre
    <2> HIDE DEF W
    <2>3. k \in {<<a>> : a \in W}
      BY <2>2
    <2> QED BY <2>3, <1>2 DEF ChannelKey, W
  <1> QED BY <1>1, <1>2

LEMMA ListingsAre ==
  ASSUME NEW l \in Listings
  PROVE  /\ l.source \in {"shopify", "wms", "erp"}
         /\ l.size \in Nat \ {0}
         /\ l.items \in Seq(ChannelItem(Letters, l.config.dataType))
  <1>2. ASSUME NEW type PROVE \A k \in KeysOf(type) : k \in ChannelKey(Letters, type)
    BY KeysAre
  <1>3. PICK source \in {"shopify", "wms", "erp"}, config \in Configs, size \in 1..2 :
          \E keys \in UpTo(IF config.dataType = "inventory" THEN 2 ELSE 3,
                           KeysOf(config.dataType)) :
            l = [source |-> source, config |-> config, size |-> size,
                 items |-> [i \in DOMAIN keys |->
                              [key |-> keys[i], updatedAt |-> i, active |-> i = 1]]]
    BY SMT DEF Listings
  <1>10. PICK keys \in UpTo(IF config.dataType = "inventory" THEN 2 ELSE 3,
                            KeysOf(config.dataType)) :
           l = [source |-> source, config |-> config, size |-> size,
                items |-> [i \in DOMAIN keys |->
                             [key |-> keys[i], updatedAt |-> i, active |-> i = 1]]]
    BY <1>3
  <1> DEFINE type == config.dataType
             items == [i \in DOMAIN keys |->
                         [key |-> keys[i], updatedAt |-> i, active |-> i = 1]]
  <1>4. l.source = source /\ l.config = config /\ l.size = size /\ l.items = items
    BY <1>10
  <1>5. keys \in Seq(ChannelKey(Letters, type))
    <2>1. (IF type = "inventory" THEN 2 ELSE 3) \in Nat
      OBVIOUS
    <2> QED BY <1>2, <2>1, UpToIsSeq
  <1>6. PICK n \in Nat : DOMAIN keys = 1..n /\ \A i \in 1..n : keys[i] \in ChannelKey(Letters, type)
    BY <1>5
  <1>7. ASSUME NEW i \in 1..n
        PROVE  [key |-> keys[i], updatedAt |-> i, active |-> i = 1] \in ChannelItem(Letters, type)
    BY <1>6 DEF ChannelItem
  <1>8. items \in [1..n -> ChannelItem(Letters, type)]
    BY <1>6, <1>7
  <1>9. items \in Seq(ChannelItem(Letters, type))
    BY <1>8, SeqDef
  <1> QED BY <1>4, <1>9

(***************************************************************************)
(* The run's property: a behaviour that follows the algorithms keeps the   *)
(* input it began with.                                                    *)
(***************************************************************************)
Agrees(i) ==
  LET of == i.of
  IN  CASE i.algorithm = "cron" ->
             Algorithms!CronKeepsItsDistance(of) /\ Algorithms!CronRunsTwoDaysRunning(of)
        [] i.algorithm = "conflict" -> Algorithms!RemoteWins(of[1], of[2])
        [] i.algorithm = "match" -> Algorithms!MatchIsJustified(of[1], of[2], of[3])
        [] i.algorithm = "anomaly" ->
             \A w \in {2, 3} : Algorithms!AnomaliesAreRelative(of, w, 2)
        [] i.algorithm = "buckets" -> Algorithms!BucketsTile(of[1], of[2], of[3])
        [] i.algorithm = "metrics" -> Algorithms!AveragesLieBetween(of)
        [] i.algorithm = "accuracy" -> Algorithms!AccuracyIsFair(of[1], of[2])
        [] i.algorithm = "stats" -> Algorithms!StatsAreConsistent(of)
        [] i.algorithm = "inventory" -> Algorithms!ShortMeansAllShort(of, 4)
        [] i.algorithm = "listing" ->
             Algorithms!ListingIsWhole(of.source, of.config, of.items, of.size)

LEMMA InputsAgree == \A i \in Inputs : Agrees(i)
  <1>1. ASSUME NEW c \in Crons PROVE Agrees([algorithm |-> "cron", of |-> c])
    <2>1. Algorithms!CronKeepsItsDistance(c) /\ Algorithms!CronRunsTwoDaysRunning(c)
      BY CronsAre, CronsKeepDistance, CronsRunOnNeighbours
    <2> QED BY <2>1 DEF Agrees
  <1>2. ASSUME NEW r \in Records \X Records
        PROVE  Agrees([algorithm |-> "conflict", of |-> r])
    <2>1. Algorithms!RemoteWins(r[1], r[2])
      <3>1. PICK own \in Records, remote \in Records : r[1] = own /\ r[2] = remote
        OBVIOUS
      <3>2. Algorithms!RemoteWins(own, remote)
        BY RecordsAre, RemoteAlwaysWins
      <3> QED BY <3>1, <3>2
    <2> QED BY <2>1 DEF Agrees
  <1>3. ASSUME NEW m \in {Sku("c", <<"A", "a">>, a) : a \in Attributes} \X Given \X Corrections
        PROVE  Agrees([algorithm |-> "match", of |-> m])
    <2>1. Algorithms!MatchIsJustified(m[1], m[2], m[3])
      <3>1. PICK sku \in {Sku("c", <<"A", "a">>, a) : a \in Attributes},
                 skus \in Given, choices \in Corrections :
              m[1] = sku /\ m[2] = skus /\ m[3] = choices
        OBVIOUS
      <3>2. HasAttributes(sku)
        BY SkusAre
      <3>3. Algorithms!MatchIsJustified(sku, skus, choices)
        BY <3>2, GivenAre, CorrectionsAre, MatchesAreJustified
      <3> QED BY <3>1, <3>3
    <2> QED BY <2>1 DEF Agrees
  <1>4. ASSUME NEW v \in UpTo(5, {0, 1, 5})
        PROVE  Agrees([algorithm |-> "anomaly", of |-> v])
    <2>1. v \in Seq(Int)
      <3>1. 5 \in Nat /\ \A x \in {0, 1, 5} : x \in Int
        OBVIOUS
      <3> QED BY <3>1, UpToIsSeq
    <2>2. \A w \in {2, 3} : Algorithms!AnomaliesAreRelative(v, w, 2)
      <3>1. 2 \in Int /\ \A w \in {2, 3} : w \in Nat \ {0}
        OBVIOUS
      <3> QED BY <2>1, <3>1, AnomaliesStandOut
    <2> QED BY <2>2 DEF Agrees
  <1>5. ASSUME NEW b \in (0..2) \X (0..6) \X (1..3)
        PROVE  Agrees([algorithm |-> "buckets", of |-> b])
    <2>1. Algorithms!BucketsTile(b[1], b[2], b[3])
      <3>1. b[1] \in Int /\ b[2] \in Int /\ b[3] \in Nat \ {0}
        OBVIOUS
      <3> QED BY <3>1, BucketsFit
    <2> QED BY <2>1 DEF Agrees
  <1>6. ASSUME NEW r \in UpTo(3, KpiRows) PROVE Agrees([algorithm |-> "metrics", of |-> r])
    <2>1. r \in Seq(KpiRow(Measures))
      BY RowsAre, UpToIsSeq, 3 \in Nat
    <2> QED BY <2>1, AveragesAreBetween DEF Agrees
  <1>7. ASSUME NEW m \in UpTo(2, MappingRows) \X UpTo(2, LaterRows)
        PROVE  Agrees([algorithm |-> "accuracy", of |-> m])
    <2>1. m[1] \in UpTo(2, MappingRows) /\ m[2] \in UpTo(2, LaterRows)
      OBVIOUS
    <2>2. m[1] \in Seq(AccuracyRow) /\ m[2] \in Seq(AccuracyRow)
      BY <2>1, RowsAre, UpToIsSeq, 2 \in Nat
    <2> QED BY <2>2, AccuracyIsTrue DEF Agrees
  <1>8. ASSUME NEW j \in UpTo(2, UpTo(2, Runs))
        PROVE  Agrees([algorithm |-> "stats", of |-> j])
    <2>1. \A x \in UpTo(2, Runs) : x \in Seq(Run(Outcomes))
      BY RowsAre, UpToIsSeq, 2 \in Nat
    <2>2. j \in Seq(Seq(Run(Outcomes)))
      BY <2>1, UpToIsSeq, 2 \in Nat
    <2> QED BY <2>2, StatsAreSound DEF Agrees
  <1>9. ASSUME NEW i \in UpTo(2, Items) PROVE Agrees([algorithm |-> "inventory", of |-> i])
    <2>1. i \in Seq(StockItem)
      BY RowsAre, UpToIsSeq, 2 \in Nat
    <2> QED BY <2>1, ShortIsShort DEF Agrees
  <1>10. ASSUME NEW l \in Listings PROVE Agrees([algorithm |-> "listing", of |-> l])
    <2>1. Algorithms!ListingIsWhole(l.source, l.config, l.items, l.size)
      BY ListingsAre, ListingsAreWhole
    <2> QED BY <2>1 DEF Agrees
  <1> QED BY <1>1, <1>2, <1>3, <1>4, <1>5, <1>6, <1>7, <1>8, <1>9, <1>10,
             Zenon DEF Inputs

(* Every algorithm keeps its promise on the input a behaviour follows.     *)
THEOREM AlgorithmsAreRight == Spec => []AlgorithmsAgree
  <1> DEFINE Begun == focus = "algorithms" => input \in Inputs
  <1>1. Init => Begun
    BY DEF Init, AgentInit
  <1>2. Begun /\ [Next]_vars => Begun'
    BY DEF Next, vars, dataVars, DataNext, DataOthers
  <1>3. Begun => AlgorithmsAgree
    <2>1. AlgorithmsAgree <=> (focus = "algorithms" => Agrees(input))
      BY Zenon DEF AlgorithmsAgree, Agrees
    <2> QED BY <2>1, InputsAgree
  <1> QED BY <1>1, <1>2, <1>3, PTL DEF Spec
=============================================================================
