----------------------------- MODULE Arithmetic -----------------------------
(***************************************************************************)
(* Facts that the accounting proofs share: products and quotients that are *)
(* rounded down, and sums over finite sets.  MapThenSumSet is a recursive  *)
(* function on the subsets of a set; what it computes is proved by taking, *)
(* among the subsets on which a claim fails, one that is minimal under     *)
(* inclusion.                                                              *)
(***************************************************************************)
EXTENDS Integers, FiniteSetsExt, FiniteSetTheorems, TLAPS

\* A quotient of natural numbers is a natural number.
LEMMA QuotientNat ==
    ASSUME NEW n \in Nat, NEW d \in Nat \ {0}
    PROVE  n \div d \in Nat
  OBVIOUS

\* The product of natural numbers is a natural number.
LEMMA ProductNat ==
    ASSUME NEW a \in Nat, NEW b \in Nat
    PROVE  a * b \in Nat
  OBVIOUS

\* A quotient is bounded by any number whose multiple bounds the dividend.
LEMMA QuotientBound ==
    ASSUME NEW n \in Nat, NEW d \in Nat \ {0}, NEW a \in Nat, n <= a * d
    PROVE  n \div d <= a
  OBVIOUS

\* A quotient is rounded down, by less than one.
LEMMA QuotientFloor ==
    ASSUME NEW n \in Nat, NEW d \in Nat \ {0}
    PROVE  /\ (n \div d) * d <= n
           /\ n < (n \div d) * d + d
  OBVIOUS

\* A smaller factor makes a smaller product.
LEMMA ProductMono ==
    ASSUME NEW a \in Nat, NEW b \in Nat, NEW c \in Nat, a <= b
    PROVE  a * c <= b * c
  OBVIOUS

\* A smaller dividend makes a smaller quotient.
LEMMA QuotientMono ==
    ASSUME NEW m \in Nat, NEW n \in Nat, NEW d \in Nat \ {0}, m <= n
    PROVE  m \div d <= n \div d
  OBVIOUS

\* Products distribute over sums and differences.
LEMMA Distribute ==
    ASSUME NEW a \in Int, NEW b \in Int, NEW c \in Int
    PROVE  /\ (a + b) * c = a * c + b * c
           /\ (a - b) * c = a * c - b * c
           /\ a * c \in Int /\ b * c \in Int
           /\ a * c = c * a
  OBVIOUS

\* A positive factor can be cancelled.
LEMMA ProductCancel ==
    ASSUME NEW a \in Int, NEW b \in Int, NEW c \in Nat \ {0}, a * c < b * c
    PROVE  a < b
  OBVIOUS

\* The detour over a gross amount: n is enlarged by the fee rate w / u, rounded
\* down, and the fee of the result, rounded down, is taken off again.  The two
\* roundings cancel.
LEMMA GrossNet ==
    ASSUME NEW n \in Nat, NEW u \in Nat \ {0}, NEW w \in Nat, w < u
    PROVE  LET gross == (n * u) \div (u - w)
           IN  /\ gross \in Nat
               /\ gross * (u - w) <= n * u
               /\ (gross * w) \div u \in Nat
               /\ gross - (gross * w) \div u = n
  <1> DEFINE d == u - w
  <1> DEFINE g == (n * u) \div d
  <1> DEFINE f == (g * w) \div u
  <1>1. d \in Nat \ {0} /\ d <= u /\ n * u \in Nat
    BY ProductNat
  <1>2. g \in Nat /\ g * d <= n * u /\ n * u < g * d + d
    <2> HIDE DEF d
    <2>1. QED
      BY <1>1, QuotientNat, QuotientFloor
  <1> HIDE DEF g
  <1>3. g * w \in Nat
    BY <1>2, ProductNat
  <1>4. f \in Nat /\ f * u <= g * w /\ g * w < f * u + u
    BY <1>3, QuotientNat, QuotientFloor
  <1> HIDE DEF f
  <1>5. g * d = g * u - g * w /\ g * u \in Int /\ g * d \in Int
    BY <1>2
  <1>6. (g - f) * u = g * u - f * u /\ f * u \in Int
    BY <1>2, <1>4, Distribute
  <1>7. (n + 1) * u = n * u + u /\ (n - 1) * u = n * u - u
    OBVIOUS
  <1> HIDE DEF d
  <1>8. (g - f) * u < (n + 1) * u
    BY <1>1, <1>2, <1>3, <1>4, <1>5, <1>6, <1>7
  <1>9. (n - 1) * u < (g - f) * u
    BY <1>1, <1>2, <1>3, <1>4, <1>5, <1>6, <1>7
  <1>10. g - f < n + 1 /\ n - 1 < g - f
    BY <1>2, <1>4, <1>8, <1>9, ProductCancel
  <1>11. g - f = n
    BY <1>2, <1>4, <1>10
  <1>12. QED
    BY <1>2, <1>4, <1>11 DEF d, g, f

\* The gross amount covers the net one and its own fee.
LEMMA GrossCovers ==
    ASSUME NEW n \in Nat, NEW u \in Nat \ {0}, NEW w \in Nat, w < u
    PROVE  n + (n * w) \div u <= (n * u) \div (u - w)
  <1> DEFINE d == u - w
             f == (n * w) \div u
             g == (n * u) \div d
  <1>1. d \in Nat \ {0} /\ d <= u /\ n * u \in Nat /\ n * w \in Nat /\ n * d \in Nat
    BY ProductNat
  <1>2. n * u = n * d + n * w
    OBVIOUS
  <1> HIDE DEF d
  <1>3. /\ f \in Nat /\ f * u <= n * w
        /\ g \in Nat /\ n * u < g * d + d
    BY <1>1, QuotientNat, QuotientFloor
  <1> HIDE DEF f, g
  <1>4. d * f <= u * f /\ d * f = f * d /\ u * f = f * u
    BY <1>1, <1>3, ProductMono
  <1>5. (n + f) * d = n * d + f * d /\ (g + 1) * d = g * d + d
    BY <1>1, <1>3
  <1>6. (n + f) * d < (g + 1) * d
    <2>1. f * d \in Nat /\ f * u \in Nat /\ g * d \in Nat
      BY <1>1, <1>3, ProductNat
    <2>2. QED
      BY <1>1, <1>2, <1>3, <1>4, <1>5, <2>1
  <1>7. n + f < g + 1
    BY <1>1, <1>3, <1>6, ProductCancel
  <1>8. QED
    BY <1>3, <1>7 DEF d, f, g

-----------------------------------------------------------------------------
\* The sum of a function over a finite part of its domain.
Sum(f, S) == MapThenSumSet(LAMBDA x : f[x], S)

\* The element a fold takes out of a set.
Pick(s) == CHOOSE x \in s : TRUE

\* g is the recursive function that sums f over the subsets of S.
IsSum(g, f, S) ==
    g = [s \in SUBSET S |-> IF s = {} THEN 0 ELSE f[Pick(s)] + g[s \ {Pick(s)}]]

\* Among the subsets of a finite set that have a property one is minimal.
LEMMA MinimalSubset ==
    ASSUME NEW S, IsFiniteSet(S), NEW T \in SUBSET (SUBSET S), T # {}
    PROVE  \E s \in T : \A t \in T : ~(t \subseteq s /\ t # s)
  <1>1. PICK s \in T : \A t \in T : <<t, s>> \notin StrictSubsetOrdering(S)
    BY FS_StrictSubsetOrderingWellFounded, FS_FiniteSubsetsOfFinite, WFMin
  <1>2. QED
    BY <1>1 DEF StrictSubsetOrdering

\* A fold takes elements of its set.
LEMMA PickIn ==
    ASSUME NEW s, s # {}
    PROVE  Pick(s) \in s
  BY DEF Pick

\* The recursion determines the sums, whatever set it is started on.
LEMMA SumUnique ==
    ASSUME NEW S, IsFiniteSet(S), NEW f, NEW g, NEW T, NEW h,
           IsSum(g, f, S), IsSum(h, f, T),
           NEW u \in (SUBSET S) \cap (SUBSET T)
    PROVE  g[u] = h[u]
  <1> DEFINE Bad == {s \in SUBSET u : g[s] # h[s]}
  <1>1. SUFFICES ASSUME Bad # {} PROVE FALSE
    OBVIOUS
  <1>2. IsFiniteSet(u)
    BY FS_Subset
  <1>3. PICK s \in Bad : \A t \in Bad : ~(t \subseteq s /\ t # s)
    <2>1. Bad \in SUBSET (SUBSET u)
      OBVIOUS
    <2> HIDE DEF Bad
    <2>2. QED
      BY <1>1, <1>2, <2>1, MinimalSubset
  <1>4. /\ g[s] = IF s = {} THEN 0 ELSE f[Pick(s)] + g[s \ {Pick(s)}]
        /\ h[s] = IF s = {} THEN 0 ELSE f[Pick(s)] + h[s \ {Pick(s)}]
    <2>1. s \in SUBSET S /\ s \in SUBSET T
      OBVIOUS
    <2>2. QED
      BY <2>1 DEF IsSum
  <1>5. s # {}
    BY <1>4
  <1>6. s \ {Pick(s)} \in SUBSET u /\ s \ {Pick(s)} \subseteq s /\ s \ {Pick(s)} # s
    BY <1>5, PickIn
  <1>7. g[s \ {Pick(s)}] = h[s \ {Pick(s)}]
    BY <1>3, <1>6
  <1>8. QED
    BY <1>4, <1>7

\* The recursion has a solution: the sums of a set are put together from the
\* solutions for its proper subsets.
LEMMA SumExists ==
    ASSUME NEW S, IsFiniteSet(S), NEW f
    PROVE  \E g : IsSum(g, f, S)
  <1> DEFINE Bad == {s \in SUBSET S : ~\E g : IsSum(g, f, s)}
  <1>1. SUFFICES ASSUME Bad # {} PROVE FALSE
    OBVIOUS
  <1>2. PICK u \in Bad : \A t \in Bad : ~(t \subseteq u /\ t # u)
    <2>1. Bad \in SUBSET (SUBSET S)
      OBVIOUS
    <2> HIDE DEF Bad
    <2>2. QED
      BY <1>1, <2>1, MinimalSubset
  <1>3. IsFiniteSet(u) /\ u \in SUBSET S
    BY FS_Subset
  <1> DEFINE G(t) == CHOOSE g : IsSum(g, f, t)
  <1>4. \A t \in SUBSET u : t # u => IsSum(G(t), f, t)
    <2> SUFFICES ASSUME NEW t \in SUBSET u, t # u PROVE IsSum(G(t), f, t)
      OBVIOUS
    <2>1. \E g : IsSum(g, f, t)
      BY <1>2, <1>3
    <2>2. QED
      BY <2>1
  <1> DEFINE rest(t) == t \ {Pick(t)}
  <1> DEFINE h == [t \in SUBSET u |-> IF t = {} THEN 0 ELSE f[Pick(t)] + G(rest(t))[rest(t)]]
  <1>5. \A t \in SUBSET u : t # u => h[t] = G(t)[t]
    <2> SUFFICES ASSUME NEW t \in SUBSET u, t # u PROVE h[t] = G(t)[t]
      OBVIOUS
    <2>1. G(t)[t] = IF t = {} THEN 0 ELSE f[Pick(t)] + G(t)[rest(t)]
      <3>1. IsSum(G(t), f, t) /\ t \in SUBSET t
        BY <1>4
      <3> HIDE DEF G
      <3>2. QED
        BY <3>1 DEF IsSum
    <2>2. h[t] = IF t = {} THEN 0 ELSE f[Pick(t)] + G(rest(t))[rest(t)]
      OBVIOUS
    <2>3. CASE t = {}
      BY <2>1, <2>2, <2>3
    <2>4. CASE t # {}
      <3>1. rest(t) \in SUBSET u /\ rest(t) \in SUBSET t /\ rest(t) # u
        BY <2>4, PickIn
      <3>2. IsSum(G(t), f, t) /\ IsSum(G(rest(t)), f, rest(t)) /\ IsFiniteSet(t)
        BY <1>3, <1>4, <3>1, FS_Subset
      <3>3. G(t)[rest(t)] = G(rest(t))[rest(t)]
        <4>1. rest(t) \in (SUBSET t) \cap (SUBSET rest(t))
          BY <3>1
        <4> HIDE DEF G, rest
        <4>2. QED
          BY <3>2, <4>1, SumUnique
      <3>4. QED
        BY <2>1, <2>2, <2>4, <3>3
    <2>5. QED
      BY <2>3, <2>4
  <1>6. IsSum(h, f, u)
    <2>1. \A t \in SUBSET u : t # {} => rest(t) \in SUBSET u /\ rest(t) # u
      BY PickIn
    <2>2. \A t \in SUBSET u :
              h[t] = IF t = {} THEN 0 ELSE f[Pick(t)] + h[rest(t)]
      <3> SUFFICES ASSUME NEW t \in SUBSET u
                   PROVE  h[t] = IF t = {} THEN 0 ELSE f[Pick(t)] + h[rest(t)]
        OBVIOUS
      <3>1. h[t] = IF t = {} THEN 0 ELSE f[Pick(t)] + G(rest(t))[rest(t)]
        OBVIOUS
      <3>2. t # {} => h[rest(t)] = G(rest(t))[rest(t)]
        BY <1>5, <2>1
      <3> HIDE DEF h, G, rest
      <3>3. QED
        BY <3>1, <3>2
    <2>3. h = [t \in SUBSET u |-> h[t]]
      OBVIOUS
    <2> HIDE DEF h, G
    <2>4. QED
      BY <2>2, <2>3 DEF IsSum
  <1>7. QED
    BY <1>2, <1>6

\* Sum is the value of that recursion, however its solution is written.
LEMMA SumIs ==
    ASSUME NEW S, IsFiniteSet(S), NEW f, NEW g, IsSum(g, f, S)
    PROVE  g[S] = Sum(f, S)
  <1> DEFINE h == CHOOSE it : IsSum(it, f, S)
  <1>1. IsSum(h, f, S)
    OBVIOUS
  <1>2. Sum(f, S) = h[S]
    BY DEF Sum, MapThenSumSet, MapThenFoldSet, IsSum, Pick
  <1>3. S \in (SUBSET S) \cap (SUBSET S)
    OBVIOUS
  <1> HIDE DEF h
  <1>4. QED
    BY <1>1, <1>2, <1>3, SumUnique

\* Nothing to add.
LEMMA SumEmpty ==
    ASSUME NEW f
    PROVE  Sum(f, {}) = 0
  <1>1. IsFiniteSet({})
    BY FS_EmptySet
  <1>2. PICK g : IsSum(g, f, {})
    BY <1>1, SumExists
  <1>3. g[{}] = 0
    BY <1>2 DEF IsSum
  <1>4. QED
    BY <1>1, <1>2, <1>3, SumIs

\* One step of the recursion.
LEMMA SumPick ==
    ASSUME NEW S, IsFiniteSet(S), S # {}, NEW f
    PROVE  Sum(f, S) = f[Pick(S)] + Sum(f, S \ {Pick(S)})
  <1> DEFINE R == S \ {Pick(S)}
  <1>1. IsFiniteSet(R)
    BY FS_RemoveElement
  <1>2. PICK g : IsSum(g, f, S)
    BY SumExists
  <1>3. PICK h : IsSum(h, f, R)
    BY <1>1, SumExists
  <1>4. g[S] = f[Pick(S)] + g[R]
    BY <1>2 DEF IsSum
  <1>5. R \in (SUBSET S) \cap (SUBSET R)
    OBVIOUS
  <1> HIDE DEF R
  <1>6. g[R] = h[R]
    BY <1>2, <1>3, <1>5, SumUnique
  <1>7. g[S] = Sum(f, S) /\ h[R] = Sum(f, R)
    BY <1>1, <1>2, <1>3, SumIs
  <1>8. QED
    BY <1>4, <1>6, <1>7 DEF R

\* A sum of integers is an integer.
LEMMA SumType ==
    ASSUME NEW S, IsFiniteSet(S), NEW f, \A x \in S : f[x] \in Int
    PROVE  Sum(f, S) \in Int
  <1> DEFINE Bad == {s \in SUBSET S : Sum(f, s) \notin Int}
  <1>1. SUFFICES ASSUME Bad # {} PROVE FALSE
    OBVIOUS
  <1>2. PICK u \in Bad : \A t \in Bad : ~(t \subseteq u /\ t # u)
    <2>1. Bad \in SUBSET (SUBSET S)
      OBVIOUS
    <2> HIDE DEF Bad
    <2>2. QED
      BY <1>1, <2>1, MinimalSubset
  <1>3. u \in SUBSET S /\ IsFiniteSet(u) /\ Sum(f, u) \notin Int
    BY FS_Subset
  <1>4. u # {}
    BY <1>3, SumEmpty
  <1>5. u \ {Pick(u)} \in SUBSET S /\ u \ {Pick(u)} # u /\ Pick(u) \in S
    BY <1>3, <1>4, PickIn
  <1>6. Sum(f, u \ {Pick(u)}) \in Int
    BY <1>2, <1>5
  <1>7. Sum(f, u) = f[Pick(u)] + Sum(f, u \ {Pick(u)})
    BY <1>3, <1>4, SumPick
  <1>8. f[Pick(u)] \in Int
    BY <1>5
  <1>9. QED
    BY <1>3, <1>6, <1>7, <1>8

\* Any element may be taken out first: the order of a sum does not matter.
LEMMA SumRemove ==
    ASSUME NEW S, IsFiniteSet(S), NEW f, \A x \in S : f[x] \in Int, NEW x \in S
    PROVE  Sum(f, S) = f[x] + Sum(f, S \ {x})
  <1> DEFINE Bad == {s \in SUBSET S : \E z \in s : Sum(f, s) # f[z] + Sum(f, s \ {z})}
  <1>1. SUFFICES ASSUME Bad # {} PROVE FALSE
    OBVIOUS
  <1>2. PICK u \in Bad : \A t \in Bad : ~(t \subseteq u /\ t # u)
    <2>1. Bad \in SUBSET (SUBSET S)
      OBVIOUS
    <2> HIDE DEF Bad
    <2>2. QED
      BY <1>1, <2>1, MinimalSubset
  <1>3. PICK z \in u : Sum(f, u) # f[z] + Sum(f, u \ {z})
    OBVIOUS
  <1> DEFINE y == Pick(u)
  <1>4. u \in SUBSET S /\ IsFiniteSet(u) /\ u # {} /\ y \in u /\ f[y] \in Int /\ f[z] \in Int
    BY FS_Subset, PickIn
  <1>5. Sum(f, u) = f[y] + Sum(f, u \ {y})
    BY <1>4, SumPick
  <1>6. z # y
    BY <1>3, <1>5
  <1>7. Sum(f, u \ {y}) = f[z] + Sum(f, (u \ {y}) \ {z})
    <2>1. u \ {y} \notin Bad /\ u \ {y} \in SUBSET S /\ z \in u \ {y}
      BY <1>2, <1>4, <1>6
    <2>2. QED
      BY <2>1
  <1>8. Sum(f, u \ {z}) = f[y] + Sum(f, (u \ {z}) \ {y})
    <2>1. u \ {z} \notin Bad /\ u \ {z} \in SUBSET S /\ y \in u \ {z}
      BY <1>2, <1>4, <1>6
    <2>2. QED
      BY <2>1
  <1>9. (u \ {y}) \ {z} = (u \ {z}) \ {y}
    OBVIOUS
  <1>10. Sum(f, (u \ {z}) \ {y}) \in Int
    <2>1. /\ IsFiniteSet((u \ {z}) \ {y})
          /\ \A w \in (u \ {z}) \ {y} : f[w] \in Int
      BY <1>4, FS_RemoveElement
    <2>2. QED
      BY <2>1, SumType
  <1> HIDE DEF y, Bad
  <1>11. Sum(f, u) = f[y] + (f[z] + Sum(f, (u \ {z}) \ {y}))
    BY <1>5, <1>7, <1>9
  <1>12. f[z] + Sum(f, u \ {z}) = f[z] + (f[y] + Sum(f, (u \ {z}) \ {y}))
    BY <1>8
  <1>13. QED
    BY <1>3, <1>4, <1>10, <1>11, <1>12

\* Functions that agree on a set have the same sum over it.
LEMMA SumCong ==
    ASSUME NEW S, IsFiniteSet(S), NEW f, NEW g, \A x \in S : f[x] = g[x]
    PROVE  Sum(f, S) = Sum(g, S)
  <1>1. PICK h : IsSum(h, f, S)
    BY SumExists
  <1>2. IsSum(h, g, S)
    <2>1. \A s \in SUBSET S : s # {} => f[Pick(s)] = g[Pick(s)]
      BY PickIn
    <2>2. \A s \in SUBSET S :
              h[s] = IF s = {} THEN 0 ELSE g[Pick(s)] + h[s \ {Pick(s)}]
      BY <1>1, <2>1 DEF IsSum
    <2>3. h = [s \in SUBSET S |-> h[s]]
      BY <1>1 DEF IsSum
    <2>4. QED
      BY <2>2, <2>3 DEF IsSum
  <1>3. QED
    BY <1>1, <1>2, SumIs

\* A change at one place changes the sum by as much.
LEMMA SumUpdate ==
    ASSUME NEW S, IsFiniteSet(S), NEW f, NEW g, NEW x \in S,
           \A y \in S : f[y] \in Int, g[x] \in Int,
           \A y \in S \ {x} : g[y] = f[y]
    PROVE  Sum(g, S) = Sum(f, S) + g[x] - f[x]
  <1>1. Sum(f, S) = f[x] + Sum(f, S \ {x})
    BY SumRemove
  <1>2. Sum(g, S) = g[x] + Sum(g, S \ {x})
    <2>1. \A y \in S : g[y] \in Int
      OBVIOUS
    <2>2. QED
      BY <2>1, SumRemove
  <1>3. IsFiniteSet(S \ {x})
    BY FS_RemoveElement
  <1>4. Sum(g, S \ {x}) = Sum(f, S \ {x}) /\ Sum(f, S \ {x}) \in Int
    BY <1>3, SumCong, SumType
  <1>5. QED
    BY <1>1, <1>2, <1>4

\* ... stated for a given difference.
LEMMA SumShift ==
    ASSUME NEW S, IsFiniteSet(S), NEW f, NEW g, NEW x \in S, NEW d \in Int,
           \A y \in S : f[y] \in Int, g[x] = f[x] + d,
           \A y \in S \ {x} : g[y] = f[y]
    PROVE  Sum(g, S) = Sum(f, S) + d
  <1>1. f[x] \in Int /\ g[x] \in Int
    OBVIOUS
  <1>2. Sum(g, S) = Sum(f, S) + g[x] - f[x]
    BY <1>1, SumUpdate
  <1>3. Sum(f, S) \in Int
    BY SumType
  <1>4. QED
    BY <1>1, <1>2, <1>3

\* One more summand.
LEMMA SumAdd ==
    ASSUME NEW S, IsFiniteSet(S), NEW f, NEW x, x \notin S,
           \A y \in S \cup {x} : f[y] \in Int
    PROVE  Sum(f, S \cup {x}) = Sum(f, S) + f[x]
  <1>1. IsFiniteSet(S \cup {x}) /\ (S \cup {x}) \ {x} = S /\ x \in S \cup {x}
    BY FS_AddElement
  <1>2. Sum(f, S \cup {x}) = f[x] + Sum(f, (S \cup {x}) \ {x})
    BY <1>1, SumRemove
  <1>3. Sum(f, S) \in Int
    BY SumType
  <1>4. Sum(f, S \cup {x}) = f[x] + Sum(f, S) /\ f[x] \in Int
    BY <1>1, <1>2
  <1>5. QED
    BY <1>3, <1>4

\* Zeros add up to zero.
LEMMA SumZero ==
    ASSUME NEW S, IsFiniteSet(S), NEW f, \A x \in S : f[x] = 0
    PROVE  Sum(f, S) = 0
  <1> DEFINE h == [s \in SUBSET S |-> 0]
  <1>1. IsSum(h, f, S)
    <2>1. \A s \in SUBSET S : s # {} => f[Pick(s)] = 0
      BY PickIn
    <2>2. QED
      BY <2>1 DEF IsSum
  <1>2. QED
    BY <1>1, SumIs

\* A sum of natural numbers is one, and no smaller than any of them.
LEMMA SumNat ==
    ASSUME NEW S, IsFiniteSet(S), NEW f, \A x \in S : f[x] \in Nat
    PROVE  /\ Sum(f, S) \in Nat
           /\ \A x \in S : f[x] <= Sum(f, S)
  <1> DEFINE Bad == {s \in SUBSET S : Sum(f, s) \notin Nat}
  <1>1. Bad = {}
    <2> SUFFICES ASSUME Bad # {} PROVE FALSE
      OBVIOUS
    <2>1. Bad \in SUBSET (SUBSET S)
      OBVIOUS
    <2>2. PICK u \in Bad : \A t \in Bad : ~(t \subseteq u /\ t # u)
      <3> HIDE DEF Bad
      <3>1. QED
        BY <2>1, MinimalSubset
    <2>3. u \in SUBSET S /\ IsFiniteSet(u) /\ Sum(f, u) \notin Nat
      BY FS_Subset
    <2>4. u # {}
      BY <2>3, SumEmpty
    <2>5. u \ {Pick(u)} \in SUBSET S /\ u \ {Pick(u)} # u /\ Pick(u) \in S
      BY <2>3, <2>4, PickIn
    <2>6. Sum(f, u \ {Pick(u)}) \in Nat
      BY <2>2, <2>5
    <2>7. Sum(f, u) = f[Pick(u)] + Sum(f, u \ {Pick(u)})
      BY <2>3, <2>4, SumPick
    <2>8. f[Pick(u)] \in Nat
      BY <2>5
    <2>9. QED
      BY <2>3, <2>6, <2>7, <2>8
  <1>2. \A x \in S : f[x] <= Sum(f, S)
    <2> SUFFICES ASSUME NEW x \in S PROVE f[x] <= Sum(f, S)
      OBVIOUS
    <2>1. Sum(f, S) = f[x] + Sum(f, S \ {x})
      BY SumRemove
    <2>2. Sum(f, S \ {x}) \in Nat
      BY <1>1
    <2>3. QED
      BY <2>1, <2>2
  <1>3. QED
    BY <1>1, <1>2

\* A sum with one summand that is not zero.
LEMMA SumSingle ==
    ASSUME NEW S, IsFiniteSet(S), NEW f, NEW x \in S, f[x] \in Int,
           \A y \in S \ {x} : f[y] = 0
    PROVE  Sum(f, S) = f[x]
  <1>1. \A y \in S : f[y] \in Int
    OBVIOUS
  <1>2. Sum(f, S) = f[x] + Sum(f, S \ {x})
    BY <1>1, SumRemove
  <1>3. IsFiniteSet(S \ {x})
    BY FS_RemoveElement
  <1>4. Sum(f, S \ {x}) = 0
    BY <1>3, SumZero
  <1>5. QED
    BY <1>2, <1>4

\* A sum of two.
LEMMA SumPair ==
    ASSUME NEW f, NEW x, NEW y, x # y, f[x] \in Int, f[y] \in Int
    PROVE  Sum(f, {x, y}) = f[x] + f[y]
  <1>1. IsFiniteSet({x}) /\ {x, y} = {x} \cup {y} /\ y \notin {x}
    BY FS_Singleton
  <1>2. Sum(f, {x}) = f[x]
    <2>1. x \in {x} /\ \A z \in {x} \ {x} : f[z] = 0
      OBVIOUS
    <2>2. QED
      BY <1>1, <2>1, SumSingle
  <1>3. \A z \in {x} \cup {y} : f[z] \in Int
    OBVIOUS
  <1>4. Sum(f, {x} \cup {y}) = Sum(f, {x}) + f[y]
    BY <1>1, <1>3, SumAdd
  <1>5. QED
    BY <1>1, <1>2, <1>4

\* Smaller summands make a smaller sum, and the sum of f + c * g is that of the
\* sums.
LEMMA SumMono ==
    ASSUME NEW S, IsFiniteSet(S), NEW f, NEW g,
           \A x \in S : f[x] \in Int /\ g[x] \in Int /\ f[x] <= g[x]
    PROVE  Sum(f, S) <= Sum(g, S)
  <1> DEFINE Bad == {s \in SUBSET S : ~(Sum(f, s) <= Sum(g, s))}
  <1>1. SUFFICES ASSUME Bad # {} PROVE FALSE
    OBVIOUS
  <1>2. PICK u \in Bad : \A t \in Bad : ~(t \subseteq u /\ t # u)
    <2>1. Bad \in SUBSET (SUBSET S)
      OBVIOUS
    <2> HIDE DEF Bad
    <2>2. QED
      BY <1>1, <2>1, MinimalSubset
  <1>3. u \in SUBSET S /\ IsFiniteSet(u) /\ ~(Sum(f, u) <= Sum(g, u))
    BY FS_Subset
  <1>4. u # {}
    <2>1. Sum(f, {}) = 0 /\ Sum(g, {}) = 0
      BY SumEmpty
    <2>2. QED
      BY <1>3, <2>1
  <1> DEFINE p == Pick(u)
             v == u \ {p}
  <1>5. v \in SUBSET S /\ v \subseteq u /\ v # u /\ p \in S /\ IsFiniteSet(v)
    BY <1>3, <1>4, PickIn, FS_Subset
  <1>6. Sum(f, v) <= Sum(g, v)
    BY <1>2, <1>5
  <1>7. /\ Sum(f, u) = f[p] + Sum(f, v)
        /\ Sum(g, u) = g[p] + Sum(g, v)
    BY <1>3, <1>4, SumPick
  <1> HIDE DEF p, v
  <1>8. Sum(f, v) \in Int /\ Sum(g, v) \in Int
    <2>1. \A x \in v : f[x] \in Int /\ g[x] \in Int
      BY <1>5
    <2>2. QED
      BY <1>5, <2>1, SumType
  <1>9. f[p] \in Int /\ g[p] \in Int /\ f[p] <= g[p]
    BY <1>5
  <1>10. QED
    BY <1>3, <1>6, <1>7, <1>8, <1>9

\* A sum distributes over a linear combination of two functions.
LEMMA SumLinear ==
    ASSUME NEW S, IsFiniteSet(S), NEW f, NEW g, NEW h, NEW c \in Int,
           \A x \in S : f[x] \in Int /\ g[x] \in Int /\ h[x] = f[x] + c * g[x]
    PROVE  Sum(h, S) = Sum(f, S) + c * Sum(g, S)
  <1> DEFINE Bad == {s \in SUBSET S : Sum(h, s) # Sum(f, s) + c * Sum(g, s)}
  <1>1. SUFFICES ASSUME Bad # {} PROVE FALSE
    OBVIOUS
  <1>2. PICK u \in Bad : \A t \in Bad : ~(t \subseteq u /\ t # u)
    <2>1. Bad \in SUBSET (SUBSET S)
      OBVIOUS
    <2> HIDE DEF Bad
    <2>2. QED
      BY <1>1, <2>1, MinimalSubset
  <1>3. u \in SUBSET S /\ IsFiniteSet(u) /\ Sum(h, u) # Sum(f, u) + c * Sum(g, u)
    BY FS_Subset
  <1>4. u # {}
    <2>1. Sum(f, {}) = 0 /\ Sum(g, {}) = 0 /\ Sum(h, {}) = 0
      BY SumEmpty
    <2>2. 0 = 0 + c * 0
      OBVIOUS
    <2>3. QED
      BY <1>3, <2>1, <2>2
  <1> DEFINE p == Pick(u)
             v == u \ {p}
  <1>5. v \in SUBSET S /\ v \subseteq u /\ v # u /\ p \in S /\ IsFiniteSet(v)
    BY <1>3, <1>4, PickIn, FS_Subset
  <1>6. Sum(h, v) = Sum(f, v) + c * Sum(g, v)
    BY <1>2, <1>5
  <1>7. /\ Sum(f, u) = f[p] + Sum(f, v)
        /\ Sum(g, u) = g[p] + Sum(g, v)
        /\ Sum(h, u) = h[p] + Sum(h, v)
    BY <1>3, <1>4, SumPick
  <1> HIDE DEF p, v
  <1>8. Sum(f, v) \in Int /\ Sum(g, v) \in Int
    <2>1. \A x \in v : f[x] \in Int /\ g[x] \in Int
      BY <1>5
    <2>2. QED
      BY <1>5, <2>1, SumType
  <1>9. f[p] \in Int /\ g[p] \in Int /\ h[p] = f[p] + c * g[p]
    BY <1>5
  <1>10. c * (g[p] + Sum(g, v)) = c * g[p] + c * Sum(g, v)
    BY <1>8, <1>9
  <1>11. c * g[p] \in Int /\ c * Sum(g, v) \in Int
    BY <1>8, <1>9
  <1>12. Sum(h, u) = (f[p] + c * g[p]) + (Sum(f, v) + c * Sum(g, v))
    BY <1>6, <1>7, <1>9
  <1>13. Sum(f, u) + c * Sum(g, u) = (f[p] + Sum(f, v)) + (c * g[p] + c * Sum(g, v))
    BY <1>7, <1>10
  <1>14. (f[p] + c * g[p]) + (Sum(f, v) + c * Sum(g, v))
           = (f[p] + Sum(f, v)) + (c * g[p] + c * Sum(g, v))
    BY <1>8, <1>9, <1>11
  <1>15. QED
    BY <1>3, <1>12, <1>13, <1>14

\* A sum does not depend on the names of its positions.
LEMMA SumReindex ==
    ASSUME NEW S, IsFiniteSet(S), NEW T, IsFiniteSet(T), NEW f, NEW g, NEW h,
           \A y \in T : f[y] \in Int,
           \A x \in S : h[x] \in T /\ g[x] = f[h[x]],
           \A x, y \in S : h[x] = h[y] => x = y,
           T \subseteq {h[x] : x \in S}
    PROVE  Sum(g, S) = Sum(f, T)
  <1> DEFINE Image(s) == {h[x] : x \in s}
             Bad == {s \in SUBSET S : Sum(g, s) # Sum(f, Image(s))}
  <1>1. Bad = {}
    <2> SUFFICES ASSUME Bad # {} PROVE FALSE
      OBVIOUS
    <2>1. PICK u \in Bad : \A t \in Bad : ~(t \subseteq u /\ t # u)
      <3>1. Bad \in SUBSET (SUBSET S)
        OBVIOUS
      <3> HIDE DEF Bad
      <3>2. QED
        BY <3>1, MinimalSubset
    <2>2. u \in SUBSET S /\ IsFiniteSet(u) /\ Sum(g, u) # Sum(f, Image(u))
      BY FS_Subset
    <2>3. u # {}
      <3>1. Sum(f, {}) = 0 /\ Sum(g, {}) = 0
        BY SumEmpty
      <3>2. Image({}) = {}
        OBVIOUS
      <3>3. QED
        BY <2>2, <3>1, <3>2
    <2> DEFINE p == Pick(u)
               v == u \ {p}
               w == Image(u)
    <2>4. v \in SUBSET S /\ v \subseteq u /\ v # u /\ p \in S /\ p \in u
      BY <2>2, <2>3, PickIn
    <2>5. Sum(g, v) = Sum(f, Image(v))
      BY <2>1, <2>4
    <2>6. Sum(g, u) = g[p] + Sum(g, v)
      BY <2>2, <2>3, SumPick
    <2>7. h[p] \in w /\ w \ {h[p]} = Image(v)
      BY <2>2, <2>4
    <2>8. IsFiniteSet(w) /\ \A y \in w : f[y] \in Int
      <3>1. w \in SUBSET T
        BY <2>2
      <3>2. QED
        BY <3>1, FS_Subset
    <2> HIDE DEF w
    <2>9. Sum(f, w) = f[h[p]] + Sum(f, w \ {h[p]})
      BY <2>7, <2>8, SumRemove
    <2>10. Sum(f, w) = g[p] + Sum(f, Image(v))
      BY <2>4, <2>7, <2>9
    <2>11. QED
      BY <2>2, <2>5, <2>6, <2>10 DEF w
  <1>2. S \in SUBSET S /\ Image(S) = T
    OBVIOUS
  <1>3. QED
    BY <1>1, <1>2

\* A finite set of integers has a largest element.
LEMMA MaxIn ==
    ASSUME NEW S, IsFiniteSet(S)
    PROVE  \A s \in SUBSET S : s # {} /\ s \subseteq Int => Max(s) \in s
  <1> DEFINE HasMax(s) == \E x \in s : \A y \in s : x >= y
             Bad == {s \in SUBSET S : s # {} /\ s \subseteq Int /\ ~HasMax(s)}
  <1>1. Bad = {}
    <2> SUFFICES ASSUME Bad # {} PROVE FALSE
      OBVIOUS
    <2>1. PICK u \in Bad : \A t \in Bad : ~(t \subseteq u /\ t # u)
      <3>1. Bad \in SUBSET (SUBSET S)
        OBVIOUS
      <3> HIDE DEF Bad
      <3>2. QED
        BY <3>1, MinimalSubset
    <2>2. PICK p \in u : TRUE
      OBVIOUS
    <2>3. u \ {p} # {}
      OBVIOUS
    <2>4. u \ {p} \in SUBSET S /\ u \ {p} \subseteq u /\ u \ {p} # u
      OBVIOUS
    <2>5. PICK x \in u \ {p} : \A y \in u \ {p} : x >= y
      BY <2>1, <2>3, <2>4
    <2>6. x \in Int /\ p \in Int /\ \A y \in u : y \in Int
      OBVIOUS
    <2>7. CASE x >= p
      BY <2>5, <2>7
    <2>8. CASE p >= x
      BY <2>5, <2>6, <2>8
    <2>9. QED
      BY <2>6, <2>7, <2>8
  <1>2. ASSUME NEW s \in SUBSET S, s # {}, s \subseteq Int PROVE Max(s) \in s
    <2>1. HasMax(s)
      BY <1>1, <1>2
    <2>2. QED
      BY <2>1 DEF Max
  <1>3. QED
    BY <1>2

\* g is the recursive function of a fold over positions, from the last one on.
IsFold(g, f, S) ==
    g = [s \in SUBSET S |-> IF s = {} THEN 0 ELSE g[s \ {Max(s)}] + f[Max(s)]]

\* The fold has a solution, the sums ...
LEMMA FoldExists ==
    ASSUME NEW S, IsFiniteSet(S), \A s \in SUBSET S : s # {} => Max(s) \in s,
           NEW f, \A x \in S : f[x] \in Int
    PROVE  IsFold([s \in SUBSET S |-> Sum(f, s)], f, S)
  <1> DEFINE h == [s \in SUBSET S |-> Sum(f, s)]
  <1>1. ASSUME NEW s \in SUBSET S
        PROVE  h[s] = IF s = {} THEN 0 ELSE h[s \ {Max(s)}] + f[Max(s)]
    <2>1. CASE s = {}
      BY <2>1, SumEmpty
    <2>2. CASE s # {}
      <3> DEFINE m == Max(s)
      <3>1. IsFiniteSet(s)
        BY FS_Subset
      <3>2. m \in s
        BY <2>2
      <3> HIDE DEF m
      <3>3. \A x \in s : f[x] \in Int
        OBVIOUS
      <3>4. Sum(f, s) = f[m] + Sum(f, s \ {m})
        BY <3>1, <3>2, <3>3, SumRemove
      <3>5. Sum(f, s \ {m}) \in Int
        <4>1. IsFiniteSet(s \ {m}) /\ \A x \in s \ {m} : f[x] \in Int
          BY <3>1, <3>3, FS_RemoveElement
        <4>2. QED
          BY <4>1, SumType
      <3>6. h[s] = Sum(f, s) /\ h[s \ {m}] = Sum(f, s \ {m}) /\ f[m] \in Int
        BY <3>2
      <3> HIDE DEF h
      <3>7. h[s] = h[s \ {m}] + f[m]
        BY <3>4, <3>5, <3>6
      <3>8. QED
        BY <2>2, <3>7 DEF m
    <2>3. QED
      BY <2>1, <2>2
  <1>2. h = [s \in SUBSET S |-> h[s]]
    OBVIOUS
  <1> HIDE DEF h
  <1>3. IsFold(h, f, S)
    BY <1>1, <1>2 DEF IsFold
  <1>4. QED
    BY <1>3 DEF h

\* ... and no other.
LEMMA FoldIs ==
    ASSUME NEW S, IsFiniteSet(S), \A s \in SUBSET S : s # {} => Max(s) \in s,
           NEW f, \A x \in S : f[x] \in Int,
           NEW g, IsFold(g, f, S)
    PROVE  g[S] = Sum(f, S)
  <1> DEFINE h == [s \in SUBSET S |-> Sum(f, s)]
             Bad == {s \in SUBSET S : g[s] # h[s]}
  <1>1. IsFold(h, f, S)
    BY FoldExists
  <1>2. h[S] = Sum(f, S)
    OBVIOUS
  <1> HIDE DEF h
  <1>3. Bad = {}
    <2> SUFFICES ASSUME Bad # {} PROVE FALSE
      OBVIOUS
    <2>1. PICK u \in Bad : \A t \in Bad : ~(t \subseteq u /\ t # u)
      <3>1. Bad \in SUBSET (SUBSET S)
        OBVIOUS
      <3> HIDE DEF Bad
      <3>2. QED
        BY <3>1, MinimalSubset
    <2>2. /\ g[u] = IF u = {} THEN 0 ELSE g[u \ {Max(u)}] + f[Max(u)]
          /\ h[u] = IF u = {} THEN 0 ELSE h[u \ {Max(u)}] + f[Max(u)]
      <3>1. u \in SUBSET S
        OBVIOUS
      <3>2. QED
        BY <1>1, <3>1 DEF IsFold
    <2>3. u # {}
      BY <2>2
    <2>4. Max(u) \in u
      BY <2>3
    <2>5. g[u \ {Max(u)}] = h[u \ {Max(u)}]
      BY <2>1, <2>4
    <2>6. QED
      BY <2>2, <2>5
  <1>4. QED
    BY <1>2, <1>3

-----------------------------------------------------------------------------
\* Remainders.  Numbers that differ by a multiple have the same remainder, and
\* numbers with the same remainder differ by a multiple.
LEMMA Remainder ==
    ASSUME NEW a \in Int, NEW p \in Nat \ {0}
    PROVE  /\ a \div p \in Int /\ a % p \in 0..(p - 1)
           /\ a = (a \div p) * p + (a % p)
  OBVIOUS

\* Multiples of the modulus do not change a remainder.
LEMMA SameRemainder ==
    ASSUME NEW a \in Int, NEW k \in Int, NEW p \in Nat \ {0}
    PROVE  (a + k * p) % p = a % p
  <1> DEFINE b == a + k * p
             x == a \div p
             y == b \div p
             r == a % p
             s == b % p
  <1>0. k * p \in Int /\ b \in Int
    OBVIOUS
  <1>1. x \in Int /\ r \in 0..(p - 1) /\ a = x * p + r
    BY Remainder
  <1>2. y \in Int /\ s \in 0..(p - 1) /\ b = y * p + s
    BY <1>0, Remainder
  <1>3. b = a + k * p
    OBVIOUS
  <1> HIDE DEF b, x, y, r, s
  <1>4. r - s = (y - x - k) * p
    <2>1. (y - x - k) * p = y * p - x * p - k * p
      BY <1>1, <1>2
    <2>2. x * p \in Int /\ y * p \in Int
      BY <1>1, <1>2
    <2>3. QED
      BY <1>0, <1>1, <1>2, <1>3, <2>1, <2>2
  <1> DEFINE d == y - x - k
  <1>5. d \in Int /\ r - s = d * p
    BY <1>1, <1>2, <1>4
  <1> HIDE DEF d
  <1>6. d = 0
    <2>1. CASE d >= 1
      <3>1. d * p >= p
        BY <1>5, <2>1
      <3>2. QED
        BY <1>1, <1>2, <1>5, <3>1
    <2>2. CASE d <= -1
      <3>1. d * p <= -p
        BY <1>5, <2>2
      <3>2. QED
        BY <1>1, <1>2, <1>5, <3>1
    <2>3. QED
      BY <1>5, <2>1, <2>2
  <1>7. r = s
    BY <1>1, <1>2, <1>5, <1>6
  <1>8. QED
    BY <1>7 DEF r, s, b

\* Remainders may be taken before or after an addition.
LEMMA RemainderSum ==
    ASSUME NEW a \in Int, NEW b \in Int, NEW p \in Nat \ {0}
    PROVE  ((a % p) + (b % p)) % p = (a + b) % p
  <1> DEFINE x == a \div p
             y == b \div p
             r == a % p
             s == b % p
  <1>1. x \in Int /\ r \in 0..(p - 1) /\ a = x * p + r
    BY Remainder
  <1>2. y \in Int /\ s \in 0..(p - 1) /\ b = y * p + s
    BY Remainder
  <1> HIDE DEF x, y, r, s
  <1>3. a + b = (r + s) + (x + y) * p
    <2>1. (x + y) * p = x * p + y * p /\ x * p \in Int /\ y * p \in Int
      BY <1>1, <1>2
    <2>2. QED
      BY <1>1, <1>2, <2>1
  <1>4. (r + s) \in Int /\ (x + y) \in Int
    BY <1>1, <1>2
  <1> DEFINE u == r + s
             k == x + y
  <1> HIDE DEF u, k
  <1>5. (u + k * p) % p = u % p
    BY <1>4, SameRemainder DEF u, k
  <1>6. QED
    BY <1>3, <1>5 DEF u, k, r, s

\* Numbers with the same remainder that are less than the divisor apart are equal.
LEMMA RemainderClose ==
    ASSUME NEW a \in Int, NEW b \in Int, NEW p \in Nat \ {0},
           a % p = b % p, a - b < p, b - a < p
    PROVE  a = b
  <1> DEFINE x == a \div p
             y == b \div p
             r == a % p
             d == x - y
  <1>1. x \in Int /\ r \in Int /\ a = x * p + r
    BY Remainder
  <1>2. y \in Int /\ b = y * p + r
    BY Remainder
  <1>3. d \in Int /\ d = x - y
    BY <1>1, <1>2
  <1> HIDE DEF x, y, r, d
  <1>4. a - b = d * p
    <2>1. d * p = x * p - y * p /\ x * p \in Int /\ y * p \in Int
      BY <1>1, <1>2, <1>3
    <2>2. QED
      BY <1>1, <1>2, <2>1
  <1>5. d = 0
    <2>1. CASE d >= 1
      <3>1. d * p >= p
        BY <1>3, <2>1
      <3>2. QED
        BY <1>4, <3>1
    <2>2. CASE d <= -1
      <3>1. d * p <= -p
        BY <1>3, <2>2
      <3>2. QED
        BY <1>4, <3>1
    <2>3. QED
      BY <1>3, <2>1, <2>2
  <1>6. QED
    BY <1>4, <1>5

\* A set of natural numbers has a least element.
LEMMA LeastNat ==
    ASSUME NEW S \in SUBSET Nat, S # {}
    PROVE  \E m \in S : \A n \in S : m <= n
  <1>1. PICK m \in S : \A n \in S : <<n, m>> \notin OpToRel(<, Nat)
    BY NatLessThanWellFounded, WFMin
  <1>2. \A n \in S : ~(n < m)
    BY <1>1 DEF OpToRel
  <1>3. QED
    BY <1>2

\* Sums of numbers with the same remainders have the same remainder.
LEMMA SumRemainder ==
    ASSUME NEW S, IsFiniteSet(S), NEW f, NEW g, NEW n \in Nat \ {0},
           \A x \in S : f[x] \in Int /\ g[x] \in Int /\ f[x] % n = g[x] % n
    PROVE  Sum(f, S) % n = Sum(g, S) % n
  <1> DEFINE Bad == {s \in SUBSET S : Sum(f, s) % n # Sum(g, s) % n}
  <1>1. SUFFICES ASSUME Bad # {} PROVE FALSE
    OBVIOUS
  <1>2. PICK u \in Bad : \A t \in Bad : ~(t \subseteq u /\ t # u)
    <2>1. Bad \in SUBSET (SUBSET S)
      OBVIOUS
    <2> HIDE DEF Bad
    <2>2. QED
      BY <1>1, <2>1, MinimalSubset
  <1>3. u \in SUBSET S /\ IsFiniteSet(u) /\ Sum(f, u) % n # Sum(g, u) % n
    BY FS_Subset
  <1>4. u # {}
    <2>1. Sum(f, {}) = Sum(g, {})
      BY SumEmpty
    <2>2. QED
      BY <1>3, <2>1
  <1> DEFINE p == Pick(u)
             v == u \ {p}
  <1>5. v \in SUBSET S /\ v \subseteq u /\ v # u /\ p \in S /\ IsFiniteSet(v)
    BY <1>3, <1>4, PickIn, FS_Subset
  <1>6. Sum(f, v) % n = Sum(g, v) % n
    BY <1>2, <1>5
  <1>7. /\ Sum(f, u) = f[p] + Sum(f, v)
        /\ Sum(g, u) = g[p] + Sum(g, v)
    BY <1>3, <1>4, SumPick
  <1> HIDE DEF p, v
  <1>8. Sum(f, v) \in Int /\ Sum(g, v) \in Int
    <2>1. \A x \in v : f[x] \in Int /\ g[x] \in Int
      BY <1>5
    <2>2. QED
      BY <1>5, <2>1, SumType
  <1>9. f[p] \in Int /\ g[p] \in Int /\ f[p] % n = g[p] % n
    BY <1>5
  <1>10. /\ ((f[p] % n) + (Sum(f, v) % n)) % n = (f[p] + Sum(f, v)) % n
         /\ ((g[p] % n) + (Sum(g, v) % n)) % n = (g[p] + Sum(g, v)) % n
    BY <1>8, <1>9, RemainderSum
  <1>11. QED
    BY <1>3, <1>6, <1>7, <1>9, <1>10

\* The sum over two parts.
LEMMA SumUnion ==
    ASSUME NEW S, IsFiniteSet(S), NEW T, IsFiniteSet(T), S \cap T = {}, NEW f,
           \A x \in S \cup T : f[x] \in Int
    PROVE  Sum(f, S \cup T) = Sum(f, S) + Sum(f, T)
  <1> DEFINE Bad == {s \in SUBSET T : Sum(f, S \cup s) # Sum(f, S) + Sum(f, s)}
  <1>1. SUFFICES ASSUME Bad # {} PROVE FALSE
    OBVIOUS
  <1>2. PICK u \in Bad : \A t \in Bad : ~(t \subseteq u /\ t # u)
    <2>1. Bad \in SUBSET (SUBSET T)
      OBVIOUS
    <2> HIDE DEF Bad
    <2>2. QED
      BY <1>1, <2>1, MinimalSubset
  <1>3. u \in SUBSET T /\ IsFiniteSet(u) /\ Sum(f, S \cup u) # Sum(f, S) + Sum(f, u)
    BY FS_Subset
  <1>b. \A t \in SUBSET T : t \subseteq u /\ t # u
                                => Sum(f, S \cup t) = Sum(f, S) + Sum(f, t)
    BY <1>2
  <1> HIDE DEF Bad
  <1>4. u # {}
    <2>1. Sum(f, {}) = 0 /\ S \cup {} = S /\ Sum(f, S) \in Int
      BY SumEmpty, SumType
    <2>2. u = {} => Sum(f, S \cup u) = Sum(f, S) + Sum(f, u)
      BY <2>1
    <2>3. QED
      BY <1>3, <2>2
  <1> DEFINE p == Pick(u)
             v == u \ {p}
             w == S \cup v
  <1>5. v \in SUBSET T /\ v \subseteq u /\ v # u /\ p \in T /\ IsFiniteSet(v) /\ p \in u
    BY <1>3, <1>4, PickIn, FS_Subset
  <1>6. Sum(f, w) = Sum(f, S) + Sum(f, v)
    BY <1>b, <1>5
  <1>7. Sum(f, u) = f[p] + Sum(f, v)
    BY <1>3, <1>4, SumPick
  <1>8. IsFiniteSet(w) /\ p \notin w /\ w \cup {p} = S \cup u /\ w \cup {p} \subseteq S \cup T
    BY <1>5, FS_Union
  <1>a. v \subseteq T
    BY <1>5
  <1> HIDE DEF p, v, w
  <1>9. Sum(f, w \cup {p}) = Sum(f, w) + f[p]
    <2>1. \A y \in w \cup {p} : f[y] \in Int
      BY <1>8
    <2>2. QED
      BY <1>8, <2>1, SumAdd
  <1>10. Sum(f, S) \in Int /\ Sum(f, v) \in Int /\ f[p] \in Int
    <2>1. \A x \in v : f[x] \in Int
      BY <1>a
    <2>2. Sum(f, v) \in Int
      BY <1>5, <2>1, SumType
    <2>3. Sum(f, S) \in Int
      BY SumType
    <2>4. QED
      BY <1>5, <2>2, <2>3
  <1>11. Sum(f, S \cup u) = Sum(f, w) + f[p]
    BY <1>8, <1>9
  <1>12. Sum(f, w) + f[p] = Sum(f, S) + (f[p] + Sum(f, v))
    BY <1>6, <1>10
  <1>13. QED
    BY <1>3, <1>7, <1>11, <1>12

\* As many summands as there are, each bounded.
LEMMA SumBound ==
    ASSUME NEW S, IsFiniteSet(S), NEW f, NEW c \in Nat,
           \A x \in S : f[x] \in Int /\ f[x] <= c
    PROVE  Sum(f, S) <= Cardinality(S) * c
  <1> DEFINE Bad == {s \in SUBSET S : ~(Sum(f, s) <= Cardinality(s) * c)}
  <1>1. SUFFICES ASSUME Bad # {} PROVE FALSE
    OBVIOUS
  <1>2. PICK u \in Bad : \A t \in Bad : ~(t \subseteq u /\ t # u)
    <2>1. Bad \in SUBSET (SUBSET S)
      OBVIOUS
    <2> HIDE DEF Bad
    <2>2. QED
      BY <1>1, <2>1, MinimalSubset
  <1>3. u \in SUBSET S /\ IsFiniteSet(u) /\ ~(Sum(f, u) <= Cardinality(u) * c)
    BY FS_Subset
  <1>b. \A t \in SUBSET S : t \subseteq u /\ t # u => Sum(f, t) <= Cardinality(t) * c
    BY <1>2
  <1> HIDE DEF Bad
  <1>4. u # {}
    <2>1. Sum(f, {}) = 0 /\ Cardinality({}) = 0 /\ 0 * c = 0
      BY SumEmpty, FS_EmptySet
    <2>2. u = {} => Sum(f, u) <= Cardinality(u) * c
      BY <2>1
    <2>3. QED
      BY <1>3, <2>2
  <1> DEFINE p == Pick(u)
             v == u \ {p}
  <1>5. v \in SUBSET S /\ v \subseteq u /\ v # u /\ p \in S /\ IsFiniteSet(v) /\ p \in u
    BY <1>3, <1>4, PickIn, FS_Subset
  <1>6. Sum(f, v) <= Cardinality(v) * c
    BY <1>b, <1>5
  <1>7. Sum(f, u) = f[p] + Sum(f, v)
    BY <1>3, <1>4, SumPick
  <1>8. Cardinality(u) \in Nat /\ Cardinality(v) = Cardinality(u) - 1 /\ Cardinality(v) \in Nat
    BY <1>3, <1>5, FS_RemoveElement, FS_CardinalityType
  <1> HIDE DEF p, v
  <1>9. Sum(f, v) \in Int /\ f[p] \in Int /\ f[p] <= c
    <2>1. \A x \in v : f[x] \in Int
      BY <1>5
    <2>2. QED
      BY <1>5, <2>1, SumType
  <1> DEFINE a == Cardinality(u)
             b == Cardinality(v)
  <1>10. b * c + c = a * c /\ b * c \in Int /\ a * c \in Int
    <2>1. a \in Nat /\ b \in Nat /\ a = b + 1
      BY <1>8
    <2> HIDE DEF a, b
    <2>2. (b + 1) * c = b * c + 1 * c /\ b * c \in Int /\ (b + 1) * c \in Int
      BY <2>1, Distribute
    <2>3. QED
      BY <2>1, <2>2
  <1>11. QED
    BY <1>3, <1>6, <1>7, <1>9, <1>10
=============================================================================
