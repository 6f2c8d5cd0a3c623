----------------------------- MODULE SumProofs -----------------------------
(***************************************************************************)
(* What the sum of a function over a finite set is.  SumFunctionOnSet      *)
(* folds the set by a recursive function that takes one element out at a   *)
(* time.  Induction over the set is by a smallest counterexample: the      *)
(* strict subsets of a finite set are well founded, so a set of subsets    *)
(* that is not empty has a smallest member.  The second part is arithmetic *)
(* modulo a machine word.                                                  *)
(***************************************************************************)
EXTENDS Integers, Functions, FiniteSetTheorems, WellFoundedInduction, TLAPS

(* The element that the fold takes out of a set, and the equation that its
   recursive function satisfies for the subsets of T. *)
First(s) == CHOOSE x \in s : TRUE
SumsUp(f, g, T) ==
    \A s \in SUBSET T : g[s] = IF s = {} THEN 0 ELSE f[First(s)] + g[s \ {First(s)}]

LEMMA FirstIn == ASSUME NEW s, s # {} PROVE First(s) \in s
  BY DEF First

(* Every set of subsets of a finite set that is not empty has a member none
   of whose strict subsets belongs to it. *)
LEMMA SmallestSubset ==
    ASSUME NEW S, IsFiniteSet(S), NEW Bad \in SUBSET (SUBSET S), Bad # {}
    PROVE  \E T \in Bad : \A U \in SUBSET T : U # T => U \notin Bad
<1>1. FiniteSubsetsOf(S) = SUBSET S
  BY FS_FiniteSubsetsOfFinite
<1>2. IsWellFoundedOn(StrictSubsetOrdering(S), SUBSET S)
  BY <1>1, FS_StrictSubsetOrderingWellFounded
<1>3. PICK T \in Bad : \A U \in Bad : ~ (<<U, T>> \in StrictSubsetOrdering(S))
  BY <1>2, WFMin
<1>4. ASSUME NEW U \in SUBSET T, U # T, U \in Bad PROVE FALSE
  BY <1>3, <1>4 DEF StrictSubsetOrdering
<1> QED
  BY <1>4

(* The equation has at most one solution. *)
LEMMA SumsUnique ==
    ASSUME NEW S, IsFiniteSet(S), NEW f, NEW g, NEW h, SumsUp(f, g, S), SumsUp(f, h, S)
    PROVE  \A s \in SUBSET S : g[s] = h[s]
<1> DEFINE Bad == {s \in SUBSET S : g[s] # h[s]}
<1> SUFFICES ASSUME Bad # {} PROVE FALSE
  OBVIOUS
<1>1. Bad \in SUBSET (SUBSET S)
  OBVIOUS
<1>2. PICK T \in Bad : \A U \in SUBSET T : U # T => U \notin Bad
  <2> HIDE DEF Bad
  <2> QED
    BY <1>1, SmallestSubset
<1>3. T # {}
  BY <1>2 DEF SumsUp
<1>4. First(T) \in T
  BY <1>3, FirstIn
<1>5. g[T \ {First(T)}] = h[T \ {First(T)}]
  BY <1>2, <1>4
<1> QED
  BY <1>2, <1>3, <1>5 DEF SumsUp

LEMMA SumsUpSubset ==
    ASSUME NEW f, NEW g, NEW T, NEW U \in SUBSET T, SumsUp(f, g, T)
    PROVE  SumsUp(f, g, U)
  BY DEF SumsUp

(* It has a solution: the solutions for the strict subsets agree where they
   overlap, so the value for each is that of its own solution. *)
LEMMA SumsExist ==
    ASSUME NEW S, IsFiniteSet(S), NEW f
    PROVE  \E g : SumsUp(f, g, S)
<1> DEFINE Bad == {T \in SUBSET S : ~ \E g : SumsUp(f, g, T)}
           Value(s) == CHOOSE v : \E g : SumsUp(f, g, s) /\ v = g[s]
<1> SUFFICES ASSUME Bad # {} PROVE FALSE
  OBVIOUS
<1>1. Bad \in SUBSET (SUBSET S)
  OBVIOUS
<1>2. PICK T \in Bad : \A U \in SUBSET T : U # T => U \notin Bad
  <2> HIDE DEF Bad
  <2> QED
    BY <1>1, SmallestSubset
<1>3. ASSUME NEW s \in SUBSET S, NEW g, SumsUp(f, g, s)
      PROVE  \A u \in SUBSET s : Value(u) = g[u]
  <2> TAKE u \in SUBSET s
  <2>1. SumsUp(f, g, u)
    BY <1>3, SumsUpSubset
  <2>2. \E h : SumsUp(f, h, u) /\ Value(u) = h[u]
    <3>1. \E v : \E h : SumsUp(f, h, u) /\ v = h[u]
      BY <2>1
    <3> QED
      BY <3>1
  <2>3. PICK h : SumsUp(f, h, u) /\ Value(u) = h[u]
    BY <2>2
  <2>4. IsFiniteSet(u)
    BY FS_Subset
  <2>5. u \in SUBSET u
    OBVIOUS
  <2> HIDE DEF Value
  <2> QED
    BY <2>1, <2>3, <2>4, <2>5, SumsUnique
<1>4. ASSUME NEW u \in SUBSET T, u # T
      PROVE  Value(u) = IF u = {} THEN 0 ELSE f[First(u)] + Value(u \ {First(u)})
  <2>1. PICK g : SumsUp(f, g, u)
    BY <1>2, <1>4
  <2>2. \A v \in SUBSET u : Value(v) = g[v]
    <3> HIDE DEF Value, Bad
    <3> QED
      BY <1>1, <1>2, <1>3, <2>1
  <2> HIDE DEF Value
  <2> QED
    BY <2>1, <2>2 DEF SumsUp
<1> DEFINE total == IF T = {} THEN 0 ELSE f[First(T)] + Value(T \ {First(T)})
           k == [u \in SUBSET T |-> IF u = T THEN total ELSE Value(u)]
<1>5. SumsUp(f, k, T)
  <2> SUFFICES ASSUME NEW s \in SUBSET T
               PROVE  k[s] = IF s = {} THEN 0 ELSE f[First(s)] + k[s \ {First(s)}]
    BY DEF SumsUp
  <2>1. s # {} => First(s) \in s /\ s \ {First(s)} # T /\ s \ {First(s)} \in SUBSET T
    BY FirstIn
  <2> HIDE DEF Value
  <2> QED
    BY <2>1, <1>4
<1> QED
  BY <1>2, <1>5

(* So the sum obeys the equation, by way of the fold's recursive function. *)
LEMMA SumUnfolds ==
    ASSUME NEW f, NEW S, IsFiniteSet(S)
    PROVE  \E g : SumsUp(f, g, S) /\ SumFunctionOnSet(f, S) = g[S]
<1> DEFINE Solves(g) == g = [s \in SUBSET S |->
               IF s = {} THEN 0
               ELSE f[CHOOSE x \in s : TRUE] + g[s \ {CHOOSE x \in s : TRUE}]]
           iter == CHOOSE g : Solves(g)
<1>1. SumFunctionOnSet(f, S) = iter[S]
  BY DEF SumFunctionOnSet, FoldFunctionOnSet, MapThenFoldSet
<1>2. PICK g : SumsUp(f, g, S)
  BY SumsExist
<1>3. Solves([s \in SUBSET S |-> g[s]])
  BY <1>2 DEF SumsUp, First
<1>4. Solves(iter)
  <2> HIDE DEF Solves
  <2> QED
    BY <1>3
<1>5. SumsUp(f, iter, S)
  <2> HIDE DEF iter
  <2> QED
    BY <1>4 DEF SumsUp, First
<1> QED
  BY <1>1, <1>5

LEMMA SumEmpty == ASSUME NEW f PROVE SumFunctionOnSet(f, {}) = 0
  BY FS_EmptySet, SumUnfolds DEF SumsUp

LEMMA SumFirst ==
    ASSUME NEW f, NEW S, IsFiniteSet(S), S # {}
    PROVE  SumFunctionOnSet(f, S) = f[First(S)] + SumFunctionOnSet(f, S \ {First(S)})
<1> DEFINE U == S \ {First(S)}
<1>1. PICK g : SumsUp(f, g, S) /\ SumFunctionOnSet(f, S) = g[S]
  BY SumUnfolds
<1>2. IsFiniteSet(U) /\ U \in SUBSET S
  BY FS_Subset
<1>3. PICK h : SumsUp(f, h, U) /\ SumFunctionOnSet(f, U) = h[U]
  BY <1>2, SumUnfolds
<1>4. SumsUp(f, g, U)
  BY <1>1, <1>2, SumsUpSubset
<1>5. U \in SUBSET U
  OBVIOUS
<1>6. g[U] = h[U]
  <2> HIDE DEF U
  <2> QED
    BY <1>2, <1>3, <1>4, <1>5, SumsUnique
<1>7. S \in SUBSET S
  OBVIOUS
<1> QED
  BY <1>1, <1>3, <1>6, <1>7 DEF SumsUp

(* The sum of integers is an integer, that of naturals a natural number. *)
LEMMA SumType ==
    ASSUME NEW f, NEW S, IsFiniteSet(S), \A x \in S : f[x] \in Int
    PROVE  SumFunctionOnSet(f, S) \in Int
<1> DEFINE Bad == {s \in SUBSET S : SumFunctionOnSet(f, s) \notin Int}
<1> SUFFICES ASSUME Bad # {} PROVE FALSE
  OBVIOUS
<1>1. Bad \in SUBSET (SUBSET S)
  OBVIOUS
<1>2. PICK T \in Bad : \A U \in SUBSET T : U # T => U \notin Bad
  <2> HIDE DEF Bad
  <2> QED
    BY <1>1, SmallestSubset
<1>3. T # {}
  <2>1. SumFunctionOnSet(f, {}) \in Int
    BY SumEmpty
  <2> QED
    BY <1>2, <2>1
<1>4. First(T) \in T /\ IsFiniteSet(T)
  BY <1>2, <1>3, FirstIn, FS_Subset
<1>5. SumFunctionOnSet(f, T \ {First(T)}) \in Int
  BY <1>2, <1>4
<1> QED
  BY <1>2, <1>3, <1>4, <1>5, SumFirst

LEMMA SumNat ==
    ASSUME NEW f, NEW S, IsFiniteSet(S), \A x \in S : f[x] \in Nat
    PROVE  SumFunctionOnSet(f, S) \in Nat
<1> DEFINE Bad == {s \in SUBSET S : SumFunctionOnSet(f, s) \notin Nat}
<1> SUFFICES ASSUME Bad # {} PROVE FALSE
  OBVIOUS
<1>1. Bad \in SUBSET (SUBSET S)
  OBVIOUS
<1>2. PICK T \in Bad : \A U \in SUBSET T : U # T => U \notin Bad
  <2> HIDE DEF Bad
  <2> QED
    BY <1>1, SmallestSubset
<1>3. T # {}
  <2>1. SumFunctionOnSet(f, {}) \in Nat
    BY SumEmpty
  <2> QED
    BY <1>2, <2>1
<1>4. First(T) \in T /\ IsFiniteSet(T)
  BY <1>2, <1>3, FirstIn, FS_Subset
<1>5. SumFunctionOnSet(f, T \ {First(T)}) \in Nat
  BY <1>2, <1>4
<1> QED
  BY <1>2, <1>3, <1>4, <1>5, SumFirst

(* Any element can be taken out first. *)
LEMMA SumRemove ==
    ASSUME NEW f, NEW S, IsFiniteSet(S), \A y \in S : f[y] \in Int, NEW x \in S
    PROVE  SumFunctionOnSet(f, S) = f[x] + SumFunctionOnSet(f, S \ {x})
<1> DEFINE Splits(s) == \A y \in s : SumFunctionOnSet(f, s) = f[y] + SumFunctionOnSet(f, s \ {y})
           Bad == {s \in SUBSET S : ~ Splits(s)}
<1> SUFFICES ASSUME Bad # {} PROVE FALSE
  OBVIOUS
<1>1. Bad \in SUBSET (SUBSET S)
  OBVIOUS
<1>2. PICK T \in Bad : \A U \in SUBSET T : U # T => U \notin Bad
  <2> HIDE DEF Bad
  <2> QED
    BY <1>1, SmallestSubset
<1>3. PICK y \in T : SumFunctionOnSet(f, T) # f[y] + SumFunctionOnSet(f, T \ {y})
  BY <1>2
<1> DEFINE c == First(T)
           rest == (T \ {c}) \ {y}
<1>4. c \in T /\ IsFiniteSet(T) /\ T \in SUBSET S
  BY <1>2, <1>3, FirstIn, FS_Subset
<1>5. SumFunctionOnSet(f, T) = f[c] + SumFunctionOnSet(f, T \ {c})
  BY <1>3, <1>4, SumFirst
<1>6. y # c
  BY <1>3, <1>5
<1>7. Splits(T \ {c}) /\ Splits(T \ {y})
  <2> HIDE DEF Splits, c
  <2> QED
    BY <1>2, <1>3, <1>4
<1>8. SumFunctionOnSet(f, T \ {c}) = f[y] + SumFunctionOnSet(f, rest)
  <2> HIDE DEF c
  <2> QED
    BY <1>3, <1>6, <1>7
<1>9. (T \ {y}) \ {c} = rest
  OBVIOUS
<1>10. SumFunctionOnSet(f, T \ {y}) = f[c] + SumFunctionOnSet(f, rest)
  <2> HIDE DEF c, rest
  <2> QED
    BY <1>3, <1>4, <1>6, <1>7, <1>9
<1>11. IsFiniteSet(rest) /\ rest \in SUBSET S
  BY <1>4, FS_Subset
<1>12. SumFunctionOnSet(f, rest) \in Int /\ f[c] \in Int /\ f[y] \in Int
  <2> HIDE DEF c, rest
  <2> QED
    BY <1>3, <1>4, <1>11, SumType
<1> QED
  <2> HIDE DEF c, rest
  <2> QED
    BY <1>3, <1>5, <1>8, <1>10, <1>12

LEMMA SumAdd ==
    ASSUME NEW f, NEW S, IsFiniteSet(S), NEW x, x \notin S,
           \A y \in S \cup {x} : f[y] \in Int
    PROVE  SumFunctionOnSet(f, S \cup {x}) = f[x] + SumFunctionOnSet(f, S)
<1>1. IsFiniteSet(S \cup {x}) /\ x \in S \cup {x} /\ (S \cup {x}) \ {x} = S
  BY FS_AddElement
<1> QED
  BY <1>1, SumRemove

LEMMA SumSingle == ASSUME NEW f, NEW x, f[x] \in Int PROVE SumFunctionOnSet(f, {x}) = f[x]
<1>1. IsFiniteSet({}) /\ {} \cup {x} = {x}
  BY FS_EmptySet
<1> QED
  BY <1>1, SumAdd, SumEmpty

(* Functions that agree on the set have the same sum. *)
LEMMA SumSame ==
    ASSUME NEW f, NEW g, NEW S, IsFiniteSet(S), \A x \in S : f[x] = g[x]
    PROVE  SumFunctionOnSet(f, S) = SumFunctionOnSet(g, S)
<1> DEFINE Bad == {s \in SUBSET S : SumFunctionOnSet(f, s) # SumFunctionOnSet(g, s)}
<1> SUFFICES ASSUME Bad # {} PROVE FALSE
  OBVIOUS
<1>1. Bad \in SUBSET (SUBSET S)
  OBVIOUS
<1>2. PICK T \in Bad : \A U \in SUBSET T : U # T => U \notin Bad
  <2> HIDE DEF Bad
  <2> QED
    BY <1>1, SmallestSubset
<1>3. T # {}
  BY <1>2, SumEmpty
<1>4. First(T) \in T /\ IsFiniteSet(T)
  BY <1>2, <1>3, FirstIn, FS_Subset
<1>5. SumFunctionOnSet(f, T \ {First(T)}) = SumFunctionOnSet(g, T \ {First(T)})
  BY <1>2, <1>4
<1> QED
  BY <1>2, <1>3, <1>4, <1>5, SumFirst

(* No addend exceeds a sum of naturals. *)
LEMMA SumBounds ==
    ASSUME NEW f, NEW S, IsFiniteSet(S), \A y \in S : f[y] \in Nat, NEW x \in S
    PROVE  f[x] <= SumFunctionOnSet(f, S)
<1>1. IsFiniteSet(S \ {x})
  BY FS_RemoveElement
<1>2. SumFunctionOnSet(f, S \ {x}) \in Nat
  BY <1>1, SumNat
<1> QED
  BY <1>2, SumRemove

-----------------------------------------------------------------------------

(* Quotient and remainder. *)
LEMMA ModDecompose ==
    ASSUME NEW W \in Nat \ {0}, NEW x \in Int
    PROVE  x % W \in 0 .. W - 1 /\ x \div W \in Int /\ x = (x \div W) * W + (x % W)
  OBVIOUS

(* Numbers that differ by whole words have the same remainder. *)
Congruent(x, y, W) == \E k \in Int : x = y + k * W

LEMMA ModShift ==
    ASSUME NEW W \in Nat \ {0}, NEW x \in Int, NEW y \in Int, Congruent(x, y, W)
    PROVE  x % W = y % W
<1>0. PICK k \in Int : x = y + k * W
  BY DEF Congruent
<1> DEFINE p == x \div W
           q == y \div W
           r == x % W
           s == y % W
<1>1. /\ p \in Int /\ q \in Int /\ r \in 0 .. W - 1 /\ s \in 0 .. W - 1
      /\ x = p * W + r /\ y = q * W + s
  BY ModDecompose
<1> HIDE DEF p, q, r, s
<1> DEFINE d == q + k - p
<1>2. d \in Int /\ r - s = d * W
  <2>1. (q + k - p) * W = q * W + k * W - p * W
    BY <1>1
  <2>2. k * W \in Int /\ q * W \in Int /\ p * W \in Int
    BY <1>1
  <2> QED
    BY <1>0, <1>1, <2>1, <2>2
<1> HIDE DEF d
<1>3. d >= 1 => d * W >= W
  BY <1>2
<1>4. d <= -1 => d * W <= -W
  BY <1>2
<1>5. r - s < W /\ r - s > -W
  BY <1>1
<1>6. d = 0
  BY <1>2, <1>3, <1>4, <1>5
<1>7. r = s
  BY <1>1, <1>2, <1>6
<1> QED
  BY <1>7 DEF r, s

(* ... and the other way round. *)
LEMMA ModSame ==
    ASSUME NEW W \in Nat \ {0}, NEW x \in Int, NEW y \in Int, x % W = y % W
    PROVE  \E k \in Int : x = y + k * W
<1> DEFINE p == x \div W
           q == y \div W
           r == x % W
<1>1. p \in Int /\ q \in Int /\ r \in Int /\ x = p * W + r /\ y = q * W + r
  BY ModDecompose
<1> HIDE DEF p, q, r
<1>2. (p - q) * W = p * W - q * W /\ p - q \in Int
  BY <1>1
<1>3. p * W \in Int /\ q * W \in Int
  BY <1>1
<1>4. x = y + (p - q) * W
  BY <1>1, <1>2, <1>3
<1> QED
  BY <1>2, <1>4

(* Two counters that wrap and what their difference stands for.  Advancing
   the first adds to it, advancing the second takes from it. *)
Balanced(a, f, s, W) == (a - f) % W = s % W

LEMMA BalanceUp ==
    ASSUME NEW W \in Nat \ {0}, NEW a \in Int, NEW f \in Int, NEW z \in Int, NEW s \in Int,
           Balanced(a, f, s, W)
    PROVE  Balanced((a + z) % W, f, s + z, W)
<1> DEFINE k == (a + z) \div W
           m == (a + z) % W
           x == m - f
           y == s + z
<1>1. k \in Int /\ m \in Int /\ a + z = k * W + m
  <2>1. a + z \in Int
    OBVIOUS
  <2> QED
    BY <2>1, ModDecompose
<1> HIDE DEF k, m
<1>2. PICK j \in Int : a - f = s + j * W
  <2>1. a - f \in Int
    OBVIOUS
  <2> QED
    BY <2>1, ModSame DEF Balanced
<1>3. (j - k) * W = j * W - k * W /\ j - k \in Int /\ j * W \in Int /\ k * W \in Int
  BY <1>1
<1>4. x = y + (j - k) * W /\ x \in Int /\ y \in Int
  BY <1>1, <1>2, <1>3
<1> HIDE DEF x, y
<1>5. Congruent(x, y, W)
  BY <1>3, <1>4 DEF Congruent
<1>6. x % W = y % W
  BY <1>4, <1>5, ModShift
<1> QED
  BY <1>6 DEF Balanced, x, y, m

LEMMA BalanceDown ==
    ASSUME NEW W \in Nat \ {0}, NEW a \in Int, NEW f \in Int, NEW z \in Int, NEW s \in Int,
           Balanced(a, f, s, W)
    PROVE  Balanced(a, (f + z) % W, s - z, W)
<1> DEFINE k == (f + z) \div W
           m == (f + z) % W
           x == a - m
           y == s - z
<1>1. k \in Int /\ m \in Int /\ f + z = k * W + m
  <2>1. f + z \in Int
    OBVIOUS
  <2> QED
    BY <2>1, ModDecompose
<1> HIDE DEF k, m
<1>2. PICK j \in Int : a - f = s + j * W
  <2>1. a - f \in Int
    OBVIOUS
  <2> QED
    BY <2>1, ModSame DEF Balanced
<1>3. (j + k) * W = j * W + k * W /\ j + k \in Int /\ j * W \in Int /\ k * W \in Int
  BY <1>1
<1>4. x = y + (j + k) * W /\ x \in Int /\ y \in Int
  BY <1>1, <1>2, <1>3
<1> HIDE DEF x, y
<1>5. Congruent(x, y, W)
  BY <1>3, <1>4 DEF Congruent
<1>6. x % W = y % W
  BY <1>4, <1>5, ModShift
<1> QED
  BY <1>6 DEF Balanced, x, y, m

(* Reducing twice is reducing once, and a number in range stays as it is. *)
LEMMA ModMod == ASSUME NEW W \in Nat \ {0}, NEW x \in Int PROVE (x % W) % W = x % W /\ x % W \in Int
<1>1. x % W \in 0 .. W - 1
  BY ModDecompose
<1> QED
  BY <1>1

LEMMA ModSmall == ASSUME NEW W \in Nat \ {0}, NEW x \in 0 .. W - 1 PROVE x % W = x
  OBVIOUS
=============================================================================
