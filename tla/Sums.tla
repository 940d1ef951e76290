--------------------------------- MODULE Sums ---------------------------------
(* What a sum over a finite set is, as the models write it with             *)
(* SumFunctionOnSet: it does not depend on the order of the elements, it    *)
(* adds and drops them one by one, and it changes by what they change by.   *)
EXTENDS Functions, Integers, FiniteSets, FiniteSetTheorems, WellFoundedInduction, TLAPS

\* Among some natural numbers there is a least.
LEMMA LeastNat ==
  ASSUME NEW S, S \subseteq Nat, S # {}
  PROVE  \E n \in S : \A m \in S : n <= m
<1>1. PICK n \in S : \A m \in S : ~(<<m, n>> \in OpToRel(<, Nat))
  BY NatLessThanWellFounded, WFMin
<1>2. ASSUME NEW m \in S PROVE n <= m
  <2>1. m \in Nat /\ n \in Nat
    OBVIOUS
  <2>2. <<m, n>> \notin {pair \in Nat \X Nat : pair[1] < pair[2]}
    BY <1>1 DEF OpToRel
  <2> QED
    BY <2>1, <2>2
<1> QED
  BY <1>2

-----------------------------------------------------------------------------
(* The fold a sum is made with.                                             *)

First(s) == CHOOSE x \in s : TRUE

\* The equation of the fold over the subsets of S.
IsSum(sum, f, S) ==
  sum = [s \in SUBSET S |-> IF s = {} THEN 0 ELSE f[First(s)] + sum[s \ {First(s)}]]

LEMMA SumIs ==
  ASSUME NEW f, NEW S
  PROVE  SumFunctionOnSet(f, S) = (CHOOSE sum : IsSum(sum, f, S))[S]
BY DEF SumFunctionOnSet, FoldFunctionOnSet, MapThenFoldSet, IsSum, First

\* Taking an element out of a set of n leaves n - 1.
LEMMA OneLess ==
  ASSUME NEW s, IsFiniteSet(s), NEW x \in s
  PROVE  /\ IsFiniteSet(s \ {x}) /\ Cardinality(s) \in Nat \ {0}
         /\ Cardinality(s \ {x}) = Cardinality(s) - 1
         /\ Cardinality(s \ {x}) \in Nat
<1>1. /\ IsFiniteSet(s \ {x}) /\ Cardinality(s \ {x}) = Cardinality(s) - 1
      /\ Cardinality(s) \in Nat /\ Cardinality(s \ {x}) \in Nat
  BY FS_RemoveElement, FS_CardinalityType
<1> QED
  BY <1>1

LEMMA FirstIn ==
  ASSUME NEW s, s # {}
  PROVE  First(s) \in s
BY DEF First

\* The subsets of S of at most n elements, and the fold over them.
UpTo(S, n) == {s \in SUBSET S : Cardinality(s) <= n}

IsSumUpTo(sum, f, S, n) ==
  sum = [s \in UpTo(S, n) |-> IF s = {} THEN 0 ELSE f[First(s)] + sum[s \ {First(s)}]]

\* Some function satisfies the equation: one for sets of n - 1 elements extends
\* to one for sets of n.
LEMMA SumExists ==
  ASSUME NEW f, NEW S, IsFiniteSet(S)
  PROVE  \E sum : IsSum(sum, f, S)
<1>1. ASSUME NEW s \in SUBSET S PROVE IsFiniteSet(s) /\ Cardinality(s) \in Nat
  BY FS_Subset, FS_CardinalityType
<1>2. \E sum : IsSumUpTo(sum, f, S, 0)
  <2>1. \A s \in UpTo(S, 0) : s = {}
    BY <1>1, FS_EmptySet DEF UpTo
  <2> DEFINE sum == [s \in UpTo(S, 0) |-> 0]
  <2>2. IsSumUpTo(sum, f, S, 0)
    BY <2>1 DEF IsSumUpTo
  <2> QED
    BY <2>2
<1>3. ASSUME NEW n \in Nat \ {0}, NEW before, IsSumUpTo(before, f, S, n - 1)
      PROVE  \E sum : IsSumUpTo(sum, f, S, n)
  <2> DEFINE sum == [s \in UpTo(S, n) |->
                       IF s = {} THEN 0 ELSE f[First(s)] + before[s \ {First(s)}]]
  <2>1. ASSUME NEW s \in UpTo(S, n), s # {}
        PROVE  sum[s \ {First(s)}] = before[s \ {First(s)}]
    <3> DEFINE t == s \ {First(s)}
    <3>1. t \in UpTo(S, n - 1) /\ t \in UpTo(S, n)
      <4>1. s \in SUBSET S /\ Cardinality(s) <= n /\ IsFiniteSet(s) /\ First(s) \in s
        BY <1>1, <2>1, FirstIn DEF UpTo
      <4>2. Cardinality(t) = Cardinality(s) - 1 /\ Cardinality(s) \in Nat
        BY <4>1, OneLess
      <4> QED
        BY <4>1, <4>2 DEF UpTo
    <3>2. before[t] = IF t = {} THEN 0 ELSE f[First(t)] + before[t \ {First(t)}]
      BY <1>3, <3>1 DEF IsSumUpTo
    <3>3. sum[t] = IF t = {} THEN 0 ELSE f[First(t)] + before[t \ {First(t)}]
      BY <3>1
    <3> QED
      BY <3>2, <3>3
  <2>2. sum = [s \in UpTo(S, n) |-> IF s = {} THEN 0 ELSE f[First(s)] + sum[s \ {First(s)}]]
    BY <2>1
  <2> QED
    BY <2>2 DEF IsSumUpTo
<1>4. \A n \in Nat : \E sum : IsSumUpTo(sum, f, S, n)
  <2> DEFINE without == {n \in Nat : ~\E sum : IsSumUpTo(sum, f, S, n)}
  <2>1. SUFFICES ASSUME without # {} PROVE FALSE
    OBVIOUS
  <2>2. PICK n \in without : \A m \in without : n <= m
    BY <2>1, LeastNat
  <2>3. n \in Nat \ {0}
    BY <1>2
  <2>4. n - 1 \in Nat /\ n - 1 \notin without
    BY <2>2, <2>3
  <2> QED
    BY <1>3, <2>3, <2>4
<1>5. UpTo(S, Cardinality(S)) = SUBSET S
  BY FS_Subset DEF UpTo
<1>6. PICK sum : IsSumUpTo(sum, f, S, Cardinality(S))
  <2>1. Cardinality(S) \in Nat
    BY FS_CardinalityType
  <2> QED
    BY <1>4, <2>1
<1>7. IsSum(sum, f, S)
  BY <1>5, <1>6 DEF IsSum, IsSumUpTo
<1> QED
  BY <1>7

SameOn(f, e, s) == \A x \in s : f[x] = e[x]

\* The equation has one solution on the sets where the values are the same.
LEMMA SumUnique ==
  ASSUME NEW f, NEW e, NEW S, IsFiniteSet(S), NEW T, NEW g, NEW h,
         IsSum(g, f, S), IsSum(h, e, T),
         NEW s, s \in SUBSET S, s \in SUBSET T, SameOn(f, e, s)
  PROVE  g[s] = h[s]
<1> USE DEF SameOn
<1> DEFINE differ == {u \in SUBSET s : g[u] # h[u]}
           sizes  == {Cardinality(u) : u \in differ}
<1>1. SUFFICES ASSUME differ # {} PROVE FALSE
  OBVIOUS
<1>2. \A u \in SUBSET s : IsFiniteSet(u) /\ Cardinality(u) \in Nat
  BY FS_Subset, FS_CardinalityType
<1>3. sizes \subseteq Nat /\ sizes # {}
  BY <1>1, <1>2
<1>4. PICK n \in sizes : \A m \in sizes : n <= m
  BY <1>3, LeastNat
<1>5. PICK u \in differ : n = Cardinality(u)
  BY <1>4
<1>6. u # {}
  BY <1>5 DEF IsSum
<1>7. First(u) \in u /\ First(u) \in s
  BY <1>6, FirstIn
<1>8. g[u \ {First(u)}] = h[u \ {First(u)}]
  <2>1. Cardinality(u \ {First(u)}) = n - 1 /\ n - 1 \in Nat /\ n \in Nat
    BY <1>2, <1>5, <1>7, OneLess
  <2>2. u \ {First(u)} \in SUBSET s
    OBVIOUS
  <2>3. u \ {First(u)} \notin differ
    BY <1>4, <2>1
  <2> QED
    BY <2>2, <2>3
<1>9. /\ g[u] = f[First(u)] + g[u \ {First(u)}]
      /\ h[u] = e[First(u)] + h[u \ {First(u)}]
  BY <1>6 DEF IsSum
<1> QED
  BY <1>5, <1>7, <1>8, <1>9

\* The same, for a solution on a part of S.
LEMMA SumUniqueWithin ==
  ASSUME NEW f, NEW S, IsFiniteSet(S), NEW T, T \subseteq S, NEW g, NEW h,
         IsSum(g, f, S), IsSum(h, f, T)
  PROVE  g[T] = h[T]
<1>1. T \in SUBSET T /\ T \in SUBSET S
  OBVIOUS
<1>2. SameOn(f, f, T)
  BY DEF SameOn
<1> QED
  BY <1>1, <1>2, SumUnique

-----------------------------------------------------------------------------
(* The laws of a sum.                                                       *)

\* The sum as its fold computes it.
LEMMA SumSteps ==
  ASSUME NEW f, NEW S, IsFiniteSet(S)
  PROVE  SumFunctionOnSet(f, S) =
           IF S = {} THEN 0
           ELSE f[First(S)] + SumFunctionOnSet(f, S \ {First(S)})
<1> DEFINE T == S \ {First(S)}
           g == CHOOSE sum : IsSum(sum, f, S)
           h == CHOOSE sum : IsSum(sum, f, T)
<1>1. IsFiniteSet(T)
  BY FS_RemoveElement
<1>2. IsSum(g, f, S) /\ IsSum(h, f, T)
  BY <1>1, SumExists
<1>3. SumFunctionOnSet(f, S) = g[S] /\ SumFunctionOnSet(f, T) = h[T]
  BY SumIs
<1> HIDE DEF g, h
<1>4. g[T] = h[T]
  <2>1. T \subseteq S
    OBVIOUS
  <2> HIDE DEF T
  <2> QED
    BY <1>2, <2>1, SumUniqueWithin
<1>5. g[S] = IF S = {} THEN 0 ELSE f[First(S)] + g[T]
  BY <1>2 DEF IsSum
<1> QED
  BY <1>3, <1>4, <1>5

\* Values that are the same have the same sum.
LEMMA SumSame ==
  ASSUME NEW f, NEW e, NEW S, IsFiniteSet(S), \A x \in S : f[x] = e[x]
  PROVE  SumFunctionOnSet(f, S) = SumFunctionOnSet(e, S)
<1> DEFINE g == CHOOSE sum : IsSum(sum, f, S)
           h == CHOOSE sum : IsSum(sum, e, S)
<1>1. IsSum(g, f, S) /\ IsSum(h, e, S)
  BY SumExists
<1>2. SumFunctionOnSet(f, S) = g[S] /\ SumFunctionOnSet(e, S) = h[S]
  BY SumIs
<1> HIDE DEF g, h
<1>3. S \in SUBSET S /\ SameOn(f, e, S)
  BY DEF SameOn
<1>4. g[S] = h[S]
  BY <1>1, <1>3, SumUnique
<1> QED
  BY <1>2, <1>4

\* The sum of nothing.
LEMMA SumOfNone ==
  ASSUME NEW f
  PROVE  SumFunctionOnSet(f, {}) = 0
BY SumSteps, FS_EmptySet

\* A property of the sum over the empty set, which one more element keeps, is
\* one of every sum: here, that sums of integers are integers.
LEMMA SumTyped ==
  ASSUME NEW f, NEW S, IsFiniteSet(S), \A x \in S : f[x] \in Int
  PROVE  SumFunctionOnSet(f, S) \in Int
<1> DEFINE bad   == {s \in SUBSET S : SumFunctionOnSet(f, s) \notin Int}
           sizes == {Cardinality(s) : s \in bad}
<1>1. SUFFICES ASSUME bad # {} PROVE FALSE
  OBVIOUS
<1>2. \A s \in SUBSET S : IsFiniteSet(s) /\ Cardinality(s) \in Nat
  BY FS_Subset, FS_CardinalityType
<1>3. sizes \subseteq Nat /\ sizes # {}
  BY <1>1, <1>2
<1>4. PICK n \in sizes : \A m \in sizes : n <= m
  BY <1>3, LeastNat
<1>5. PICK s \in bad : n = Cardinality(s)
  BY <1>4
<1>6. s # {}
  BY <1>5, SumOfNone
<1>7. First(s) \in s
  BY <1>6, FirstIn
<1>8. SumFunctionOnSet(f, s \ {First(s)}) \in Int
  <2>1. Cardinality(s \ {First(s)}) = n - 1 /\ n - 1 \in Nat /\ n \in Nat
    BY <1>2, <1>5, <1>7, OneLess
  <2> QED
    BY <1>4, <2>1
<1>9. SumFunctionOnSet(f, s) = f[First(s)] + SumFunctionOnSet(f, s \ {First(s)})
  BY <1>2, <1>6, SumSteps
<1> QED
  BY <1>5, <1>7, <1>8, <1>9

\* Any element may be taken out of a sum first.
LEMMA SumWithout ==
  ASSUME NEW f, NEW S, IsFiniteSet(S), \A x \in S : f[x] \in Int, NEW x \in S
  PROVE  SumFunctionOnSet(f, S) = f[x] + SumFunctionOnSet(f, S \ {x})
<1> DEFINE bad   == {s \in SUBSET S : \E y \in s :
                       SumFunctionOnSet(f, s) # f[y] + SumFunctionOnSet(f, s \ {y})}
           sizes == {Cardinality(s) : s \in bad}
<1>1. SUFFICES ASSUME bad # {} PROVE FALSE
  OBVIOUS
<1>2. \A s \in SUBSET S : IsFiniteSet(s) /\ Cardinality(s) \in Nat
  BY FS_Subset, FS_CardinalityType
<1>3. sizes \subseteq Nat /\ sizes # {}
  BY <1>1, <1>2
<1>4. PICK n \in sizes : \A m \in sizes : n <= m
  BY <1>3, LeastNat
<1>5. PICK s \in bad : n = Cardinality(s)
  BY <1>4
<1>6. PICK y \in s : SumFunctionOnSet(f, s) # f[y] + SumFunctionOnSet(f, s \ {y})
  BY <1>5
<1> DEFINE c == First(s)
<1>7. c \in s
  BY <1>6, FirstIn
<1>8. SumFunctionOnSet(f, s) = f[c] + SumFunctionOnSet(f, s \ {c})
  BY <1>2, <1>6, SumSteps
<1> HIDE DEF c
<1>9. c # y
  BY <1>6, <1>8
<1>10. ASSUME NEW z \in s, NEW w \in s \ {z}
       PROVE  SumFunctionOnSet(f, s \ {z})
                = f[w] + SumFunctionOnSet(f, (s \ {z}) \ {w})
  <2>1. Cardinality(s \ {z}) = n - 1 /\ n - 1 \in Nat /\ n \in Nat
    BY <1>2, <1>5, OneLess
  <2>2. s \ {z} \in SUBSET S /\ s \ {z} \notin bad
    BY <1>4, <2>1
  <2> QED
    BY <2>2
<1>11. SumFunctionOnSet(f, s \ {c}) = f[y] + SumFunctionOnSet(f, (s \ {c}) \ {y})
  BY <1>7, <1>9, <1>10
<1>12. SumFunctionOnSet(f, s \ {y}) = f[c] + SumFunctionOnSet(f, (s \ {y}) \ {c})
  BY <1>7, <1>9, <1>10
<1>13. (s \ {c}) \ {y} = (s \ {y}) \ {c}
  OBVIOUS
<1>14. SumFunctionOnSet(f, (s \ {y}) \ {c}) \in Int /\ f[c] \in Int /\ f[y] \in Int
  <2>1. (s \ {y}) \ {c} \in SUBSET S /\ c \in S /\ y \in S
    BY <1>7
  <2> QED
    BY <1>2, <2>1, SumTyped
<1> DEFINE rest == SumFunctionOnSet(f, (s \ {y}) \ {c})
           fromC == SumFunctionOnSet(f, s \ {c})
           fromY == SumFunctionOnSet(f, s \ {y})
           whole == SumFunctionOnSet(f, s)
<1>15. /\ whole = f[c] + fromC /\ fromC = f[y] + rest /\ fromY = f[c] + rest
       /\ rest \in Int /\ f[c] \in Int /\ f[y] \in Int /\ whole # f[y] + fromY
  BY <1>6, <1>8, <1>11, <1>12, <1>13, <1>14
<1> HIDE DEF rest, fromC, fromY, whole
<1> QED
  BY <1>15

\* One more element adds its value.
LEMMA SumWith ==
  ASSUME NEW f, NEW S, IsFiniteSet(S), NEW x, x \notin S,
         \A y \in S \cup {x} : f[y] \in Int
  PROVE  SumFunctionOnSet(f, S \cup {x}) = f[x] + SumFunctionOnSet(f, S)
<1>1. IsFiniteSet(S \cup {x}) /\ (S \cup {x}) \ {x} = S
  BY FS_AddElement
<1> QED
  BY <1>1, SumWithout

\* When one value changes, the sum changes by as much.
LEMMA SumChange ==
  ASSUME NEW f, NEW e, NEW S, IsFiniteSet(S), NEW x \in S,
         \A y \in S : f[y] \in Int /\ e[y] \in Int,
         \A y \in S \ {x} : f[y] = e[y]
  PROVE  SumFunctionOnSet(e, S) = SumFunctionOnSet(f, S) + e[x] - f[x]
<1>1. IsFiniteSet(S \ {x})
  BY FS_RemoveElement
<1>2. SumFunctionOnSet(e, S \ {x}) = SumFunctionOnSet(f, S \ {x})
  BY <1>1, SumSame
<1>3. /\ SumFunctionOnSet(f, S) = f[x] + SumFunctionOnSet(f, S \ {x})
      /\ SumFunctionOnSet(e, S) = e[x] + SumFunctionOnSet(e, S \ {x})
  BY SumWithout
<1>4. SumFunctionOnSet(f, S \ {x}) \in Int
  BY <1>1, SumTyped
<1>5. f[x] \in Int /\ e[x] \in Int
  OBVIOUS
<1> QED
  BY <1>2, <1>3, <1>4, <1>5

NoMore(f, s, g, t) ==
  /\ SumFunctionOnSet(f, s) \in Nat /\ SumFunctionOnSet(g, t) \in Nat
  /\ SumFunctionOnSet(f, s) <= SumFunctionOnSet(g, t)

\* Fewer and smaller natural numbers have a smaller sum.
LEMMA SumMonotone ==
  ASSUME NEW f, NEW g, NEW T, IsFiniteSet(T), NEW S, S \subseteq T,
         \A x \in T : g[x] \in Nat, \A x \in S : f[x] \in Nat /\ f[x] <= g[x]
  PROVE  NoMore(f, S, g, T)
<1> DEFINE bad   == {t \in SUBSET T : ~NoMore(f, t \cap S, g, t)}
           sizes == {Cardinality(t) : t \in bad}
<1>1. SUFFICES ASSUME bad # {} PROVE FALSE
  <2>1. T \cap S = S
    OBVIOUS
  <2> QED
    BY <2>1
<1>2. \A t \in SUBSET T : IsFiniteSet(t) /\ Cardinality(t) \in Nat
  BY FS_Subset, FS_CardinalityType
<1>3. sizes \subseteq Nat /\ sizes # {}
  BY <1>1, <1>2
<1>4. PICK n \in sizes : \A m \in sizes : n <= m
  BY <1>3, LeastNat
<1>5. PICK t \in bad : n = Cardinality(t)
  BY <1>4
<1>6. t # {}
  <2>1. {} \cap S = {}
    OBVIOUS
  <2>2. NoMore(f, {}, g, {})
    BY SumOfNone DEF NoMore
  <2> QED
    BY <1>5, <2>1, <2>2
<1> DEFINE x == First(t)
           u == t \ {x}
<1>7. x \in t /\ x \in T
  BY <1>6, FirstIn
<1>8. NoMore(f, u \cap S, g, u)
  <2>1. Cardinality(u) = n - 1 /\ n - 1 \in Nat /\ n \in Nat
    BY <1>2, <1>5, <1>7, OneLess
  <2>2. u \in SUBSET T
    OBVIOUS
  <2>3. u \notin bad
    <3> HIDE DEF bad, u
    <3> QED
      BY <1>4, <2>1
  <2> QED
    BY <2>2, <2>3
<1>9. /\ SumFunctionOnSet(g, t) = g[x] + SumFunctionOnSet(g, u)
      /\ g[x] \in Nat
  BY <1>2, <1>6, <1>7, SumSteps
<1>10. CASE x \in S
  <2>1. (t \cap S) \ {x} = u \cap S /\ x \in t \cap S /\ IsFiniteSet(t \cap S)
    BY <1>2, <1>7, <1>10
  <2>2. \A y \in t \cap S : f[y] \in Int
    OBVIOUS
  <2> HIDE DEF u, x
  <2>3. SumFunctionOnSet(f, t \cap S) = f[x] + SumFunctionOnSet(f, u \cap S)
    BY <2>1, <2>2, SumWithout
  <2>4. f[x] \in Nat /\ f[x] <= g[x]
    BY <1>10
  <2>5. NoMore(f, t \cap S, g, t)
    BY <1>8, <1>9, <2>3, <2>4 DEF NoMore
  <2> QED
    BY <1>5, <2>5
<1>11. CASE x \notin S
  <2>1. t \cap S = u \cap S
    BY <1>11
  <2> HIDE DEF u, x
  <2>2. NoMore(f, t \cap S, g, t)
    BY <1>8, <1>9, <2>1 DEF NoMore
  <2> QED
    BY <1>5, <2>2
<1> QED
  BY <1>10, <1>11

-----------------------------------------------------------------------------
\* What multiples of two sums differ by, at most.
Within(a, f, b, g, s, step) ==
  /\ SumFunctionOnSet(f, s) \in Int /\ SumFunctionOnSet(g, s) \in Int
  /\ a * SumFunctionOnSet(f, s) - b * SumFunctionOnSet(g, s)
       <= step * Cardinality(s)
  /\ b * SumFunctionOnSet(g, s) - a * SumFunctionOnSet(f, s)
       <= step * Cardinality(s)

\* One more pair of terms, a step apart at most.
LEMMA OneStepMore ==
  ASSUME NEW a \in Int, NEW b \in Int, NEW step \in Int,
         NEW x \in Int, NEW y \in Int, NEW X \in Int, NEW Y \in Int, NEW n \in Int,
         a * x - b * y <= step, b * y - a * x <= step,
         a * X - b * Y <= step * n, b * Y - a * X <= step * n
  PROVE  /\ a * (x + X) - b * (y + Y) <= step * (n + 1)
         /\ b * (y + Y) - a * (x + X) <= step * (n + 1)
<1>1. /\ a * (x + X) = a * x + a * X /\ b * (y + Y) = b * y + b * Y
      /\ step * (n + 1) = step * n + step
  OBVIOUS
<1> DEFINE ax == a * x
           aX == a * X
           by == b * y
           bY == b * Y
           sn == step * n
<1>2. ax \in Int /\ aX \in Int /\ by \in Int /\ bY \in Int /\ sn \in Int
  OBVIOUS
<1>3. /\ ax - by <= step /\ by - ax <= step
      /\ aX - bY <= sn /\ bY - aX <= sn
  OBVIOUS
<1>4. /\ a * (x + X) = ax + aX /\ b * (y + Y) = by + bY
      /\ step * (n + 1) = sn + step
  BY <1>1
<1> HIDE DEF ax, aX, by, bY, sn
<1>5. (ax + aX) - (by + bY) <= sn + step /\ (by + bY) - (ax + aX) <= sn + step
  BY <1>2, <1>3
<1> QED
  BY <1>4, <1>5

\* When the terms are a step apart at most, the sums are as many steps apart as
\* there are terms, at most.
LEMMA SumsNear ==
  ASSUME NEW a \in Int, NEW b \in Int, NEW step \in Int,
         NEW f, NEW g, NEW S, IsFiniteSet(S),
         \A x \in S : /\ f[x] \in Int /\ g[x] \in Int
                      /\ a * f[x] - b * g[x] <= step
                      /\ b * g[x] - a * f[x] <= step
  PROVE  Within(a, f, b, g, S, step)
<1> DEFINE bad   == {t \in SUBSET S : ~Within(a, f, b, g, t, step)}
           sizes == {Cardinality(t) : t \in bad}
<1>1. SUFFICES ASSUME bad # {} PROVE FALSE
  OBVIOUS
<1>2. \A t \in SUBSET S : IsFiniteSet(t) /\ Cardinality(t) \in Nat
  BY FS_Subset, FS_CardinalityType
<1>3. sizes \subseteq Nat /\ sizes # {}
  BY <1>1, <1>2
<1>4. PICK n \in sizes : \A m \in sizes : n <= m
  BY <1>3, LeastNat
<1>5. PICK t \in bad : n = Cardinality(t)
  BY <1>4
<1>6. t # {}
  <2>1. Within(a, f, b, g, {}, step)
    <3>1. Cardinality({}) = 0 /\ a * 0 = 0 /\ b * 0 = 0 /\ step * 0 = 0
      BY FS_EmptySet
    <3> QED
      BY <3>1, SumOfNone DEF Within
  <2> QED
    BY <1>5, <2>1
<1> DEFINE x == First(t)
           u == t \ {x}
<1>7. x \in t /\ x \in S
  BY <1>6, FirstIn
<1>8. Cardinality(u) = n - 1 /\ n - 1 \in Nat /\ n \in Nat
  BY <1>2, <1>5, <1>7, OneLess
<1>9. Within(a, f, b, g, u, step)
  <2>1. u \in SUBSET S
    OBVIOUS
  <2>2. u \notin bad
    <3> HIDE DEF bad, u
    <3> QED
      BY <1>4, <1>8
  <2> QED
    BY <2>1, <2>2
<1>10. /\ SumFunctionOnSet(f, t) = f[x] + SumFunctionOnSet(f, u)
       /\ SumFunctionOnSet(g, t) = g[x] + SumFunctionOnSet(g, u)
  BY <1>2, <1>6, SumSteps
<1>11. /\ f[x] \in Int /\ g[x] \in Int
       /\ a * f[x] - b * g[x] <= step /\ b * g[x] - a * f[x] <= step
  BY <1>7
<1> DEFINE F == SumFunctionOnSet(f, u)
           G == SumFunctionOnSet(g, u)
           k == Cardinality(u)
<1>12. /\ F \in Int /\ G \in Int /\ k \in Int
       /\ a * F - b * G <= step * k /\ b * G - a * F <= step * k
  BY <1>8, <1>9 DEF Within
<1>13. Cardinality(t) = k + 1
  BY <1>5, <1>8
<1>14. /\ SumFunctionOnSet(f, t) = f[x] + F /\ SumFunctionOnSet(g, t) = g[x] + G
  BY <1>10
<1> HIDE DEF F, G, k, u, x
<1>15. /\ a * (f[x] + F) - b * (g[x] + G) <= step * (k + 1)
       /\ b * (g[x] + G) - a * (f[x] + F) <= step * (k + 1)
  BY <1>11, <1>12, OneStepMore
<1>16. Within(a, f, b, g, t, step)
  BY <1>11, <1>12, <1>13, <1>14, <1>15 DEF Within
<1> QED
  BY <1>5, <1>16

\* The sums of f and g over s, taken a and b times, are no further apart than a
\* step for every element of P.
Leads(a, f, b, g, s, step, P) ==
  /\ SumFunctionOnSet(f, s) \in Int /\ SumFunctionOnSet(g, s) \in Int
  /\ a * SumFunctionOnSet(f, s) - b * SumFunctionOnSet(g, s)
       <= step * Cardinality(s \cap P)

\* When the terms of f lead those of g on P only, and by a step at most, the sum
\* leads by as many steps as P has elements, at most.
LEMMA SumsLead ==
  ASSUME NEW a \in Int, NEW b \in Int, NEW step \in Int, NEW P,
         NEW f, NEW g, NEW S, IsFiniteSet(S),
         \A x \in S : /\ f[x] \in Int /\ g[x] \in Int
                      /\ a * f[x] - b * g[x] <= IF x \in P THEN step ELSE 0
  PROVE  Leads(a, f, b, g, S, step, P)
<1> DEFINE bad   == {t \in SUBSET S : ~Leads(a, f, b, g, t, step, P)}
           sizes == {Cardinality(t) : t \in bad}
<1>1. SUFFICES ASSUME bad # {} PROVE FALSE
  OBVIOUS
<1>2. \A t \in SUBSET S : IsFiniteSet(t) /\ Cardinality(t) \in Nat
  BY FS_Subset, FS_CardinalityType
<1>3. sizes \subseteq Nat /\ sizes # {}
  BY <1>1, <1>2
<1>4. PICK n \in sizes : \A m \in sizes : n <= m
  BY <1>3, LeastNat
<1>5. PICK t \in bad : n = Cardinality(t)
  BY <1>4
<1>6. t # {}
  <2>1. Leads(a, f, b, g, {}, step, P)
    <3>1. /\ Cardinality({}) = 0 /\ a * 0 = 0 /\ b * 0 = 0 /\ step * 0 = 0
          /\ {} \cap P = {}
      BY FS_EmptySet
    <3> QED
      BY <3>1, SumOfNone DEF Leads
  <2> QED
    BY <1>5, <2>1
<1> DEFINE x == First(t)
           u == t \ {x}
<1>7. x \in t /\ x \in S
  BY <1>6, FirstIn
<1>8. Cardinality(u) = n - 1 /\ n \in Nat /\ n - 1 \in Nat
  BY <1>2, <1>5, <1>7, OneLess
<1>9. Leads(a, f, b, g, u, step, P)
  <2>1. u \in SUBSET S
    OBVIOUS
  <2>2. u \notin bad
    <3> HIDE DEF bad, u
    <3> QED
      BY <1>4, <1>8
  <2> QED
    BY <2>1, <2>2
<1>10. /\ SumFunctionOnSet(f, t) = f[x] + SumFunctionOnSet(f, u)
       /\ SumFunctionOnSet(g, t) = g[x] + SumFunctionOnSet(g, u)
  BY <1>2, <1>6, SumSteps
<1>11. /\ f[x] \in Int /\ g[x] \in Int
       /\ a * f[x] - b * g[x] <= IF x \in P THEN step ELSE 0
  BY <1>7
<1>12. /\ Cardinality(u \cap P) \in Int
       /\ Cardinality(t \cap P) = Cardinality(u \cap P) + (IF x \in P THEN 1 ELSE 0)
  <2> DEFINE both == t \cap P
             rest == u \cap P
  <2>1. IsFiniteSet(both)
    BY <1>2, FS_Subset
  <2>2. x \in P => x \in both /\ rest = both \ {x}
    BY <1>7
  <2>3. x \notin P => rest = both
    OBVIOUS
  <2> HIDE DEF both, rest, x, u
  <2>4. CASE x \in P
    <3>1. Cardinality(rest) = Cardinality(both) - 1 /\ Cardinality(rest) \in Nat
          /\ Cardinality(both) \in Nat
      BY <2>1, <2>2, <2>4, OneLess
    <3> QED
      BY <2>4, <3>1 DEF both, rest
  <2>5. CASE x \notin P
    <3>1. Cardinality(rest) = Cardinality(both) /\ Cardinality(both) \in Nat
      BY <2>1, <2>3, <2>5, FS_CardinalityType
    <3> QED
      BY <2>5, <3>1 DEF both, rest
  <2> QED
    BY <2>4, <2>5
<1> DEFINE F == SumFunctionOnSet(f, u)
           G == SumFunctionOnSet(g, u)
           k == Cardinality(u \cap P)
<1>13. F \in Int /\ G \in Int /\ k \in Int /\ a * F - b * G <= step * k
  BY <1>9, <1>12 DEF Leads
<1>14. /\ SumFunctionOnSet(f, t) = f[x] + F /\ SumFunctionOnSet(g, t) = g[x] + G
       /\ Cardinality(t \cap P) = k + (IF x \in P THEN 1 ELSE 0)
  BY <1>10, <1>12
<1> HIDE DEF F, G, k, u, x
<1>15. /\ step * (k + 1) = step * k + step /\ step * (k + 0) = step * k
       /\ a * (f[x] + F) = a * f[x] + a * F /\ b * (g[x] + G) = b * g[x] + b * G
  BY <1>11, <1>13
<1>16. a * (f[x] + F) - b * (g[x] + G) <= step * (k + (IF x \in P THEN 1 ELSE 0))
  <2> DEFINE ax == a * f[x]
             aF == a * F
             by == b * g[x]
             bG == b * G
             sk == step * k
  <2>1. /\ ax \in Int /\ aF \in Int /\ by \in Int /\ bG \in Int /\ sk \in Int
        /\ ax - by <= (IF x \in P THEN step ELSE 0) /\ aF - bG <= sk
    BY <1>11, <1>13
  <2> HIDE DEF ax, aF, by, bG, sk
  <2>2. (ax + aF) - (by + bG) <= sk + (IF x \in P THEN step ELSE 0)
    BY <2>1
  <2>3. step * (k + (IF x \in P THEN 1 ELSE 0)) = sk + (IF x \in P THEN step ELSE 0)
    BY <1>15, <2>1 DEF sk
  <2>4. /\ a * (f[x] + F) = ax + aF
        /\ b * (g[x] + G) = by + bG
    BY <1>15 DEF ax, aF, by, bG
  <2> QED
    BY <2>2, <2>3, <2>4
<1>17. Leads(a, f, b, g, t, step, P)
  <2>1. /\ SumFunctionOnSet(f, t) \in Int /\ SumFunctionOnSet(g, t) \in Int
    BY <1>11, <1>13, <1>14
  <2> QED
    BY <1>14, <1>16, <2>1 DEF Leads
<1> QED
  BY <1>5, <1>17

\* Elements that add nothing may be left out of a sum.
LEMMA SumSupport ==
  ASSUME NEW f, NEW S, IsFiniteSet(S), NEW T, T \subseteq S,
         \A x \in S : f[x] \in Int, \A x \in S \ T : f[x] = 0
  PROVE  SumFunctionOnSet(f, S) = SumFunctionOnSet(f, T)
<1> DEFINE bad   == {s \in SUBSET S : SumFunctionOnSet(f, s) # SumFunctionOnSet(f, s \cap T)}
           sizes == {Cardinality(s) : s \in bad}
<1>1. SUFFICES ASSUME bad # {} PROVE FALSE
  <2>1. S \cap T = T
    OBVIOUS
  <2> QED BY <2>1
<1>2. \A s \in SUBSET S : IsFiniteSet(s) /\ Cardinality(s) \in Nat
  BY FS_Subset, FS_CardinalityType
<1>3. sizes \subseteq Nat /\ sizes # {}
  BY <1>1, <1>2
<1>4. PICK n \in sizes : \A m \in sizes : n <= m
  BY <1>3, LeastNat
<1>5. PICK s \in bad : n = Cardinality(s)
  BY <1>4
<1> DEFINE x == First(s)
           u == s \ {x}
<1>6. s # {}
  <2>1. {} \cap T = {}
    OBVIOUS
  <2> QED
    BY <1>5, <2>1
<1>7. x \in s /\ x \in S /\ f[x] \in Int
  BY <1>6, FirstIn
<1>8. Cardinality(u) = n - 1 /\ n - 1 \in Nat /\ n \in Nat
  BY <1>2, <1>5, <1>7, OneLess
<1>9. SumFunctionOnSet(f, u) = SumFunctionOnSet(f, u \cap T)
  <2>1. u \in SUBSET S
    OBVIOUS
  <2>2. u \notin bad
    <3> HIDE DEF bad, u
    <3> QED
      BY <1>4, <1>8
  <2> QED
    BY <2>1, <2>2
<1>10. SumFunctionOnSet(f, s) = f[x] + SumFunctionOnSet(f, u)
  BY <1>2, <1>6, SumSteps
<1> DEFINE both == s \cap T
           rest == u \cap T
<1>11. /\ IsFiniteSet(both) /\ \A y \in both : f[y] \in Int
       /\ IsFiniteSet(u) /\ \A y \in u : f[y] \in Int
  BY <1>2, FS_Subset
<1>12. /\ x \in T => x \in both /\ rest = both \ {x}
       /\ x \notin T => rest = both /\ f[x] = 0
  BY <1>7
<1>13. SumFunctionOnSet(f, s) # SumFunctionOnSet(f, both)
  BY <1>5
<1>14. SumFunctionOnSet(f, u) \in Int
  <2> HIDE DEF u
  <2> QED BY <1>11, SumTyped
<1> HIDE DEF x, u, both, rest
<1>15. CASE x \in T
  <2>1. SumFunctionOnSet(f, both) = f[x] + SumFunctionOnSet(f, rest)
    BY <1>11, <1>12, <1>15, SumWithout
  <2> QED
    BY <1>9, <1>10, <1>13, <2>1 DEF rest
<1>16. CASE x \notin T
  <2>1. SumFunctionOnSet(f, u) = SumFunctionOnSet(f, rest)
    BY <1>9 DEF rest
  <2>2. rest = both /\ f[x] = 0
    BY <1>12, <1>16
  <2>3. SumFunctionOnSet(f, s) = SumFunctionOnSet(f, u)
    BY <1>10, <1>14, <2>2
  <2> QED
    BY <1>13, <2>1, <2>2, <2>3
<1> QED
  BY <1>15, <1>16
=============================================================================
