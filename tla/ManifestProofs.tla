--------------------------- MODULE ManifestProofs ---------------------------
(***************************************************************************)
(* Type correctness, the soundness of the blocks, the spare block, one     *)
(* seat per trader and the solvency of the market vault, for every value   *)
(* of the constants.  First come facts about the sum of a function over a  *)
(* finite set, SumFunctionOnSet of the community modules, which adds up    *)
(* the values one chosen element at a time: it is an integer, any element  *)
(* can be taken out of it, and changing one value changes it by as much.   *)
(* With them, lemmas on what the operators on a market account preserve    *)
(* and change.  The inductive invariant IInv adds to the properties what   *)
(* an instruction in progress keeps true between its steps: its signer has *)
(* a seat, a temporary seat owns no order, a swap never gains its own      *)
(* input token, and enough blocks are free for the steps to come.          *)
(***************************************************************************)
EXTENDS ManifestProperties, Functions, FiniteSetTheorems, WellFoundedInduction, TLAPS

-----------------------------------------------------------------------------
(* Induction. *)

\* Induction over the finite subsets of a set, for a property given as the set X of
\* the subsets that have it.
LEMMA SubsetInduction ==
    ASSUME NEW S, IsFiniteSet(S), NEW X,
           \A T \in SUBSET S : (\A U \in SUBSET T : U # T => U \in X) => T \in X
    PROVE  \A T \in SUBSET S : T \in X
<1> DEFINE R == StrictSubsetOrdering(S)
           B == (SUBSET S) \ X
<1>1. SUFFICES ASSUME B # {} PROVE FALSE
  OBVIOUS
<1>2. IsWellFoundedOn(R, SUBSET S)
  BY FS_StrictSubsetOrderingWellFounded, FS_FiniteSubsetsOfFinite
<1>3. PICK T \in B : \A U \in B : ~ (<<U, T>> \in R)
  <2> HIDE DEF R, B
  <2>1. B \subseteq SUBSET S
    BY DEF B
  <2>2. QED
    BY <1>1, <1>2, <2>1, WFMin
<1>4. \A U \in SUBSET T : U # T => U \in X
  BY <1>3 DEF StrictSubsetOrdering
<1>5. QED
  BY <1>3, <1>4

-----------------------------------------------------------------------------
(* The recursive function behind SumFunctionOnSet. *)

\* The element that is added next.
Pick(s) == CHOOSE x \in s : TRUE

\* g adds up the values of h over every subset of S.
IsSum(g, h, S) ==
    g = [s \in SUBSET S |-> IF s = {} THEN 0 ELSE h[Pick(s)] + g[s \ {Pick(s)}]]

\* The chosen element is one of the set.
LEMMA PickIn == ASSUME NEW s, s # {} PROVE Pick(s) \in s
BY DEF Pick

\* The equation that defines the sum, at one set.
LEMMA SumEquation ==
    ASSUME NEW g, NEW h, NEW S, IsSum(g, h, S), NEW s \in SUBSET S
    PROVE  g[s] = IF s = {} THEN 0 ELSE h[Pick(s)] + g[s \ {Pick(s)}]
BY DEF IsSum

\* The sum over a set depends on the set alone, whichever larger set the function
\* is defined for.
LEMMA SumUnique ==
    ASSUME NEW h, NEW f, NEW g, NEW S, NEW T, NEW U, IsFiniteSet(U), 
           U \subseteq S, U \subseteq T, IsSum(f, h, S), IsSum(g, h, T)
    PROVE  f[U] = g[U]
<1> DEFINE X == {V \in SUBSET U : f[V] = g[V]}
<1>1. ASSUME NEW V \in SUBSET U, \A W \in SUBSET V : W # V => W \in X
      PROVE  V \in X
  <2>1. V \in SUBSET S /\ V \in SUBSET T
    OBVIOUS
  <2>2. CASE V = {}
    BY <2>1, <2>2, SumEquation
  <2>3. CASE V # {}
    <3>1. Pick(V) \in V
      BY <2>3, PickIn
    <3>2. V \ {Pick(V)} \in X
      BY <1>1, <3>1
    <3>3. f[V] = h[Pick(V)] + f[V \ {Pick(V)}]
      BY <2>1, <2>3, SumEquation
    <3>4. g[V] = h[Pick(V)] + g[V \ {Pick(V)}]
      BY <2>1, <2>3, SumEquation
    <3>5. QED
      BY <3>2, <3>3, <3>4
  <2>4. QED
    BY <2>2, <2>3
<1>2. \A V \in SUBSET U : V \in X
  <2> HIDE DEF X
  <2>1. \A V \in SUBSET U : (\A W \in SUBSET V : W # V => W \in X) => V \in X
    BY <1>1
  <2>2. QED
    BY <2>1, SubsetInduction
<1>3. QED
  BY <1>2

\* The equation has a solution.
LEMMA SumExists ==
    ASSUME NEW h, NEW S, IsFiniteSet(S)
    PROVE  \E g : IsSum(g, h, S)
<1> DEFINE X == {T \in SUBSET S : \E g : IsSum(g, h, T)}
           sum(T) == CHOOSE g : IsSum(g, h, T)
           Val(T) == sum(T)[T]
<1>1. ASSUME NEW V \in SUBSET S, \A W \in SUBSET V : W # V => W \in X
      PROVE  V \in X
  <2> DEFINE f == [s \in SUBSET V |-> IF s = {} THEN 0 ELSE h[Pick(s)] + Val(s \ {Pick(s)})]
  <2>1. ASSUME NEW s \in SUBSET V, s # V
        PROVE  f[s] = Val(s)
    <3>1. IsSum(sum(s), h, s)
      BY <1>1, <2>1
    <3> DEFINE t == s \ {Pick(s)}
    <3>2. sum(s)[s] = IF s = {} THEN 0 ELSE h[Pick(s)] + sum(s)[t]
      <4> HIDE DEF sum
      <4>1. s \in SUBSET s
        OBVIOUS
      <4>2. QED
        BY <3>1, <4>1, SumEquation
    <3>3. CASE s = {}
      BY <3>2, <3>3
    <3>4. CASE s # {}
      <4>1. IsSum(sum(t), h, t)
        BY <1>1, <2>1
      <4>2. IsFiniteSet(t)
        BY FS_Subset
      <4> HIDE DEF sum
      <4>3. sum(s)[t] = sum(t)[t]
        <5>1. t \subseteq s /\ t \subseteq t
          OBVIOUS
        <5> HIDE DEF t
        <5>2. QED
          BY <3>1, <4>1, <4>2, <5>1, SumUnique
      <4>4. f[s] = h[Pick(s)] + Val(t)
        BY <3>4
      <4>5. QED
        BY <3>2, <3>4, <4>3, <4>4
    <3>5. QED
      BY <3>3, <3>4
  <2>2. ASSUME NEW s \in SUBSET V, s # {}
        PROVE  Val(s \ {Pick(s)}) = f[s \ {Pick(s)}]
    <3>1. Pick(s) \in s
      BY <2>2, PickIn
    <3>2. QED
      BY <2>1, <3>1
  <2>3. f = [s \in SUBSET V |-> IF s = {} THEN 0 ELSE h[Pick(s)] + f[s \ {Pick(s)}]]
    <3> HIDE DEF Val
    <3>1. \A s \in SUBSET V : (IF s = {} THEN 0 ELSE h[Pick(s)] + Val(s \ {Pick(s)}))
              = (IF s = {} THEN 0 ELSE h[Pick(s)] + f[s \ {Pick(s)}])
      BY <2>2
    <3>2. QED
      BY ONLY <3>1, Zenon
  <2> HIDE DEF f
  <2>4. IsSum(f, h, V)
    BY <2>3 DEF IsSum
  <2>5. QED
    BY <2>4
<1>2. \A V \in SUBSET S : V \in X
  <2> HIDE DEF X
  <2>1. \A V \in SUBSET S : (\A W \in SUBSET V : W # V => W \in X) => V \in X
    BY <1>1
  <2>2. QED
    BY <2>1, SubsetInduction
<1>3. QED
  BY <1>2

-----------------------------------------------------------------------------
(* Sums. *)

\* SumFunctionOnSet is the value of such a solution.
LEMMA SumDefined ==
    ASSUME NEW h, NEW S, IsFiniteSet(S)
    PROVE  \E g : IsSum(g, h, S) /\ SumFunctionOnSet(h, S) = g[S]
<1> DEFINE g == CHOOSE g : IsSum(g, h, S)
<1>1. IsSum(g, h, S)
  BY SumExists
<1>2. SumFunctionOnSet(h, S) = g[S]
  BY DEF SumFunctionOnSet, FoldFunctionOnSet, MapThenFoldSet, IsSum, Pick
<1>3. QED
  BY <1>1, <1>2

\* The sum over no element.
LEMMA SumOfNone ==
    ASSUME NEW h
    PROVE  SumFunctionOnSet(h, {}) = 0
<1>1. IsFiniteSet({})
  BY FS_EmptySet
<1>2. PICK g : IsSum(g, h, {}) /\ SumFunctionOnSet(h, {}) = g[{}]
  BY <1>1, SumDefined
<1>3. g[{}] = 0
  BY <1>2, SumEquation
<1>4. QED
  BY <1>2, <1>3

\* The sum, one element at a time.
LEMMA SumPick ==
    ASSUME NEW h, NEW S, IsFiniteSet(S), S # {}
    PROVE  SumFunctionOnSet(h, S) = h[Pick(S)] + SumFunctionOnSet(h, S \ {Pick(S)})
<1> DEFINE T == S \ {Pick(S)}
<1>1. IsFiniteSet(T) /\ T \subseteq S
  BY FS_Subset
<1>2. PICK f : IsSum(f, h, S) /\ SumFunctionOnSet(h, S) = f[S]
  BY SumDefined
<1>3. PICK g : IsSum(g, h, T) /\ SumFunctionOnSet(h, T) = g[T]
  BY <1>1, SumDefined
<1>4. f[S] = h[Pick(S)] + f[T]
  BY <1>2, SumEquation
<1>5. f[T] = g[T]
  <2> HIDE DEF T
  <2>1. QED
    BY <1>1, <1>2, <1>3, SumUnique
<1>6. QED
  BY <1>2, <1>3, <1>4, <1>5

\* A set that is closed under addition is closed under sums.
LEMMA SumIn ==
    ASSUME NEW D, 0 \in D, \A a, b \in D : a + b \in D,
           NEW S, IsFiniteSet(S), NEW h, \A x \in S : h[x] \in D
    PROVE  SumFunctionOnSet(h, S) \in D
<1> DEFINE X == {T \in SUBSET S : SumFunctionOnSet(h, T) \in D}
<1>1. ASSUME NEW T \in SUBSET S, \A U \in SUBSET T : U # T => U \in X
      PROVE  T \in X
  <2>1. CASE T = {}
    BY <2>1, SumOfNone
  <2>2. CASE T # {}
    <3>1. IsFiniteSet(T) /\ Pick(T) \in T
      BY <2>2, FS_Subset, PickIn
    <3>2. SumFunctionOnSet(h, T) = h[Pick(T)] + SumFunctionOnSet(h, T \ {Pick(T)})
      BY <2>2, <3>1, SumPick
    <3>3. T \ {Pick(T)} \in X
      BY <1>1, <3>1
    <3>4. QED
      BY <3>1, <3>2, <3>3
  <2>3. QED
    BY <2>1, <2>2
<1>2. \A T \in SUBSET S : T \in X
  <2> HIDE DEF X
  <2>1. \A T \in SUBSET S : (\A U \in SUBSET T : U # T => U \in X) => T \in X
    BY <1>1
  <2>2. QED
    BY <2>1, SubsetInduction
<1>3. QED
  BY <1>2

\* A sum of integers is an integer.
LEMMA SumInt ==
    ASSUME NEW S, IsFiniteSet(S), NEW h, \A x \in S : h[x] \in Int
    PROVE  SumFunctionOnSet(h, S) \in Int
<1>1. 0 \in Int /\ \A a, b \in Int : a + b \in Int
  OBVIOUS
<1>2. QED
  BY <1>1, SumIn

\* A sum of natural numbers is one.
LEMMA SumNat ==
    ASSUME NEW S, IsFiniteSet(S), NEW h, \A x \in S : h[x] \in Nat
    PROVE  SumFunctionOnSet(h, S) \in Nat
<1>1. 0 \in Nat /\ \A a, b \in Nat : a + b \in Nat
  OBVIOUS
<1>2. QED
  BY <1>1, SumIn

\* A sum of zeros is zero.
LEMMA SumOfZeros ==
    ASSUME NEW S, IsFiniteSet(S), NEW h, \A x \in S : h[x] = 0
    PROVE  SumFunctionOnSet(h, S) = 0
<1>1. 0 \in {0} /\ \A a, b \in {0} : a + b \in {0}
  OBVIOUS
<1>2. SumFunctionOnSet(h, S) \in {0}
  BY <1>1, SumIn
<1>3. QED
  BY <1>2

\* Any element can be taken out of a sum, not only the chosen one.
LEMMA SumTakeOut ==
    ASSUME NEW S, IsFiniteSet(S), NEW h, \A x \in S : h[x] \in Int, NEW a \in S
    PROVE  SumFunctionOnSet(h, S) = h[a] + SumFunctionOnSet(h, S \ {a})
<1> DEFINE sum(T) == SumFunctionOnSet(h, T)
           X == {T \in SUBSET S : \A x \in T : sum(T) = h[x] + sum(T \ {x})}
<1>0. \A T \in SUBSET S : IsFiniteSet(T) /\ sum(T) \in Int
  BY FS_Subset, SumInt
<1>1. ASSUME NEW T \in SUBSET S, \A U \in SUBSET T : U # T => U \in X
      PROVE  T \in X
  <2>1. SUFFICES ASSUME NEW x \in T PROVE sum(T) = h[x] + sum(T \ {x})
    OBVIOUS
  <2> DEFINE y == Pick(T)
  <2>2. y \in T
    BY PickIn
  <2>3. sum(T) = h[y] + sum(T \ {y})
    BY <1>0, <2>1, SumPick
  <2> HIDE DEF y, sum
  <2>4. CASE x = y
    BY <2>3, <2>4
  <2>5. CASE x # y
    <3>1. T \ {y} \in X /\ x \in T \ {y} /\ T \ {x} \in X /\ y \in T \ {x}
      BY <1>1, <2>2, <2>5
    <3>2. /\ sum(T \ {y}) = h[x] + sum((T \ {y}) \ {x})
          /\ sum(T \ {x}) = h[y] + sum((T \ {x}) \ {y})
      BY <3>1
    <3>3. (T \ {x}) \ {y} = (T \ {y}) \ {x}
      OBVIOUS
    <3>4. h[x] \in Int /\ h[y] \in Int /\ sum((T \ {y}) \ {x}) \in Int
      BY <1>0, <2>2
    <3> DEFINE p == sum((T \ {y}) \ {x})
               q == sum(T \ {y})
               r == sum(T \ {x})
    <3>5. sum(T) = h[y] + q /\ q = h[x] + p /\ r = h[y] + p /\ p \in Int
      BY <2>3, <3>2, <3>3, <3>4
    <3> HIDE DEF p, q, r
    <3>6. h[y] + (h[x] + p) = h[x] + (h[y] + p)
      BY <3>4, <3>5
    <3>7. sum(T) = h[x] + r
      BY <3>5, <3>6
    <3>8. QED
      BY <3>7 DEF r
  <2>6. QED
    BY <2>4, <2>5
<1>2. \A T \in SUBSET S : T \in X
  <2> HIDE DEF X
  <2>1. \A T \in SUBSET S : (\A U \in SUBSET T : U # T => U \in X) => T \in X
    BY <1>1
  <2>2. QED
    BY <2>1, SubsetInduction
<1>3. QED
  BY <1>2

\* Equal values have equal sums.
LEMMA SumSame ==
    ASSUME NEW S, IsFiniteSet(S), NEW g, NEW h, \A x \in S : g[x] = h[x]
    PROVE  SumFunctionOnSet(g, S) = SumFunctionOnSet(h, S)
<1> DEFINE X == {T \in SUBSET S : SumFunctionOnSet(g, T) = SumFunctionOnSet(h, T)}
<1>1. ASSUME NEW T \in SUBSET S, \A U \in SUBSET T : U # T => U \in X
      PROVE  T \in X
  <2>1. CASE T = {}
    BY <2>1, SumOfNone
  <2>2. CASE T # {}
    <3>1. IsFiniteSet(T) /\ Pick(T) \in T
      BY <2>2, FS_Subset, PickIn
    <3>2. /\ SumFunctionOnSet(g, T) = g[Pick(T)] + SumFunctionOnSet(g, T \ {Pick(T)})
          /\ SumFunctionOnSet(h, T) = h[Pick(T)] + SumFunctionOnSet(h, T \ {Pick(T)})
      BY <2>2, <3>1, SumPick
    <3>3. T \ {Pick(T)} \in X
      BY <1>1, <3>1
    <3>4. QED
      BY <3>1, <3>2, <3>3
  <2>3. QED
    BY <2>1, <2>2
<1>2. \A T \in SUBSET S : T \in X
  <2> HIDE DEF X
  <2>1. \A T \in SUBSET S : (\A U \in SUBSET T : U # T => U \in X) => T \in X
    BY <1>1
  <2>2. QED
    BY <2>1, SubsetInduction
<1>3. QED
  BY <1>2

\* Two functions that differ at a only.
LEMMA SumChangeOne ==
    ASSUME NEW S, IsFiniteSet(S), NEW a \in S, NEW g, NEW h,
           \A x \in S : g[x] \in Int, h[a] \in Int, \A x \in S \ {a} : h[x] = g[x]
    PROVE  SumFunctionOnSet(h, S) = SumFunctionOnSet(g, S) + h[a] - g[a]
<1>1. IsFiniteSet(S \ {a}) /\ \A x \in S : h[x] \in Int
  BY FS_Subset
<1>2. SumFunctionOnSet(h, S) = h[a] + SumFunctionOnSet(h, S \ {a})
  BY <1>1, SumTakeOut
<1>3. SumFunctionOnSet(g, S) = g[a] + SumFunctionOnSet(g, S \ {a})
  BY <1>1, SumTakeOut
<1>4. SumFunctionOnSet(h, S \ {a}) = SumFunctionOnSet(g, S \ {a})
  BY <1>1, SumSame
<1>5. SumFunctionOnSet(g, S \ {a}) \in Int
  BY <1>1, SumInt
<1>6. QED
  BY <1>2, <1>3, <1>4, <1>5

\* The sum of the sums.
LEMMA SumAdd ==
    ASSUME NEW S, IsFiniteSet(S), NEW f, NEW g, NEW h,
           \A x \in S : f[x] \in Int /\ g[x] \in Int /\ h[x] = f[x] + g[x]
    PROVE  SumFunctionOnSet(h, S) = SumFunctionOnSet(f, S) + SumFunctionOnSet(g, S)
<1> DEFINE sum(F, T) == SumFunctionOnSet(F, T)
           X == {T \in SUBSET S : sum(h, T) = sum(f, T) + sum(g, T)}
<1>0. \A T \in SUBSET S : IsFiniteSet(T) /\ sum(f, T) \in Int /\ sum(g, T) \in Int
  BY FS_Subset, SumInt
<1>1. ASSUME NEW T \in SUBSET S, \A U \in SUBSET T : U # T => U \in X
      PROVE  T \in X
  <2>1. CASE T = {}
    BY <2>1, SumOfNone
  <2>2. CASE T # {}
    <3> DEFINE a == Pick(T)
               U == T \ {a}
    <3>1. IsFiniteSet(T) /\ a \in T
      BY <2>2, FS_Subset, PickIn
    <3>2. /\ sum(f, T) = f[a] + sum(f, U)
          /\ sum(g, T) = g[a] + sum(g, U)
          /\ sum(h, T) = h[a] + sum(h, U)
      BY <2>2, <3>1, SumPick
    <3>3. sum(h, U) = sum(f, U) + sum(g, U)
      BY <1>1, <3>1
    <3>4. f[a] \in Int /\ g[a] \in Int /\ h[a] = f[a] + g[a]
      BY <3>1
    <3>5. sum(f, U) \in Int /\ sum(g, U) \in Int
      BY <1>0
    <3> HIDE DEF a, sum
    <3>6. sum(h, T) = sum(f, T) + sum(g, T)
      BY <3>2, <3>3, <3>4, <3>5
    <3>7. QED
      BY <3>6
  <2>3. QED
    BY <2>1, <2>2
<1>2. \A T \in SUBSET S : T \in X
  <2> HIDE DEF X
  <2>1. \A T \in SUBSET S : (\A U \in SUBSET T : U # T => U \in X) => T \in X
    BY <1>1
  <2>2. QED
    BY <2>1, SubsetInduction
<1>3. QED
  BY <1>2

\* A sum of which all terms but one are zero.
LEMMA SumOfOne ==
    ASSUME NEW S, IsFiniteSet(S), NEW h, NEW a \in S, h[a] \in Int, \A x \in S \ {a} : h[x] = 0
    PROVE  SumFunctionOnSet(h, S) = h[a]
<1>1. \A x \in S : h[x] \in Int
  OBVIOUS
<1>2. SumFunctionOnSet(h, S) = h[a] + SumFunctionOnSet(h, S \ {a})
  BY <1>1, SumTakeOut
<1>3. IsFiniteSet(S \ {a})
  BY FS_Subset
<1>4. SumFunctionOnSet(h, S \ {a}) = 0
  BY <1>3, SumOfZeros
<1>5. QED
  BY <1>2, <1>4

\* The numbers of a table, h by rows and col by columns, with their sums.
IsTable(h, col, rows, cols, S, T) ==
    /\ \A x \in S, y \in T : h[x][y] \in Int /\ col[y][x] = h[x][y]
    /\ \A x \in S : rows[x] = SumFunctionOnSet(h[x], T)
    /\ \A y \in T : cols[y] = SumFunctionOnSet(col[y], S)

\* It is added up by rows or by columns.
LEMMA SumExchange ==
    ASSUME NEW S, IsFiniteSet(S), NEW T, IsFiniteSet(T), NEW h, NEW col, NEW rows, NEW cols,
           IsTable(h, col, rows, cols, S, T)
    PROVE  SumFunctionOnSet(cols, T) = SumFunctionOnSet(rows, S)
<1>0. /\ \A x \in S, y \in T : h[x][y] \in Int /\ col[y][x] = h[x][y]
      /\ \A x \in S : rows[x] = SumFunctionOnSet(h[x], T)
      /\ \A y \in T : cols[y] = SumFunctionOnSet(col[y], S)
  BY DEF IsTable
<1> DEFINE part(U) == [y \in T |-> SumFunctionOnSet(col[y], U)]
           X == {U \in SUBSET S : SumFunctionOnSet(part(U), T) = SumFunctionOnSet(rows, U)}
<1>1. \A x \in S : rows[x] \in Int
  BY <1>0, SumInt
<1>2. \A U \in SUBSET S : IsFiniteSet(U) /\ \A y \in T : part(U)[y] \in Int
  BY <1>0, FS_Subset, SumInt
<1>3. ASSUME NEW U \in SUBSET S, \A V \in SUBSET U : V # U => V \in X
      PROVE  U \in X
  <2>1. CASE U = {}
    <3> DEFINE p == part({})
    <3>1. \A y \in T : p[y] = 0
      BY SumOfNone
    <3> HIDE DEF p
    <3>2. SumFunctionOnSet(p, T) = 0
      BY <3>1, SumOfZeros
    <3>3. QED
      BY <2>1, <3>2, SumOfNone DEF p
  <2>2. CASE U # {}
    <3> DEFINE a == Pick(U)
               V == U \ {a}
               p == part(U)
               q == part(V)
    <3>1. a \in U /\ a \in S /\ V \in SUBSET S
      BY <2>2, PickIn
    <3>2. \A y \in T : h[a][y] \in Int /\ q[y] \in Int /\ p[y] = h[a][y] + q[y]
      <4>1. SUFFICES ASSUME NEW y \in T
                     PROVE  h[a][y] \in Int /\ q[y] \in Int /\ p[y] = h[a][y] + q[y]
        OBVIOUS
      <4>2. \A x \in U : col[y][x] \in Int
        BY <1>0
      <4>3. SumFunctionOnSet(col[y], U) = col[y][a] + SumFunctionOnSet(col[y], V)
        BY <1>2, <3>1, <4>2, SumTakeOut
      <4>4. col[y][a] = h[a][y] /\ h[a][y] \in Int /\ q[y] \in Int
        BY <1>0, <1>2, <3>1
      <4>5. QED
        BY <4>3, <4>4
    <3>3. V \in X
      BY <1>3, <3>1
    <3>4. SumFunctionOnSet(q, T) = SumFunctionOnSet(rows, V)
      BY <3>3
    <3> HIDE DEF p, q
    <3>5. SumFunctionOnSet(p, T) = SumFunctionOnSet(h[a], T) + SumFunctionOnSet(q, T)
      BY <3>2, SumAdd
    <3>6. SumFunctionOnSet(rows, U) = rows[a] + SumFunctionOnSet(rows, V)
      <4>1. IsFiniteSet(U) /\ \A x \in U : rows[x] \in Int
        BY <1>1, <1>2
      <4>2. QED
        BY <3>1, <4>1, SumTakeOut
    <3>7. rows[a] = SumFunctionOnSet(h[a], T)
      BY <1>0, <3>1
    <3>8. QED
      BY <3>4, <3>5, <3>6, <3>7 DEF p
  <2>3. QED
    BY <2>1, <2>2
<1>4. \A U \in SUBSET S : U \in X
  <2> HIDE DEF X
  <2>1. \A U \in SUBSET S : (\A V \in SUBSET U : V # U => V \in X) => U \in X
    BY <1>3
  <2>2. QED
    BY <2>1, SubsetInduction
<1> DEFINE all == part(S)
<1>5. SumFunctionOnSet(all, T) = SumFunctionOnSet(rows, S)
  BY <1>4
<1>6. \A y \in T : cols[y] = all[y]
  BY <1>0
<1> HIDE DEF all
<1>7. SumFunctionOnSet(cols, T) = SumFunctionOnSet(all, T)
  BY <1>6, SumSame
<1>8. QED
  BY <1>5, <1>7

\* Larger values have a larger sum.
LEMMA SumMonotone ==
    ASSUME NEW S, IsFiniteSet(S), NEW f, NEW h,
           \A x \in S : f[x] \in Int /\ h[x] \in Int /\ h[x] >= f[x]
    PROVE  SumFunctionOnSet(h, S) >= SumFunctionOnSet(f, S)
<1> DEFINE more == [x \in S |-> h[x] - f[x]]
<1>1. \A x \in S : more[x] \in Nat /\ f[x] \in Int /\ more[x] \in Int /\ h[x] = f[x] + more[x]
  OBVIOUS
<1> HIDE DEF more
<1>2. SumFunctionOnSet(h, S) = SumFunctionOnSet(f, S) + SumFunctionOnSet(more, S)
  BY <1>1, SumAdd
<1>3. SumFunctionOnSet(more, S) \in Nat /\ SumFunctionOnSet(f, S) \in Int
  BY <1>1, SumNat, SumInt
<1>4. QED
  BY <1>2, <1>3

-----------------------------------------------------------------------------
(* Markets. *)

MarketSound(m) == m \in Markets /\ FreeListSound(m) /\ OwnersSeated(m) /\ TotalsSound(m)

\* What the vault must hold of a token, by the market's own totals.
Claims(m, token) == m.withdrawable[token] + m.orderbook[token]

\* n has the seats and orders of m, with other balances.
SameBlocks(m, n) ==
    /\ n.free = m.free /\ n.num = m.num /\ n.seq = m.seq
    /\ SeatIndices(n) = SeatIndices(m)
    /\ OrderIndices(n) = OrderIndices(m)
    /\ \A i \in OrderIndices(m) : n.data[i] = m.data[i]
    /\ \A i \in SeatIndices(m) : n.data[i].trader = m.data[i].trader

\* The same traders hold the same seats.
SameTraders(m, n) ==
    /\ SeatIndices(n) = SeatIndices(m)
    /\ \A i \in SeatIndices(m) : n.data[i].trader = m.data[i].trader

\* n has the seats of m, balances included.
SameSeats(m, n) ==
    /\ SeatIndices(n) = SeatIndices(m)
    /\ \A i \in SeatIndices(m) : n.data[i] = m.data[i]
    /\ n.withdrawable = m.withdrawable

\* n has the orders of m.
SameOrders(m, n) ==
    /\ OrderIndices(n) = OrderIndices(m)
    /\ \A j \in OrderIndices(m) : n.data[j] = m.data[j]

\* It has them but for the one at index i.
Removed(m, n, i) ==
    /\ OrderIndices(n) = OrderIndices(m) \ {i}
    /\ \A j \in OrderIndices(n) : n.data[j] = m.data[j]

\* It has them with another size for the one at index i.
Resized(m, n, i) ==
    /\ OrderIndices(n) = OrderIndices(m)
    /\ \A j \in OrderIndices(m) \ {i} : n.data[j] = m.data[j]
    /\ \E base \in Nat : n.data[i] = [m.data[i] EXCEPT !.base = base]

\* It has them and one more.
Inserted(m, n, order) ==
    \E h \in Index \ OrderIndices(m) :
        /\ OrderIndices(n) = OrderIndices(m) \cup {h}
        /\ \A j \in OrderIndices(m) : n.data[j] = m.data[j]
        /\ n.data[h] = order

-----------------------------------------------------------------------------
(* Arithmetic. *)

\* Both roundings of a quotient are natural numbers.
LEMMA DivNat ==
    ASSUME NEW a \in Nat, NEW b \in Nat \ {0}, NEW round_up \in BOOLEAN
    PROVE  Div(a, b, round_up) \in Nat
<1>1. a \div b \in Nat /\ (a + b - 1) \div b \in Nat
    OBVIOUS
<1>2. QED
    BY <1>1 DEF Div

LEMMA QuoteForBaseNat ==
    ASSUME NEW price \in Nat, NEW base_atoms \in Nat, NEW round_up \in BOOLEAN
    PROVE  QuoteForBase(price, base_atoms, round_up) \in Nat
<1>1. price * base_atoms \in Nat
    OBVIOUS
<1>2. QED
    BY <1>1, DivNat, QuantitiesAssumption DEF QuoteForBase

LEMMA QuoteForNothing ==
    ASSUME NEW price \in Nat, NEW round_up \in BOOLEAN
    PROVE  QuoteForBase(price, 0, round_up) = 0
<1>1. price * 0 = 0
    OBVIOUS
<1>2. 0 \div D18 = 0 /\ (0 + D18 - 1) \div D18 = 0
    BY QuantitiesAssumption
<1>3. QED
    BY <1>1, <1>2 DEF QuoteForBase, Div

LEMMA BaseForQuoteNat ==
    ASSUME NEW price \in Nat, NEW quote_atoms \in Nat, NEW round_up \in BOOLEAN
    PROVE  BaseForQuote(price, quote_atoms, round_up) \in Nat
<1>1. D18 * quote_atoms \in Nat
    BY QuantitiesAssumption
<1>2. CASE price = 0
    BY <1>2 DEF BaseForQuote
<1>3. CASE price # 0
    BY <1>1, <1>3, DivNat DEF BaseForQuote
<1>4. QED
    BY <1>2, <1>3

\* A quotient grows with its dividend.
LEMMA QuotientMonotone ==
    ASSUME NEW a \in Nat, NEW b \in Nat, a <= b, NEW d \in Nat \ {0}
    PROVE  a \div d <= b \div d
<1> DEFINE p == a \div d
           q == b \div d
<1>1. p \in Int /\ q \in Int /\ a % d \in 0 .. (d - 1) /\ b % d \in 0 .. (d - 1)
    OBVIOUS
<1>2. a = d * p + (a % d) /\ b = d * q + (b % d)
    OBVIOUS
<1>3. SUFFICES ASSUME p > q PROVE FALSE
    BY <1>1
<1>4. p = q + 1 + (p - q - 1) /\ p - q - 1 \in Nat
    BY <1>1, <1>3
<1> HIDE DEF p, q
<1>5. d * p = d * q + d + d * (p - q - 1)
    BY <1>1, <1>4
<1>6. d * (p - q - 1) \in Nat /\ d * p \in Int /\ d * q \in Int
    BY <1>1, <1>4
<1>7. a % d \in Int /\ b % d \in Int /\ a % d >= 0 /\ b % d < d
    BY <1>1
<1> HIDE DEF p, q
<1>8. d * p >= d * q + d
    BY <1>5, <1>6
<1>9. QED
    BY <1>2, <1>6, <1>7, <1>8

\* More base atoms are worth no less.
LEMMA QuoteForBaseMonotone ==
    ASSUME NEW price \in Nat, NEW b \in Nat, NEW added \in Nat
    PROVE  QuoteForBase(price, b, TRUE) <= QuoteForBase(price, b + added, TRUE)
<1>1. /\ price * b \in Nat /\ price * added \in Nat
      /\ price * (b + added) = price * b + price * added
    OBVIOUS
<1> DEFINE x == price * b + D18 - 1
           y == price * (b + added) + D18 - 1
<1>2. x \in Nat /\ y \in Nat /\ x <= y
    BY <1>1, QuantitiesAssumption
<1>3. x \div D18 <= y \div D18
    BY <1>2, QuotientMonotone, QuantitiesAssumption
<1>4. QED
    BY <1>3 DEF QuoteForBase, Div

LEMMA NotionalAtomsNat ==
    ASSUME NEW is_bid \in BOOLEAN, NEW price \in Nat, NEW base_atoms \in Nat
    PROVE  NotionalAtoms(is_bid, price, base_atoms) \in Nat
BY QuoteForBaseNat DEF NotionalAtoms

LEMMA OrderbookAtomsNat ==
    ASSUME NEW order \in RestingOrders, NEW token \in Tokens
    PROVE  OrderbookAtoms(order, token) \in Nat
<1>1. NotionalAtoms(order.is_bid, order.price, order.base) \in Nat
    BY NotionalAtomsNat DEF RestingOrders
<1>2. QED
    BY <1>1 DEF OrderbookAtoms

LEMMA BackingToken ==
    ASSUME NEW is_bid \in BOOLEAN
    PROVE  /\ Backing(is_bid) \in Tokens
           /\ Backing(~ is_bid) \in Tokens
           /\ Backing(is_bid) # Backing(~ is_bid)
           /\ Tokens = {Backing(is_bid), Backing(~ is_bid)}
BY DEF Backing, Tokens

-----------------------------------------------------------------------------
(* Blocks. *)

LEMMA SeatTyped ==
    ASSUME NEW m \in Markets, NEW i \in SeatIndices(m)
    PROVE  i \in Index /\ m.data[i] \in Seats
BY DEF Markets, SeatIndices, Blocks, Seats, RestingOrders, EmptyBlock

LEMMA OrderTyped ==
    ASSUME NEW m \in Markets, NEW i \in OrderIndices(m)
    PROVE  i \in Index /\ m.data[i] \in RestingOrders
BY DEF Markets, OrderIndices, Blocks, Seats, RestingOrders, EmptyBlock

\* Changing one block and nothing else that the type mentions.
LEMMA SetBlockTyped ==
    ASSUME NEW m \in Markets, NEW i \in Index, NEW block \in Blocks
    PROVE  [m.data EXCEPT ![i] = block] \in [Index -> Blocks]
BY DEF Markets

LEMMA IndexFinite == IsFiniteSet(Index)
BY FS_Interval, MarketAssumption DEF Index

LEMMA BlockAtomsNat ==
    ASSUME NEW block \in Blocks, NEW token \in Tokens
    PROVE  SeatAtoms(block, token) \in Nat /\ BackingAtoms(block, token) \in Nat
<1>1. block.kind = "seat" => block.bal[token] \in Nat
  BY DEF Blocks, Seats, RestingOrders, EmptyBlock
<1>2. block.kind = "order" => block \in RestingOrders
  BY DEF Blocks, Seats, RestingOrders, EmptyBlock
<1>3. QED
  BY <1>1, <1>2, OrderbookAtomsNat DEF SeatAtoms, BackingAtoms

\* When one block changes and the totals by as much, they still are the sums.
LEMMA TotalsKept ==
    ASSUME NEW m \in Markets, TotalsSound(m), NEW n \in Markets, NEW i \in Index,
           \A j \in Index : j # i => n.data[j] = m.data[j],
           \A t \in Tokens :
              /\ n.withdrawable[t] = m.withdrawable[t] + SeatAtoms(n.data[i], t)
                                                       - SeatAtoms(m.data[i], t)
              /\ n.orderbook[t] = m.orderbook[t] + BackingAtoms(n.data[i], t)
                                                 - BackingAtoms(m.data[i], t)
    PROVE  TotalsSound(n)
<1> SUFFICES ASSUME NEW t \in Tokens
             PROVE  /\ n.withdrawable[t] =
                         SumFunctionOnSet([j \in Index |-> SeatAtoms(n.data[j], t)], Index)
                    /\ n.orderbook[t] =
                         SumFunctionOnSet([j \in Index |-> BackingAtoms(n.data[j], t)], Index)
  BY DEF TotalsSound
<1>1. \A j \in Index : m.data[j] \in Blocks /\ n.data[j] \in Blocks
  BY DEF Markets
<1> DEFINE g == [j \in Index |-> SeatAtoms(m.data[j], t)]
           h == [j \in Index |-> SeatAtoms(n.data[j], t)]
           p == [j \in Index |-> BackingAtoms(m.data[j], t)]
           q == [j \in Index |-> BackingAtoms(n.data[j], t)]
<1>2. \A j \in Index : g[j] \in Int /\ h[j] \in Int /\ p[j] \in Int /\ q[j] \in Int
  BY <1>1, BlockAtomsNat
<1>3. \A j \in Index \ {i} : h[j] = g[j] /\ q[j] = p[j]
  OBVIOUS
<1>4. /\ m.withdrawable[t] = SumFunctionOnSet(g, Index)
      /\ m.orderbook[t] = SumFunctionOnSet(p, Index)
  BY DEF TotalsSound
<1>5. /\ n.withdrawable[t] = m.withdrawable[t] + h[i] - g[i]
      /\ n.orderbook[t] = m.orderbook[t] + q[i] - p[i]
  OBVIOUS
<1> HIDE DEF g, h, p, q
<1>6. SumFunctionOnSet(h, Index) = SumFunctionOnSet(g, Index) + h[i] - g[i]
  BY <1>2, <1>3, IndexFinite, SumChangeOne
<1>7. SumFunctionOnSet(q, Index) = SumFunctionOnSet(p, Index) + q[i] - p[i]
  BY <1>2, <1>3, IndexFinite, SumChangeOne
<1>8. QED
  BY <1>4, <1>5, <1>6, <1>7 DEF h, q

\* update_balance changes one balance, and the total with it.
LEMMA UpdateBalanceSound ==
    ASSUME NEW m, MarketSound(m), NEW i \in SeatIndices(m), NEW token \in Tokens,
           NEW delta \in Int, m.data[i].bal[token] + delta >= 0
    PROVE  LET n == UpdateBalance(m, i, token, delta)
           IN  /\ MarketSound(n)
               /\ SameBlocks(m, n)
               /\ n.orderbook = m.orderbook
               /\ \A t \in Tokens :
                    n.withdrawable[t] = m.withdrawable[t] + (IF t = token THEN delta ELSE 0)
               /\ \A j \in SeatIndices(m), t \in Tokens :
                    n.data[j].bal[t] = m.data[j].bal[t]
                                        + (IF j = i /\ t = token THEN delta ELSE 0)
<1> DEFINE block == [m.data[i] EXCEPT !.bal[token] = @ + delta]
           n == UpdateBalance(m, i, token, delta)
<1>1. m \in Markets /\ i \in Index /\ m.data[i] \in Seats
    BY SeatTyped DEF MarketSound
<1>2. m.data[i].bal[token] + delta \in Nat
    BY <1>1 DEF Seats
<1>3. block \in Seats /\ block.trader = m.data[i].trader
    BY <1>1, <1>2 DEF Seats
<1>4. [m.data EXCEPT ![i] = block] \in [Index -> Blocks]
    BY <1>1, <1>3, SetBlockTyped DEF Blocks
<1>5. [m.withdrawable EXCEPT ![token] = @ + delta] \in [Tokens -> Int]
    BY <1>1 DEF Markets
<1>6. n = [m EXCEPT !.data = [m.data EXCEPT ![i] = block],
                    !.withdrawable = [m.withdrawable EXCEPT ![token] = @ + delta]]
    BY DEF UpdateBalance
<1>7. n \in Markets
    BY <1>1, <1>4, <1>5, <1>6 DEF Markets
<1>8. /\ n.data = [m.data EXCEPT ![i] = block]
      /\ n.free = m.free /\ n.num = m.num /\ n.seq = m.seq /\ n.orderbook = m.orderbook
      /\ n.withdrawable = [m.withdrawable EXCEPT ![token] = @ + delta]
    BY <1>1, <1>6 DEF Markets
<1>9. \A j \in Index : n.data[j] = IF j = i THEN block ELSE m.data[j]
    BY <1>1, <1>8 DEF Markets
<1>10. block.kind = "seat" /\ m.data[i].kind = "seat"
    BY <1>1, <1>3 DEF Seats
<1>11. SeatIndices(n) = SeatIndices(m) /\ OrderIndices(n) = OrderIndices(m)
    BY <1>9, <1>10 DEF SeatIndices, OrderIndices
<1>12. SameBlocks(m, n)
    BY <1>3, <1>8, <1>9, <1>10, <1>11 DEF SameBlocks, SeatIndices, OrderIndices
<1>13. block # EmptyBlock /\ m.data[i] # EmptyBlock
    BY <1>10 DEF EmptyBlock
<1>14. FreeListSound(n)
  <2>1. FreeListSound(m)
    BY DEF MarketSound
  <2>2. \A j \in Index : n.data[j] = EmptyBlock <=> m.data[j] = EmptyBlock
    BY <1>1, <1>9, <1>13
  <2>3. \A k \in 1 .. Len(m.free) : m.free[k] \in Index
    BY <1>1 DEF Markets
  <2> HIDE DEF n, block
  <2>4. QED
    BY <1>8, <2>1, <2>2, <2>3 DEF FreeListSound
<1>15. OwnersSeated(n)
    BY <1>12 DEF OwnersSeated, SameBlocks, MarketSound
<1>16. \A j \in SeatIndices(m), t \in Tokens :
            n.data[j].bal[t] = m.data[j].bal[t] + (IF j = i /\ t = token THEN delta ELSE 0)
  <2>1. \A j \in SeatIndices(m), t \in Tokens : m.data[j].bal[t] \in Nat
    BY <1>1, SeatTyped DEF Seats
  <2>2. \A j \in SeatIndices(m), t \in Tokens :
            n.data[j].bal[t] = IF j = i /\ t = token THEN m.data[i].bal[token] + delta
                                                     ELSE m.data[j].bal[t]
    BY <1>1, <1>9 DEF SeatIndices, Seats
  <2>3. QED
    BY <2>1, <2>2
<1>17. \A t \in Tokens :
            n.withdrawable[t] = m.withdrawable[t] + (IF t = token THEN delta ELSE 0)
  BY <1>1, <1>8 DEF Markets
<1>18. TotalsSound(n)
  <2>1. \A j \in Index : j # i => n.data[j] = m.data[j]
    BY <1>9
  <2>2. \A t \in Tokens :
            SeatAtoms(n.data[i], t) = SeatAtoms(m.data[i], t)
                                        + (IF t = token THEN delta ELSE 0)
    BY <1>1, <1>9, <1>10, <1>16 DEF SeatAtoms
  <2>3. \A t \in Tokens : BackingAtoms(n.data[i], t) = 0 /\ BackingAtoms(m.data[i], t) = 0
    BY <1>1, <1>9, <1>10 DEF BackingAtoms
  <2>4. \A t \in Tokens : /\ m.withdrawable[t] \in Int /\ m.orderbook[t] \in Int
                           /\ SeatAtoms(m.data[i], t) \in Nat
    BY <1>1, BlockAtomsNat DEF Markets
  <2>5. \A t \in Tokens :
            /\ n.withdrawable[t] = m.withdrawable[t] + SeatAtoms(n.data[i], t)
                                                     - SeatAtoms(m.data[i], t)
            /\ n.orderbook[t] = m.orderbook[t] + BackingAtoms(n.data[i], t)
                                               - BackingAtoms(m.data[i], t)
    BY <1>8, <1>17, <2>2, <2>3, <2>4
  <2>6. m \in Markets /\ TotalsSound(m) /\ i \in Index
    BY <1>1 DEF MarketSound
  <2> HIDE DEF n
  <2>7. QED
    BY <1>7, <2>1, <2>5, <2>6, TotalsKept
<1>19. QED
    BY <1>7, <1>8, <1>12, <1>14, <1>15, <1>16, <1>17, <1>18 DEF MarketSound

\* Putting a block that is not free on the free list.
LEMMA FreeBlockSound ==
    ASSUME NEW m, MarketSound(m), NEW i \in Index, m.data[i] # EmptyBlock,
           NEW n \in Markets,
           \A j \in Index : n.data[j] = IF j = i THEN EmptyBlock ELSE m.data[j],
           n.free = <<i>> \o m.free, n.num = m.num
    PROVE  /\ FreeListSound(n)
           /\ Len(n.free) = Len(m.free) + 1
<1>1. m \in Markets /\ m.free \in Seq(Index) /\ <<i>> \o m.free \in Seq(Index)
    BY DEF MarketSound, Markets
<1>2. /\ Len(n.free) = Len(m.free) + 1
      /\ n.free[1] = i
      /\ \A k \in 1 .. Len(m.free) : n.free[k + 1] = m.free[k]
      /\ \A k \in 2 .. Len(n.free) : n.free[k] = m.free[k - 1] /\ k - 1 \in 1 .. Len(m.free)
    BY <1>1
<1>3. \A k \in 1 .. Len(m.free) : m.free[k] # i
    BY DEF MarketSound, FreeListSound
<1>4. i < m.num
    BY <1>1 DEF MarketSound, FreeListSound, Markets, Index
<1>5. ASSUME NEW j \in 1 .. Len(n.free), NEW k \in 1 .. Len(n.free), j # k
      PROVE  n.free[j] # n.free[k]
  <2>1. CASE j = 1
    BY <1>2, <1>3, <1>5, <2>1
  <2>2. CASE k = 1
    BY <1>2, <1>3, <1>5, <2>2
  <2>3. CASE j # 1 /\ k # 1
    <3>1. /\ n.free[j] = m.free[j - 1] /\ j - 1 \in 1 .. Len(m.free)
          /\ n.free[k] = m.free[k - 1] /\ k - 1 \in 1 .. Len(m.free)
          /\ j - 1 # k - 1
        BY <1>2, <1>5, <2>3
    <3>2. QED
        BY <3>1 DEF MarketSound, FreeListSound
  <2>4. QED
    BY <2>1, <2>2, <2>3
<1>6. ASSUME NEW k \in 1 .. Len(n.free)
      PROVE  n.free[k] < n.num /\ n.data[n.free[k]] = EmptyBlock
  <2>1. CASE k = 1
    BY <1>2, <1>4, <2>1
  <2>2. CASE k # 1
    <3>1. n.free[k] = m.free[k - 1] /\ k - 1 \in 1 .. Len(m.free)
        BY <1>2, <2>2
    <3>2. m.free[k - 1] \in Index
        BY <1>1, <3>1
    <3>3. QED
        BY <3>1, <3>2 DEF MarketSound, FreeListSound
  <2>3. QED
    BY <2>1, <2>2
<1>7. ASSUME NEW j \in Index, n.data[j] = EmptyBlock, j < n.num
      PROVE  \E k \in 1 .. Len(n.free) : n.free[k] = j
  <2>1. CASE j = i
    BY <1>1, <1>2, <2>1
  <2>2. CASE j # i
    <3>1. PICK k \in 1 .. Len(m.free) : m.free[k] = j
        BY <1>7, <2>2 DEF MarketSound, FreeListSound
    <3>2. k + 1 \in 1 .. Len(n.free) /\ n.free[k + 1] = j
        BY <1>1, <1>2, <3>1
    <3>3. QED
        BY <3>2
  <2>3. QED
    BY <2>1, <2>2
<1>8. \A j \in Index : j >= n.num => n.data[j] = EmptyBlock
    BY DEF MarketSound, FreeListSound
<1>9. QED
    BY <1>2, <1>5, <1>6, <1>7, <1>8 DEF FreeListSound

\* Removing an order frees its block and leaves everything else.
LEMMA RemoveOrderSound ==
    ASSUME NEW m, MarketSound(m), NEW i \in OrderIndices(m)
    PROVE  LET n == RemoveOrder(m, i)
           IN  /\ MarketSound(n)
               /\ SameSeats(m, n)
               /\ n.seq = m.seq /\ n.num = m.num
               /\ Len(n.free) = Len(m.free) + 1
               /\ OrderIndices(n) = OrderIndices(m) \ {i}
               /\ \A j \in OrderIndices(n) : n.data[j] = m.data[j]
               /\ \A t \in Tokens :
                    n.orderbook[t] = m.orderbook[t] - OrderbookAtoms(m.data[i], t)
<1> DEFINE n == RemoveOrder(m, i)
           orderbook == [t \in Tokens |-> m.orderbook[t] - OrderbookAtoms(m.data[i], t)]
<1>1. m \in Markets /\ i \in Index /\ m.data[i] \in RestingOrders
    BY OrderTyped DEF MarketSound
<1>2. orderbook \in [Tokens -> Int]
    BY <1>1, OrderbookAtomsNat DEF Markets
<1>3. [m.data EXCEPT ![i] = EmptyBlock] \in [Index -> Blocks]
    BY <1>1, SetBlockTyped DEF Blocks
<1>4. m.free \in Seq(Index) /\ <<i>> \o m.free \in Seq(Index)
    BY <1>1 DEF Markets
<1>5. n = [m EXCEPT !.data = [m.data EXCEPT ![i] = EmptyBlock], !.free = <<i>> \o m.free,
                    !.orderbook = orderbook]
    BY DEF RemoveOrder
<1> HIDE DEF n
<1>6. n \in Markets
    BY <1>1, <1>2, <1>3, <1>4, <1>5 DEF Markets
<1>7. /\ n.data = [m.data EXCEPT ![i] = EmptyBlock]
      /\ n.free = <<i>> \o m.free /\ n.num = m.num /\ n.seq = m.seq
      /\ n.orderbook = orderbook /\ n.withdrawable = m.withdrawable
    BY <1>1, <1>5 DEF Markets
<1>8. \A j \in Index : n.data[j] = IF j = i THEN EmptyBlock ELSE m.data[j]
    BY <1>1, <1>7 DEF Markets
<1>9. m.data[i].kind = "order" /\ EmptyBlock.kind = "empty" /\ m.data[i] # EmptyBlock
    BY <1>1 DEF RestingOrders, EmptyBlock
<1>10. SeatIndices(n) = SeatIndices(m) /\ OrderIndices(n) = OrderIndices(m) \ {i}
    BY <1>8, <1>9 DEF SeatIndices, OrderIndices
<1>11. SameSeats(m, n) /\ \A j \in OrderIndices(n) : n.data[j] = m.data[j]
    BY <1>7, <1>8, <1>9, <1>10 DEF SameSeats, SeatIndices, OrderIndices
<1>12. OwnersSeated(n)
    BY <1>10, <1>11 DEF OwnersSeated, MarketSound
<1>13. FreeListSound(n) /\ Len(n.free) = Len(m.free) + 1
    BY <1>1, <1>6, <1>7, <1>8, <1>9, FreeBlockSound
<1>14. TotalsSound(n)
  <2>1. \A t \in Tokens :
            /\ SeatAtoms(n.data[i], t) = 0 /\ SeatAtoms(m.data[i], t) = 0
            /\ BackingAtoms(n.data[i], t) = 0
            /\ BackingAtoms(m.data[i], t) = OrderbookAtoms(m.data[i], t)
    BY <1>1, <1>8, <1>9 DEF SeatAtoms, BackingAtoms
  <2>2. \A t \in Tokens : /\ m.withdrawable[t] \in Int /\ m.orderbook[t] \in Int
                           /\ OrderbookAtoms(m.data[i], t) \in Nat
    BY <1>1, OrderbookAtomsNat DEF Markets
  <2>3. \A t \in Tokens :
            /\ n.withdrawable[t] = m.withdrawable[t] + SeatAtoms(n.data[i], t)
                                                     - SeatAtoms(m.data[i], t)
            /\ n.orderbook[t] = m.orderbook[t] + BackingAtoms(n.data[i], t)
                                               - BackingAtoms(m.data[i], t)
    BY <1>7, <2>1, <2>2
  <2>4. m \in Markets /\ TotalsSound(m) /\ \A j \in Index : j # i => n.data[j] = m.data[j]
    BY <1>8 DEF MarketSound
  <2>5. QED
    BY <1>1, <1>6, <2>3, <2>4, TotalsKept
<1>15. QED
    BY <1>6, <1>7, <1>10, <1>11, <1>12, <1>13, <1>14 DEF MarketSound, n

\* Taking the head of the free list for a new block.
LEMMA TakeBlockSound ==
    ASSUME NEW m, MarketSound(m), HasFreeBlock(m), NEW block \in Blocks, block # EmptyBlock,
           NEW n \in Markets,
           \A j \in Index : n.data[j] = IF j = Head(m.free) THEN block ELSE m.data[j],
           n.free = Tail(m.free), n.num = m.num
    PROVE  /\ FreeListSound(n)
           /\ m.data[Head(m.free)] = EmptyBlock
           /\ Len(n.free) = Len(m.free) - 1
<1> DEFINE h == Head(m.free)
<1>1. m \in Markets /\ m.free \in Seq(Index) /\ m.free # <<>>
    BY DEF MarketSound, Markets, HasFreeBlock
<1>2. h \in Index /\ h = m.free[1] /\ 1 \in 1 .. Len(m.free)
    BY <1>1
<1>3. m.data[h] = EmptyBlock
    BY <1>2 DEF MarketSound, FreeListSound
<1>4. \A j \in Index : n.data[j] = IF j = h THEN block ELSE m.data[j]
    OBVIOUS
<1>5. /\ Len(n.free) = Len(m.free) - 1
      /\ \A k \in 1 .. Len(n.free) : n.free[k] = m.free[k + 1] /\ k + 1 \in 1 .. Len(m.free)
      /\ Len(m.free) \in Nat
    BY <1>1
<1>6. \A j, k \in 1 .. Len(n.free) : j # k => n.free[j] # n.free[k]
    BY <1>5 DEF MarketSound, FreeListSound
<1>7. \A k \in 1 .. Len(n.free) : m.free[k + 1] # h /\ n.free[k] \in Index
    BY <1>1, <1>2, <1>5 DEF MarketSound, FreeListSound
<1>8. \A k \in 1 .. Len(n.free) : n.free[k] < n.num /\ n.data[n.free[k]] = EmptyBlock
    BY <1>4, <1>5, <1>7 DEF MarketSound, FreeListSound
<1>9. ASSUME NEW j \in Index, n.data[j] = EmptyBlock, j < n.num
      PROVE  \E k \in 1 .. Len(n.free) : n.free[k] = j
  <2>1. j # h /\ m.data[j] = EmptyBlock
    BY <1>4, <1>9
  <2>2. PICK k \in 1 .. Len(m.free) : m.free[k] = j
    BY <1>9, <2>1 DEF MarketSound, FreeListSound
  <2>3. k # 1
    BY <1>2, <2>1, <2>2
  <2>4. k - 1 \in 1 .. Len(n.free)
    BY <1>5, <2>3
  <2>5. n.free[k - 1] = m.free[k]
    BY <1>5, <2>4
  <2>6. QED
    BY <2>2, <2>4, <2>5
<1>10. \A j \in Index : j >= n.num => n.data[j] = EmptyBlock
  <2>1. h < m.num /\ m.num \in Nat /\ h \in Int
    BY <1>1, <1>2 DEF MarketSound, FreeListSound, Markets, Index
  <2>2. \A j \in Index : j >= m.num => j # h /\ m.data[j] = EmptyBlock
    BY <2>1 DEF MarketSound, FreeListSound, Index
  <2>3. QED
    BY <1>4, <2>2
<1>11. QED
    BY <1>3, <1>5, <1>6, <1>8, <1>9, <1>10 DEF FreeListSound

\* Inserting an order takes one block and leaves everything else.
LEMMA InsertOrderSound ==
    ASSUME NEW m, MarketSound(m), HasFreeBlock(m), NEW order \in RestingOrders,
           order.trader_index \in SeatIndices(m)
    PROVE  LET n == InsertOrder(m, order)
           IN  /\ MarketSound(n)
               /\ SameSeats(m, n)
               /\ n.seq = m.seq /\ n.num = m.num
               /\ Len(n.free) = Len(m.free) - 1
               /\ OrderIndices(n) = OrderIndices(m) \cup {Head(m.free)}
               /\ \A j \in OrderIndices(m) : n.data[j] = m.data[j]
               /\ n.data[Head(m.free)] = order
               /\ Inserted(m, n, order)
               /\ \A t \in Tokens : n.orderbook[t] = m.orderbook[t] + OrderbookAtoms(order, t)
<1> DEFINE n == InsertOrder(m, order)
           h == Head(m.free)
           orderbook == [t \in Tokens |-> m.orderbook[t] + OrderbookAtoms(order, t)]
<1>1. m \in Markets /\ m.free \in Seq(Index) /\ m.free # <<>>
    BY DEF MarketSound, Markets, HasFreeBlock
<1>2. h \in Index /\ Tail(m.free) \in Seq(Index)
    BY <1>1
<1>3. orderbook \in [Tokens -> Int]
    BY <1>1, OrderbookAtomsNat DEF Markets
<1>4. order \in Blocks /\ order.kind = "order" /\ order # EmptyBlock
    BY DEF Blocks, RestingOrders, EmptyBlock
<1>5. [m.data EXCEPT ![h] = order] \in [Index -> Blocks]
    BY <1>1, <1>2, <1>4, SetBlockTyped
<1>6. n = [m EXCEPT !.data = [m.data EXCEPT ![h] = order], !.free = Tail(m.free),
                    !.orderbook = orderbook]
    BY DEF InsertOrder
<1> HIDE DEF n
<1>7. n \in Markets
    BY <1>1, <1>2, <1>3, <1>5, <1>6 DEF Markets
<1>8. /\ n.data = [m.data EXCEPT ![h] = order]
      /\ n.free = Tail(m.free) /\ n.num = m.num /\ n.seq = m.seq
      /\ n.orderbook = orderbook /\ n.withdrawable = m.withdrawable
    BY <1>1, <1>6 DEF Markets
<1>9. /\ FreeListSound(n) /\ m.data[h] = EmptyBlock
      /\ Len(n.free) = Len(m.free) - 1
      /\ \A j \in Index : n.data[j] = IF j = h THEN order ELSE m.data[j]
  <2>1. \A j \in Index : n.data[j] = IF j = h THEN order ELSE m.data[j]
    BY <1>1, <1>2, <1>8 DEF Markets
  <2>2. QED
    BY <1>4, <1>7, <1>8, <2>1, TakeBlockSound
<1>10. EmptyBlock.kind = "empty"
    BY DEF EmptyBlock
<1>11. SeatIndices(n) = SeatIndices(m) /\ OrderIndices(n) = OrderIndices(m) \cup {h}
    BY <1>2, <1>4, <1>9, <1>10 DEF SeatIndices, OrderIndices
<1>12. /\ SameSeats(m, n)
       /\ \A j \in OrderIndices(m) : n.data[j] = m.data[j]
       /\ n.data[h] = order
    BY <1>2, <1>8, <1>9, <1>10, <1>11 DEF SameSeats, SeatIndices, OrderIndices
<1>13. OwnersSeated(n)
    BY <1>11, <1>12 DEF OwnersSeated, MarketSound
<1>14. TotalsSound(n)
  <2>1. \A t \in Tokens :
            /\ SeatAtoms(n.data[h], t) = 0 /\ SeatAtoms(m.data[h], t) = 0
            /\ BackingAtoms(n.data[h], t) = OrderbookAtoms(order, t)
            /\ BackingAtoms(m.data[h], t) = 0
    BY <1>2, <1>4, <1>9, <1>10 DEF SeatAtoms, BackingAtoms
  <2>2. \A t \in Tokens : /\ m.withdrawable[t] \in Int /\ m.orderbook[t] \in Int
                           /\ OrderbookAtoms(order, t) \in Nat
    BY <1>1, OrderbookAtomsNat DEF Markets
  <2>3. \A t \in Tokens :
            /\ n.withdrawable[t] = m.withdrawable[t] + SeatAtoms(n.data[h], t)
                                                     - SeatAtoms(m.data[h], t)
            /\ n.orderbook[t] = m.orderbook[t] + BackingAtoms(n.data[h], t)
                                               - BackingAtoms(m.data[h], t)
    BY <1>8, <2>1, <2>2
  <2>4. m \in Markets /\ TotalsSound(m) /\ \A j \in Index : j # h => n.data[j] = m.data[j]
    BY <1>9 DEF MarketSound
  <2>5. QED
    BY <1>2, <1>7, <2>3, <2>4, TotalsKept
<1>15. Inserted(m, n, order)
  <2>1. h \notin OrderIndices(m)
    BY <1>9, <1>10 DEF OrderIndices
  <2>2. QED
    BY <1>2, <1>11, <1>12, <2>1 DEF Inserted
<1>16. QED
    BY <1>7, <1>8, <1>9, <1>11, <1>12, <1>13, <1>14, <1>15 DEF MarketSound, n

\* Resizing an order leaves everything but its size.
LEMMA ResizeOrderSound ==
    ASSUME NEW m, MarketSound(m), NEW i \in OrderIndices(m), NEW base_atoms \in Nat
    PROVE  LET n == ResizeOrder(m, i, base_atoms)
           IN  /\ MarketSound(n)
               /\ SameSeats(m, n)
               /\ n.seq = m.seq /\ n.num = m.num /\ n.free = m.free
               /\ OrderIndices(n) = OrderIndices(m)
               /\ \A j \in OrderIndices(m) \ {i} : n.data[j] = m.data[j]
               /\ n.data[i] = [m.data[i] EXCEPT !.base = base_atoms]
               /\ \A t \in Tokens :
                    n.orderbook[t] = m.orderbook[t] + OrderbookAtoms(n.data[i], t)
                                                    - OrderbookAtoms(m.data[i], t)
<1> DEFINE n == ResizeOrder(m, i, base_atoms)
           order == [m.data[i] EXCEPT !.base = base_atoms]
           orderbook == [t \in Tokens |-> m.orderbook[t] + OrderbookAtoms(order, t)
                                                         - OrderbookAtoms(m.data[i], t)]
<1>1. m \in Markets /\ i \in Index /\ m.data[i] \in RestingOrders
    BY OrderTyped DEF MarketSound
<1>2. /\ order \in RestingOrders /\ order.trader_index = m.data[i].trader_index
      /\ order.kind = "order" /\ m.data[i].kind = "order"
    BY <1>1 DEF RestingOrders
<1>3. order \in Blocks /\ order # EmptyBlock /\ m.data[i] # EmptyBlock
    BY <1>2 DEF Blocks, EmptyBlock
<1>4. orderbook \in [Tokens -> Int]
    BY <1>1, <1>2, OrderbookAtomsNat DEF Markets
<1>5. [m.data EXCEPT ![i] = order] \in [Index -> Blocks]
    BY <1>1, <1>3, SetBlockTyped
<1>6. n = [m EXCEPT !.data = [m.data EXCEPT ![i] = order], !.orderbook = orderbook]
    BY DEF ResizeOrder
<1>7. n \in Markets
    BY <1>1, <1>4, <1>5, <1>6 DEF Markets
<1>8. /\ n.data = [m.data EXCEPT ![i] = order]
      /\ n.free = m.free /\ n.num = m.num /\ n.seq = m.seq
      /\ n.orderbook = orderbook /\ n.withdrawable = m.withdrawable
    BY <1>1, <1>6 DEF Markets
<1>9. \A j \in Index : n.data[j] = IF j = i THEN order ELSE m.data[j]
    BY <1>1, <1>8 DEF Markets
<1>10. SeatIndices(n) = SeatIndices(m) /\ OrderIndices(n) = OrderIndices(m)
    BY <1>2, <1>9 DEF SeatIndices, OrderIndices
<1>11. /\ SameSeats(m, n)
       /\ \A j \in OrderIndices(m) \ {i} : n.data[j] = m.data[j]
       /\ n.data[i] = order
    BY <1>1, <1>2, <1>8, <1>9, <1>10 DEF SameSeats, SeatIndices, OrderIndices
<1>12. FreeListSound(n)
    BY <1>1, <1>3, <1>8, <1>9 DEF FreeListSound, MarketSound, Markets
<1>13. OwnersSeated(n)
    BY <1>2, <1>10, <1>11 DEF OwnersSeated, MarketSound
<1>14. TotalsSound(n)
  <2>1. \A t \in Tokens :
            /\ SeatAtoms(n.data[i], t) = 0 /\ SeatAtoms(m.data[i], t) = 0
            /\ BackingAtoms(n.data[i], t) = OrderbookAtoms(order, t)
            /\ BackingAtoms(m.data[i], t) = OrderbookAtoms(m.data[i], t)
    BY <1>2, <1>11 DEF SeatAtoms, BackingAtoms
  <2>2. \A t \in Tokens : /\ m.withdrawable[t] \in Int /\ m.orderbook[t] \in Int
                           /\ OrderbookAtoms(order, t) \in Nat
                           /\ OrderbookAtoms(m.data[i], t) \in Nat
    BY <1>1, <1>2, OrderbookAtomsNat DEF Markets
  <2>3. \A t \in Tokens :
            n.orderbook[t] = m.orderbook[t] + OrderbookAtoms(order, t)
                                            - OrderbookAtoms(m.data[i], t)
    BY <1>8
  <2>4. \A t \in Tokens :
            /\ n.withdrawable[t] = m.withdrawable[t] + SeatAtoms(n.data[i], t)
                                                     - SeatAtoms(m.data[i], t)
            /\ n.orderbook[t] = m.orderbook[t] + BackingAtoms(n.data[i], t)
                                               - BackingAtoms(m.data[i], t)
    BY <1>8, <2>1, <2>2, <2>3
  <2>5. m \in Markets /\ TotalsSound(m) /\ \A j \in Index : j # i => n.data[j] = m.data[j]
    BY <1>9 DEF MarketSound
  <2>6. QED
    BY <1>1, <1>7, <2>4, <2>5, TotalsKept
<1>15. QED
    BY <1>7, <1>8, <1>10, <1>11, <1>12, <1>13, <1>14 DEF MarketSound

\* A claimed seat is new and empty.
LEMMA ClaimSeatSound ==
    ASSUME NEW m, MarketSound(m), HasFreeBlock(m), NEW trader \in Traders
    PROVE  LET n == ClaimSeatOn(m, trader)
           IN  /\ MarketSound(n)
               /\ n.seq = m.seq /\ n.num = m.num
               /\ Len(n.free) = Len(m.free) - 1
               /\ SeatIndices(n) = SeatIndices(m) \cup {Head(m.free)}
               /\ Head(m.free) \notin SeatIndices(m)
               /\ n.data[Head(m.free)] = NewSeat(trader)
               /\ \A j \in SeatIndices(m) : n.data[j] = m.data[j]
               /\ OrderIndices(n) = OrderIndices(m)
               /\ \A j \in OrderIndices(m) : n.data[j] = m.data[j]
               /\ n.withdrawable = m.withdrawable /\ n.orderbook = m.orderbook
<1> DEFINE n == ClaimSeatOn(m, trader)
           h == Head(m.free)
           seat == NewSeat(trader)
<1>1. m \in Markets /\ m.free \in Seq(Index) /\ m.free # <<>>
    BY DEF MarketSound, Markets, HasFreeBlock
<1>2. h \in Index /\ Tail(m.free) \in Seq(Index)
    BY <1>1
<1>3. seat \in Blocks /\ seat.kind = "seat" /\ seat # EmptyBlock
    BY DEF Blocks, Seats, EmptyBlock, NewSeat
<1>4. [m.data EXCEPT ![h] = seat] \in [Index -> Blocks]
    BY <1>1, <1>2, <1>3, SetBlockTyped
<1>5. n = [m EXCEPT !.data = [m.data EXCEPT ![h] = seat], !.free = Tail(m.free)]
    BY DEF ClaimSeatOn
<1> HIDE DEF n, seat
<1>6. n \in Markets
    BY <1>1, <1>2, <1>4, <1>5 DEF Markets
<1>7. /\ n.data = [m.data EXCEPT ![h] = seat]
      /\ n.free = Tail(m.free) /\ n.num = m.num /\ n.seq = m.seq
      /\ n.orderbook = m.orderbook /\ n.withdrawable = m.withdrawable
    BY <1>1, <1>5 DEF Markets
<1>8. /\ FreeListSound(n) /\ m.data[h] = EmptyBlock
      /\ Len(n.free) = Len(m.free) - 1
      /\ \A j \in Index : n.data[j] = IF j = h THEN seat ELSE m.data[j]
  <2>1. \A j \in Index : n.data[j] = IF j = h THEN seat ELSE m.data[j]
    BY <1>1, <1>2, <1>7 DEF Markets
  <2>2. QED
    BY <1>3, <1>6, <1>7, <2>1, TakeBlockSound
<1>9. EmptyBlock.kind = "empty"
    BY DEF EmptyBlock
<1>10. /\ SeatIndices(n) = SeatIndices(m) \cup {h} /\ h \notin SeatIndices(m)
       /\ OrderIndices(n) = OrderIndices(m)
    BY <1>2, <1>3, <1>8, <1>9 DEF SeatIndices, OrderIndices
<1>11. /\ \A j \in SeatIndices(m) \cup OrderIndices(m) : n.data[j] = m.data[j]
       /\ n.data[h] = seat
    BY <1>2, <1>8, <1>9, <1>10 DEF SeatIndices, OrderIndices
<1>12. OwnersSeated(n)
    BY <1>10, <1>11 DEF OwnersSeated, MarketSound
<1>13. TotalsSound(n)
  <2>1. \A t \in Tokens :
            /\ SeatAtoms(n.data[h], t) = 0 /\ SeatAtoms(m.data[h], t) = 0
            /\ BackingAtoms(n.data[h], t) = 0 /\ BackingAtoms(m.data[h], t) = 0
    BY <1>3, <1>8, <1>9, <1>11 DEF SeatAtoms, BackingAtoms, seat, NewSeat
  <2>2. \A t \in Tokens : m.withdrawable[t] \in Int /\ m.orderbook[t] \in Int
    BY <1>1 DEF Markets
  <2>3. \A t \in Tokens :
            /\ n.withdrawable[t] = m.withdrawable[t] + SeatAtoms(n.data[h], t)
                                                     - SeatAtoms(m.data[h], t)
            /\ n.orderbook[t] = m.orderbook[t] + BackingAtoms(n.data[h], t)
                                               - BackingAtoms(m.data[h], t)
    BY <1>7, <2>1, <2>2
  <2>4. m \in Markets /\ TotalsSound(m) /\ \A j \in Index : j # h => n.data[j] = m.data[j]
    BY <1>8 DEF MarketSound
  <2>5. QED
    BY <1>2, <1>6, <2>3, <2>4, TotalsKept
<1>14. QED
    BY <1>6, <1>7, <1>8, <1>10, <1>11, <1>12, <1>13 DEF MarketSound, n, seat

\* No resting order belongs to this seat.
NoOrdersOf(m, i) == \A j \in OrderIndices(m) : m.data[j].trader_index # i

\* Releasing the seat of a trader without orders.
LEMMA ReleaseSeatSound ==
    ASSUME NEW m, MarketSound(m), NEW i \in SeatIndices(m), NoOrdersOf(m, i)
    PROVE  LET n == ReleaseSeat(m, i)
           IN  /\ MarketSound(n)
               /\ n.seq = m.seq /\ n.num = m.num
               /\ Len(n.free) = Len(m.free) + 1
               /\ SeatIndices(n) = SeatIndices(m) \ {i}
               /\ OrderIndices(n) = OrderIndices(m)
               /\ \A j \in OrderIndices(m) : n.data[j] = m.data[j]
               /\ n.orderbook = m.orderbook
               /\ \A t \in Tokens :
                    n.withdrawable[t] = m.withdrawable[t] - m.data[i].bal[t]
<1> DEFINE n == ReleaseSeat(m, i)
           withdrawable == [t \in Tokens |-> m.withdrawable[t] - m.data[i].bal[t]]
<1>1. m \in Markets /\ i \in Index /\ m.data[i] \in Seats
    BY SeatTyped DEF MarketSound
<1>2. withdrawable \in [Tokens -> Int]
    BY <1>1 DEF Markets, Seats
<1>3. [m.data EXCEPT ![i] = EmptyBlock] \in [Index -> Blocks]
    BY <1>1, SetBlockTyped DEF Blocks
<1>4. m.free \in Seq(Index) /\ <<i>> \o m.free \in Seq(Index)
    BY <1>1 DEF Markets
<1>5. n = [m EXCEPT !.data = [m.data EXCEPT ![i] = EmptyBlock], !.free = <<i>> \o m.free,
                    !.withdrawable = withdrawable]
    BY DEF ReleaseSeat
<1> HIDE DEF n
<1>6. n \in Markets
    BY <1>1, <1>2, <1>3, <1>4, <1>5 DEF Markets
<1>7. /\ n.data = [m.data EXCEPT ![i] = EmptyBlock]
      /\ n.free = <<i>> \o m.free /\ n.num = m.num /\ n.seq = m.seq
      /\ n.withdrawable = withdrawable /\ n.orderbook = m.orderbook
    BY <1>1, <1>5 DEF Markets
<1>8. \A j \in Index : n.data[j] = IF j = i THEN EmptyBlock ELSE m.data[j]
    BY <1>1, <1>7 DEF Markets
<1>9. m.data[i].kind = "seat" /\ EmptyBlock.kind = "empty" /\ m.data[i] # EmptyBlock
    BY <1>1 DEF Seats, EmptyBlock
<1>10. FreeListSound(n) /\ Len(n.free) = Len(m.free) + 1
    BY <1>1, <1>6, <1>7, <1>8, <1>9, FreeBlockSound
<1>11. SeatIndices(n) = SeatIndices(m) \ {i} /\ OrderIndices(n) = OrderIndices(m)
    BY <1>8, <1>9 DEF SeatIndices, OrderIndices
<1>12. \A j \in OrderIndices(m) : n.data[j] = m.data[j]
    BY <1>8, <1>9 DEF OrderIndices
<1>13. OwnersSeated(n)
    BY <1>11, <1>12 DEF OwnersSeated, MarketSound, NoOrdersOf
<1>14. TotalsSound(n)
  <2>1. \A t \in Tokens :
            /\ SeatAtoms(n.data[i], t) = 0 /\ SeatAtoms(m.data[i], t) = m.data[i].bal[t]
            /\ BackingAtoms(n.data[i], t) = 0 /\ BackingAtoms(m.data[i], t) = 0
    BY <1>1, <1>8, <1>9 DEF SeatAtoms, BackingAtoms
  <2>2. \A t \in Tokens : /\ m.withdrawable[t] \in Int /\ m.orderbook[t] \in Int
                           /\ m.data[i].bal[t] \in Nat
    BY <1>1 DEF Markets, Seats
  <2>3. \A t \in Tokens :
            /\ n.withdrawable[t] = m.withdrawable[t] + SeatAtoms(n.data[i], t)
                                                     - SeatAtoms(m.data[i], t)
            /\ n.orderbook[t] = m.orderbook[t] + BackingAtoms(n.data[i], t)
                                               - BackingAtoms(m.data[i], t)
    BY <1>7, <2>1, <2>2
  <2>4. m \in Markets /\ TotalsSound(m) /\ \A j \in Index : j # i => n.data[j] = m.data[j]
    BY <1>8 DEF MarketSound
  <2>5. QED
    BY <1>1, <1>6, <2>3, <2>4, TotalsKept
<1>15. QED
    BY <1>6, <1>7, <1>10, <1>11, <1>12, <1>13, <1>14 DEF MarketSound, n

\* New blocks are free and distinct from those there were.
LEMMA ExpandBySound ==
    ASSUME NEW m, MarketSound(m), NEW c \in Nat, m.num + c <= MAX_BLOCKS
    PROVE  LET n == ExpandBy(m, c)
           IN  /\ MarketSound(n)
               /\ SameSeats(m, n)
               /\ n.seq = m.seq
               /\ Len(n.free) = Len(m.free) + c
               /\ OrderIndices(n) = OrderIndices(m)
               /\ \A j \in OrderIndices(m) : n.data[j] = m.data[j]
               /\ n.orderbook = m.orderbook
<1> DEFINE n == ExpandBy(m, c)
           fresh == [k \in 1 .. c |-> m.num + c - k]
<1>1. m \in Markets /\ m.num \in Nat /\ m.free \in Seq(Index)
    BY DEF MarketSound, Markets
<1>2. \A k \in 1 .. c : m.num + c - k \in Index
    BY <1>1, MarketAssumption DEF Index
<1>3. fresh \in Seq(Index) /\ Len(fresh) = c /\ \A k \in 1 .. c : fresh[k] = m.num + c - k
    BY <1>2
<1> HIDE DEF fresh
<1>4. fresh \o m.free \in Seq(Index)
    BY <1>1, <1>3
<1>5. n = [m EXCEPT !.num = m.num + c, !.free = fresh \o m.free]
    BY DEF ExpandBy, fresh
<1>6. m.num + c \in 0 .. MAX_BLOCKS
    BY <1>1, MarketAssumption
<1> HIDE DEF n
<1>7. n \in Markets
    BY <1>1, <1>4, <1>5, <1>6 DEF Markets
<1>8. /\ n.data = m.data /\ n.free = fresh \o m.free /\ n.num = m.num + c /\ n.seq = m.seq
      /\ n.withdrawable = m.withdrawable /\ n.orderbook = m.orderbook
    BY <1>1, <1>5 DEF Markets
<1>9. SeatIndices(n) = SeatIndices(m) /\ OrderIndices(n) = OrderIndices(m)
    BY <1>8 DEF SeatIndices, OrderIndices
<1>10. OwnersSeated(n) /\ SameSeats(m, n)
    BY <1>8, <1>9 DEF OwnersSeated, MarketSound, SameSeats
<1>11. /\ Len(n.free) = Len(m.free) + c
       /\ \A k \in 1 .. c : n.free[k] = m.num + c - k /\ k \in 1 .. Len(n.free)
       /\ \A k \in 1 .. Len(n.free) :
            k > c => n.free[k] = m.free[k - c] /\ k - c \in 1 .. Len(m.free)
       /\ \A k \in 1 .. Len(m.free) :
            n.free[k + c] = m.free[k] /\ k + c \in 1 .. Len(n.free)
       /\ Len(m.free) \in Nat
  <2>1. Len(m.free) \in Nat
    BY <1>1
  <2>2. Len(n.free) = c + Len(m.free)
    <3>1. \A s, t \in Seq(Index) : Len(s \o t) = Len(s) + Len(t)
        OBVIOUS
    <3>2. QED
        BY <1>1, <1>3, <1>8, <3>1
  <2>3. \A k \in 1 .. Len(n.free) : n.free[k] = IF k <= c THEN fresh[k] ELSE m.free[k - c]
    <3>1. \A s, t \in Seq(Index) : \A k \in 1 .. (Len(s) + Len(t)) :
                (s \o t)[k] = IF k <= Len(s) THEN s[k] ELSE t[k - Len(s)]
        OBVIOUS
    <3>2. QED
        BY <1>1, <1>3, <1>8, <2>2, <3>1
  <2>4. \A k \in 1 .. c : n.free[k] = m.num + c - k /\ k \in 1 .. Len(n.free)
    BY <1>3, <2>1, <2>2, <2>3
  <2>5. \A k \in 1 .. Len(n.free) :
            k > c => n.free[k] = m.free[k - c] /\ k - c \in 1 .. Len(m.free)
    BY <2>1, <2>2, <2>3
  <2>6. ASSUME NEW k \in 1 .. Len(m.free)
        PROVE  n.free[k + c] = m.free[k] /\ k + c \in 1 .. Len(n.free)
    <3>1. k + c \in 1 .. Len(n.free) /\ k + c > c /\ (k + c) - c = k
        BY <2>1, <2>2
    <3>2. QED
        BY <2>5, <3>1
  <2>7. QED
    BY <2>1, <2>2, <2>4, <2>5, <2>6
<1>12. \A k \in 1 .. Len(m.free) : m.free[k] \in Index /\ m.free[k] < m.num
    BY <1>1 DEF MarketSound, FreeListSound
<1>13. FreeListSound(n)
  <2>1. ASSUME NEW j \in 1 .. Len(n.free), NEW k \in 1 .. Len(n.free), j # k
        PROVE  n.free[j] # n.free[k]
    <3>1. CASE j <= c /\ k <= c
        BY <1>1, <1>11, <2>1, <3>1
    <3>2. CASE j <= c /\ k > c
      <4>1. n.free[j] = m.num + c - j /\ m.num + c - j >= m.num
          BY <1>1, <1>11, <3>2
      <4>2. n.free[k] = m.free[k - c] /\ k - c \in 1 .. Len(m.free)
          BY <1>11, <3>2
      <4>3. m.free[k - c] \in Int /\ m.free[k - c] < m.num
          BY <1>12, <4>2 DEF Index
      <4>4. QED
          BY <1>1, <4>1, <4>2, <4>3
    <3>3. CASE j > c /\ k <= c
      <4>1. n.free[k] = m.num + c - k /\ m.num + c - k >= m.num
          BY <1>1, <1>11, <3>3
      <4>2. n.free[j] = m.free[j - c] /\ j - c \in 1 .. Len(m.free)
          BY <1>11, <3>3
      <4>3. m.free[j - c] \in Int /\ m.free[j - c] < m.num
          BY <1>12, <4>2 DEF Index
      <4>4. QED
          BY <1>1, <4>1, <4>2, <4>3
    <3>4. CASE j > c /\ k > c
      <4>1. j - c # k - c
          BY <2>1
      <4>2. /\ n.free[j] = m.free[j - c] /\ j - c \in 1 .. Len(m.free)
            /\ n.free[k] = m.free[k - c] /\ k - c \in 1 .. Len(m.free)
          BY <1>11, <3>4
      <4>3. \A p, q \in 1 .. Len(m.free) : p # q => m.free[p] # m.free[q]
          BY DEF MarketSound, FreeListSound
      <4>4. m.free[j - c] # m.free[k - c]
          BY <4>1, <4>2, <4>3
      <4>5. QED
          BY <4>2, <4>4
    <3>5. QED
        BY <1>11, <3>1, <3>2, <3>3, <3>4
  <2>2. ASSUME NEW k \in 1 .. Len(n.free)
        PROVE  n.free[k] < n.num /\ n.data[n.free[k]] = EmptyBlock
    <3>1. CASE k <= c
      <4>1. n.free[k] = m.num + c - k /\ k \in 1 .. c
          BY <1>11, <3>1
      <4>2. n.free[k] \in Index /\ n.free[k] >= m.num /\ n.free[k] < m.num + c
          BY <1>1, <1>2, <4>1
      <4>3. QED
          BY <1>8, <4>2 DEF MarketSound, FreeListSound
    <3>2. CASE k > c
      <4>1. n.free[k] = m.free[k - c] /\ k - c \in 1 .. Len(m.free)
          BY <1>11, <3>2
      <4>2. m.data[m.free[k - c]] = EmptyBlock
          BY <4>1 DEF MarketSound, FreeListSound
      <4>3. m.free[k - c] \in Int /\ m.free[k - c] < m.num
          BY <1>12, <4>1 DEF Index
      <4>4. QED
          BY <1>1, <1>8, <4>1, <4>2, <4>3
    <3>3. QED
        BY <3>1, <3>2
  <2>3. ASSUME NEW j \in Index, n.data[j] = EmptyBlock, j < n.num
        PROVE  \E k \in 1 .. Len(n.free) : n.free[k] = j
    <3>1. CASE j < m.num
      <4>1. PICK k \in 1 .. Len(m.free) : m.free[k] = j
          BY <1>8, <2>3, <3>1 DEF MarketSound, FreeListSound
      <4>2. QED
          BY <1>11, <4>1
    <3>2. CASE j >= m.num
      <4>1. m.num + c - j \in 1 .. c
          BY <1>1, <1>8, <2>3, <3>2, SMTT(30) DEF Index
      <4>2. n.free[m.num + c - j] = j
          BY <1>1, <1>11, <4>1, SMTT(30) DEF Index
      <4>3. QED
          BY <1>11, <4>1, <4>2
    <3>3. QED
        BY <1>1, <3>1, <3>2 DEF Index
  <2>4. \A j \in Index : j >= n.num => n.data[j] = EmptyBlock
    BY <1>1, <1>8 DEF MarketSound, FreeListSound, Index
  <2>5. QED
    BY <2>1, <2>2, <2>3, <2>4 DEF FreeListSound
<1>14. TotalsSound(n)
    BY <1>8 DEF TotalsSound, MarketSound
<1>15. QED
    BY <1>7, <1>8, <1>9, <1>10, <1>11, <1>13, <1>14 DEF MarketSound, n

\* expand_market_if_needed leaves a free block.
LEMMA ExpandIfNeededSound ==
    ASSUME NEW m, MarketSound(m), CanExpandIfNeeded(m)
    PROVE  LET n == ExpandIfNeeded(m)
           IN  /\ MarketSound(n)
               /\ HasFreeBlock(n)
               /\ SameSeats(m, n)
               /\ n.seq = m.seq
               /\ OrderIndices(n) = OrderIndices(m)
               /\ \A j \in OrderIndices(m) : n.data[j] = m.data[j]
               /\ n.orderbook = m.orderbook
<1>1. CASE HasFreeBlock(m)
  <2>1. ExpandIfNeeded(m) = m
    BY <1>1 DEF ExpandIfNeeded
  <2>2. QED
    BY <1>1, <2>1 DEF SameSeats
<1>2. CASE ~ HasFreeBlock(m)
  <2> DEFINE n == ExpandBy(m, 1)
  <2>1. ExpandIfNeeded(m) = n
    BY <1>2 DEF ExpandIfNeeded
  <2>2. m.num \in Nat /\ m.num < MAX_BLOCKS /\ m.free \in Seq(Index)
    BY <1>2 DEF CanExpandIfNeeded, MarketSound, Markets
  <2>3. m.num + 1 <= MAX_BLOCKS
    BY <2>2, MarketAssumption
  <2>4. /\ MarketSound(n) /\ SameSeats(m, n) /\ n.seq = m.seq
        /\ Len(n.free) = Len(m.free) + 1
        /\ OrderIndices(n) = OrderIndices(m)
        /\ \A j \in OrderIndices(m) : n.data[j] = m.data[j]
        /\ n.orderbook = m.orderbook
    BY <2>3, ExpandBySound
  <2> HIDE DEF n
  <2>5. HasFreeBlock(n)
    BY <2>2, <2>4 DEF HasFreeBlock, MarketSound, Markets
  <2>6. QED
    BY <2>1, <2>4, <2>5
<1>3. QED
  BY <1>1, <1>2

\* Only the sequence counter changes.
LEMMA SequenceSound ==
    ASSUME NEW m, MarketSound(m)
    PROVE  LET n == [m EXCEPT !.seq = @ + 1]
           IN  /\ MarketSound(n)
               /\ SameSeats(m, n)
               /\ n.free = m.free /\ n.num = m.num /\ n.seq = m.seq + 1
               /\ OrderIndices(n) = OrderIndices(m)
               /\ \A j \in OrderIndices(m) : n.data[j] = m.data[j]
               /\ n.orderbook = m.orderbook
<1> DEFINE n == [m EXCEPT !.seq = @ + 1]
<1>1. m \in Markets /\ m.seq + 1 \in Nat
  BY DEF MarketSound, Markets
<1>2. n = [m EXCEPT !.seq = m.seq + 1]
  OBVIOUS
<1> HIDE DEF n
<1>3. n \in Markets
  BY <1>1, <1>2 DEF Markets
<1>4. /\ n.data = m.data /\ n.free = m.free /\ n.num = m.num /\ n.seq = m.seq + 1
      /\ n.withdrawable = m.withdrawable /\ n.orderbook = m.orderbook
  BY <1>1, <1>2 DEF Markets
<1>5. SeatIndices(n) = SeatIndices(m) /\ OrderIndices(n) = OrderIndices(m)
  BY <1>4 DEF SeatIndices, OrderIndices
<1>6. OwnersSeated(n) /\ SameSeats(m, n)
  BY <1>4, <1>5 DEF OwnersSeated, MarketSound, SameSeats
<1>7. FreeListSound(n)
  BY <1>4 DEF FreeListSound, MarketSound
<1>8. TotalsSound(n)
  BY <1>4 DEF TotalsSound, MarketSound
<1>9. QED
  BY <1>3, <1>4, <1>5, <1>6, <1>7, <1>8 DEF MarketSound, n

-----------------------------------------------------------------------------
(* The steps of the matching loop. *)

\* Returning an order gives its owner exactly what backed it.
LEMMA ReturnOrderSound ==
    ASSUME NEW m, MarketSound(m), NEW i \in OrderIndices(m), CanReturnOrder(m, i)
    PROVE  LET n     == ReturnOrder(m, i)
               other == Backing(~ m.data[i].is_bid)
           IN  /\ MarketSound(n)
               /\ SameTraders(m, n)
               /\ n.seq = m.seq /\ n.num = m.num
               /\ Len(n.free) = Len(m.free) + 1
               /\ Removed(m, n, i)
               /\ \A t \in Tokens : Claims(n, t) = Claims(m, t)
               /\ \A s \in SeatIndices(m) :
                    /\ NoOrdersOf(m, s) => NoOrdersOf(n, s)
                    /\ n.data[s].bal[other] = m.data[s].bal[other]
<1> DEFINE order == m.data[i]
           n == ReturnOrder(m, i)
           backing == Backing(order.is_bid)
           other == Backing(~ order.is_bid)
           atoms == NotionalAtoms(order.is_bid, order.price, order.base)
           paid == UpdateBalance(m, order.trader_index, backing, atoms)
<1>1. /\ m \in Markets /\ i \in Index /\ order \in RestingOrders
      /\ order.trader_index \in SeatIndices(m)
  BY OrderTyped DEF MarketSound, OwnersSeated
<1>2. order.is_bid \in BOOLEAN /\ order.price \in Nat /\ order.base \in Nat
  BY <1>1 DEF RestingOrders
<1>3. /\ backing \in Tokens /\ other \in Tokens /\ backing # other
      /\ Tokens = {backing, other}
  BY <1>2, BackingToken
<1>4. atoms \in Nat
  BY <1>2, NotionalAtomsNat
<1>5. \A t \in Tokens : m.withdrawable[t] \in Int /\ m.orderbook[t] \in Int
  BY <1>1 DEF Markets
<1>6. CASE order.type = "Global"
  <2>1. n = RemoveOrder(m, i)
    BY <1>6 DEF ReturnOrder
  <2>2. /\ MarketSound(n) /\ SameSeats(m, n) /\ n.seq = m.seq /\ n.num = m.num
        /\ Len(n.free) = Len(m.free) + 1
        /\ OrderIndices(n) = OrderIndices(m) \ {i}
        /\ \A j \in OrderIndices(n) : n.data[j] = m.data[j]
        /\ \A t \in Tokens : n.orderbook[t] = m.orderbook[t] - OrderbookAtoms(order, t)
    BY <2>1, RemoveOrderSound
  <2> HIDE DEF n
  <2>3. \A t \in Tokens : OrderbookAtoms(order, t) = 0
    BY <1>6 DEF OrderbookAtoms
  <2>4. \A t \in Tokens : Claims(n, t) = Claims(m, t)
    BY <1>5, <2>2, <2>3 DEF Claims, SameSeats
  <2>5. SameTraders(m, n)
    BY <2>2 DEF SameSeats, SameTraders
  <2>6. ASSUME NEW s \in SeatIndices(m)
        PROVE  /\ NoOrdersOf(m, s) => NoOrdersOf(n, s)
               /\ n.data[s].bal[other] = m.data[s].bal[other]
    <3>1. NoOrdersOf(m, s) => NoOrdersOf(n, s)
        BY <2>2 DEF NoOrdersOf
    <3>2. QED
        BY <2>2, <3>1 DEF SameSeats
  <2>7. Removed(m, n, i)
    BY <2>2 DEF Removed
  <2>8. QED
    BY <2>2, <2>4, <2>5, <2>6, <2>7 DEF n
<1>7. CASE order.type # "Global"
  <2>1. n = RemoveOrder(paid, i)
    BY <1>7 DEF ReturnOrder
  <2>2. m.data[order.trader_index].bal[backing] + atoms >= 0
    BY <1>7 DEF CanReturnOrder, CanUpdateBalance
  <2>3. \A t \in Tokens : OrderbookAtoms(order, t) = IF t = backing THEN atoms ELSE 0
    BY <1>7 DEF OrderbookAtoms
  <2> HIDE DEF atoms, backing, other, n
  <2>4. /\ MarketSound(paid) /\ SameBlocks(m, paid)
        /\ paid.orderbook = m.orderbook
        /\ \A t \in Tokens :
              paid.withdrawable[t] = m.withdrawable[t] + (IF t = backing THEN atoms ELSE 0)
        /\ \A j \in SeatIndices(m), t \in Tokens :
              paid.data[j].bal[t] = m.data[j].bal[t]
                  + (IF j = order.trader_index /\ t = backing THEN atoms ELSE 0)
    BY <1>1, <1>3, <1>4, <2>2, UpdateBalanceSound
  <2> HIDE DEF paid
  <2>5. i \in OrderIndices(paid) /\ paid.data[i] = order
    BY <2>4 DEF SameBlocks
  <2>6. /\ MarketSound(n) /\ SameSeats(paid, n) /\ n.seq = paid.seq /\ n.num = paid.num
        /\ Len(n.free) = Len(paid.free) + 1
        /\ OrderIndices(n) = OrderIndices(paid) \ {i}
        /\ \A j \in OrderIndices(n) : n.data[j] = paid.data[j]
        /\ \A t \in Tokens : n.orderbook[t] = paid.orderbook[t] - OrderbookAtoms(order, t)
    BY <2>1, <2>4, <2>5, RemoveOrderSound
  <2>7. \A t \in Tokens : Claims(n, t) = Claims(m, t)
    BY <1>4, <1>5, <2>3, <2>4, <2>6 DEF Claims, SameSeats
  <2>8. /\ SameTraders(m, n) /\ n.seq = m.seq /\ n.num = m.num
        /\ Len(n.free) = Len(m.free) + 1
    BY <2>4, <2>6 DEF SameTraders, SameSeats, SameBlocks
  <2>9. ASSUME NEW s \in SeatIndices(m)
        PROVE  /\ NoOrdersOf(m, s) => NoOrdersOf(n, s)
               /\ n.data[s].bal[other] = m.data[s].bal[other]
    <3>1. NoOrdersOf(m, s) => NoOrdersOf(n, s)
        BY <2>4, <2>6 DEF NoOrdersOf, SameBlocks
    <3>2. m.data[s].bal[other] \in Nat
        BY <1>1, <1>3, SeatTyped DEF Seats
    <3>3. n.data[s].bal[other] = m.data[s].bal[other]
        BY <1>3, <2>4, <2>6, <3>2 DEF SameSeats, SameBlocks
    <3>4. QED
        BY <3>1, <3>3
  <2>10. Removed(m, n, i)
    BY <2>4, <2>6 DEF Removed, SameBlocks
  <2>11. QED
    BY <2>6, <2>7, <2>8, <2>9, <2>10 DEF n, other
<1>8. QED
  BY <1>6, <1>7

LEMMA TradeNat ==
    ASSUME NEW order \in RestingOrders, NEW is_bid, is_bid \in BOOLEAN,
           NEW remaining, remaining \in Nat
    PROVE  LET trade == TradeWith(order, is_bid, remaining)
           IN  /\ trade.base \in Nat /\ trade.base <= order.base /\ trade.base <= remaining
               /\ trade.quote \in Nat /\ trade.paid \in Nat /\ trade.got \in Nat
               /\ trade.full \in BOOLEAN
               /\ (trade.full <=> remaining >= order.base)
               /\ (trade.full => trade.base = order.base)
               /\ trade.got = IF is_bid THEN trade.base ELSE trade.quote
<1>1. order.base \in Nat /\ order.price \in Nat
  BY DEF RestingOrders
<1> DEFINE base == IF remaining >= order.base THEN order.base ELSE remaining
           quote == QuoteForBase(order.price, base, is_bid # (remaining >= order.base))
<1>2. base \in Nat /\ base <= order.base /\ base <= remaining
  BY <1>1
<1>3. quote \in Nat
  BY <1>1, <1>2, QuoteForBaseNat
<1> HIDE DEF quote
<1>4. TradeWith(order, is_bid, remaining) =
        [full |-> remaining >= order.base, base |-> base, quote |-> quote,
         paid |-> IF is_bid THEN quote ELSE base, got |-> IF is_bid THEN base ELSE quote]
  BY DEF TradeWith, quote
<1> HIDE DEF base
<1>5. (remaining >= order.base) => base = order.base
  BY DEF base
<1> DEFINE full == remaining >= order.base
<1>6. full \in BOOLEAN
  BY <1>1
<1> HIDE DEF full
<1> DEFINE trade == TradeWith(order, is_bid, remaining)
<1>7. trade = [full |-> full, base |-> base, quote |-> quote,
               paid |-> IF is_bid THEN quote ELSE base, got |-> IF is_bid THEN base ELSE quote]
  BY <1>4 DEF full
<1> HIDE DEF trade
<1>8. /\ trade.full = full /\ trade.base = base /\ trade.quote = quote
      /\ trade.paid = IF is_bid THEN quote ELSE base
      /\ trade.got = IF is_bid THEN base ELSE quote
  BY <1>7
<1>9. /\ trade.paid \in Nat /\ trade.got \in Nat
  BY <1>2, <1>3, <1>8
<1>10. (full <=> remaining >= order.base) /\ (full => base = order.base)
  BY <1>5 DEF full
<1>11. QED
  BY <1>2, <1>3, <1>6, <1>8, <1>9, <1>10 DEF trade

\* The balances after a trade: the taker pays the maker, and gets what is taken
\* out of the maker's order, together with the bonus.
LEMMA SettledSound ==
    ASSUME NEW m, MarketSound(m), NEW taker \in SeatIndices(m), NEW order,
           order.trader_index \in SeatIndices(m), NEW is_bid \in BOOLEAN, NEW trade,
           trade.paid \in Nat, trade.got \in Nat, BonusAtom(order, trade) \in Nat,
           CanTrade(m, taker, order, is_bid, trade)
    PROVE  LET n == Settled(m, taker, order, is_bid, trade)
           IN  /\ MarketSound(n) /\ SameBlocks(m, n) /\ n.orderbook = m.orderbook
               /\ n.withdrawable[Backing(is_bid)] = m.withdrawable[Backing(is_bid)]
               /\ n.withdrawable[Backing(~ is_bid)] =
                    m.withdrawable[Backing(~ is_bid)] + BonusAtom(order, trade) + trade.got
               /\ n.data[taker].bal[Backing(is_bid)] <= m.data[taker].bal[Backing(is_bid)]
               /\ n.data[taker].bal[Backing(~ is_bid)] >=
                    m.data[taker].bal[Backing(~ is_bid)] + trade.got
               /\ order.trader_index # taker =>
                    /\ trade.paid <= n.data[order.trader_index].bal[Backing(is_bid)]
                    /\ FitsAtoms(n.data[order.trader_index].bal[Backing(is_bid)])
<1> DEFINE A == Backing(is_bid)
           B == Backing(~ is_bid)
           bonus == BonusAtom(order, trade)
           maker == order.trader_index
           m1 == UpdateBalance(m, maker, B, bonus)
           m2 == UpdateBalance(m1, maker, A, trade.paid)
           m3 == UpdateBalance(m2, taker, A, - trade.paid)
           m4 == UpdateBalance(m3, taker, B, trade.got)
<1>1. Settled(m, taker, order, is_bid, trade) = m4
  BY DEF Settled, TakerDebited, MakerCredited
<1>2. /\ m.data[maker].bal[B] + bonus >= 0
      /\ m1.data[maker].bal[A] + trade.paid >= 0
      /\ m2.data[taker].bal[A] + (- trade.paid) >= 0
      /\ m3.data[taker].bal[B] + trade.got >= 0
      /\ FitsAtoms(m1.data[maker].bal[A] + trade.paid)
  BY DEF CanTrade, CanUpdateBalance, TakerDebited, MakerCredited
<1>3. A \in Tokens /\ B \in Tokens /\ A # B
  BY BackingToken
<1>4. - trade.paid \in Int /\ trade.paid \in Int /\ trade.got \in Int /\ bonus \in Int
  OBVIOUS
<1>5. /\ \A t \in Tokens : m.withdrawable[t] \in Int
      /\ \A t \in Tokens : m.data[taker].bal[t] \in Int
      /\ \A t \in Tokens : m.data[maker].bal[t] \in Nat
  <2>1. m \in Markets /\ m.data[taker] \in Seats /\ m.data[maker] \in Seats
    BY SeatTyped DEF MarketSound
  <2>2. QED
    BY <2>1 DEF Markets, Seats
<1> HIDE DEF A, B, bonus
<1>6. /\ MarketSound(m1) /\ SameBlocks(m, m1) /\ m1.orderbook = m.orderbook
      /\ \A t \in Tokens :
            m1.withdrawable[t] = m.withdrawable[t] + (IF t = B THEN bonus ELSE 0)
      /\ \A j \in SeatIndices(m), t \in Tokens :
            m1.data[j].bal[t] = m.data[j].bal[t] + (IF j = maker /\ t = B THEN bonus ELSE 0)
  <2>1. /\ MarketSound(m) /\ maker \in SeatIndices(m) /\ B \in Tokens
        /\ bonus \in Int /\ m.data[maker].bal[B] + bonus >= 0
    BY <1>2, <1>3, <1>4
  <2>2. m1 = UpdateBalance(m, maker, B, bonus)
    OBVIOUS
  <2> HIDE DEF maker, m1
  <2>3. QED
    BY <2>1, <2>2, UpdateBalanceSound
<1>7. maker \in SeatIndices(m1) /\ taker \in SeatIndices(m1)
  BY <1>6 DEF SameBlocks
<1> HIDE DEF m1
<1>8. /\ MarketSound(m2) /\ SameBlocks(m1, m2) /\ m2.orderbook = m1.orderbook
      /\ \A t \in Tokens :
            m2.withdrawable[t] = m1.withdrawable[t] + (IF t = A THEN trade.paid ELSE 0)
      /\ \A j \in SeatIndices(m1), t \in Tokens :
            m2.data[j].bal[t] = m1.data[j].bal[t]
                + (IF j = maker /\ t = A THEN trade.paid ELSE 0)
  <2>1. /\ MarketSound(m1) /\ maker \in SeatIndices(m1) /\ A \in Tokens
        /\ trade.paid \in Int /\ m1.data[maker].bal[A] + trade.paid >= 0
    BY <1>2, <1>3, <1>4, <1>6, <1>7
  <2>2. m2 = UpdateBalance(m1, maker, A, trade.paid)
    OBVIOUS
  <2> HIDE DEF maker, m2
  <2>3. QED
    BY <2>1, <2>2, UpdateBalanceSound
<1>9. taker \in SeatIndices(m2)
  BY <1>7, <1>8 DEF SameBlocks
<1> HIDE DEF m2
<1>10. /\ MarketSound(m3) /\ SameBlocks(m2, m3) /\ m3.orderbook = m2.orderbook
       /\ \A t \in Tokens :
             m3.withdrawable[t] = m2.withdrawable[t] + (IF t = A THEN - trade.paid ELSE 0)
       /\ \A j \in SeatIndices(m2), t \in Tokens :
             m3.data[j].bal[t] = m2.data[j].bal[t]
                 + (IF j = taker /\ t = A THEN - trade.paid ELSE 0)
  <2>1. /\ MarketSound(m2) /\ taker \in SeatIndices(m2) /\ A \in Tokens
        /\ - trade.paid \in Int /\ m2.data[taker].bal[A] + (- trade.paid) >= 0
    BY <1>2, <1>3, <1>4, <1>8, <1>9
  <2>2. m3 = UpdateBalance(m2, taker, A, - trade.paid)
    OBVIOUS
  <2> HIDE DEF maker, m3
  <2>3. QED
    BY <2>1, <2>2, UpdateBalanceSound
<1>11. taker \in SeatIndices(m3)
  BY <1>9, <1>10 DEF SameBlocks
<1> HIDE DEF m3
<1>12. /\ MarketSound(m4) /\ SameBlocks(m3, m4) /\ m4.orderbook = m3.orderbook
       /\ \A t \in Tokens :
             m4.withdrawable[t] = m3.withdrawable[t] + (IF t = B THEN trade.got ELSE 0)
       /\ \A j \in SeatIndices(m3), t \in Tokens :
             m4.data[j].bal[t] = m3.data[j].bal[t]
                 + (IF j = taker /\ t = B THEN trade.got ELSE 0)
  <2>1. /\ MarketSound(m3) /\ taker \in SeatIndices(m3) /\ B \in Tokens
        /\ trade.got \in Int /\ m3.data[taker].bal[B] + trade.got >= 0
    BY <1>2, <1>3, <1>4, <1>10, <1>11
  <2>2. m4 = UpdateBalance(m3, taker, B, trade.got)
    OBVIOUS
  <2> HIDE DEF maker, m4
  <2>3. QED
    BY <2>1, <2>2, UpdateBalanceSound
<1> HIDE DEF m4
<1>13. SameBlocks(m, m4) /\ m4.orderbook = m.orderbook
  <2>1. SameBlocks(m, m2)
    BY <1>6, <1>8 DEF SameBlocks
  <2>2. SameBlocks(m, m3)
    BY <1>10, <2>1 DEF SameBlocks
  <2>3. SameBlocks(m, m4)
    BY <1>12, <2>2 DEF SameBlocks
  <2>4. QED
    BY <1>6, <1>8, <1>10, <1>12, <2>3
<1>14. /\ m4.withdrawable[A] = m.withdrawable[A]
       /\ m4.withdrawable[B] = m.withdrawable[B] + bonus + trade.got
  <2>1. /\ m1.withdrawable[A] = m.withdrawable[A]
        /\ m1.withdrawable[B] = m.withdrawable[B] + bonus
    BY <1>3, <1>5, <1>6
  <2>2. /\ m2.withdrawable[A] = m.withdrawable[A] + trade.paid
        /\ m2.withdrawable[B] = m.withdrawable[B] + bonus
    BY <1>3, <1>4, <1>5, <1>8, <2>1
  <2>3. /\ m3.withdrawable[A] = m.withdrawable[A]
        /\ m3.withdrawable[B] = m.withdrawable[B] + bonus
    BY <1>3, <1>4, <1>5, <1>10, <2>2
  <2>4. QED
    BY <1>3, <1>4, <1>5, <1>12, <2>3
<1>15. m4.data[taker].bal[A] <= m.data[taker].bal[A]
  <2>1. m1.data[taker].bal[A] = m.data[taker].bal[A]
    BY <1>3, <1>5, <1>6
  <2>2. m2.data[taker].bal[A] = m.data[taker].bal[A]
                                    + (IF taker = maker THEN trade.paid ELSE 0)
    BY <1>3, <1>7, <1>8, <2>1
  <2>3. m3.data[taker].bal[A] = m2.data[taker].bal[A] + (- trade.paid)
    BY <1>3, <1>9, <1>10
  <2>4. m4.data[taker].bal[A] = m3.data[taker].bal[A] + 0
    BY <1>3, <1>11, <1>12
  <2>5. QED
    BY <1>3, <1>5, <2>2, <2>3, <2>4
<1>16. m4.data[taker].bal[B] >= m.data[taker].bal[B] + trade.got
  <2>1. m1.data[taker].bal[B] = m.data[taker].bal[B]
                                    + (IF taker = maker THEN bonus ELSE 0)
    BY <1>3, <1>6
  <2>2. m2.data[taker].bal[B] = m1.data[taker].bal[B] + 0
    BY <1>3, <1>7, <1>8
  <2>3. m3.data[taker].bal[B] = m2.data[taker].bal[B] + 0
    BY <1>3, <1>9, <1>10
  <2>4. m4.data[taker].bal[B] = m3.data[taker].bal[B] + trade.got
    BY <1>3, <1>11, <1>12
  <2>5. bonus \in Nat /\ m.data[taker].bal[B] \in Int
    BY <1>3, <1>5 DEF bonus
  <2>6. QED
    BY <1>4, <2>1, <2>2, <2>3, <2>4, <2>5
<1>17. maker # taker => /\ trade.paid <= m4.data[maker].bal[A]
                        /\ FitsAtoms(m4.data[maker].bal[A])
  <2> SUFFICES ASSUME maker # taker
               PROVE  trade.paid <= m4.data[maker].bal[A] /\ FitsAtoms(m4.data[maker].bal[A])
    OBVIOUS
  <2>1. maker \in SeatIndices(m) /\ maker \in SeatIndices(m2) /\ maker \in SeatIndices(m3)
    BY <1>7, <1>8, <1>10 DEF SameBlocks
  <2>2. m1.data[maker].bal[A] = m.data[maker].bal[A] + 0
    BY <1>3, <1>6, <2>1
  <2>3. m2.data[maker].bal[A] = m1.data[maker].bal[A] + trade.paid
    BY <1>3, <1>7, <1>8
  <2>4. m3.data[maker].bal[A] = m2.data[maker].bal[A] + 0
    BY <1>3, <1>10, <2>1
  <2>5. m4.data[maker].bal[A] = m3.data[maker].bal[A] + 0
    BY <1>3, <1>12, <2>1
  <2> DEFINE held == m.data[maker].bal[A]
             paid == trade.paid
             most == m4.data[maker].bal[A]
  <2>6. held \in Nat /\ paid \in Nat
    BY <1>3, <1>5
  <2>7. most = m1.data[maker].bal[A] + paid /\ most = held + paid
    BY <2>2, <2>3, <2>4, <2>5, <2>6
  <2> HIDE DEF held, paid, most
  <2>8. paid <= most
    BY <2>6, <2>7
  <2>9. FitsAtoms(most)
    BY <1>2, <2>7 DEF paid
  <2>10. QED
    BY <2>8, <2>9 DEF paid, most
<1>18. QED
  BY <1>1, <1>12, <1>13, <1>14, <1>15, <1>16, <1>17 DEF A, B, bonus, maker

\* n is the market after the taker has traded with order i.
IsTraded(m, n, taker, i, order, is_bid, remaining, trade) ==
    /\ taker \in SeatIndices(m) /\ i \in OrderIndices(m) /\ order = m.data[i]
    /\ is_bid \in BOOLEAN /\ order.is_bid = ~ is_bid /\ remaining \in Nat
    /\ trade = TradeWith(order, is_bid, remaining)
    /\ CanTrade(m, taker, order, is_bid, trade)
    /\ n = Traded(m, taker, i, is_bid, trade)

\* A trade moves the taker's payment between seats and gives the taker what the
\* maker's order no longer backs; only a global maker's atoms come from elsewhere.
LEMMA TradedSound ==
    ASSUME NEW m, MarketSound(m), NEW taker, NEW i, NEW order, NEW is_bid, NEW remaining,
           NEW trade, NEW n, IsTraded(m, n, taker, i, order, is_bid, remaining, trade)
    PROVE  /\ MarketSound(n)
           /\ SameTraders(m, n)
           /\ n.seq = m.seq
           /\ trade.full => Len(n.free) = Len(m.free) + 1
           /\ ~ trade.full => Len(n.free) = Len(m.free)
           /\ Claims(n, Backing(is_bid)) = Claims(m, Backing(is_bid))
           /\ order.type = "Global" =>
                Claims(n, Backing(~ is_bid)) = Claims(m, Backing(~ is_bid)) + trade.got
           /\ order.type # "Global" =>
                Claims(n, Backing(~ is_bid)) = Claims(m, Backing(~ is_bid))
           /\ n.data[taker].bal[Backing(is_bid)] <= m.data[taker].bal[Backing(is_bid)]
           /\ \A s \in SeatIndices(m) : NoOrdersOf(m, s) => NoOrdersOf(n, s)
           /\ n.data[taker].bal[Backing(~ is_bid)] >=
                m.data[taker].bal[Backing(~ is_bid)] + trade.got
           /\ IF trade.full
              THEN Removed(m, n, i)
              ELSE Resized(m, n, i) /\ n.data[i].base <= order.base
<1> USE DEF IsTraded
<1> DEFINE A == Backing(is_bid)
           B == Backing(~ is_bid)
           bonus == BonusAtom(order, trade)
           after == Settled(m, taker, order, is_bid, trade)
           left == order.base - trade.base
<1>1. /\ m \in Markets /\ i \in Index /\ order \in RestingOrders
      /\ order.trader_index \in SeatIndices(m)
  BY OrderTyped DEF MarketSound, OwnersSeated
<1>2. /\ order.is_bid \in BOOLEAN /\ order.price \in Nat /\ order.base \in Nat
      /\ order.is_bid = ~ is_bid
  BY <1>1 DEF RestingOrders
<1>3. /\ A \in Tokens /\ B \in Tokens /\ A # B /\ Tokens = {A, B}
      /\ Backing(order.is_bid) = B
  BY <1>2, BackingToken
<1> DEFINE step == TradeWith(order, is_bid, remaining)
<1>4a. trade = step
  OBVIOUS
<1>4. /\ trade.base \in Nat /\ trade.base <= order.base /\ trade.base <= remaining
      /\ trade.quote \in Nat /\ trade.paid \in Nat /\ trade.got \in Nat
      /\ trade.full \in BOOLEAN
      /\ (trade.full => trade.base = order.base)
      /\ trade.got = IF is_bid THEN trade.base ELSE trade.quote
  <2>1. /\ step.base \in Nat /\ step.base <= order.base /\ step.base <= remaining
        /\ step.quote \in Nat /\ step.paid \in Nat /\ step.got \in Nat
        /\ step.full \in BOOLEAN
        /\ (step.full => step.base = order.base)
        /\ step.got = IF is_bid THEN step.base ELSE step.quote
    BY <1>1, TradeNat
  <2> HIDE DEF step
  <2>2. QED
    BY <1>4a, <2>1
<1> HIDE DEF step
<1>5. /\ QuoteForBase(order.price, order.base, TRUE) \in Nat
      /\ QuoteForBase(order.price, left, TRUE) \in Nat /\ left \in Nat
  <2>1. left \in Nat
    BY <1>2, <1>4
  <2>2. QED
    BY <1>2, <2>1, QuoteForBaseNat
<1>6. bonus \in Nat
  <2>1. bonus \in Int
    <3> DEFINE q == QuoteForBase(order.price, order.base, TRUE)
               q_left == QuoteForBase(order.price, left, TRUE)
    <3>1. bonus = IF order.is_bid /\ order.type # "Global" THEN q - q_left - trade.quote ELSE 0
        BY DEF BonusAtom
    <3>2. q \in Nat /\ q_left \in Nat /\ trade.quote \in Nat
        BY <1>4, <1>5
    <3> HIDE DEF q, q_left
    <3>3. q - q_left - trade.quote \in Int
        BY <3>2
    <3> HIDE DEF bonus
    <3>4. QED
        BY <3>1, <3>3
  <2>2. bonus >= 0
    BY DEF CanTrade
  <2>3. QED
    BY <2>1, <2>2
<1>7. CanTrade(m, taker, order, is_bid, trade)
  OBVIOUS
<1>8. /\ MarketSound(after) /\ SameBlocks(m, after) /\ after.orderbook = m.orderbook
      /\ after.withdrawable[A] = m.withdrawable[A]
      /\ after.withdrawable[B] = m.withdrawable[B] + bonus + trade.got
      /\ after.data[taker].bal[A] <= m.data[taker].bal[A]
      /\ after.data[taker].bal[B] >= m.data[taker].bal[B] + trade.got
  BY <1>1, <1>4, <1>6, <1>7, SettledSound
<1>9. \A t \in Tokens : m.withdrawable[t] \in Int /\ m.orderbook[t] \in Int
  BY <1>1 DEF Markets
\* What the order no longer backs.
<1>10. /\ trade.full =>
            OrderbookAtoms(order, B) = bonus + (IF order.type = "Global" THEN 0 ELSE trade.got)
       /\ OrderbookAtoms([order EXCEPT !.base = left], B) =
            OrderbookAtoms(order, B) - bonus
                - (IF order.type = "Global" THEN 0 ELSE trade.got)
       /\ OrderbookAtoms(order, A) = 0
       /\ OrderbookAtoms([order EXCEPT !.base = left], A) = 0
  <2> DEFINE smaller == [order EXCEPT !.base = left]
  <2>1. /\ smaller.type = order.type /\ smaller.is_bid = order.is_bid
        /\ smaller.price = order.price /\ smaller.base = left
    BY <1>1 DEF RestingOrders
  <2>2. OrderbookAtoms(order, A) = 0 /\ OrderbookAtoms(smaller, A) = 0
    BY <1>3, <2>1 DEF OrderbookAtoms
  <2> HIDE DEF smaller
  <2>3. CASE order.type = "Global"
    BY <2>1, <2>2, <2>3 DEF OrderbookAtoms, BonusAtom, smaller
  <2>4. CASE order.type # "Global" /\ order.is_bid
    <3>1. /\ OrderbookAtoms(order, B) = QuoteForBase(order.price, order.base, TRUE)
          /\ OrderbookAtoms(smaller, B) = QuoteForBase(order.price, left, TRUE)
        BY <1>3, <2>1, <2>4 DEF OrderbookAtoms, NotionalAtoms
    <3>2. bonus = QuoteForBase(order.price, order.base, TRUE)
                    - QuoteForBase(order.price, left, TRUE) - trade.quote
        BY <2>4 DEF BonusAtom
    <3>3. trade.got = trade.quote
        BY <1>2, <1>4, <2>4
    <3>4. trade.full => QuoteForBase(order.price, left, TRUE) = 0
      <4>1. QuoteForBase(order.price, 0, TRUE) = 0
          BY <1>2, QuoteForNothing
      <4>2. trade.full => left = 0
          BY <1>2, <1>4
      <4>3. QED
          BY <4>1, <4>2
    <3> DEFINE q == QuoteForBase(order.price, order.base, TRUE)
               q_left == QuoteForBase(order.price, left, TRUE)
    <3> HIDE DEF bonus, left, q, q_left
    <3>5. /\ trade.full => OrderbookAtoms(order, B) = bonus + trade.got
          /\ OrderbookAtoms(smaller, B) = OrderbookAtoms(order, B) - bonus - trade.got
      <4>1. q \in Nat /\ q_left \in Nat /\ trade.quote \in Nat
          BY <1>4, <1>5 DEF q, q_left
      <4>2. /\ OrderbookAtoms(order, B) = q /\ OrderbookAtoms(smaller, B) = q_left
            /\ bonus = q - q_left - trade.quote
            /\ (trade.full => q_left = 0)
          BY <3>1, <3>2, <3>4 DEF q, q_left
      <4> DEFINE got == trade.got
                 atoms == OrderbookAtoms(order, B)
                 rest == OrderbookAtoms(smaller, B)
      <4>3. got = trade.quote /\ atoms = q /\ rest = q_left
          BY <3>3, <4>2
      <4> HIDE DEF got, atoms, rest
      <4>4. bonus = atoms - rest - got /\ atoms \in Nat /\ rest \in Nat /\ got \in Nat
          BY <4>1, <4>2, <4>3
      <4>5. rest = atoms - bonus - got /\ (rest = 0 => atoms = bonus + got)
          BY <4>4
      <4>6. QED
          BY <4>2, <4>3, <4>5 DEF got, atoms, rest
    <3>6. QED
        BY <2>2, <2>4, <3>5 DEF smaller
  <2>5. CASE order.type # "Global" /\ ~ order.is_bid
    <3>1. OrderbookAtoms(order, B) = order.base /\ OrderbookAtoms(smaller, B) = left
        BY <1>3, <2>1, <2>5 DEF OrderbookAtoms, NotionalAtoms
    <3>2. bonus = 0 /\ trade.got = trade.base
        BY <1>2, <1>4, <2>5 DEF BonusAtom
    <3>3. QED
        BY <1>2, <1>4, <2>2, <2>5, <3>1, <3>2 DEF smaller
  <2>6. QED
    BY <1>2, <2>3, <2>4, <2>5
<1>11. i \in OrderIndices(after) /\ after.data[i] = order /\ taker \in SeatIndices(after)
  BY <1>8 DEF SameBlocks
<1>12. \A t \in Tokens : after.withdrawable[t] \in Int
  BY <1>8 DEF MarketSound, Markets
<1>13. OrderbookAtoms(order, B) \in Nat
  BY <1>1, <1>3, OrderbookAtomsNat
<1>14. n = IF trade.full THEN RemoveOrder(after, i) ELSE ResizeOrder(after, i, left)
  BY DEF Traded
<1>15. SameBlocks(m, after) /\ \A s \in SeatIndices(m) : NoOrdersOf(m, s) => NoOrdersOf(after, s)
  BY <1>8 DEF SameBlocks, NoOrdersOf
<1> HIDE DEF after, bonus, left, A, B
<1>16. ASSUME trade.full
       PROVE  /\ MarketSound(n) /\ SameTraders(m, n) /\ n.seq = m.seq
              /\ trade.full => Len(n.free) = Len(m.free) + 1
              /\ ~ trade.full => Len(n.free) = Len(m.free)
              /\ Claims(n, A) = Claims(m, A)
              /\ order.type = "Global" => Claims(n, B) = Claims(m, B) + trade.got
              /\ order.type # "Global" => Claims(n, B) = Claims(m, B)
              /\ n.data[taker].bal[A] <= m.data[taker].bal[A]
              /\ n.data[taker].bal[B] >= m.data[taker].bal[B] + trade.got
              /\ \A s \in SeatIndices(m) : NoOrdersOf(m, s) => NoOrdersOf(n, s)
              /\ IF trade.full
                 THEN Removed(m, n, i)
                 ELSE Resized(m, n, i) /\ n.data[i].base <= order.base
  <2>1. /\ MarketSound(n) /\ SameSeats(after, n) /\ n.seq = after.seq
        /\ Len(n.free) = Len(after.free) + 1
        /\ OrderIndices(n) = OrderIndices(after) \ {i}
        /\ \A j \in OrderIndices(n) : n.data[j] = after.data[j]
        /\ \A t \in Tokens : n.orderbook[t] = after.orderbook[t] - OrderbookAtoms(order, t)
    BY <1>8, <1>11, <1>14, <1>16, RemoveOrderSound
  <2>2. /\ SameTraders(m, n) /\ n.seq = m.seq /\ Len(n.free) = Len(m.free) + 1
        /\ n.data[taker] = after.data[taker]
    BY <1>8, <1>11, <2>1 DEF SameTraders, SameSeats, SameBlocks
  <2>3. \A s \in SeatIndices(m) : NoOrdersOf(m, s) => NoOrdersOf(n, s)
    BY <1>15, <2>1 DEF NoOrdersOf
  <2>4. Claims(n, A) = Claims(m, A)
    BY <1>3, <1>8, <1>9, <1>10, <2>1 DEF Claims, SameSeats
  <2>5. Claims(n, B) = Claims(m, B) + (IF order.type = "Global" THEN trade.got ELSE 0)
    <3>1. /\ n.withdrawable[B] = m.withdrawable[B] + bonus + trade.got
          /\ n.orderbook[B] = m.orderbook[B] - OrderbookAtoms(order, B)
          /\ OrderbookAtoms(order, B) =
                bonus + (IF order.type = "Global" THEN 0 ELSE trade.got)
        BY <1>3, <1>8, <1>10, <1>16, <2>1 DEF SameSeats
    <3>2. m.withdrawable[B] \in Int /\ m.orderbook[B] \in Int
        BY <1>3, <1>9
    <3>3. QED
        BY <1>4, <1>6, <3>1, <3>2 DEF Claims
  <2>6. /\ order.type = "Global" => Claims(n, B) = Claims(m, B) + trade.got
        /\ order.type # "Global" => Claims(n, B) = Claims(m, B)
    <3>1. Claims(m, B) \in Int
        BY <1>1, <1>3 DEF Claims, Markets
    <3>2. QED
        BY <1>4, <2>5, <3>1
  <2>7. /\ n.data[taker].bal[A] <= m.data[taker].bal[A]
        /\ n.data[taker].bal[B] >= m.data[taker].bal[B] + trade.got
    BY <1>8, <2>2
  <2>8. Removed(m, n, i)
    BY <1>8, <2>1 DEF Removed, SameBlocks
  <2>9. QED
    BY <1>16, <2>1, <2>2, <2>3, <2>4, <2>6, <2>7, <2>8
<1>17. ASSUME ~ trade.full
       PROVE  /\ MarketSound(n) /\ SameTraders(m, n) /\ n.seq = m.seq
              /\ trade.full => Len(n.free) = Len(m.free) + 1
              /\ ~ trade.full => Len(n.free) = Len(m.free)
              /\ Claims(n, A) = Claims(m, A)
              /\ order.type = "Global" => Claims(n, B) = Claims(m, B) + trade.got
              /\ order.type # "Global" => Claims(n, B) = Claims(m, B)
              /\ n.data[taker].bal[A] <= m.data[taker].bal[A]
              /\ n.data[taker].bal[B] >= m.data[taker].bal[B] + trade.got
              /\ \A s \in SeatIndices(m) : NoOrdersOf(m, s) => NoOrdersOf(n, s)
              /\ IF trade.full
                 THEN Removed(m, n, i)
                 ELSE Resized(m, n, i) /\ n.data[i].base <= order.base
  <2>1. /\ MarketSound(n) /\ SameSeats(after, n) /\ n.seq = after.seq
        /\ n.free = after.free
        /\ OrderIndices(n) = OrderIndices(after)
        /\ \A j \in OrderIndices(after) \ {i} : n.data[j] = after.data[j]
        /\ n.data[i] = [order EXCEPT !.base = left]
        /\ \A t \in Tokens : n.orderbook[t] = after.orderbook[t] + OrderbookAtoms(n.data[i], t)
                                                                 - OrderbookAtoms(order, t)
    BY <1>5, <1>8, <1>11, <1>14, <1>17, ResizeOrderSound
  <2>2. /\ SameTraders(m, n) /\ n.seq = m.seq /\ Len(n.free) = Len(m.free)
        /\ n.data[taker] = after.data[taker]
    <3>1. m.free \in Seq(Index)
        BY <1>1 DEF Markets
    <3>2. QED
        BY <1>8, <1>11, <2>1, <3>1 DEF SameTraders, SameSeats, SameBlocks
  <2>3. \A s \in SeatIndices(m) : NoOrdersOf(m, s) => NoOrdersOf(n, s)
    <3>1. n.data[i].trader_index = order.trader_index
        BY <1>1, <2>1 DEF RestingOrders
    <3>2. QED
      <4>1. \A j \in OrderIndices(n) : n.data[j].trader_index = after.data[j].trader_index
          BY <1>11, <2>1, <3>1
      <4>2. QED
          BY <1>15, <2>1, <4>1 DEF NoOrdersOf
  <2>4. Claims(n, A) = Claims(m, A)
    BY <1>3, <1>8, <1>9, <1>10, <2>1 DEF Claims, SameSeats
  <2>5. Claims(n, B) = Claims(m, B) + (IF order.type = "Global" THEN trade.got ELSE 0)
    <3> DEFINE freed == IF order.type = "Global" THEN 0 ELSE trade.got
               atoms == OrderbookAtoms(order, B)
    <3>1. /\ n.withdrawable[B] = m.withdrawable[B] + bonus + trade.got
          /\ n.orderbook[B] = m.orderbook[B] + OrderbookAtoms(n.data[i], B) - atoms
        BY <1>3, <1>8, <2>1 DEF SameSeats
    <3>2. OrderbookAtoms(n.data[i], B) = atoms - bonus - freed
        BY <1>10, <2>1
    <3>3. /\ m.withdrawable[B] \in Int /\ m.orderbook[B] \in Int
          /\ atoms \in Nat /\ bonus \in Nat /\ trade.got \in Nat /\ freed \in Nat
        BY <1>3, <1>4, <1>6, <1>9, <1>13
    <3> HIDE DEF atoms, freed
    <3>4. Claims(n, B) = Claims(m, B) + trade.got - freed
        BY <3>1, <3>2, <3>3 DEF Claims
    <3>5. Claims(m, B) \in Int
        BY <3>3 DEF Claims
    <3>6. QED
        BY <1>4, <3>4, <3>5 DEF freed
  <2>6. /\ order.type = "Global" => Claims(n, B) = Claims(m, B) + trade.got
        /\ order.type # "Global" => Claims(n, B) = Claims(m, B)
    <3>1. Claims(m, B) \in Int
        BY <1>1, <1>3 DEF Claims, Markets
    <3>2. QED
        BY <1>4, <2>5, <3>1
  <2>7. /\ n.data[taker].bal[A] <= m.data[taker].bal[A]
        /\ n.data[taker].bal[B] >= m.data[taker].bal[B] + trade.got
    BY <1>8, <2>2
  <2>8. Resized(m, n, i) /\ n.data[i].base <= order.base
    <3>1. n.data[i].base = left /\ left <= order.base
        BY <1>1, <1>2, <1>4, <2>1 DEF RestingOrders, left
    <3>2. Resized(m, n, i)
        BY <1>5, <1>8, <2>1 DEF Resized, SameBlocks
    <3>3. QED
        BY <3>1, <3>2
  <2>9. QED
    BY <1>17, <2>1, <2>2, <2>3, <2>4, <2>6, <2>7, <2>8
<1>18. /\ MarketSound(n) /\ SameTraders(m, n) /\ n.seq = m.seq
       /\ trade.full => Len(n.free) = Len(m.free) + 1
       /\ ~ trade.full => Len(n.free) = Len(m.free)
       /\ Claims(n, A) = Claims(m, A)
       /\ order.type = "Global" => Claims(n, B) = Claims(m, B) + trade.got
       /\ order.type # "Global" => Claims(n, B) = Claims(m, B)
       /\ n.data[taker].bal[A] <= m.data[taker].bal[A]
       /\ n.data[taker].bal[B] >= m.data[taker].bal[B] + trade.got
       /\ \A s \in SeatIndices(m) : NoOrdersOf(m, s) => NoOrdersOf(n, s)
       /\ IF trade.full
          THEN Removed(m, n, i)
          ELSE Resized(m, n, i) /\ n.data[i].base <= order.base
  BY <1>4, <1>16, <1>17
<1>19. QED
  BY <1>18 DEF A, B

\* The size of a coalesced reverse bid is computed without leaving the integers.
LEMMA ReverseBidCoalesceBaseInt ==
    ASSUME NEW price \in Nat, NEW old_base \in Nat, NEW requested_base \in Nat,
           NEW quote_received \in Nat
    PROVE  ReverseBidCoalesceBase(price, old_base, requested_base, quote_received) \in Int
<1> DEFINE previous == QuoteForBase(price, old_base, TRUE)
           affordable == BaseForQuote(price, previous + quote_received, FALSE)
           fits == QuoteForBase(price, old_base + requested_base, TRUE) - previous
                        <= quote_received
<1>1. previous \in Nat
  BY QuoteForBaseNat
<1> HIDE DEF previous
<1>2. previous + quote_received \in Nat
  BY <1>1
<1>3. affordable \in Nat
  BY <1>2, BaseForQuoteNat
<1>4. ReverseBidCoalesceBase(price, old_base, requested_base, quote_received) =
        IF fits THEN requested_base
        ELSE IF affordable - old_base < requested_base THEN affordable - old_base
             ELSE requested_base
  BY DEF ReverseBidCoalesceBase, previous
<1> HIDE DEF affordable, fits
<1>5. affordable - old_base \in Int /\ requested_base \in Int
  BY <1>3
<1>6. QED
  BY <1>4, <1>5

\* What a reversal r does to the orders of m: nothing when it is too small, else
\* it makes the order at index i larger or is an order of its own.
ReversalOnBook(m, n, i, r, is_bid) ==
    \/ SameOrders(m, n) /\ n.seq = m.seq
    \/ /\ i \in OrderIndices(m) /\ m.data[i].type = r.type
       /\ Resized(m, n, i) /\ n.seq = m.seq
    \/ \E order \in RestingOrders :
            /\ order.seq = m.seq /\ order.price = r.price /\ order.is_bid = is_bid
            /\ order.type = r.type
            /\ Inserted(m, n, order) /\ n.seq = m.seq + 1

\* The book grows by what the maker is debited.
LEMMA ReversePlacedSound ==
    ASSUME NEW m, MarketSound(m), NEW is_bid \in BOOLEAN, NEW r,
           r.trader_index \in SeatIndices(m), r.type \in ReversibleTypes,
           r.spread \in Spreads, r.price \in Nat, r.base \in Nat, r.quote \in Nat,
           NEW i \in LookupResults(m, is_bid, r.trader_index, r.type, r.price),
           CanReverse(m, i, r, is_bid)
    PROVE  LET debit == ReverseDebit(m, i, r, is_bid)
               placed == ReversePlaced(m, i, r, is_bid)
           IN  /\ debit \in Nat
               /\ MarketSound(placed)
               /\ SameSeats(m, placed)
               /\ Len(placed.free) >= Len(m.free) - 1
               /\ \A t \in Tokens : placed.orderbook[t] =
                    m.orderbook[t] + (IF t = Backing(is_bid) THEN debit ELSE 0)
               /\ \A s \in SeatIndices(m) :
                    s # r.trader_index => (NoOrdersOf(m, s) => NoOrdersOf(placed, s))
               /\ ReversalOnBook(m, placed, i, r, is_bid)
<1> DEFINE A == Backing(is_bid)
           base == ReverseBase(r, is_bid)
           debit == ReverseDebit(m, i, r, is_bid)
           placed == ReversePlaced(m, i, r, is_bid)
<1>1. /\ m \in Markets /\ m.seq \in Nat /\ m.free \in Seq(Index)
      /\ \A t \in Tokens : m.withdrawable[t] \in Int /\ m.orderbook[t] \in Int
  BY DEF MarketSound, Markets
<1>2. A \in Tokens
  BY BackingToken
<1>3. base \in Nat
  BY BaseForQuoteNat DEF ReverseBase
<1>4. r.type \in OrderTypes /\ r.type # "Global"
  BY DEF OrderTypes, ReversibleTypes
<1>5. i = NIL \/ /\ i \in OrderIndices(m)
                 /\ m.data[i].is_bid = is_bid /\ m.data[i].type = r.type
                 /\ m.data[i].trader_index = r.trader_index
  BY DEF LookupResults, CoalesceCandidates, BookSide
<1>6. CASE i = NIL /\ base = 0
  <2>1. placed = m
    BY <1>6 DEF ReversePlaced
  <2>2. debit = NotionalAtoms(is_bid, r.price, 0)
    BY <1>6 DEF ReverseDebit
  <2>3. debit = 0
    BY <2>2, QuoteForNothing DEF NotionalAtoms
  <2> HIDE DEF placed, debit, A, base
  <2>4. Len(m.free) \in Nat
    BY <1>1
  <2>5. QED
    BY <1>1, <2>1, <2>3, <2>4 DEF SameSeats, ReversalOnBook, SameOrders, A, debit, placed
<1>7. CASE i = NIL /\ base # 0
  <2> DEFINE order == [kind |-> "order", trader_index |-> r.trader_index,
                       base |-> base, price |-> r.price, seq |-> m.seq,
                       last_valid |-> NO_EXPIRATION, is_bid |-> is_bid, type |-> r.type,
                       spread |-> r.spread, arrival |-> m.seq]
             inserted == InsertOrder(m, order)
  <2>1. placed = [inserted EXCEPT !.seq = @ + 1]
    BY <1>7 DEF ReversePlaced
  <2>2. debit = NotionalAtoms(is_bid, r.price, base)
    BY <1>7 DEF ReverseDebit
  <2>3. HasFreeBlock(m)
    BY <1>7 DEF CanReverse, ReverseNeedsBlock
  <2>4. r.trader_index \in Index
    BY DEF SeatIndices
  <2> HIDE DEF base
  <2>5. order \in RestingOrders /\ order.trader_index = r.trader_index
    BY <1>1, <1>3, <1>4, <2>4 DEF RestingOrders, NO_EXPIRATION
  <2>6. \A t \in Tokens : OrderbookAtoms(order, t) = IF t = A THEN debit ELSE 0
    BY <1>4, <2>2 DEF OrderbookAtoms
  <2>7. debit \in Nat
    BY <1>3, <2>2, NotionalAtomsNat
  <2> HIDE DEF order, debit, A
  <2>8. /\ MarketSound(inserted) /\ SameSeats(m, inserted)
        /\ Len(inserted.free) = Len(m.free) - 1
        /\ OrderIndices(inserted) = OrderIndices(m) \cup {Head(m.free)}
        /\ \A j \in OrderIndices(m) : inserted.data[j] = m.data[j]
        /\ inserted.data[Head(m.free)] = order
        /\ Inserted(m, inserted, order) /\ inserted.seq = m.seq
        /\ \A t \in Tokens :
              inserted.orderbook[t] = m.orderbook[t] + OrderbookAtoms(order, t)
    BY <2>3, <2>5, InsertOrderSound
  <2> HIDE DEF inserted, placed
  <2>9. /\ MarketSound(placed) /\ SameSeats(inserted, placed)
        /\ placed.free = inserted.free /\ placed.seq = inserted.seq + 1
        /\ OrderIndices(placed) = OrderIndices(inserted)
        /\ \A j \in OrderIndices(inserted) : placed.data[j] = inserted.data[j]
        /\ placed.orderbook = inserted.orderbook
    BY <2>1, <2>8, SequenceSound
  <2>10. SameSeats(m, placed)
    BY <2>8, <2>9 DEF SameSeats
  <2>11. ASSUME NEW s \in SeatIndices(m), s # r.trader_index, NoOrdersOf(m, s)
         PROVE  NoOrdersOf(placed, s)
    BY <2>5, <2>8, <2>9, <2>11 DEF NoOrdersOf
  <2>12. Len(placed.free) >= Len(m.free) - 1
    <3>1. Len(m.free) \in Nat
        BY <1>1
    <3>2. QED
        BY <2>8, <2>9, <3>1
  <2>13. ReversalOnBook(m, placed, i, r, is_bid)
    <3>1. Inserted(m, placed, order)
        BY <2>8, <2>9 DEF Inserted
    <3>2. /\ order.seq = m.seq /\ order.price = r.price /\ order.is_bid = is_bid
          /\ order.type = r.type
        BY DEF order
    <3>3. placed.seq = m.seq + 1
        BY <2>8, <2>9
    <3>4. QED
        BY <2>5, <3>1, <3>2, <3>3 DEF ReversalOnBook
  <2>14. QED
    BY <2>6, <2>7, <2>8, <2>9, <2>10, <2>11, <2>12, <2>13 DEF A, debit, placed
<1>8. CASE i # NIL
  <2> DEFINE order == m.data[i]
             added == CoalescedBase(m, i, r, is_bid)
  <2>1. /\ i \in OrderIndices(m) /\ order.is_bid = is_bid /\ order.type = r.type
        /\ order.trader_index = r.trader_index
    BY <1>5, <1>8
  <2>2. order \in RestingOrders /\ order.base \in Nat /\ order.price \in Nat
    BY <1>1, <2>1, OrderTyped DEF RestingOrders
  <2>3. added \in Nat
    <3>1. added \in Int
        BY <1>3, <2>2, ReverseBidCoalesceBaseInt, SMTT(30) DEF CoalescedBase
    <3>2. added >= 0
        BY <1>8 DEF CanReverse
    <3>3. QED
        BY <3>1, <3>2
  <2>4. placed = ResizeOrder(m, i, order.base + added)
    BY <1>8 DEF ReversePlaced
  <2>5. order.base + added \in Nat
    BY <2>2, <2>3
  <2>6. debit = IF is_bid THEN ReverseBidCoalesceQuote(order.price, order.base, added)
                          ELSE base
    BY <1>8 DEF ReverseDebit
  <2>7. ~ is_bid => added = base
    BY DEF CoalescedBase
  <2> HIDE DEF order, added, placed, debit, A, base
  <2>8. /\ MarketSound(placed) /\ SameSeats(m, placed) /\ placed.free = m.free
        /\ placed.seq = m.seq
        /\ OrderIndices(placed) = OrderIndices(m)
        /\ \A j \in OrderIndices(m) \ {i} : placed.data[j] = m.data[j]
        /\ placed.data[i] = [order EXCEPT !.base = order.base + added]
        /\ \A t \in Tokens :
              placed.orderbook[t] = m.orderbook[t] + OrderbookAtoms(placed.data[i], t)
                                                   - OrderbookAtoms(order, t)
    BY <2>1, <2>4, <2>5, ResizeOrderSound DEF order
  <2>9. /\ placed.data[i].type = r.type /\ placed.data[i].is_bid = is_bid
        /\ placed.data[i].price = order.price /\ placed.data[i].base = order.base + added
        /\ placed.data[i].trader_index = r.trader_index
    BY <2>1, <2>2, <2>8 DEF RestingOrders
  <2>10. debit \in Nat /\ \A t \in Tokens :
              OrderbookAtoms(placed.data[i], t) - OrderbookAtoms(order, t)
                  = IF t = A THEN debit ELSE 0
    <3> DEFINE q == QuoteForBase(order.price, order.base, TRUE)
               q_more == QuoteForBase(order.price, order.base + added, TRUE)
    <3>1. q \in Nat /\ q_more \in Nat /\ q <= q_more
        BY <2>2, <2>3, <2>5, QuoteForBaseNat, QuoteForBaseMonotone
    <3>2. is_bid => debit = q_more - q
        BY <2>6 DEF ReverseBidCoalesceQuote
    <3>3. \A t \in Tokens :
              /\ OrderbookAtoms(placed.data[i], t) =
                      IF t = A THEN (IF is_bid THEN q_more ELSE order.base + added) ELSE 0
              /\ OrderbookAtoms(order, t) =
                      IF t = A THEN (IF is_bid THEN q ELSE order.base) ELSE 0
        BY <1>4, <2>1, <2>9 DEF OrderbookAtoms, NotionalAtoms, A
    <3> HIDE DEF q, q_more
    <3>4. CASE is_bid
        BY <3>1, <3>2, <3>3, <3>4
    <3>5. CASE ~ is_bid
        BY <1>3, <2>2, <2>3, <2>6, <2>7, <3>3, <3>5
    <3>6. QED
        BY <3>4, <3>5
  <2>11. ASSUME NEW s \in SeatIndices(m), s # r.trader_index, NoOrdersOf(m, s)
         PROVE  NoOrdersOf(placed, s)
    BY <2>8, <2>9, <2>11 DEF NoOrdersOf
  <2>12. Len(placed.free) >= Len(m.free) - 1
    <3>1. Len(m.free) \in Nat
        BY <1>1
    <3>2. QED
        BY <2>8, <3>1
  <2>13. \A t \in Tokens :
              placed.orderbook[t] = m.orderbook[t] + (IF t = A THEN debit ELSE 0)
    <3>1. \A t \in Tokens : /\ OrderbookAtoms(placed.data[i], t) \in Int
                            /\ OrderbookAtoms(order, t) \in Int
      <4>1. placed.data[i] \in RestingOrders
          BY <2>1, <2>8, OrderTyped DEF MarketSound
      <4>2. QED
          BY <2>2, <4>1, OrderbookAtomsNat
    <3>2. QED
        BY <1>1, <2>8, <2>10, <3>1
  <2>14. ReversalOnBook(m, placed, i, r, is_bid)
    BY <2>1, <2>5, <2>8 DEF ReversalOnBook, Resized, order
  <2>15. QED
    BY <2>8, <2>10, <2>11, <2>12, <2>13, <2>14 DEF A, debit, placed
<1>9. QED
  BY <1>6, <1>7, <1>8

\* What the maker pays for its reversal is what the reversal ties up.
LEMMA ReversedSound ==
    ASSUME NEW m, MarketSound(m), NEW is_bid \in BOOLEAN, NEW r,
           r.trader_index \in SeatIndices(m), r.type \in ReversibleTypes,
           r.spread \in Spreads, r.price \in Nat, r.base \in Nat, r.quote \in Nat,
           NEW i \in LookupResults(m, is_bid, r.trader_index, r.type, r.price),
           CanReverse(m, i, r, is_bid)
    PROVE  LET n == Reversed(m, i, r, is_bid)
           IN  /\ MarketSound(n)
               /\ SameTraders(m, n)
               /\ Len(n.free) >= Len(m.free) - 1
               /\ \A t \in Tokens : Claims(n, t) = Claims(m, t)
               /\ \A s \in SeatIndices(m) :
                    /\ s # r.trader_index => (NoOrdersOf(m, s) => NoOrdersOf(n, s))
                    /\ n.data[s].bal[Backing(is_bid)] <= m.data[s].bal[Backing(is_bid)]
                    /\ n.data[s].bal[Backing(~ is_bid)] = m.data[s].bal[Backing(~ is_bid)]
               /\ ReversalOnBook(m, n, i, r, is_bid)
<1> DEFINE A == Backing(is_bid)
           base == ReverseBase(r, is_bid)
           debit == ReverseDebit(m, i, r, is_bid)
           placed == ReversePlaced(m, i, r, is_bid)
           n == Reversed(m, i, r, is_bid)
<1>1. /\ m \in Markets /\ m.seq \in Nat /\ m.free \in Seq(Index)
      /\ \A t \in Tokens : m.withdrawable[t] \in Int /\ m.orderbook[t] \in Int
  BY DEF MarketSound, Markets
<1>2. A \in Tokens
  BY BackingToken
<1>3. base \in Nat
  BY BaseForQuoteNat DEF ReverseBase
<1>4. r.type \in OrderTypes /\ r.type # "Global"
  BY DEF OrderTypes, ReversibleTypes
<1>5. i = NIL \/ /\ i \in OrderIndices(m)
                 /\ m.data[i].is_bid = is_bid /\ m.data[i].type = r.type
                 /\ m.data[i].trader_index = r.trader_index
  BY DEF LookupResults, CoalesceCandidates, BookSide
<1>6. /\ debit \in Nat
      /\ MarketSound(placed)
      /\ SameSeats(m, placed)
      /\ Len(placed.free) >= Len(m.free) - 1
      /\ \A t \in Tokens :
            placed.orderbook[t] = m.orderbook[t] + (IF t = A THEN debit ELSE 0)
      /\ \A s \in SeatIndices(m) :
            s # r.trader_index => (NoOrdersOf(m, s) => NoOrdersOf(placed, s))
      /\ ReversalOnBook(m, placed, i, r, is_bid)
  BY ReversePlacedSound DEF A, debit, placed
<1>7. n = UpdateBalance(placed, r.trader_index, A, - debit)
  BY DEF Reversed
<1>8. r.trader_index \in SeatIndices(placed)
  BY <1>6 DEF SameSeats
<1>9. placed.data[r.trader_index].bal[A] + (- debit) >= 0
  <2>1. m.data[r.trader_index].bal[A] + (- debit) >= 0
    BY DEF CanReverse, CanUpdateBalance
  <2>2. QED
    BY <1>6, <2>1 DEF SameSeats
<1> HIDE DEF placed, debit, A, n, base
<1>10. /\ MarketSound(n) /\ SameBlocks(placed, n) /\ n.orderbook = placed.orderbook
       /\ \A t \in Tokens :
             n.withdrawable[t] = placed.withdrawable[t] + (IF t = A THEN - debit ELSE 0)
       /\ \A j \in SeatIndices(placed), t \in Tokens :
             n.data[j].bal[t] = placed.data[j].bal[t]
                 + (IF j = r.trader_index /\ t = A THEN - debit ELSE 0)
  <2>1. - debit \in Int
    BY <1>6
  <2>2. MarketSound(placed) /\ A \in Tokens
    BY <1>2, <1>6
  <2>3. QED
    BY <1>7, <1>8, <1>9, <2>1, <2>2, UpdateBalanceSound
<1>11. SameTraders(m, n) /\ Len(n.free) >= Len(m.free) - 1
  BY <1>6, <1>10 DEF SameTraders, SameSeats, SameBlocks
<1>12. \A t \in Tokens : Claims(n, t) = Claims(m, t)
  BY <1>1, <1>6, <1>10 DEF Claims, SameSeats
<1>13. ASSUME NEW s \in SeatIndices(m)
       PROVE  /\ s # r.trader_index => (NoOrdersOf(m, s) => NoOrdersOf(n, s))
              /\ n.data[s].bal[A] <= m.data[s].bal[A]
              /\ n.data[s].bal[Backing(~ is_bid)] = m.data[s].bal[Backing(~ is_bid)]
  <2>1. NoOrdersOf(placed, s) => NoOrdersOf(n, s)
    BY <1>10 DEF NoOrdersOf, SameBlocks
  <2>2. placed.data[s].bal[A] = m.data[s].bal[A] /\ s \in SeatIndices(placed)
    BY <1>6 DEF SameSeats
  <2>3. m.data[s].bal[A] \in Nat
    BY <1>1, <1>2, SeatTyped DEF Seats
  <2>4. n.data[s].bal[A] <= m.data[s].bal[A]
    BY <1>2, <1>6, <1>10, <2>2, <2>3
  <2>5. n.data[s].bal[Backing(~ is_bid)] = m.data[s].bal[Backing(~ is_bid)]
    <3>1. Backing(~ is_bid) \in Tokens /\ Backing(~ is_bid) # A
        BY BackingToken DEF A
    <3>2. m.data[s].bal[Backing(~ is_bid)] \in Nat
        BY <1>1, <3>1, SeatTyped DEF Seats
    <3>3. placed.data[s] = m.data[s]
        BY <1>6 DEF SameSeats
    <3>4. QED
        BY <1>10, <2>2, <3>1, <3>2, <3>3
  <2>6. QED
    BY <1>6, <2>1, <2>4, <2>5
<1>14. ReversalOnBook(m, n, i, r, is_bid)
  <2>1. SameOrders(placed, n) /\ n.seq = placed.seq
    BY <1>10 DEF SameBlocks, SameOrders
  <2>2. CASE SameOrders(m, placed) /\ placed.seq = m.seq
    BY <2>1, <2>2 DEF SameOrders, ReversalOnBook
  <2>3. CASE /\ i \in OrderIndices(m) /\ m.data[i].type = r.type
             /\ Resized(m, placed, i) /\ placed.seq = m.seq
    <3>1. Resized(m, n, i)
        BY <2>1, <2>3 DEF SameOrders, Resized
    <3>2. QED
        BY <2>1, <2>3, <3>1 DEF ReversalOnBook
  <2>4. ASSUME NEW order \in RestingOrders,
               order.seq = m.seq, order.price = r.price, order.is_bid = is_bid,
               order.type = r.type, Inserted(m, placed, order), placed.seq = m.seq + 1
        PROVE  ReversalOnBook(m, n, i, r, is_bid)
    <3>1. Inserted(m, n, order)
        BY <2>1, <2>4 DEF SameOrders, Inserted
    <3>2. QED
        BY <2>1, <2>4, <3>1 DEF ReversalOnBook
  <2>5. QED
    BY <1>6, <2>2, <2>3, <2>4 DEF ReversalOnBook
<1>15. QED
  BY <1>10, <1>11, <1>12, <1>13, <1>14 DEF n, A

-----------------------------------------------------------------------------
(* What every committed state and every step of an instruction keeps.      *)

\* A trader has at most one seat on m.
UniqueSeats(m) ==
    \A i, j \in SeatIndices(m) : m.data[i].trader = m.data[j].trader => i = j

MatchingPhases == {"match", "reverse", "settle"}

VirtualOf(c, token) ==
    IF c.kind = "swap" /\ token = InToken(c.swap) THEN c.swap.in ELSE 0

PendingOf(c, token) == IF token = Backing(~ c.args.is_bid) THEN c.pending ELSE 0

\* Committed accounts.
AccountsSound(a) ==
    /\ a \in Accounts
    /\ MarketSound(a.m)
    /\ UniqueSeats(a.m)
    /\ HasFreeBlock(a.m)
    /\ \A token \in Tokens : a.vault[token] = Claims(a.m, token)

\* The vault of accounts w in the course of an instruction c.
Balanced(w, c) ==
    \A token \in Tokens :
        w.vault[token] + VirtualOf(c, token) + PendingOf(c, token) = Claims(w.m, token)

\* The order a swap places.
IsSwapOrder(swap, args) ==
    args.type = "ImmediateOrCancel" /\ args.is_bid = ~ swap.is_base_in

SwapSound(w, c) ==
    c.kind = "swap" =>
        /\ c.phase # "cancel"
        /\ w.m.data[c.seat].bal[InToken(c.swap)] <= c.initial[InToken(c.swap)] + c.swap.in
        /\ Len(c.orders) <= 1
        /\ \A k \in 1 .. Len(c.orders) : IsSwapOrder(c.swap, c.orders[k])
        /\ c.phase \in MatchingPhases => c.orders = <<>> /\ IsSwapOrder(c.swap, c.args)

TempSound(w, c) ==
    c.temp =>
        /\ c.kind = "swap"
        /\ c.initial = NoTokens
        /\ NoOrdersOf(w.m, c.seat)
        /\ c.phase = "reverse" => c.reversal.trader_index # c.seat

\* Blocks enough for the steps to come.
SpareSound(w, c) ==
    /\ c.phase \in {"cancel", "impact"} => HasFreeBlock(w.m)
    /\ c.phase = "next" /\ (c.kind = "batch" \/ c.orders # <<>>) => HasFreeBlock(w.m)
    /\ c.phase \in {"match", "settle"} /\ c.remaining > 0 => HasFreeBlock(w.m)
    /\ c.phase = "reverse" => Len(w.m.free) >= (IF c.remaining > 0 THEN 2 ELSE 1)

WorkSound(w, c) ==
    /\ w \in Accounts
    /\ c \in Contexts
    /\ MarketSound(w.m)
    /\ UniqueSeats(w.m)
    /\ c.seat \in SeatIndices(w.m)
    /\ c.phase = "reverse" => c.reversal.trader_index \in SeatIndices(w.m)
    /\ c.phase \notin MatchingPhases => c.pending = 0
    /\ Balanced(w, c)
    /\ SwapSound(w, c)
    /\ TempSound(w, c)
    /\ SpareSound(w, c)

IInv ==
    /\ AccountsSound(accounts)
    /\ slot \in Nat
    /\ IF ctx.phase = "idle" THEN ctx = Idle /\ work = accounts
                             ELSE WorkSound(work, ctx)

-----------------------------------------------------------------------------
(* How a step ends. *)

\* Between instructions nothing is in progress.
LEMMA IdleSound ==
    ASSUME IInv, ctx = Idle
    PROVE  AccountsSound(accounts) /\ work = accounts /\ slot \in Nat
BY DEF IInv, Idle

\* An instruction in progress.
LEMMA BusySound ==
    ASSUME IInv, ctx.phase # "idle"
    PROVE  WorkSound(work, ctx) /\ AccountsSound(accounts) /\ slot \in Nat
BY DEF IInv

LEMMA CommitSound ==
    ASSUME IInv, NEW a, AccountsSound(a), Commit(a)
    PROVE  IInv'
BY DEF IInv, Commit, Idle, AccountsSound

LEMMA AbortSound ==
    ASSUME IInv, Abort
    PROVE  IInv'
BY DEF IInv, Abort, Idle, AccountsSound

LEMMA StepSound ==
    ASSUME IInv, NEW w, NEW c, WorkSound(w, c), c.phase # "idle", Step(w, c)
    PROVE  IInv'
<1>1. WorkSound(work', ctx') /\ ctx'.phase # "idle"
  BY DEF Step
<1>2. accounts' = accounts /\ slot' = slot
  BY DEF Step
<1>3. AccountsSound(accounts)' /\ (slot \in Nat)'
  BY <1>2 DEF IInv, AccountsSound
<1>4. WorkSound(work, ctx)'
  BY <1>1 DEF WorkSound, Balanced, SwapSound, TempSound, SpareSound, AccountsSound
<1>5. QED
  BY <1>1, <1>3, <1>4 DEF IInv

-----------------------------------------------------------------------------
(* Seats. *)

LEMMA UniqueKept ==
    ASSUME NEW m, NEW n, UniqueSeats(m), SameTraders(m, n)
    PROVE  UniqueSeats(n)
BY DEF UniqueSeats, SameTraders

\* The index of a trader's seat.
LEMMA TraderIndexSound ==
    ASSUME NEW m, MarketSound(m), NEW trader
    PROVE  \/ /\ GetTraderIndex(m, trader) = NIL
              /\ \A i \in SeatIndices(m) : m.data[i].trader # trader
           \/ /\ GetTraderIndex(m, trader) # NIL
              /\ GetTraderIndex(m, trader) \in SeatIndices(m)
              /\ m.data[GetTraderIndex(m, trader)].trader = trader
<1>1. NIL \notin SeatIndices(m)
  BY DEF SeatIndices, NIL, Index
<1>2. CASE \E i \in SeatIndices(m) : m.data[i].trader = trader
  BY <1>1, <1>2 DEF GetTraderIndex
<1>3. CASE ~ \E i \in SeatIndices(m) : m.data[i].trader = trader
  BY <1>3 DEF GetTraderIndex
<1>4. QED
  BY <1>2, <1>3

\* A new seat for a trader who has none.
LEMMA ClaimUnique ==
    ASSUME NEW m, MarketSound(m), HasFreeBlock(m), UniqueSeats(m), NEW trader \in Traders,
           GetTraderIndex(m, trader) = NIL
    PROVE  UniqueSeats(ClaimSeatOn(m, trader))
<1> DEFINE n == ClaimSeatOn(m, trader)
           h == Head(m.free)
<1>1. /\ SeatIndices(n) = SeatIndices(m) \cup {h} /\ h \notin SeatIndices(m)
      /\ n.data[h] = NewSeat(trader)
      /\ \A j \in SeatIndices(m) : n.data[j] = m.data[j]
  BY ClaimSeatSound
<1>2. \A i \in SeatIndices(m) : m.data[i].trader # trader
  BY TraderIndexSound
<1>3. n.data[h].trader = trader
  BY <1>1 DEF NewSeat
<1> HIDE DEF n, h
<1>4. UniqueSeats(n)
  BY <1>1, <1>2, <1>3 DEF UniqueSeats
<1>5. QED
  BY <1>4 DEF n

-----------------------------------------------------------------------------
(* Instructions of one step. *)

LEMMA ClaimSeatStep ==
    ASSUME IInv, NEW trader \in Traders, ClaimSeat(trader)
    PROVE  IInv'
<1> DEFINE claimed == ClaimSeatOn(accounts.m, trader)
           m == ExpandIfNeeded(claimed)
           a == [accounts EXCEPT !.m = m]
<1>1. /\ GetTraderIndex(accounts.m, trader) = NIL /\ HasFreeBlock(accounts.m)
      /\ CanExpandIfNeeded(claimed) /\ Commit(a) /\ ctx = Idle
  BY DEF ClaimSeat
<1>2. AccountsSound(accounts)
  BY <1>1, IdleSound
<1>3. /\ MarketSound(accounts.m) /\ UniqueSeats(accounts.m) /\ accounts \in Accounts
      /\ \A token \in Tokens : accounts.vault[token] = Claims(accounts.m, token)
  BY <1>2 DEF AccountsSound
<1>4. /\ MarketSound(claimed) /\ claimed.withdrawable = accounts.m.withdrawable
      /\ claimed.orderbook = accounts.m.orderbook
  BY <1>1, <1>3, ClaimSeatSound
<1>5. UniqueSeats(claimed)
  BY <1>1, <1>3, ClaimUnique
<1> HIDE DEF claimed
<1>6. /\ MarketSound(m) /\ HasFreeBlock(m) /\ SameSeats(claimed, m)
      /\ m.orderbook = claimed.orderbook
  BY <1>1, <1>4, ExpandIfNeededSound
<1> HIDE DEF m
<1>7. UniqueSeats(m)
  BY <1>5, <1>6, UniqueKept DEF SameSeats, SameTraders
<1>8. \A token \in Tokens : Claims(m, token) = Claims(accounts.m, token)
  BY <1>4, <1>6 DEF Claims, SameSeats
<1>9. a \in Accounts /\ a.m = m /\ a.vault = accounts.vault
  BY <1>3, <1>6 DEF Accounts, MarketSound
<1> HIDE DEF a
<1>10. AccountsSound(a)
  BY <1>3, <1>6, <1>7, <1>8, <1>9 DEF AccountsSound
<1>11. QED
  BY <1>1, <1>10, CommitSound

LEMMA DepositStep ==
    ASSUME IInv, NEW trader \in Traders, NEW token \in Tokens, NEW atoms \in Nat,
           Deposit(trader, token, atoms)
    PROVE  IInv'
<1> DEFINE seat == GetTraderIndex(accounts.m, trader)
           m == UpdateBalance(accounts.m, seat, token, atoms)
           vault == [accounts.vault EXCEPT ![token] = @ + atoms]
           wallet == [accounts.wallet EXCEPT ![trader][token] = @ - atoms]
           a == [accounts EXCEPT !.m = m, !.vault = vault, !.wallet = wallet]
<1>1. /\ seat # NIL /\ CanUpdateBalance(accounts.m, seat, token, atoms) /\ ctx = Idle
      /\ atoms <= accounts.wallet[trader][token]
  BY DEF Deposit
<1>2. AccountsSound(accounts)
  BY <1>1, IdleSound
<1>3. /\ MarketSound(accounts.m) /\ UniqueSeats(accounts.m) /\ HasFreeBlock(accounts.m)
      /\ accounts \in Accounts
      /\ \A t \in Tokens : accounts.vault[t] = Claims(accounts.m, t)
  BY <1>2 DEF AccountsSound
<1>4. Commit(a)
  BY <1>3 DEF Deposit, Accounts
<1>5. seat \in SeatIndices(accounts.m)
  BY <1>1, <1>3, TraderIndexSound
<1> HIDE DEF seat
<1>6. /\ MarketSound(m) /\ SameBlocks(accounts.m, m) /\ m.orderbook = accounts.m.orderbook
      /\ \A t \in Tokens : m.withdrawable[t] =
                accounts.m.withdrawable[t] + (IF t = token THEN atoms ELSE 0)
  BY <1>1, <1>3, <1>5, UpdateBalanceSound DEF CanUpdateBalance
<1> HIDE DEF m
<1>7. UniqueSeats(m) /\ HasFreeBlock(m)
  BY <1>3, <1>6, UniqueKept DEF SameBlocks, SameTraders, HasFreeBlock
<1>8. /\ vault \in [Tokens -> Nat]
      /\ \A t \in Tokens : vault[t] = accounts.vault[t] + (IF t = token THEN atoms ELSE 0)
  BY <1>3 DEF Accounts
<1>9. wallet \in [Traders -> [Tokens -> Nat]]
  BY <1>1, <1>3 DEF Accounts
<1> HIDE DEF vault, wallet
<1>10. a \in Accounts /\ a.m = m /\ a.vault = vault
  BY <1>3, <1>6, <1>8, <1>9 DEF Accounts, MarketSound
<1>11. \A t \in Tokens : vault[t] = Claims(m, t)
  <2>1. \A t \in Tokens : accounts.m.withdrawable[t] \in Int /\ accounts.m.orderbook[t] \in Int
    BY <1>3 DEF MarketSound, Markets
  <2>2. QED
    BY <1>3, <1>6, <1>8, <2>1 DEF Claims
<1> HIDE DEF a
<1>12. AccountsSound(a)
  BY <1>6, <1>7, <1>10, <1>11 DEF AccountsSound
<1>13. QED
  BY <1>4, <1>12, CommitSound

LEMMA WithdrawStep ==
    ASSUME IInv, NEW trader \in Traders, NEW token \in Tokens, NEW atoms \in Nat,
           Withdraw(trader, token, atoms)
    PROVE  IInv'
<1> DEFINE seat == GetTraderIndex(accounts.m, trader)
           m == UpdateBalance(accounts.m, seat, token, - atoms)
           vault == [accounts.vault EXCEPT ![token] = @ - atoms]
           wallet == [accounts.wallet EXCEPT ![trader][token] = @ + atoms]
           a == [accounts EXCEPT !.m = m, !.vault = vault, !.wallet = wallet]
<1>1. /\ seat # NIL /\ CanUpdateBalance(accounts.m, seat, token, - atoms) /\ ctx = Idle
      /\ atoms <= accounts.vault[token]
  BY DEF Withdraw
<1>2. AccountsSound(accounts)
  BY <1>1, IdleSound
<1>3. /\ MarketSound(accounts.m) /\ UniqueSeats(accounts.m) /\ HasFreeBlock(accounts.m)
      /\ accounts \in Accounts
      /\ \A t \in Tokens : accounts.vault[t] = Claims(accounts.m, t)
  BY <1>2 DEF AccountsSound
<1>4. Commit(a)
  BY <1>3 DEF Withdraw, Accounts
<1>5. seat \in SeatIndices(accounts.m)
  BY <1>1, <1>3, TraderIndexSound
<1> HIDE DEF seat
<1>6. /\ MarketSound(m) /\ SameBlocks(accounts.m, m) /\ m.orderbook = accounts.m.orderbook
      /\ \A t \in Tokens : m.withdrawable[t] =
                accounts.m.withdrawable[t] + (IF t = token THEN - atoms ELSE 0)
  BY <1>1, <1>3, <1>5, UpdateBalanceSound DEF CanUpdateBalance
<1> HIDE DEF m
<1>7. UniqueSeats(m) /\ HasFreeBlock(m)
  BY <1>3, <1>6, UniqueKept DEF SameBlocks, SameTraders, HasFreeBlock
<1>8. /\ vault \in [Tokens -> Nat]
      /\ \A t \in Tokens : vault[t] = accounts.vault[t] + (IF t = token THEN - atoms ELSE 0)
  BY <1>1, <1>3 DEF Accounts
<1>9. wallet \in [Traders -> [Tokens -> Nat]]
  BY <1>3 DEF Accounts
<1> HIDE DEF vault, wallet
<1>10. a \in Accounts /\ a.m = m /\ a.vault = vault
  BY <1>3, <1>6, <1>8, <1>9 DEF Accounts, MarketSound
<1>11. \A t \in Tokens : vault[t] = Claims(m, t)
  <2>1. \A t \in Tokens : accounts.m.withdrawable[t] \in Int /\ accounts.m.orderbook[t] \in Int
    BY <1>3 DEF MarketSound, Markets
  <2>2. QED
    BY <1>3, <1>6, <1>8, <2>1 DEF Claims
<1> HIDE DEF a
<1>12. AccountsSound(a)
  BY <1>6, <1>7, <1>10, <1>11 DEF AccountsSound
<1>13. QED
  BY <1>4, <1>12, CommitSound

\* Expand and ExpandTo.
LEMMA ExpandedSound ==
    ASSUME IInv, ctx = Idle, NEW n \in Nat, accounts.m.num + n <= MAX_BLOCKS,
           Commit([accounts EXCEPT !.m = ExpandBy(@, n)])
    PROVE  IInv'
<1> DEFINE m == ExpandBy(accounts.m, n)
           a == [accounts EXCEPT !.m = m]
<1>1. AccountsSound(accounts)
  BY IdleSound
<1>2. /\ MarketSound(accounts.m) /\ UniqueSeats(accounts.m) /\ HasFreeBlock(accounts.m)
      /\ accounts \in Accounts
      /\ \A t \in Tokens : accounts.vault[t] = Claims(accounts.m, t)
  BY <1>1 DEF AccountsSound
<1>3. Commit(a)
  BY <1>2 DEF Accounts
<1>4. /\ MarketSound(m) /\ SameSeats(accounts.m, m)
      /\ Len(m.free) = Len(accounts.m.free) + n /\ m.orderbook = accounts.m.orderbook
  BY <1>2, ExpandBySound
<1> HIDE DEF m
<1>5. UniqueSeats(m)
  BY <1>2, <1>4, UniqueKept DEF SameSeats, SameTraders
<1>6. HasFreeBlock(m)
  <2>1. accounts.m.free \in Seq(Index) /\ m.free \in Seq(Index)
    BY <1>2, <1>4 DEF MarketSound, Markets
  <2>2. QED
    BY <1>2, <1>4, <2>1 DEF HasFreeBlock
<1>7. \A t \in Tokens : Claims(m, t) = Claims(accounts.m, t)
  BY <1>4 DEF Claims, SameSeats
<1>8. a \in Accounts /\ a.m = m /\ a.vault = accounts.vault
  BY <1>2, <1>4 DEF Accounts, MarketSound
<1> HIDE DEF a
<1>9. AccountsSound(a)
  BY <1>2, <1>4, <1>5, <1>6, <1>7, <1>8 DEF AccountsSound
<1>10. QED
  BY <1>3, <1>9, CommitSound

LEMMA ExpandStep ==
    ASSUME IInv, Expand
    PROVE  IInv'
<1>1. /\ ctx = Idle /\ accounts.m.num < MAX_BLOCKS
      /\ Commit([accounts EXCEPT !.m = ExpandBy(@, 1)])
  BY DEF Expand
<1>2. accounts.m.num \in Nat
  BY <1>1, IdleSound DEF AccountsSound, MarketSound, Markets
<1>3. accounts.m.num + 1 <= MAX_BLOCKS
  BY <1>1, <1>2, MarketAssumption
<1>4. QED
  BY <1>1, <1>3, ExpandedSound

LEMMA ExpandToStep ==
    ASSUME IInv, NEW n \in Nat, ExpandTo(n)
    PROVE  IInv'
<1> DEFINE missing == FreeBlocksShortOfN(accounts.m, n)
<1>1. /\ ctx = Idle /\ missing # NIL /\ accounts.m.num + missing <= MAX_BLOCKS
      /\ Commit([accounts EXCEPT !.m = ExpandBy(@, missing)])
  BY DEF ExpandTo
<1>2. accounts.m.free \in Seq(Index)
  BY <1>1, IdleSound DEF AccountsSound, MarketSound, Markets
<1>3. missing \in Nat
  BY <1>1, <1>2 DEF FreeBlocksShortOfN
<1> HIDE DEF missing
<1>4. QED
  BY <1>1, <1>3, ExpandedSound

\* Instructions on a global account touch neither the market nor its vault.
LEMMA GlobalSound ==
    ASSUME IInv, ctx = Idle, NEW token \in Tokens, NEW g \in Globals,
           NEW wallet \in [Traders -> [Tokens -> Nat]],
           Commit([accounts EXCEPT !.glob = [accounts.glob EXCEPT ![token] = g],
                                   !.wallet = wallet])
    PROVE  IInv'
<1> DEFINE a == [accounts EXCEPT !.glob = [accounts.glob EXCEPT ![token] = g],
                                 !.wallet = wallet]
<1>1. AccountsSound(accounts)
  BY IdleSound
<1>2. accounts \in Accounts
  BY <1>1 DEF AccountsSound
<1>3. [accounts.glob EXCEPT ![token] = g] \in [Tokens -> Globals]
  BY <1>2 DEF Accounts
<1>4. a \in Accounts /\ a.m = accounts.m /\ a.vault = accounts.vault
  BY <1>2, <1>3 DEF Accounts
<1> HIDE DEF a
<1>5. AccountsSound(a)
  BY <1>1, <1>4 DEF AccountsSound
<1>6. QED
  BY <1>5, CommitSound DEF a

\* A checked change of a deposit.
LEMMA UpdateDepositTyped ==
    ASSUME NEW g \in Globals, NEW trader \in Traders, NEW delta \in Int,
           g.dep[trader] + delta >= 0
    PROVE  UpdateDeposit(g, trader, delta) \in Globals
<1> DEFINE dep == [g.dep EXCEPT ![trader] = @ + delta]
<1>1. dep \in [Traders -> Nat]
  <2>1. g.dep \in [Traders -> Nat]
    BY DEF Globals
  <2>2. g.dep[trader] + delta \in Nat
    BY <2>1
  <2>3. QED
    BY <2>1, <2>2
<1>2. UpdateDeposit(g, trader, delta) =
        [g EXCEPT !.dep = dep, !.deposited = g.deposited + delta]
  BY DEF UpdateDeposit
<1> HIDE DEF dep
<1>3. g.deposited + delta \in Int
  BY DEF Globals
<1>4. QED
  BY <1>1, <1>2, <1>3 DEF Globals

LEMMA VaultTyped ==
    ASSUME NEW g \in Globals, NEW delta \in Int
    PROVE  [g EXCEPT !.vault = @ + delta] \in Globals
BY DEF Globals

\* A wallet pays or is paid.
LEMMA WalletTyped ==
    ASSUME NEW wallet \in [Traders -> [Tokens -> Nat]], NEW trader \in Traders,
           NEW token \in Tokens, NEW delta \in Int, wallet[trader][token] + delta >= 0
    PROVE  [wallet EXCEPT ![trader][token] = @ + delta] \in [Traders -> [Tokens -> Nat]]
<1>1. wallet[trader] \in [Tokens -> Nat] /\ wallet[trader][token] + delta \in Nat
  OBVIOUS
<1>2. [wallet[trader] EXCEPT ![token] = @ + delta] \in [Tokens -> Nat]
  BY <1>1
<1>3. QED
  BY <1>2

LEMMA GlobalAddTraderStep ==
    ASSUME IInv, NEW trader \in Traders, NEW token \in Tokens, GlobalAddTrader(trader, token)
    PROVE  IInv'
<1> DEFINE g == AddTrader(accounts.glob[token], trader)
           a == [accounts EXCEPT !.glob = [accounts.glob EXCEPT ![token] = g],
                                 !.wallet = accounts.wallet]
<1>1. ctx = Idle /\ Commit([accounts EXCEPT !.glob[token] = g])
  BY DEF GlobalAddTrader
<1>2. accounts \in Accounts
  BY <1>1, IdleSound DEF AccountsSound
<1>3. accounts.glob[token] \in Globals /\ accounts.wallet \in [Traders -> [Tokens -> Nat]]
  BY <1>2 DEF Accounts
<1>4. g \in Globals
  BY <1>3 DEF AddTrader, Globals
<1> HIDE DEF g
<1>5. a = [accounts EXCEPT !.glob[token] = g]
  BY <1>2 DEF Accounts
<1>6. Commit(a)
  BY <1>1, <1>5
<1>7. QED
  BY <1>1, <1>3, <1>4, <1>6, GlobalSound

LEMMA GlobalDepositStep ==
    ASSUME IInv, NEW trader \in Traders, NEW token \in Tokens, NEW atoms \in Nat,
           GlobalDeposit(trader, token, atoms)
    PROVE  IInv'
<1> DEFINE before == accounts.glob[token]
           updated == UpdateDeposit(before, trader, atoms)
           g == [updated EXCEPT !.vault = @ + atoms]
           wallet == [accounts.wallet EXCEPT ![trader][token] = @ - atoms]
           a == [accounts EXCEPT !.glob = [accounts.glob EXCEPT ![token] = g],
                                 !.wallet = wallet]
<1>0. Commit([accounts EXCEPT !.glob[token] = g, !.wallet[trader][token] = @ - atoms])
  BY DEF GlobalDeposit
<1> HIDE DEF g, a, wallet
<1>1. /\ ctx = Idle /\ atoms <= accounts.wallet[trader][token]
      /\ before.dep[trader] + atoms >= 0
  BY DEF GlobalDeposit, CanUpdateDeposit
<1>2. accounts \in Accounts
  BY <1>1, IdleSound DEF AccountsSound
<1>3. before \in Globals /\ accounts.wallet \in [Traders -> [Tokens -> Nat]]
  BY <1>2 DEF Accounts
<1>4. updated \in Globals
  BY <1>1, <1>3, UpdateDepositTyped
<1> HIDE DEF updated
<1>5. g \in Globals
  BY <1>4, VaultTyped DEF g
<1>6. wallet \in [Traders -> [Tokens -> Nat]]
  BY <1>1, <1>3 DEF wallet
<1>7. a = [accounts EXCEPT !.glob[token] = g, !.wallet[trader][token] = @ - atoms]
  BY DEF a, wallet
<1>8. Commit(a)
  BY <1>0, <1>7
<1>9. QED
  BY <1>1, <1>5, <1>6, <1>8, GlobalSound DEF a

LEMMA GlobalWithdrawStep ==
    ASSUME IInv, NEW trader \in Traders, NEW token \in Tokens, NEW atoms \in Nat,
           GlobalWithdraw(trader, token, atoms)
    PROVE  IInv'
<1> DEFINE before == accounts.glob[token]
           updated == UpdateDeposit(before, trader, - atoms)
           g == [updated EXCEPT !.vault = @ - atoms]
           wallet == [accounts.wallet EXCEPT ![trader][token] = @ + atoms]
           a == [accounts EXCEPT !.glob = [accounts.glob EXCEPT ![token] = g],
                                 !.wallet = wallet]
<1>0. Commit([accounts EXCEPT !.glob[token] = g, !.wallet[trader][token] = @ + atoms])
  BY DEF GlobalWithdraw
<1> HIDE DEF g, a, wallet
<1>1. ctx = Idle /\ before.dep[trader] + (- atoms) >= 0
  BY DEF GlobalWithdraw, CanUpdateDeposit
<1>2. accounts \in Accounts
  BY <1>1, IdleSound DEF AccountsSound
<1>3. before \in Globals /\ accounts.wallet \in [Traders -> [Tokens -> Nat]]
  BY <1>2 DEF Accounts
<1>4. updated \in Globals
  BY <1>1, <1>3, UpdateDepositTyped
<1> HIDE DEF updated
<1>5. g \in Globals
  BY <1>4 DEF g, Globals
<1>6. wallet \in [Traders -> [Tokens -> Nat]]
  BY <1>3 DEF wallet
<1>7. a = [accounts EXCEPT !.glob[token] = g, !.wallet[trader][token] = @ + atoms]
  BY DEF a, wallet
<1>8. Commit(a)
  BY <1>0, <1>7
<1>9. QED
  BY <1>1, <1>5, <1>6, <1>8, GlobalSound DEF a

LEMMA GlobalEvictStep ==
    ASSUME IInv, NEW trader \in Traders, NEW evictee \in Traders, NEW token \in Tokens,
           NEW atoms \in Nat, GlobalEvict(trader, evictee, token, atoms)
    PROVE  IInv'
<1> DEFINE before == accounts.glob[token]
           balance == before.dep[evictee]
           withdrawn == UpdateDeposit(before, evictee, - balance)
           emptied == [withdrawn EXCEPT !.vault = @ - balance]
           seated == EvictAndTakeSeat(emptied, evictee, trader)
           updated == UpdateDeposit(seated, trader, atoms)
           g == [updated EXCEPT !.vault = @ + atoms]
           paid == [accounts.wallet EXCEPT ![evictee][token] = @ + balance]
           wallet == [paid EXCEPT ![trader][token] = @ - atoms]
           a == [accounts EXCEPT !.glob = [accounts.glob EXCEPT ![token] = g],
                                 !.wallet = wallet]
<1>1. /\ ctx = Idle /\ atoms <= paid[trader][token]
      /\ seated.dep[trader] + atoms >= 0
      /\ Commit([accounts EXCEPT !.glob[token] = g, !.wallet = wallet])
  BY DEF GlobalEvict, CanUpdateDeposit
<1>2. accounts \in Accounts
  BY <1>1, IdleSound DEF AccountsSound
<1>3. before \in Globals /\ balance \in Nat /\ accounts.wallet \in [Traders -> [Tokens -> Nat]]
  BY <1>2 DEF Accounts, Globals
<1>4. before.dep[evictee] + (- balance) >= 0
  BY <1>3
<1>5. withdrawn \in Globals
  BY <1>3, <1>4, UpdateDepositTyped
<1> HIDE DEF balance, withdrawn
<1>6. paid \in [Traders -> [Tokens -> Nat]]
  BY <1>3
<1> HIDE DEF paid
<1>7. wallet \in [Traders -> [Tokens -> Nat]]
  BY <1>1, <1>6
<1>8. emptied \in Globals
  BY <1>3, <1>5 DEF Globals
<1> HIDE DEF emptied
<1>9. seated \in Globals
  BY <1>8 DEF EvictAndTakeSeat, Globals
<1> HIDE DEF seated
<1>10. updated \in Globals
  BY <1>1, <1>9, UpdateDepositTyped
<1> HIDE DEF updated
<1>11. g \in Globals
  BY <1>10, VaultTyped
<1> HIDE DEF g
<1>12. a = [accounts EXCEPT !.glob[token] = g, !.wallet = wallet]
  OBVIOUS
<1> HIDE DEF wallet, a
<1>13. Commit(a)
  BY <1>1, <1>12
<1>14. QED
  BY <1>1, <1>7, <1>11, <1>13, GlobalSound DEF a

LEMMA GlobalCleanStep ==
    ASSUME IInv, NEW i \in Index, GlobalClean(i)
    PROVE  IInv'
<1> DEFINE order == accounts.m.data[i]
           token == Backing(order.is_bid)
           m == ReturnOrder(accounts.m, i)
           g == [accounts.glob[token] EXCEPT !.gas =
                    IF order.type = "Global" THEN @ - 1 ELSE @]
           a == [accounts EXCEPT !.m = m, !.glob[token] = g]
<1>1. ctx = Idle /\ i \in OrderIndices(accounts.m) /\ CanReturnOrder(accounts.m, i)
  BY DEF GlobalClean, CanCancelOrder
<1>2. AccountsSound(accounts)
  BY <1>1, IdleSound
<1>3. /\ MarketSound(accounts.m) /\ UniqueSeats(accounts.m) /\ HasFreeBlock(accounts.m)
      /\ accounts \in Accounts
      /\ \A t \in Tokens : accounts.vault[t] = Claims(accounts.m, t)
  BY <1>2 DEF AccountsSound
<1>4. token \in Tokens
  BY DEF Backing, Tokens
<1>5. accounts.glob \in [Tokens -> Globals] /\ accounts.glob[token] \in Globals
  BY <1>3, <1>4 DEF Accounts
<1>6. g \in Globals
  <2>1. (IF order.type = "Global" THEN accounts.glob[token].gas - 1
                                  ELSE accounts.glob[token].gas) \in Int
    <3>1. accounts.glob[token].gas \in Int
        BY <1>5 DEF Globals
    <3> HIDE DEF token, order
    <3>2. QED
        BY <3>1
  <2>2. QED
    BY <1>5, <2>1 DEF Globals
<1>7. Commit(a)
  BY <1>3, <1>4, <1>5 DEF GlobalClean, Accounts
<1>8. /\ MarketSound(m) /\ SameTraders(accounts.m, m)
      /\ Len(m.free) = Len(accounts.m.free) + 1
      /\ \A t \in Tokens : Claims(m, t) = Claims(accounts.m, t)
  BY <1>1, <1>3, ReturnOrderSound
<1> HIDE DEF m, g, token
<1>9. UniqueSeats(m)
  BY <1>3, <1>8, UniqueKept
<1>10. HasFreeBlock(m)
  <2>1. accounts.m.free \in Seq(Index) /\ m.free \in Seq(Index)
    BY <1>3, <1>8 DEF MarketSound, Markets
  <2>2. QED
    BY <1>8, <2>1 DEF HasFreeBlock
<1>11. [accounts.glob EXCEPT ![token] = g] \in [Tokens -> Globals]
  BY <1>4, <1>5, <1>6
<1>12. a \in Accounts /\ a.m = m /\ a.vault = accounts.vault
  BY <1>3, <1>8, <1>11 DEF Accounts, MarketSound
<1> HIDE DEF a
<1>13. AccountsSound(a)
  BY <1>3, <1>8, <1>9, <1>10, <1>12 DEF AccountsSound
<1>14. QED
  BY <1>7, <1>13, CommitSound

LEMMA AdvanceSlotStep ==
    ASSUME IInv, AdvanceSlot
    PROVE  IInv'
BY DEF IInv, AdvanceSlot, AccountsSound, Idle

-----------------------------------------------------------------------------
(* BatchUpdate. *)

LEMMA NothingTyped ==
    /\ NoTokens \in [Tokens -> Nat]
    /\ NoOrder \in OrderArgs
    /\ NoSwap \in SwapArgs
    /\ NoReversal \in Reversals
    /\ Idle \in Contexts
<1>1. NoTokens \in [Tokens -> Nat]
  BY DEF NoTokens
<1>2. NoOrder \in OrderArgs
  BY DEF NoOrder, OrderArgs, OrderTypes
<1>3. NoSwap \in SwapArgs
  BY DEF NoSwap, SwapArgs
<1>4. 0 \in Index /\ 0 \in Spreads
  BY MarketAssumption DEF Index, Spreads
<1>5. NoReversal \in Reversals
  BY <1>4 DEF NoReversal, Reversals, ReversibleTypes
<1>6. <<>> \in Seq([seq : Nat, hint : {NIL} \cup Index]) /\ <<>> \in Seq(OrderArgs)
  OBVIOUS
<1>7. Idle \in Contexts
  BY <1>1, <1>2, <1>3, <1>4, <1>5, <1>6 DEF Idle, Contexts, Phases
<1>8. QED
  BY <1>1, <1>2, <1>3, <1>5, <1>7

LEMMA BatchUpdateStep ==
    ASSUME IInv, NEW trader \in Traders, NEW batch \in Batches[trader],
           NEW globals \in GlobalsPassed,
           NEW cancels \in [1 .. batch.cancels -> CancelParams(accounts.m)],
           BatchUpdate(trader, batch, globals, cancels)
    PROVE  IInv'
<1> DEFINE seat == GetTraderIndex(accounts.m, trader)
           c == [Idle EXCEPT !.phase = "cancel", !.seat = seat, !.globals = globals,
                             !.cancels = cancels, !.orders = batch.orders]
<1>1. ctx = Idle /\ seat # NIL
  BY DEF BatchUpdate
<1>2. Step(work, c)
  BY DEF BatchUpdate
<1>3. AccountsSound(accounts) /\ work = accounts
  BY <1>1, IdleSound
<1>4. /\ MarketSound(accounts.m) /\ UniqueSeats(accounts.m) /\ HasFreeBlock(accounts.m)
      /\ accounts \in Accounts
      /\ \A t \in Tokens : accounts.vault[t] = Claims(accounts.m, t)
  BY <1>3 DEF AccountsSound
<1>5. seat \in SeatIndices(accounts.m) /\ seat \in Index
  BY <1>1, <1>4, TraderIndexSound DEF SeatIndices
<1>6. batch.cancels \in Nat /\ batch.orders \in Seq(OrderArgs)
  BY ManifestAssumption
<1>7. CancelParams(accounts.m) \subseteq [seq : Nat, hint : {NIL} \cup Index]
  <2>1. accounts.m.seq \in Nat /\ accounts.m.num \in 0 .. MAX_BLOCKS
    BY <1>4 DEF MarketSound, Markets
  <2>2. 0 .. (accounts.m.seq - 1) \subseteq Nat /\ 0 .. (accounts.m.num - 1) \subseteq Index
    BY <2>1, MarketAssumption DEF Index
  <2>3. QED
    BY <2>2 DEF CancelParams
<1>8. cancels \in Seq([seq : Nat, hint : {NIL} \cup Index])
  <2> DEFINE params == [seq : Nat, hint : {NIL} \cup Index]
  <2>1. cancels \in [1 .. batch.cancels -> params]
    BY <1>7
  <2> HIDE DEF params
  <2>2. DOMAIN cancels = 1 .. batch.cancels /\ \A k \in 1 .. batch.cancels : cancels[k] \in params
    BY <2>1
  <2>3. cancels = [k \in 1 .. batch.cancels |-> cancels[k]]
    BY <2>1
  <2>4. [k \in 1 .. batch.cancels |-> cancels[k]] \in Seq(params)
    BY <1>6, <2>2
  <2>5. QED
    BY <2>3, <2>4 DEF params
<1>9. globals \in SUBSET Tokens
  BY ManifestAssumption
<1> HIDE DEF seat
<1>10. c \in Contexts
  BY <1>5, <1>6, <1>8, <1>9, NothingTyped DEF Contexts, Phases
<1>11. /\ c.phase = "cancel" /\ c.kind = "batch" /\ c.seat = seat /\ c.pending = 0
       /\ c.temp = FALSE
  BY DEF Idle
<1> HIDE DEF c
<1>12. Balanced(work, c)
  <2>1. \A t \in Tokens : accounts.vault[t] \in Nat
    BY <1>4 DEF Accounts
  <2>2. \A t \in Tokens : VirtualOf(c, t) = 0 /\ PendingOf(c, t) = 0
    BY <1>11 DEF VirtualOf, PendingOf
  <2>3. QED
    BY <1>3, <1>4, <2>1, <2>2 DEF Balanced
<1>13. WorkSound(work, c)
  BY <1>3, <1>4, <1>5, <1>10, <1>11, <1>12
     DEF WorkSound, SwapSound, TempSound, SpareSound, MatchingPhases
<1>14. QED
  BY <1>2, <1>11, <1>13, StepSound

\* A counted refund leaves the counters natural numbers.
LEMMA DeferredRefundsTyped ==
    ASSUME ctx \in Contexts, NEW order
    PROVE  DeferredRefunds(order) \in [Tokens -> Nat]
<1>1. ctx.refunds \in [Tokens -> Nat]
  BY DEF Contexts
<1>2. [ctx.refunds EXCEPT ![Backing(order.is_bid)] = @ + 1] \in [Tokens -> Nat]
  <2>1. Backing(order.is_bid) \in Tokens
    BY DEF Backing, Tokens
  <2>2. QED
    BY <1>1, <2>1
<1>3. QED
  BY <1>1, <1>2 DEF DeferredRefunds

LEMMA CancelOrderStep ==
    ASSUME IInv, CancelOrder
    PROVE  IInv'
<1>1. ctx.phase = "cancel" /\ ctx.cancels # <<>>
  BY DEF CancelOrder
<1>2. PICK i \in Index :
        /\ IsCancelTarget(i, Head(ctx.cancels))
        /\ CanReturnOrder(work.m, i)
        /\ Step([work EXCEPT !.m = ReturnOrder(@, i)],
                [ctx EXCEPT !.cancels = Tail(@), !.refunds = DeferredRefunds(work.m.data[i])])
  BY DEF CancelOrder, CanCancelOrder
<1> DEFINE m == ReturnOrder(work.m, i)
           w == [work EXCEPT !.m = m]
           c == [ctx EXCEPT !.cancels = Tail(@), !.refunds = DeferredRefunds(work.m.data[i])]
<1>3. WorkSound(work, ctx)
  BY <1>1, BusySound
<1>4. i \in OrderIndices(work.m) /\ MarketSound(work.m) /\ work \in Accounts /\ ctx \in Contexts
  BY <1>2, <1>3 DEF IsCancelTarget, WorkSound
<1>5. Step(w, c)
  BY <1>2
<1>6. /\ MarketSound(m) /\ SameTraders(work.m, m)
      /\ Len(m.free) = Len(work.m.free) + 1
      /\ \A t \in Tokens : Claims(m, t) = Claims(work.m, t)
  BY <1>2, <1>4, ReturnOrderSound
<1> HIDE DEF m
<1>7. w \in Accounts /\ w.m = m /\ w.vault = work.vault
  BY <1>4, <1>6 DEF Accounts, MarketSound
<1>8. Tail(ctx.cancels) \in Seq([seq : Nat, hint : {NIL} \cup Index])
  BY <1>1, <1>4 DEF Contexts
<1>9. c \in Contexts
  BY <1>4, <1>8, DeferredRefundsTyped DEF Contexts
<1>10. /\ c.phase = "cancel" /\ c.kind = ctx.kind /\ c.seat = ctx.seat /\ c.pending = ctx.pending
       /\ c.temp = ctx.temp /\ c.swap = ctx.swap /\ c.args = ctx.args
  BY <1>1, <1>4 DEF Contexts
<1>11. ctx.kind = "batch" /\ ctx.temp = FALSE /\ ctx.pending = 0
  BY <1>1, <1>3 DEF WorkSound, SwapSound, TempSound, Contexts, MatchingPhases
<1> HIDE DEF w, c
<1>12. UniqueSeats(m) /\ c.seat \in SeatIndices(m)
  BY <1>3, <1>6, <1>10, UniqueKept DEF WorkSound, SameTraders
<1>13. HasFreeBlock(m)
  <2>1. work.m.free \in Seq(Index) /\ m.free \in Seq(Index)
    BY <1>4, <1>6 DEF MarketSound, Markets
  <2>2. QED
    BY <1>6, <2>1 DEF HasFreeBlock
<1>14. Balanced(w, c)
  BY <1>3, <1>6, <1>7, <1>10 DEF WorkSound, Balanced, VirtualOf, PendingOf
<1>15. WorkSound(w, c)
  BY <1>6, <1>7, <1>9, <1>10, <1>11, <1>12, <1>13, <1>14
     DEF WorkSound, SwapSound, TempSound, SpareSound, MatchingPhases
<1>16. QED
  BY <1>5, <1>10, <1>15, StepSound

\* Gas alone changes on the global accounts.
LEMMA GasTyped ==
    ASSUME NEW w \in Accounts, NEW delta \in [Tokens -> Int]
    PROVE  LET glob == [token \in Tokens |->
                            [w.glob[token] EXCEPT !.gas = @ + delta[token]]]
           IN  glob \in [Tokens -> Globals]
<1>1. \A token \in Tokens : w.glob[token] \in Globals /\ delta[token] \in Int
  BY DEF Accounts
<1>2. \A token \in Tokens : [w.glob[token] EXCEPT !.gas = @ + delta[token]] \in Globals
  BY <1>1 DEF Globals
<1>3. QED
  BY <1>2

LEMMA GasPrepaymentsNat ==
    ASSUME ctx \in Contexts, NEW token \in Tokens
    PROVE  GasPrepayments(token) \in Nat
<1> DEFINE S == {k \in 1 .. Len(ctx.orders) :
                    ctx.orders[k].type = "Global" /\ Backing(ctx.orders[k].is_bid) = token}
<1>1. Len(ctx.orders) \in Nat
  BY DEF Contexts
<1>2. IsFiniteSet(1 .. Len(ctx.orders))
  BY <1>1, FS_Interval
<1>3. IsFiniteSet(S)
  BY <1>2, FS_Subset
<1>4. Cardinality(S) \in Nat
  BY <1>3, FS_CardinalityType
<1>5. QED
  BY <1>4 DEF GasPrepayments

LEMMA PrepayGasStep ==
    ASSUME IInv, PrepayGas
    PROVE  IInv'
<1> DEFINE delta == [token \in Tokens |-> GasPrepayments(token)]
           glob == [token \in Tokens |-> [work.glob[token] EXCEPT !.gas = @ + delta[token]]]
           w == [work EXCEPT !.glob = glob]
           c == [ctx EXCEPT !.phase = "next"]
<1>1. ctx.phase = "cancel"
  BY DEF PrepayGas
<1>2. WorkSound(work, ctx)
  BY <1>1, BusySound
<1>3. work \in Accounts /\ ctx \in Contexts
  BY <1>2 DEF WorkSound
<1>4. delta \in [Tokens -> Int]
  BY <1>3, GasPrepaymentsNat
<1>5. glob \in [Tokens -> Globals]
  BY <1>3, <1>4, GasTyped
<1>6. Step(w, c)
  <2>1. glob = [token \in Tokens |->
                  [work.glob[token] EXCEPT !.gas = @ + GasPrepayments(token)]]
    OBVIOUS
  <2>2. Step([work EXCEPT !.glob = [token \in Tokens |->
                  [work.glob[token] EXCEPT !.gas = @ + GasPrepayments(token)]]], c)
    BY DEF PrepayGas
  <2> HIDE DEF glob, c
  <2>3. QED
    BY <2>1, <2>2
<1> HIDE DEF glob, delta
<1>7. w \in Accounts /\ w.m = work.m /\ w.vault = work.vault
  BY <1>3, <1>5 DEF Accounts
<1>8. c \in Contexts
  BY <1>3 DEF Contexts, Phases
<1>9. /\ c.phase = "next" /\ c.kind = ctx.kind /\ c.seat = ctx.seat /\ c.pending = ctx.pending
      /\ c.temp = ctx.temp /\ c.swap = ctx.swap /\ c.args = ctx.args
  BY <1>3 DEF Contexts
<1>10. ctx.kind = "batch" /\ ctx.temp = FALSE /\ ctx.pending = 0 /\ HasFreeBlock(work.m)
  BY <1>1, <1>2 DEF WorkSound, SwapSound, TempSound, SpareSound, Contexts, MatchingPhases
<1> HIDE DEF w, c
<1>11. Balanced(w, c)
  BY <1>2, <1>7, <1>9 DEF WorkSound, Balanced, VirtualOf, PendingOf
<1>12. WorkSound(w, c)
  BY <1>2, <1>7, <1>8, <1>9, <1>10, <1>11
     DEF WorkSound, SwapSound, TempSound, SpareSound, MatchingPhases
<1>13. QED
  BY <1>6, <1>9, <1>12, StepSound

LEMMA FinishBatchStep ==
    ASSUME IInv, FinishBatch
    PROVE  IInv'
<1> DEFINE delta == [token \in Tokens |-> - ctx.refunds[token]]
           glob == [token \in Tokens |-> [work.glob[token] EXCEPT !.gas = @ + delta[token]]]
           paid == [token \in Tokens |->
                        [work.glob[token] EXCEPT !.gas = @ - ctx.refunds[token]]]
           a == [work EXCEPT !.glob = paid]
<1>1. ctx.phase = "next" /\ ctx.kind = "batch"
  BY DEF FinishBatch
<1>2. Commit(a)
  BY DEF FinishBatch
<1>3. WorkSound(work, ctx)
  BY <1>1, BusySound
<1>4. work \in Accounts /\ ctx \in Contexts /\ ctx.refunds \in [Tokens -> Nat]
  BY <1>3 DEF WorkSound, Contexts
<1>5. delta \in [Tokens -> Int]
  BY <1>4
<1>6. glob \in [Tokens -> Globals]
  BY <1>4, <1>5, GasTyped
<1>7. paid = glob
  <2>1. \A token \in Tokens :
            work.glob[token].gas - ctx.refunds[token] = work.glob[token].gas + delta[token]
    BY <1>4 DEF Accounts, Globals
  <2>2. QED
    BY <2>1
<1> HIDE DEF glob, delta, paid
<1>8. a \in Accounts /\ a.m = work.m /\ a.vault = work.vault
  BY <1>4, <1>6, <1>7 DEF Accounts
<1>9. ctx.pending = 0 /\ HasFreeBlock(work.m)
  BY <1>1, <1>3 DEF WorkSound, SpareSound, MatchingPhases
<1>10. \A t \in Tokens : work.vault[t] = Claims(work.m, t)
  <2>1. \A t \in Tokens : work.vault[t] \in Nat
    BY <1>4 DEF Accounts
  <2>2. \A t \in Tokens : VirtualOf(ctx, t) = 0 /\ PendingOf(ctx, t) = 0
    BY <1>1, <1>9 DEF VirtualOf, PendingOf
  <2>3. QED
    BY <1>3, <2>1, <2>2 DEF WorkSound, Balanced
<1> HIDE DEF a
<1>11. AccountsSound(a)
  BY <1>3, <1>8, <1>9, <1>10 DEF AccountsSound, WorkSound
<1>12. QED
  BY <1>2, <1>11, CommitSound

-----------------------------------------------------------------------------
(* place_order. *)

\* A sequence of one element has no tail.
LEMMA SingletonTail ==
    ASSUME NEW S, NEW s \in Seq(S), s # <<>>, Len(s) <= 1
    PROVE  Len(s) = 1 /\ Tail(s) = <<>>
<1>1. Len(s) \in Nat /\ Len(s) # 0
  OBVIOUS
<1>2. Len(s) = 1
  BY <1>1
<1>3. Tail(s) \in Seq(S) /\ Len(Tail(s)) = 0
  BY <1>2
<1>4. Tail(s) = <<>>
  BY <1>3
<1>5. QED
  BY <1>2, <1>4

LEMMA BeginOrderStep ==
    ASSUME IInv, BeginOrder
    PROVE  IInv'
<1> DEFINE args == Head(ctx.orders)
           m == [work.m EXCEPT !.seq = @ + 1]
           w == [work EXCEPT !.m = m]
           c == [ctx EXCEPT !.phase = "match", !.orders = Tail(@), !.args = args,
                            !.seq = work.m.seq, !.remaining = args.base, !.pending = 0,
                            !.traded = NoTokens]
<1>1. ctx.phase = "next" /\ ctx.orders # <<>>
  BY DEF BeginOrder
<1>2. WorkSound(work, ctx)
  BY <1>1, BusySound
<1>3. /\ work \in Accounts /\ ctx \in Contexts /\ MarketSound(work.m)
      /\ ctx.orders \in Seq(OrderArgs) /\ work.m.seq \in Nat
  BY <1>2 DEF WorkSound, Contexts, MarketSound, Markets
<1>4. Step(w, c)
  BY <1>3 DEF BeginOrder, Accounts
<1>5. /\ MarketSound(m) /\ SameSeats(work.m, m) /\ m.free = work.m.free
      /\ m.orderbook = work.m.orderbook
      /\ OrderIndices(m) = OrderIndices(work.m)
      /\ \A j \in OrderIndices(work.m) : m.data[j] = work.m.data[j]
  BY <1>3, SequenceSound
<1> HIDE DEF m
<1>6. w \in Accounts /\ w.m = m /\ w.vault = work.vault
  BY <1>3, <1>5 DEF Accounts, MarketSound
<1>7. args \in OrderArgs /\ args = ctx.orders[1] /\ Tail(ctx.orders) \in Seq(OrderArgs)
  BY <1>1, <1>3
<1>8. args.base \in Nat
  BY <1>7 DEF OrderArgs
<1> HIDE DEF args
<1>9. c \in Contexts
  <2>1. "match" \in Phases /\ 0 \in Nat /\ work.m.seq \in Nat /\ NoTokens \in [Tokens -> Nat]
    BY <1>3, NothingTyped DEF Phases
  <2> HIDE DEF m, w
  <2>2. QED
    BY <1>3, <1>7, <1>8, <2>1, ZenonT(60) DEF Contexts
<1>10. /\ c.phase = "match" /\ c.kind = ctx.kind /\ c.seat = ctx.seat /\ c.pending = 0
       /\ c.temp = ctx.temp /\ c.swap = ctx.swap /\ c.args = args /\ c.initial = ctx.initial
       /\ c.orders = Tail(ctx.orders)
  BY <1>3 DEF Contexts
<1>11. HasFreeBlock(m) /\ ctx.pending = 0
  BY <1>1, <1>2, <1>5 DEF WorkSound, SpareSound, HasFreeBlock, MatchingPhases
<1> HIDE DEF w, c
<1>12. UniqueSeats(m) /\ c.seat \in SeatIndices(m)
  BY <1>2, <1>5, <1>10, UniqueKept DEF WorkSound, SameSeats, SameTraders
<1>13. Balanced(w, c)
  <2>1. \A t \in Tokens : Claims(m, t) = Claims(work.m, t)
    BY <1>5 DEF Claims, SameSeats
  <2>2. QED
    BY <1>2, <1>6, <1>10, <1>11, <2>1 DEF WorkSound, Balanced, VirtualOf, PendingOf
<1>14. SwapSound(w, c)
  <2>1. m.data[ctx.seat] = work.m.data[ctx.seat]
    BY <1>2, <1>5 DEF WorkSound, SameSeats
  <2>2. ASSUME ctx.kind = "swap"
        PROVE  Tail(ctx.orders) = <<>> /\ IsSwapOrder(ctx.swap, args)
    <3>1. Len(ctx.orders) <= 1 /\ \A k \in 1 .. Len(ctx.orders) : IsSwapOrder(ctx.swap, ctx.orders[k])
        BY <1>2, <2>2 DEF WorkSound, SwapSound
    <3>2. Len(ctx.orders) = 1 /\ Tail(ctx.orders) = <<>>
        BY <1>1, <1>3, <3>1, SingletonTail
    <3>3. QED
        BY <1>7, <3>1, <3>2
  <2>3. Len(<<>>) = 0
    OBVIOUS
  <2>4. QED
    BY <1>2, <1>6, <1>10, <2>1, <2>2, <2>3 DEF WorkSound, SwapSound
<1>15. TempSound(w, c)
  BY <1>2, <1>5, <1>6, <1>10 DEF WorkSound, TempSound, NoOrdersOf
<1>16. SpareSound(w, c)
  BY <1>6, <1>10, <1>11 DEF SpareSound
<1>17. WorkSound(w, c)
  BY <1>5, <1>6, <1>9, <1>10, <1>12, <1>13, <1>14, <1>15, <1>16
     DEF WorkSound, MatchingPhases
<1>18. QED
  BY <1>4, <1>10, <1>17, StepSound

LEMMA StopMatchingStep ==
    ASSUME IInv, StopMatching
    PROVE  IInv'
<1> DEFINE c == [ctx EXCEPT !.phase = "settle"]
<1>1. ctx.phase = "match"
  BY DEF StopMatching
<1>2. Step(work, c)
  BY DEF StopMatching
<1>3. WorkSound(work, ctx)
  BY <1>1, BusySound
<1>4. ctx \in Contexts
  BY <1>3 DEF WorkSound
<1>5. c \in Contexts
  BY <1>4 DEF Contexts, Phases
<1>6. /\ c.phase = "settle" /\ c.kind = ctx.kind /\ c.seat = ctx.seat
      /\ c.pending = ctx.pending /\ c.temp = ctx.temp /\ c.swap = ctx.swap
      /\ c.args = ctx.args /\ c.initial = ctx.initial /\ c.orders = ctx.orders
      /\ c.remaining = ctx.remaining
  BY <1>4 DEF Contexts
<1> HIDE DEF c
<1>7. Balanced(work, c)
  BY <1>3, <1>6 DEF WorkSound, Balanced, VirtualOf, PendingOf
<1>8. WorkSound(work, c)
  BY <1>1, <1>3, <1>5, <1>6, <1>7
     DEF WorkSound, SwapSound, TempSound, SpareSound, MatchingPhases
<1>9. QED
  BY <1>2, <1>6, <1>8, StepSound

-----------------------------------------------------------------------------
(* The matching loop. *)

\* The swap's taker pays in the token it puts in.
LEMMA SwapPaysIn ==
    ASSUME NEW swap \in SwapArgs, NEW args, IsSwapOrder(swap, args)
    PROVE  InToken(swap) = Backing(args.is_bid)
BY DEF IsSwapOrder, InToken, SwapArgs

\* The maker is a resting order of the other side.
LEMMA MakerSound ==
    ASSUME NEW i \in Index, IsMaker(i)
    PROVE  /\ ctx.phase = "match" /\ ctx.remaining > 0
           /\ i \in OrderIndices(work.m) /\ work.m.data[i].is_bid = ~ ctx.args.is_bid
BY DEF IsMaker, BestAmong, BookSide

LEMMA CleanMakerStep ==
    ASSUME IInv, NEW i \in Index, IsMaker(i), CleanMaker(i)
    PROVE  IInv'
<1> DEFINE m == ReturnOrder(work.m, i)
           w == [work EXCEPT !.m = m]
           c == [ctx EXCEPT !.refunds = DeferredRefunds(work.m.data[i])]
<1>1. /\ ctx.phase = "match" /\ ctx.remaining > 0
      /\ i \in OrderIndices(work.m) /\ work.m.data[i].is_bid = ~ ctx.args.is_bid
  BY MakerSound
<1>2. CanReturnOrder(work.m, i) /\ Step(w, c)
  BY DEF CleanMaker
<1>3. WorkSound(work, ctx)
  BY <1>1, BusySound
<1>4. MarketSound(work.m) /\ work \in Accounts /\ ctx \in Contexts
  BY <1>3 DEF WorkSound
<1> DEFINE other == Backing(~ work.m.data[i].is_bid)
<1>5. /\ MarketSound(m) /\ SameTraders(work.m, m)
      /\ Len(m.free) = Len(work.m.free) + 1
      /\ \A t \in Tokens : Claims(m, t) = Claims(work.m, t)
      /\ \A s \in SeatIndices(work.m) :
            /\ NoOrdersOf(work.m, s) => NoOrdersOf(m, s)
            /\ m.data[s].bal[other] = work.m.data[s].bal[other]
  <2>1. MarketSound(work.m) /\ i \in OrderIndices(work.m) /\ CanReturnOrder(work.m, i)
    BY <1>1, <1>2, <1>4
  <2>2. m = ReturnOrder(work.m, i) /\ other = Backing(~ work.m.data[i].is_bid)
    OBVIOUS
  <2> HIDE DEF m, w, c, other
  <2>3. QED
    BY <2>1, <2>2, ReturnOrderSound
<1>6. other = Backing(ctx.args.is_bid)
  <2>1. ctx.args.is_bid \in BOOLEAN
    BY <1>4 DEF Contexts, OrderArgs
  <2>2. QED
    BY <1>1, <2>1
<1> HIDE DEF m, other
<1>7. w \in Accounts /\ w.m = m /\ w.vault = work.vault
  BY <1>4, <1>5 DEF Accounts, MarketSound
<1>8. c \in Contexts
  BY <1>4, DeferredRefundsTyped DEF Contexts
<1>9. /\ c.phase = "match" /\ c.kind = ctx.kind /\ c.seat = ctx.seat /\ c.pending = ctx.pending
      /\ c.temp = ctx.temp /\ c.swap = ctx.swap /\ c.args = ctx.args /\ c.initial = ctx.initial
      /\ c.orders = ctx.orders /\ c.remaining = ctx.remaining
  BY <1>1, <1>4 DEF Contexts
<1> HIDE DEF w, c
<1>10. UniqueSeats(m) /\ c.seat \in SeatIndices(m) /\ c.seat \in SeatIndices(work.m)
  BY <1>3, <1>5, <1>9, UniqueKept DEF WorkSound, SameTraders
<1>11. HasFreeBlock(m)
  <2>1. work.m.free \in Seq(Index) /\ m.free \in Seq(Index)
    BY <1>4, <1>5 DEF MarketSound, Markets
  <2>2. QED
    BY <1>5, <2>1 DEF HasFreeBlock
<1>12. Balanced(w, c)
  BY <1>3, <1>5, <1>7, <1>9 DEF WorkSound, Balanced, VirtualOf, PendingOf
<1>13. SwapSound(w, c)
  <2>1. ASSUME ctx.kind = "swap"
        PROVE  InToken(ctx.swap) = other
    <3>1. ctx.swap \in SwapArgs /\ IsSwapOrder(ctx.swap, ctx.args)
        BY <1>1, <1>3, <1>4, <2>1 DEF WorkSound, SwapSound, MatchingPhases, Contexts
    <3>2. QED
        BY <1>6, <3>1, SwapPaysIn
  <2>2. QED
    BY <1>1, <1>3, <1>5, <1>7, <1>9, <1>10, <2>1 DEF WorkSound, SwapSound
<1>14. TempSound(w, c)
  BY <1>3, <1>5, <1>7, <1>9, <1>10 DEF WorkSound, TempSound
<1>15. SpareSound(w, c)
  BY <1>7, <1>9, <1>11 DEF SpareSound
<1>16. WorkSound(w, c)
  BY <1>5, <1>7, <1>8, <1>9, <1>10, <1>12, <1>13, <1>14, <1>15
     DEF WorkSound, MatchingPhases
<1>17. QED
  BY <1>2, <1>9, <1>16, StepSound

LEMMA CleanStep ==
    ASSUME IInv, CleanStaleMaker \/ CleanUnbackedMaker
    PROVE  IInv'
BY CleanMakerStep DEF CleanStaleMaker, CleanUnbackedMaker

\* The reversed price is a price.
LEMMA ReversePriceNat ==
    ASSUME NEW order \in RestingOrders, IsReversible(order.type)
    PROVE  ReversePrice(order) \in Nat
<1> DEFINE base == SPREAD_BASE[order.type]
<1>1. /\ base \in Nat /\ base >= SPREAD_MODULUS /\ SPREAD_MODULUS \in Nat \ {0}
      /\ order.spread \in Spreads /\ order.price \in Nat
  BY MarketAssumption DEF IsReversible, RestingOrders
<1> HIDE DEF base
<1>2. /\ base \in Nat \ {0} /\ base - order.spread \in Nat \ {0}
  BY <1>1 DEF Spreads
<1>3. /\ order.price * base \in Nat /\ order.price * (base - order.spread) \in Nat
  BY <1>1, <1>2
<1>4. /\ Div(order.price * base, base - order.spread, FALSE) \in Nat
      /\ Div(order.price * (base - order.spread), base, TRUE) \in Nat
  BY <1>2, <1>3, DivNat
<1>5. QED
  BY <1>4 DEF ReversePrice, MultiplyRational, base

\* What a trade makes of the local variables.
LEMMA TradedTyped ==
    ASSUME NEW traded \in [Tokens -> Nat], NEW base \in Nat, NEW quote \in Nat
    PROVE  [base |-> traded["base"] + base, quote |-> traded["quote"] + quote]
                \in [Tokens -> Nat]
<1>1. traded["base"] + base \in Nat /\ traded["quote"] + quote \in Nat
  BY DEF Tokens
<1>2. QED
  BY <1>1 DEF Tokens

LEMMA ReversalTyped ==
    ASSUME NEW order \in RestingOrders, IsReversible(order.type), NEW base \in Nat,
           NEW quote \in Nat, NEW full \in BOOLEAN
    PROVE  [trader_index |-> order.trader_index, type |-> order.type, spread |-> order.spread,
            price |-> ReversePrice(order), base |-> base, quote |-> quote, full |-> full]
                \in Reversals
BY ReversePriceNat DEF Reversals, RestingOrders, IsReversible

\* The deposit of a global maker covers what it sells.
LEMMA BackedTyped ==
    ASSUME NEW w \in Accounts, NEW token \in Tokens, NEW maker \in Traders, NEW atoms \in Nat,
           NEW owes \in BOOLEAN, owes => atoms <= w.glob[token].dep[maker]
    PROVE  [w.glob EXCEPT ![token] = IF owes THEN UpdateDeposit(@, maker, - atoms) ELSE @]
                \in [Tokens -> Globals]
<1>1. w.glob \in [Tokens -> Globals] /\ w.glob[token] \in Globals
  BY DEF Accounts
<1>2. w.glob[token].dep[maker] \in Nat
  BY <1>1 DEF Globals
<1>3. owes => UpdateDeposit(w.glob[token], maker, - atoms) \in Globals
  BY <1>1, <1>2, UpdateDepositTyped
<1>4. QED
  BY <1>1, <1>3

\* A taker that only pays in its input token stays a sound swap.
LEMMA PaysOnlySound ==
    ASSUME SwapSound(work, ctx), ctx \in Contexts, work.m \in Markets,
           ctx.seat \in SeatIndices(work.m), ctx.phase \in MatchingPhases,
           NEW w, w.m \in Markets, ctx.seat \in SeatIndices(w.m),
           w.m.data[ctx.seat].bal[Backing(ctx.args.is_bid)]
                <= work.m.data[ctx.seat].bal[Backing(ctx.args.is_bid)],
           NEW c, c.kind = ctx.kind, c.seat = ctx.seat, c.swap = ctx.swap, c.args = ctx.args,
           c.initial = ctx.initial, c.orders = ctx.orders, c.phase \in MatchingPhases
    PROVE  SwapSound(w, c)
<1> SUFFICES ASSUME ctx.kind = "swap"
             PROVE  SwapSound(w, c)
  BY DEF SwapSound
<1>1. /\ ctx.orders = <<>> /\ IsSwapOrder(ctx.swap, ctx.args)
      /\ work.m.data[ctx.seat].bal[InToken(ctx.swap)]
            <= ctx.initial[InToken(ctx.swap)] + ctx.swap.in
  BY DEF SwapSound
<1> DEFINE t == InToken(ctx.swap)
<1>2. t = Backing(ctx.args.is_bid) /\ t \in Tokens
  <2>1. ctx.swap \in SwapArgs /\ ctx.args.is_bid \in BOOLEAN
    BY DEF Contexts, OrderArgs
  <2>2. QED
    BY <1>1, <2>1, SwapPaysIn, BackingToken
<1>3. w.m.data[ctx.seat].bal[t] <= work.m.data[ctx.seat].bal[t]
  BY <1>2
<1>4. /\ w.m.data[ctx.seat].bal[t] \in Nat /\ work.m.data[ctx.seat].bal[t] \in Nat
      /\ ctx.initial[t] \in Nat /\ ctx.swap.in \in Nat
  <2>1. w.m.data[ctx.seat] \in Seats /\ work.m.data[ctx.seat] \in Seats
    BY SeatTyped
  <2>2. ctx.initial \in [Tokens -> Nat] /\ ctx.swap \in SwapArgs
    BY DEF Contexts
  <2> HIDE DEF t
  <2>3. QED
    BY <1>2, <2>1, <2>2 DEF Seats, SwapArgs
<1> HIDE DEF t
<1>5. w.m.data[ctx.seat].bal[t] <= ctx.initial[t] + ctx.swap.in
  BY <1>1, <1>3, <1>4 DEF t
<1>6. Len(<<>>) = 0
  OBVIOUS
<1>7. c.phase # "cancel"
  BY DEF MatchingPhases
<1>8. QED
  BY <1>1, <1>5, <1>6, <1>7 DEF SwapSound, t

LEMMA FillStep ==
    ASSUME IInv, Fill
    PROVE  IInv'
<1>1. PICK i \in Index :
        LET order == work.m.data[i]
            trade == Trade(i)
            maker == work.m.data[order.trader_index].trader
            reverses == IsReversible(order.type) /\ HasReversePrice(order)
        IN  /\ IsMaker(i) /\ IsMatch(i) /\ CanFill(i)
            /\ Step([work EXCEPT
                        !.m = Traded(@, ctx.seat, i, ctx.args.is_bid, trade),
                        !.glob[MakerToken] = IF IsGlobalMaker(i)
                                             THEN UpdateDeposit(@, maker, - trade.got)
                                             ELSE @],
                    [ctx EXCEPT
                        !.phase = IF reverses THEN "reverse" ELSE @,
                        !.remaining = IF trade.full THEN @ - trade.base ELSE 0,
                        !.pending = IF IsGlobalMaker(i) THEN @ + trade.got ELSE @,
                        !.refunds = IF trade.full THEN DeferredRefunds(order) ELSE @,
                        !.traded = [base |-> @["base"] + trade.base,
                                    quote |-> @["quote"] + trade.quote],
                        !.reversal = IF ~ reverses THEN @ ELSE
                                     [trader_index |-> order.trader_index,
                                      type |-> order.type, spread |-> order.spread,
                                      price |-> ReversePrice(order), base |-> trade.base,
                                      quote |-> trade.quote, full |-> trade.full]])
  BY DEF Fill
<1> DEFINE order == work.m.data[i]
           trade == Trade(i)
           maker == work.m.data[order.trader_index].trader
           reverses == IsReversible(order.type) /\ HasReversePrice(order)
           m == Traded(work.m, ctx.seat, i, ctx.args.is_bid, trade)
           glob == [work.glob EXCEPT ![MakerToken] = IF IsGlobalMaker(i)
                                                      THEN UpdateDeposit(@, maker, - trade.got)
                                                      ELSE @]
           phase == IF reverses THEN "reverse" ELSE ctx.phase
           remaining == IF trade.full THEN ctx.remaining - trade.base ELSE 0
           pending == IF IsGlobalMaker(i) THEN ctx.pending + trade.got ELSE ctx.pending
           refunds == IF trade.full THEN DeferredRefunds(order) ELSE ctx.refunds
           traded == [base |-> ctx.traded["base"] + trade.base,
                      quote |-> ctx.traded["quote"] + trade.quote]
           reversal == IF ~ reverses THEN ctx.reversal ELSE
                           [trader_index |-> order.trader_index, type |-> order.type,
                            spread |-> order.spread, price |-> ReversePrice(order),
                            base |-> trade.base, quote |-> trade.quote, full |-> trade.full]
           w == [work EXCEPT !.m = m, !.glob = glob]
           c == [ctx EXCEPT !.phase = phase, !.remaining = remaining, !.pending = pending,
                            !.refunds = refunds, !.traded = traded, !.reversal = reversal]
<1>2. /\ ctx.phase = "match" /\ ctx.remaining > 0
      /\ i \in OrderIndices(work.m) /\ order.is_bid = ~ ctx.args.is_bid
  BY <1>1, MakerSound
<1>3. WorkSound(work, ctx)
  BY <1>2, BusySound
<1>4. /\ MarketSound(work.m) /\ work \in Accounts /\ ctx \in Contexts /\ work.m \in Markets
      /\ ctx.seat \in SeatIndices(work.m)
  BY <1>3 DEF WorkSound, MarketSound
<1>5. /\ ctx.args.is_bid \in BOOLEAN /\ ctx.remaining \in Nat /\ ctx.pending \in Nat
      /\ ctx.traded \in [Tokens -> Nat] /\ ctx.refunds \in [Tokens -> Nat]
      /\ ctx.reversal \in Reversals
  BY <1>4 DEF Contexts, OrderArgs
<1>6. Step(w, c)
  BY <1>1, <1>4 DEF Accounts
<1>7. order \in RestingOrders /\ order.trader_index \in SeatIndices(work.m)
  BY <1>2, <1>4, OrderTyped DEF MarketSound, OwnersSeated
<1>8. maker \in Traders
  BY <1>4, <1>7, SeatTyped DEF Seats
<1>9. /\ trade.base \in Nat /\ trade.base <= order.base /\ trade.base <= ctx.remaining
      /\ trade.quote \in Nat /\ trade.got \in Nat /\ trade.full \in BOOLEAN
  <2>1. trade = TradeWith(order, ctx.args.is_bid, ctx.remaining)
    BY DEF Trade
  <2> HIDE DEF trade, order
  <2>2. QED
    BY <1>5, <1>7, <2>1, TradeNat
<1>10. CanTrade(work.m, ctx.seat, order, ctx.args.is_bid, trade)
  BY <1>1 DEF CanFill
<1>11. /\ MarketSound(m) /\ SameTraders(work.m, m)
       /\ trade.full => Len(m.free) = Len(work.m.free) + 1
       /\ ~ trade.full => Len(m.free) = Len(work.m.free)
       /\ Claims(m, Backing(ctx.args.is_bid)) = Claims(work.m, Backing(ctx.args.is_bid))
       /\ order.type = "Global" => Claims(m, Backing(~ ctx.args.is_bid))
                                        = Claims(work.m, Backing(~ ctx.args.is_bid)) + trade.got
       /\ order.type # "Global" => Claims(m, Backing(~ ctx.args.is_bid))
                                        = Claims(work.m, Backing(~ ctx.args.is_bid))
       /\ m.data[ctx.seat].bal[Backing(ctx.args.is_bid)]
            <= work.m.data[ctx.seat].bal[Backing(ctx.args.is_bid)]
       /\ \A s \in SeatIndices(work.m) : NoOrdersOf(work.m, s) => NoOrdersOf(m, s)
  <2> DEFINE taker == ctx.seat
             is_bid == ctx.args.is_bid
             left == ctx.remaining
             before == work.m
  <2>1. trade = TradeWith(order, is_bid, left)
    BY DEF Trade
  <2>2. CanTrade(before, taker, order, is_bid, trade) /\ order.is_bid = ~ is_bid
    BY <1>2, <1>10
  <2>3. m = Traded(before, taker, i, is_bid, trade) /\ order = before.data[i]
    OBVIOUS
  <2>4. /\ MarketSound(before) /\ taker \in SeatIndices(before)
        /\ i \in OrderIndices(before) /\ is_bid \in BOOLEAN /\ left \in Nat
    BY <1>2, <1>4, <1>5
  <2> HIDE DEF trade, m, order, w, c, glob, maker, reverses, phase, remaining, pending,
               refunds, traded, reversal, taker, is_bid, left, before
  <2>5. IsTraded(before, m, taker, i, order, is_bid, left, trade)
    BY <2>1, <2>2, <2>3, <2>4 DEF IsTraded
  <2>6. /\ MarketSound(m) /\ SameTraders(before, m)
        /\ trade.full => Len(m.free) = Len(before.free) + 1
        /\ ~ trade.full => Len(m.free) = Len(before.free)
        /\ Claims(m, Backing(is_bid)) = Claims(before, Backing(is_bid))
        /\ order.type = "Global" =>
             Claims(m, Backing(~ is_bid)) = Claims(before, Backing(~ is_bid)) + trade.got
        /\ order.type # "Global" =>
             Claims(m, Backing(~ is_bid)) = Claims(before, Backing(~ is_bid))
        /\ m.data[taker].bal[Backing(is_bid)] <= before.data[taker].bal[Backing(is_bid)]
        /\ \A s \in SeatIndices(before) : NoOrdersOf(before, s) => NoOrdersOf(m, s)
    BY <2>4, <2>5, TradedSound
  <2>7. QED
    BY <2>6 DEF taker, is_bid, before
<1>12. MakerToken = Backing(~ ctx.args.is_bid) /\ MakerToken \in Tokens
  BY <1>5, BackingToken DEF MakerToken
<1>13. glob \in [Tokens -> Globals]
  <2>1. IsGlobalMaker(i) => trade.got <= work.glob[MakerToken].dep[maker]
    BY <1>1 DEF CanFill, IsBacked, CanBackOrder
  <2>2. IsGlobalMaker(i) \in BOOLEAN
    BY DEF IsGlobalMaker
  <2> HIDE DEF trade, maker
  <2>3. QED
    BY <1>4, <1>8, <1>9, <1>12, <2>1, <2>2, BackedTyped
<1>14. traded \in [Tokens -> Nat]
  BY <1>5, <1>9, TradedTyped
<1>15. reversal \in Reversals
  <2> HIDE DEF trade
  <2>1. QED
    BY <1>5, <1>7, <1>9, ReversalTyped
<1>16. reverses => reversal.trader_index = order.trader_index
  OBVIOUS
<1> HIDE DEF order, trade, maker
<1>17. refunds \in [Tokens -> Nat]
  BY <1>4, <1>5, DeferredRefundsTyped
<1>18. remaining \in Nat /\ pending \in Nat
  BY <1>5, <1>9
<1>19. phase \in {"match", "reverse"} /\ (phase = "reverse" <=> reverses)
  BY <1>2
<1>20. /\ trade.full => remaining = ctx.remaining - trade.base
       /\ ~ trade.full => remaining = 0
  OBVIOUS
<1>21. pending = ctx.pending + (IF order.type = "Global" THEN trade.got ELSE 0)
  BY <1>5 DEF IsGlobalMaker, order
<1> HIDE DEF m, glob, phase, remaining, pending, refunds, traded, reversal, reverses
<1>22. w \in Accounts /\ w.m = m /\ w.vault = work.vault
  BY <1>4, <1>11, <1>13 DEF Accounts, MarketSound
<1>23. c \in Contexts
  BY <1>4, <1>14, <1>15, <1>17, <1>18, <1>19 DEF Contexts, Phases
<1>24. /\ c.phase = phase /\ c.kind = ctx.kind /\ c.seat = ctx.seat /\ c.pending = pending
       /\ c.temp = ctx.temp /\ c.swap = ctx.swap /\ c.args = ctx.args /\ c.initial = ctx.initial
       /\ c.orders = ctx.orders /\ c.remaining = remaining /\ c.reversal = reversal
  BY <1>4 DEF Contexts
<1> HIDE DEF w, c
<1>25. UniqueSeats(m) /\ c.seat \in SeatIndices(m)
  BY <1>3, <1>4, <1>11, <1>24, UniqueKept DEF WorkSound, SameTraders
<1>26. c.phase = "reverse" => c.reversal.trader_index \in SeatIndices(m)
  BY <1>7, <1>11, <1>16, <1>19, <1>24 DEF SameTraders
<1>27. Balanced(w, c)
  <2> DEFINE A == Backing(ctx.args.is_bid)
             B == Backing(~ ctx.args.is_bid)
  <2>1. Tokens = {A, B} /\ A # B
    BY <1>5, BackingToken
  <2>2. \A t \in Tokens : VirtualOf(c, t) = VirtualOf(ctx, t) /\ VirtualOf(c, t) \in Nat
    BY <1>4, <1>24 DEF VirtualOf, Contexts, SwapArgs
  <2>3. PendingOf(c, A) = 0 /\ PendingOf(ctx, A) = 0
    BY <1>24, <2>1 DEF PendingOf
  <2>4. PendingOf(c, B) = pending /\ PendingOf(ctx, B) = ctx.pending
    BY <1>24, <2>1 DEF PendingOf
  <2>5. \A t \in Tokens : work.vault[t] \in Nat
    BY <1>4 DEF Accounts
  <2>6. \A t \in Tokens :
            work.vault[t] + VirtualOf(ctx, t) + PendingOf(ctx, t) = Claims(work.m, t)
    BY <1>3 DEF WorkSound, Balanced
  <2> DEFINE gained == IF order.type = "Global" THEN trade.got ELSE 0
  <2>7. gained \in Nat
    BY <1>9
  <2>7a. Claims(work.m, B) \in Int
    BY <1>4, <2>1 DEF Claims, Markets
  <2>8. Claims(m, B) = Claims(work.m, B) + gained /\ pending = ctx.pending + gained
    BY <1>11, <1>21, <2>7a DEF B
  <2>9. Claims(m, A) = Claims(work.m, A)
    BY <1>11
  <2> HIDE DEF A, B, gained
  <2>10. work.vault[A] + VirtualOf(c, A) + PendingOf(c, A) = Claims(m, A)
    BY <2>1, <2>2, <2>3, <2>6, <2>9
  <2>11. work.vault[B] + VirtualOf(c, B) + PendingOf(c, B) = Claims(m, B)
    BY <1>5, <2>1, <2>2, <2>4, <2>5, <2>6, <2>7, <2>8
  <2>12. QED
    BY <1>22, <2>1, <2>10, <2>11 DEF Balanced
<1>28. SwapSound(w, c)
  <2>1. ctx.phase \in MatchingPhases /\ c.phase \in MatchingPhases
    BY <1>2, <1>19, <1>24 DEF MatchingPhases
  <2>2. w.m \in Markets /\ ctx.seat \in SeatIndices(w.m) /\ SwapSound(work, ctx)
    BY <1>3, <1>11, <1>22, <1>24, <1>25 DEF MarketSound, WorkSound
  <2>3. QED
    BY <1>4, <1>11, <1>22, <1>24, <2>1, <2>2, PaysOnlySound
<1>29. TempSound(w, c)
  <2>1. ASSUME ctx.temp
        PROVE  NoOrdersOf(m, ctx.seat) /\ order.trader_index # ctx.seat
    <3>1. NoOrdersOf(work.m, ctx.seat)
        BY <1>3, <2>1 DEF WorkSound, TempSound
    <3>2. QED
        BY <1>2, <1>4, <1>11, <3>1 DEF NoOrdersOf, order
  <2>2. QED
    BY <1>3, <1>16, <1>19, <1>22, <1>24, <2>1 DEF WorkSound, TempSound
<1>30. SpareSound(w, c)
  <2>1. HasFreeBlock(work.m)
    BY <1>2, <1>3 DEF WorkSound, SpareSound
  <2>2. work.m.free \in Seq(Index) /\ m.free \in Seq(Index)
    BY <1>4, <1>11 DEF MarketSound, Markets
  <2>3. Len(work.m.free) \in Nat /\ Len(work.m.free) >= 1
    BY <2>1, <2>2 DEF HasFreeBlock
  <2>4. Len(m.free) >= 1 /\ (remaining > 0 => Len(m.free) >= 2)
    <3>1. CASE trade.full
        BY <1>11, <2>3, <3>1
    <3>2. CASE ~ trade.full
        BY <1>11, <1>20, <2>3, <3>2
    <3>3. QED
        BY <3>1, <3>2
  <2>5. HasFreeBlock(m)
    BY <2>2, <2>4 DEF HasFreeBlock
  <2>6. QED
    BY <1>19, <1>22, <1>24, <2>4, <2>5 DEF SpareSound
<1>31. WorkSound(w, c)
  BY <1>11, <1>19, <1>22, <1>23, <1>24, <1>25, <1>26, <1>27, <1>28, <1>29, <1>30
     DEF WorkSound, MatchingPhases
<1>32. QED
  BY <1>6, <1>19, <1>24, <1>31, StepSound

LEMMA PlaceReverseStep ==
    ASSUME IInv, PlaceReverse
    PROVE  IInv'
<1>1. ctx.phase = "reverse"
  BY DEF PlaceReverse
<1>2. PICK i \in ReverseTargets :
        /\ CanReverse(work.m, i, ctx.reversal, ctx.args.is_bid)
        /\ Step([work EXCEPT !.m = Reversed(@, i, ctx.reversal, ctx.args.is_bid)],
                [ctx EXCEPT !.phase = "match", !.reversal = NoReversal])
  BY DEF PlaceReverse
<1> DEFINE r == ctx.reversal
           A == Backing(ctx.args.is_bid)
           m == Reversed(work.m, i, r, ctx.args.is_bid)
           w == [work EXCEPT !.m = m]
           c == [ctx EXCEPT !.phase = "match", !.reversal = NoReversal]
<1>3. WorkSound(work, ctx)
  BY <1>1, BusySound
<1>4. /\ MarketSound(work.m) /\ work \in Accounts /\ ctx \in Contexts
      /\ ctx.seat \in SeatIndices(work.m) /\ r.trader_index \in SeatIndices(work.m)
  BY <1>1, <1>3 DEF WorkSound
<1>5. /\ ctx.args.is_bid \in BOOLEAN /\ ctx.remaining \in Nat /\ r \in Reversals
  BY <1>4 DEF Contexts, OrderArgs
<1>6. /\ r.type \in ReversibleTypes /\ r.spread \in Spreads
      /\ r.price \in Nat /\ r.base \in Nat /\ r.quote \in Nat
  BY <1>5 DEF Reversals
<1>7. Step(w, c)
  BY <1>2
<1>8. /\ i \in LookupResults(work.m, ctx.args.is_bid, r.trader_index, r.type, r.price)
      /\ CanReverse(work.m, i, r, ctx.args.is_bid)
  BY <1>2 DEF ReverseTargets
<1> HIDE DEF r
<1>9. /\ MarketSound(m) /\ SameTraders(work.m, m)
      /\ Len(m.free) >= Len(work.m.free) - 1
      /\ \A t \in Tokens : Claims(m, t) = Claims(work.m, t)
      /\ \A s \in SeatIndices(work.m) :
            /\ s # r.trader_index => (NoOrdersOf(work.m, s) => NoOrdersOf(m, s))
            /\ m.data[s].bal[A] <= work.m.data[s].bal[A]
  BY <1>4, <1>5, <1>6, <1>8, ReversedSound
<1> HIDE DEF m
<1>10. w \in Accounts /\ w.m = m /\ w.vault = work.vault
  BY <1>4, <1>9 DEF Accounts, MarketSound
<1>11. c \in Contexts
  BY <1>4, NothingTyped DEF Contexts, Phases
<1>12. /\ c.phase = "match" /\ c.kind = ctx.kind /\ c.seat = ctx.seat /\ c.pending = ctx.pending
       /\ c.temp = ctx.temp /\ c.swap = ctx.swap /\ c.args = ctx.args /\ c.initial = ctx.initial
       /\ c.orders = ctx.orders /\ c.remaining = ctx.remaining
  BY <1>4 DEF Contexts
<1> HIDE DEF w, c
<1>13. UniqueSeats(m) /\ c.seat \in SeatIndices(m)
  BY <1>3, <1>4, <1>9, <1>12, UniqueKept DEF WorkSound, SameTraders
<1>14. Balanced(w, c)
  BY <1>3, <1>9, <1>10, <1>12 DEF WorkSound, Balanced, VirtualOf, PendingOf
<1>15. SwapSound(w, c)
  <2>1. ctx.phase \in MatchingPhases /\ c.phase \in MatchingPhases
    BY <1>1, <1>12 DEF MatchingPhases
  <2>2. /\ w.m \in Markets /\ ctx.seat \in SeatIndices(w.m) /\ SwapSound(work, ctx)
        /\ work.m \in Markets
    BY <1>3, <1>4, <1>9, <1>10, <1>12, <1>13 DEF MarketSound, WorkSound
  <2>3. w.m.data[ctx.seat].bal[Backing(ctx.args.is_bid)]
            <= work.m.data[ctx.seat].bal[Backing(ctx.args.is_bid)]
    BY <1>4, <1>9, <1>10 DEF A
  <2>4. QED
    BY <1>4, <1>12, <2>1, <2>2, <2>3, PaysOnlySound
<1>16. TempSound(w, c)
  BY <1>1, <1>3, <1>4, <1>9, <1>10, <1>12 DEF WorkSound, TempSound, r
<1>17. SpareSound(w, c)
  <2>1. work.m.free \in Seq(Index) /\ m.free \in Seq(Index)
    BY <1>4, <1>9 DEF MarketSound, Markets
  <2>2. Len(work.m.free) \in Nat /\ Len(m.free) \in Nat
    BY <2>1
  <2>3. ctx.remaining > 0 => Len(work.m.free) >= 2
    BY <1>1, <1>3 DEF WorkSound, SpareSound
  <2>4. ctx.remaining > 0 => HasFreeBlock(m)
    BY <1>9, <2>1, <2>2, <2>3 DEF HasFreeBlock
  <2>5. QED
    BY <1>10, <1>12, <2>4 DEF SpareSound
<1>18. WorkSound(w, c)
  BY <1>9, <1>10, <1>11, <1>12, <1>13, <1>14, <1>15, <1>16, <1>17
     DEF WorkSound, MatchingPhases
<1>19. QED
  BY <1>7, <1>12, <1>18, StepSound

-----------------------------------------------------------------------------
(* The end of place_order. *)

\* The order that comes to rest is an order.
LEMMA RestingOrderTyped ==
    ASSUME ctx \in Contexts, NEW m \in Markets, ctx.seat \in SeatIndices(m)
    PROVE  RestingOrder(m) \in RestingOrders
<1>1. /\ ctx.args.is_bid \in BOOLEAN /\ ctx.args.price \in Nat /\ ctx.args.last_valid \in Nat
      /\ ctx.args.type \in OrderTypes /\ ctx.remaining \in Nat /\ ctx.seq \in Nat
  BY DEF Contexts, OrderArgs
<1>2. m.seq \in Nat /\ ctx.seat \in Index
  BY SeatTyped DEF Markets
<1>3. ctx.args.last_valid % SPREAD_MODULUS \in Spreads /\ 0 \in Spreads
  BY <1>1, MarketAssumption DEF Spreads
<1>4. QED
  BY <1>1, <1>2, <1>3 DEF RestingOrder, RestingOrders, NO_EXPIRATION

\* Resting an order moves atoms from its owner's balance into the book.
LEMMA RestedSound ==
    ASSUME ctx \in Contexts, MarketSound(work.m), ctx.seat \in SeatIndices(work.m),
           CanRestOn(work.m)
    PROVE  LET n == Rested(work.m)
           IN  /\ MarketSound(n)
               /\ SameTraders(work.m, n)
               /\ \A t \in Tokens : Claims(n, t) = Claims(work.m, t)
               /\ Inserted(work.m, n, RestingOrder(work.m)) /\ n.seq = work.m.seq
<1> DEFINE m == work.m
           seat == ctx.seat
           token == Backing(ctx.args.is_bid)
           order == RestingOrder(m)
           paid == UpdateBalance(m, seat, token, - RestNotional)
           n == Rested(m)
<1>1. /\ ctx.args.is_bid \in BOOLEAN /\ ctx.args.price \in Nat /\ ctx.remaining \in Nat
      /\ token \in Tokens
  BY BackingToken DEF Contexts, OrderArgs
<1>2. RestNotional \in Nat
  BY <1>1, NotionalAtomsNat DEF RestNotional
<1>3. /\ m \in Markets /\ HasFreeBlock(m) /\ MarketSound(m) /\ seat \in SeatIndices(m)
  BY DEF MarketSound, CanRestOn
<1>4. order \in RestingOrders
  BY <1>3, RestingOrderTyped
<1>5. /\ order.trader_index = seat /\ order.type = ctx.args.type
      /\ order.is_bid = ctx.args.is_bid
      /\ order.price = ctx.args.price /\ order.base = ctx.remaining
  BY DEF RestingOrder
<1>6. \A t \in Tokens : OrderbookAtoms(order, t) =
            IF ctx.args.type # "Global" /\ t = token THEN RestNotional ELSE 0
  BY <1>5 DEF OrderbookAtoms, RestNotional
<1>7. \A t \in Tokens : m.withdrawable[t] \in Int /\ m.orderbook[t] \in Int
  BY <1>3 DEF Markets
<1>8. CASE ctx.args.type = "Global"
  <2>1. n = InsertOrder(m, order)
    BY <1>8 DEF Rested
  <2> HIDE DEF m, seat, order, n
  <2>2. /\ MarketSound(n) /\ SameSeats(m, n)
        /\ \A t \in Tokens : n.orderbook[t] = m.orderbook[t] + OrderbookAtoms(order, t)
        /\ Inserted(m, n, order) /\ n.seq = m.seq
    BY <1>3, <1>4, <1>5, <2>1, InsertOrderSound
  <2>3. \A t \in Tokens : Claims(n, t) = Claims(m, t)
    BY <1>6, <1>7, <1>8, <2>2 DEF Claims, SameSeats
  <2>4. QED
    BY <2>2, <2>3 DEF SameSeats, SameTraders, n, m, order
<1>9. CASE ctx.args.type # "Global"
  <2>1. n = InsertOrder(paid, order)
    BY <1>9 DEF Rested
  <2>2. m.data[seat].bal[token] + (- RestNotional) >= 0
    BY <1>9 DEF CanRestOn, CanUpdateBalance
  <2> HIDE DEF m, seat, order, n
  <2>3. - RestNotional \in Int
    BY <1>2
  <2>4. /\ MarketSound(paid) /\ SameBlocks(m, paid) /\ paid.orderbook = m.orderbook
        /\ \A t \in Tokens : paid.withdrawable[t] =
                m.withdrawable[t] + (IF t = token THEN - RestNotional ELSE 0)
    BY <1>1, <1>3, <2>2, <2>3, UpdateBalanceSound
  <2> HIDE DEF paid
  <2>5. HasFreeBlock(paid) /\ order.trader_index \in SeatIndices(paid)
    BY <1>3, <1>5, <2>4 DEF SameBlocks, HasFreeBlock
  <2>6. /\ MarketSound(n) /\ SameSeats(paid, n)
        /\ \A t \in Tokens : n.orderbook[t] = paid.orderbook[t] + OrderbookAtoms(order, t)
        /\ Inserted(paid, n, order) /\ n.seq = paid.seq
    BY <1>4, <2>1, <2>4, <2>5, InsertOrderSound
  <2>7. \A t \in Tokens : Claims(n, t) = Claims(m, t)
    <3>1. \A t \in Tokens : OrderbookAtoms(order, t) = IF t = token THEN RestNotional ELSE 0
        BY <1>6, <1>9
    <3>2. QED
        BY <1>2, <1>7, <2>4, <2>6, <3>1 DEF Claims, SameSeats
  <2>8. Inserted(m, n, order) /\ n.seq = m.seq
    BY <2>4, <2>6 DEF Inserted, SameBlocks
  <2>9. QED
    BY <2>4, <2>6, <2>7, <2>8 DEF SameSeats, SameBlocks, SameTraders, n, m, order
<1>10. QED
  BY <1>8, <1>9

\* The global vault pays what its makers sold.
LEMMA GlobalPaid ==
    ASSUME NEW w \in Accounts, NEW token \in Tokens, NEW atoms \in Nat
    PROVE  [w.glob EXCEPT ![token].vault = @ - atoms] \in [Tokens -> Globals]
<1>1. w.glob \in [Tokens -> Globals] /\ w.glob[token] \in Globals
  BY DEF Accounts
<1>2. [w.glob[token] EXCEPT !.vault = @ - atoms] \in Globals
  BY <1>1 DEF Globals
<1>3. QED
  BY <1>1, <1>2

LEMMA FinishOrderStep ==
    ASSUME IInv, FinishOrder
    PROVE  IInv'
<1> DEFINE m == IF ctx.kind = "batch" THEN ExpandIfNeeded(AfterRest) ELSE AfterRest
           vault == [work.vault EXCEPT ![MakerToken] = @ + ctx.pending]
           glob == [work.glob EXCEPT ![MakerToken].vault = @ - ctx.pending]
           w == [work EXCEPT !.vault = vault, !.glob = glob, !.m = m]
           c == [ctx EXCEPT !.phase = "next", !.pending = 0, !.remaining = 0, !.seq = 0]
<1>1. ctx.phase = "settle" /\ CanFinishOrder
  BY DEF FinishOrder
<1>2. WorkSound(work, ctx)
  BY <1>1, BusySound
<1>3. /\ MarketSound(work.m) /\ work \in Accounts /\ ctx \in Contexts
      /\ ctx.seat \in SeatIndices(work.m)
  BY <1>2 DEF WorkSound
<1>4. Step(w, c)
  BY <1>3 DEF FinishOrder, Accounts
<1>5. /\ MakerToken \in Tokens /\ MakerToken = Backing(~ ctx.args.is_bid)
      /\ ctx.pending \in Nat
  BY <1>3, BackingToken DEF MakerToken, Contexts, OrderArgs
<1>6. /\ vault \in [Tokens -> Nat]
      /\ \A t \in Tokens :
            vault[t] = work.vault[t] + (IF t = MakerToken THEN ctx.pending ELSE 0)
  BY <1>3, <1>5 DEF Accounts
<1>7. glob \in [Tokens -> Globals]
  BY <1>3, <1>5, GlobalPaid
<1>8. /\ MarketSound(AfterRest) /\ SameTraders(work.m, AfterRest)
      /\ \A t \in Tokens : Claims(AfterRest, t) = Claims(work.m, t)
  <2>1. CASE Rests
    <3>1. CanRestOn(work.m)
        BY <1>1, <2>1 DEF CanFinishOrder
    <3>2. AfterRest = Rested(work.m)
        BY <2>1 DEF AfterRest
    <3>3. QED
        BY <1>3, <3>1, <3>2, RestedSound
  <2>2. CASE ~ Rests
    BY <1>3, <2>2 DEF AfterRest, SameTraders
  <2>3. QED
    BY <2>1, <2>2
<1>9. ctx.kind = "swap" => m = work.m
  <2>1. ctx.kind = "swap" => ~ CanRest(ctx.args.type)
    BY <1>1, <1>2 DEF WorkSound, SwapSound, MatchingPhases, IsSwapOrder, CanRest
  <2>2. ctx.kind = "swap" => AfterRest = work.m
    BY <2>1 DEF AfterRest, Rests
  <2>3. QED
    BY <2>2
<1>10. /\ MarketSound(m) /\ SameTraders(work.m, m)
       /\ \A t \in Tokens : Claims(m, t) = Claims(work.m, t)
       /\ ctx.kind = "batch" => HasFreeBlock(m)
  <2> DEFINE n == AfterRest
  <2>1. /\ MarketSound(n) /\ SameTraders(work.m, n)
        /\ \A t \in Tokens : Claims(n, t) = Claims(work.m, t)
    BY <1>8
  <2>2. CASE ctx.kind = "batch"
    <3>1. CanExpandIfNeeded(n) /\ m = ExpandIfNeeded(n)
        BY <1>1, <2>2 DEF CanFinishOrder
    <3> HIDE DEF n, m
    <3>2. MarketSound(m) /\ HasFreeBlock(m) /\ SameSeats(n, m) /\ m.orderbook = n.orderbook
        BY <2>1, <3>1, ExpandIfNeededSound
    <3>3. QED
        BY <2>1, <3>2 DEF SameSeats, SameTraders, Claims
  <2>3. CASE ctx.kind # "batch"
    BY <2>1, <2>3
  <2>4. QED
    BY <2>2, <2>3
<1> HIDE DEF m, vault, glob
<1>11. w \in Accounts /\ w.m = m /\ w.vault = vault
  BY <1>3, <1>6, <1>7, <1>10 DEF Accounts, MarketSound
<1>12. c \in Contexts
  BY <1>3 DEF Contexts, Phases
<1>13. /\ c.phase = "next" /\ c.kind = ctx.kind /\ c.seat = ctx.seat /\ c.pending = 0
       /\ c.temp = ctx.temp /\ c.swap = ctx.swap /\ c.args = ctx.args /\ c.initial = ctx.initial
       /\ c.orders = ctx.orders
  BY <1>3 DEF Contexts
<1> HIDE DEF w, c
<1>14. UniqueSeats(m) /\ c.seat \in SeatIndices(m)
  BY <1>2, <1>3, <1>10, <1>13, UniqueKept DEF WorkSound, SameTraders
<1>15. Balanced(w, c)
  <2>1. \A t \in Tokens :
            /\ VirtualOf(c, t) = VirtualOf(ctx, t) /\ VirtualOf(ctx, t) \in Nat
            /\ PendingOf(c, t) = 0
            /\ PendingOf(ctx, t) = IF t = MakerToken THEN ctx.pending ELSE 0
    BY <1>3, <1>5, <1>13 DEF VirtualOf, PendingOf, Contexts, SwapArgs
  <2>2. \A t \in Tokens : work.vault[t] \in Nat
    BY <1>3 DEF Accounts
  <2>3. QED
    BY <1>2, <1>5, <1>6, <1>10, <1>11, <2>1, <2>2 DEF WorkSound, Balanced
<1>16. SwapSound(w, c)
  <2>1. Len(<<>>) = 0
    OBVIOUS
  <2>2. QED
    BY <1>1, <1>2, <1>9, <1>11, <1>13, <2>1 DEF WorkSound, SwapSound, MatchingPhases
<1>17. TempSound(w, c)
  BY <1>2, <1>9, <1>11, <1>13 DEF WorkSound, TempSound
<1>18. SpareSound(w, c)
  <2>1. ctx.kind = "swap" => ctx.orders = <<>>
    BY <1>1, <1>2 DEF WorkSound, SwapSound, MatchingPhases
  <2>2. ctx.kind \in {"batch", "swap"}
    BY <1>3 DEF Contexts
  <2>3. QED
    BY <1>10, <1>11, <1>13, <2>1, <2>2 DEF SpareSound
<1>19. WorkSound(w, c)
  BY <1>10, <1>11, <1>12, <1>13, <1>14, <1>15, <1>16, <1>17, <1>18
     DEF WorkSound, MatchingPhases
<1>20. QED
  BY <1>4, <1>13, <1>19, StepSound

-----------------------------------------------------------------------------
(* Swap. *)

LEMMA SwapOrderTyped ==
    ASSUME NEW swap \in SwapArgs, NEW base_atoms \in Nat
    PROVE  /\ <<SwapOrder(swap, base_atoms)>> \in Seq(OrderArgs)
           /\ Len(<<SwapOrder(swap, base_atoms)>>) = 1
           /\ IsSwapOrder(swap, <<SwapOrder(swap, base_atoms)>>[1])
<1>1. MIN_PRICE \in Nat /\ MAX_PRICE \in Nat /\ NO_EXPIRATION \in Nat
  BY ManifestAssumption DEF MIN_PRICE, NO_EXPIRATION
<1>2. swap.is_base_in \in BOOLEAN
  BY DEF SwapArgs
<1>3. SwapOrder(swap, base_atoms) \in OrderArgs
  BY <1>1, <1>2 DEF SwapOrder, OrderArgs, OrderTypes
<1>4. IsSwapOrder(swap, SwapOrder(swap, base_atoms))
  BY DEF SwapOrder, IsSwapOrder
<1> DEFINE order == SwapOrder(swap, base_atoms)
<1> HIDE DEF order
<1>5. <<order>> \in Seq(OrderArgs) /\ Len(<<order>>) = 1 /\ <<order>>[1] = order
  BY <1>3 DEF order
<1>6. QED
  BY <1>4, <1>5 DEF order

\* The seat a swap uses: its trader's, or a new one without orders and balances.
LEMMA SwapSeated ==
    ASSUME NEW a, AccountsSound(a), NEW trader \in Traders,
           NEW existing, existing = GetTraderIndex(a.m, trader),
           NEW seated, seated = IF existing = NIL THEN ClaimSeatOn(a.m, trader) ELSE a.m,
           CanExpandIfNeeded(seated),
           NEW m, m = ExpandIfNeeded(seated),
           NEW seat, seat = GetTraderIndex(m, trader)
    PROVE  /\ MarketSound(m) /\ UniqueSeats(m) /\ HasFreeBlock(m)
           /\ \A t \in Tokens : Claims(m, t) = Claims(a.m, t)
           /\ seat \in SeatIndices(m)
           /\ existing = NIL => NoOrdersOf(m, seat) /\ m.data[seat].bal = NoTokens
<1>1. MarketSound(a.m) /\ UniqueSeats(a.m) /\ HasFreeBlock(a.m)
  BY DEF AccountsSound
<1> DEFINE h == IF existing = NIL THEN Head(a.m.free) ELSE existing
<1>2. /\ MarketSound(seated) /\ UniqueSeats(seated)
      /\ seated.withdrawable = a.m.withdrawable /\ seated.orderbook = a.m.orderbook
      /\ h \in SeatIndices(seated) /\ seated.data[h].trader = trader
      /\ existing = NIL => NoOrdersOf(seated, h) /\ seated.data[h].bal = NoTokens
  <2>1. CASE existing = NIL
    <3> DEFINE n == ClaimSeatOn(a.m, trader)
               k == Head(a.m.free)
    <3>1. seated = n /\ h = k
        BY <2>1
    <3>2. /\ MarketSound(n) /\ SeatIndices(n) = SeatIndices(a.m) \cup {k}
          /\ k \notin SeatIndices(a.m) /\ n.data[k] = NewSeat(trader)
          /\ OrderIndices(n) = OrderIndices(a.m)
          /\ \A j \in OrderIndices(a.m) : n.data[j] = a.m.data[j]
          /\ n.withdrawable = a.m.withdrawable /\ n.orderbook = a.m.orderbook
        BY <1>1, ClaimSeatSound
    <3>3. UniqueSeats(n)
        BY <1>1, <2>1, ClaimUnique
    <3> HIDE DEF n, k, h
    <3>4. NoOrdersOf(n, k)
        BY <1>1, <3>2 DEF MarketSound, OwnersSeated, NoOrdersOf
    <3>5. n.data[k].trader = trader /\ n.data[k].bal = NoTokens
        BY <3>2 DEF NewSeat, NoTokens
    <3>6. QED
        BY <3>1, <3>2, <3>3, <3>4, <3>5
  <2>2. CASE existing # NIL
    BY <1>1, <2>2, TraderIndexSound
  <2>3. QED
    BY <2>1, <2>2
<1> HIDE DEF h
<1>3. /\ MarketSound(m) /\ HasFreeBlock(m) /\ SameSeats(seated, m)
      /\ OrderIndices(m) = OrderIndices(seated)
      /\ \A j \in OrderIndices(seated) : m.data[j] = seated.data[j]
      /\ m.orderbook = seated.orderbook
  BY <1>2, ExpandIfNeededSound
<1>4. UniqueSeats(m)
  BY <1>2, <1>3, UniqueKept DEF SameSeats, SameTraders
<1>5. \A t \in Tokens : Claims(m, t) = Claims(a.m, t)
  BY <1>2, <1>3 DEF Claims, SameSeats
<1>6. h \in SeatIndices(m) /\ m.data[h] = seated.data[h]
  BY <1>2, <1>3 DEF SameSeats
<1>7. seat \in SeatIndices(m) /\ m.data[seat].trader = trader
  BY <1>2, <1>3, <1>6, TraderIndexSound
<1>8. seat = h
  BY <1>2, <1>4, <1>6, <1>7 DEF UniqueSeats
<1>9. existing = NIL => NoOrdersOf(m, seat) /\ m.data[seat].bal = NoTokens
  BY <1>2, <1>3, <1>6, <1>8 DEF NoOrdersOf
<1>10. QED
  BY <1>3, <1>4, <1>5, <1>7, <1>9

LEMMA SwapStep ==
    ASSUME IInv, NEW trader \in Traders, NEW swap \in Swaps[trader],
           NEW globals \in GlobalsPassed, Swap(trader, swap, globals)
    PROVE  IInv'
<1> DEFINE existing == GetTraderIndex(accounts.m, trader)
           seated == IF existing = NIL THEN ClaimSeatOn(accounts.m, trader) ELSE accounts.m
           m == ExpandIfNeeded(seated)
           seat == GetTraderIndex(m, trader)
           token == InToken(swap)
           initial == m.data[seat].bal
           begun == [Idle EXCEPT !.kind = "swap", !.seat = seat, !.globals = globals,
                                 !.swap = swap, !.temp = (existing = NIL),
                                 !.initial = initial]
           n == UpdateBalance(m, seat, token, swap.in)
           w == [work EXCEPT !.m = n]
           walk == [begun EXCEPT !.phase = "impact", !.left = SizingAtoms(swap)]
           order == [begun EXCEPT !.phase = "next",
                                  !.orders = <<SwapOrder(swap, SizingAtoms(swap))>>]
           c == IF IsQuoteSized(swap) THEN walk ELSE order
<1>1. ctx = Idle /\ CanExpandIfNeeded(seated) /\ CanUpdateBalance(m, seat, token, swap.in)
  BY DEF Swap
<1>2. Step(w, c)
  BY DEF Swap
<1>3. AccountsSound(accounts) /\ work = accounts
  BY <1>1, IdleSound
<1>4. /\ accounts \in Accounts
      /\ \A t \in Tokens : accounts.vault[t] = Claims(accounts.m, t)
  BY <1>3 DEF AccountsSound
<1>5. /\ swap \in SwapArgs /\ swap.in \in Nat /\ SizingAtoms(swap) \in Nat
      /\ token \in Tokens
  <2>1. swap \in SwapArgs
    BY ManifestAssumption
  <2>2. QED
    BY <2>1 DEF SwapArgs, SizingAtoms, InToken, Backing, Tokens
<1>6. globals \in SUBSET Tokens
  BY ManifestAssumption
<1>7. /\ MarketSound(m) /\ UniqueSeats(m) /\ HasFreeBlock(m)
      /\ \A t \in Tokens : Claims(m, t) = Claims(accounts.m, t)
      /\ seat \in SeatIndices(m)
      /\ existing = NIL => NoOrdersOf(m, seat) /\ initial = NoTokens
  BY <1>1, <1>3, SwapSeated
<1> HIDE DEF existing, seated, m, seat, token
<1>8. seat \in Index /\ initial \in [Tokens -> Nat]
  BY <1>7, SeatTyped DEF MarketSound, Seats
<1>9. initial[token] + swap.in >= 0
  BY <1>5, <1>8
<1>10. /\ MarketSound(n) /\ SameBlocks(m, n) /\ n.orderbook = m.orderbook
       /\ \A t \in Tokens :
            n.withdrawable[t] = m.withdrawable[t] + (IF t = token THEN swap.in ELSE 0)
       /\ \A j \in SeatIndices(m), t \in Tokens :
            n.data[j].bal[t] = m.data[j].bal[t] + (IF j = seat /\ t = token THEN swap.in ELSE 0)
  <2>1. swap.in \in Int
    BY <1>5
  <2>2. QED
    BY <1>5, <1>7, <1>9, <2>1, UpdateBalanceSound
<1>11. n.data[seat].bal[token] = initial[token] + swap.in
  BY <1>5, <1>7, <1>10
<1> HIDE DEF n, initial
<1>12. w \in Accounts /\ w.m = n /\ w.vault = accounts.vault
  BY <1>3, <1>4, <1>10 DEF Accounts, MarketSound
<1>13. /\ <<SwapOrder(swap, SizingAtoms(swap))>> \in Seq(OrderArgs)
       /\ Len(<<SwapOrder(swap, SizingAtoms(swap))>>) = 1
       /\ IsSwapOrder(swap, <<SwapOrder(swap, SizingAtoms(swap))>>[1])
  BY <1>5, SwapOrderTyped
<1>14. begun \in Contexts
  <2>1. (existing = NIL) \in BOOLEAN
    OBVIOUS
  <2>2. QED
    BY <1>5, <1>6, <1>8, <2>1, NothingTyped DEF Contexts
<1>15. /\ begun.kind = "swap" /\ begun.seat = seat /\ begun.swap = swap
       /\ begun.temp = (existing = NIL) /\ begun.initial = initial /\ begun.orders = <<>>
       /\ begun.pending = 0 /\ begun.phase = "idle" /\ begun.remaining = 0
  BY DEF Idle
<1> DEFINE orders == <<SwapOrder(swap, SizingAtoms(swap))>>
<1> HIDE DEF begun, orders
<1>16. c \in Contexts
  <2>1. walk \in Contexts
    BY <1>5, <1>14 DEF Contexts, Phases
  <2>2. order \in Contexts
    BY <1>13, <1>14 DEF Contexts, Phases
  <2>3. QED
    BY <2>1, <2>2
<1>17. /\ c.phase \in {"impact", "next"} /\ c.kind = "swap" /\ c.seat = seat /\ c.swap = swap
       /\ c.temp = (existing = NIL) /\ c.initial = initial /\ c.pending = 0
       /\ c.orders = <<>> \/ c.orders = orders
  <2>1. /\ walk.phase = "impact" /\ walk.kind = "swap" /\ walk.seat = seat /\ walk.swap = swap
        /\ walk.temp = (existing = NIL) /\ walk.initial = initial /\ walk.pending = 0
        /\ walk.orders = <<>>
    BY <1>14, <1>15 DEF Contexts
  <2>2. /\ order.phase = "next" /\ order.kind = "swap" /\ order.seat = seat /\ order.swap = swap
        /\ order.temp = (existing = NIL) /\ order.initial = initial /\ order.pending = 0
        /\ order.orders = orders
    BY <1>14, <1>15 DEF Contexts, orders
  <2> HIDE DEF walk, order
  <2>3. QED
    BY <2>1, <2>2
<1> HIDE DEF w, c
<1>18. UniqueSeats(n) /\ c.seat \in SeatIndices(n) /\ HasFreeBlock(n)
  BY <1>7, <1>10, <1>17, UniqueKept DEF SameBlocks, SameTraders, HasFreeBlock
<1>19. Balanced(w, c)
  <2>1. \A t \in Tokens : /\ VirtualOf(c, t) = IF t = token THEN swap.in ELSE 0
                          /\ PendingOf(c, t) = 0
    BY <1>17 DEF VirtualOf, PendingOf, token
  <2>2. \A t \in Tokens : /\ accounts.vault[t] \in Nat
                          /\ m.withdrawable[t] \in Int /\ m.orderbook[t] \in Int
    BY <1>4, <1>7 DEF Accounts, MarketSound, Markets
  <2>3. \A t \in Tokens : Claims(n, t) = Claims(m, t) + (IF t = token THEN swap.in ELSE 0)
    BY <1>5, <1>10, <2>2 DEF Claims
  <2>4. QED
    BY <1>4, <1>5, <1>7, <1>12, <2>1, <2>2, <2>3 DEF Balanced
<1>20. SwapSound(w, c)
  <2>1. Len(c.orders) <= 1 /\ \A k \in 1 .. Len(c.orders) : IsSwapOrder(swap, c.orders[k])
    <3>1. CASE c.orders = <<>>
        BY <3>1
    <3>2. CASE c.orders = orders
        <4>1. Len(orders) = 1 /\ IsSwapOrder(swap, orders[1])
            BY <1>13 DEF orders
        <4>2. QED
            BY <3>2, <4>1
    <3>3. QED
        BY <1>17, <3>1, <3>2
  <2>2. n.data[seat].bal[token] <= initial[token] + swap.in
    BY <1>5, <1>8, <1>11
  <2>3. QED
    BY <1>12, <1>17, <2>1, <2>2 DEF SwapSound, MatchingPhases, token
<1>21. TempSound(w, c)
  <2>1. NoOrdersOf(m, seat) => NoOrdersOf(n, seat)
    BY <1>10 DEF NoOrdersOf, SameBlocks
  <2>2. QED
    BY <1>7, <1>12, <1>17, <2>1 DEF TempSound
<1>22. SpareSound(w, c)
  BY <1>12, <1>17, <1>18 DEF SpareSound
<1>23. WorkSound(w, c)
  BY <1>10, <1>12, <1>16, <1>17, <1>18, <1>19, <1>20, <1>21, <1>22
     DEF WorkSound, MatchingPhases
<1>24. QED
  BY <1>2, <1>17, <1>23, StepSound

-----------------------------------------------------------------------------
(* impact_base_atoms. *)

\* A step of the walk that only counts.
LEMMA WalkSound ==
    ASSUME IInv, ctx.phase = "impact", NEW visited \in SUBSET Index, NEW total \in Nat,
           NEW left \in Nat,
           Step(work, [ctx EXCEPT !.visited = visited, !.total = total, !.left = left])
    PROVE  IInv'
<1> DEFINE c == [ctx EXCEPT !.visited = visited, !.total = total, !.left = left]
<1>1. WorkSound(work, ctx)
  BY BusySound
<1>2. ctx \in Contexts
  BY <1>1 DEF WorkSound
<1>3. c \in Contexts
  BY <1>2 DEF Contexts
<1>4. /\ c.phase = "impact" /\ c.kind = ctx.kind /\ c.seat = ctx.seat
      /\ c.pending = ctx.pending /\ c.temp = ctx.temp /\ c.swap = ctx.swap
      /\ c.args = ctx.args /\ c.initial = ctx.initial /\ c.orders = ctx.orders
  BY <1>2 DEF Contexts
<1> HIDE DEF c
<1>5. Balanced(work, c)
  BY <1>1, <1>4 DEF WorkSound, Balanced, VirtualOf, PendingOf
<1>6. WorkSound(work, c)
  BY <1>1, <1>3, <1>4, <1>5
     DEF WorkSound, SwapSound, TempSound, SpareSound, MatchingPhases
<1>7. QED
  BY <1>4, <1>6, StepSound DEF c

LEMMA EstimateDoneSound ==
    ASSUME IInv, ctx.phase = "impact", NEW total \in Nat, Step(work, EstimateDone(total))
    PROVE  IInv'
<1> DEFINE c == EstimateDone(total)
           orders == <<SwapOrder(ctx.swap, total)>>
<1>1. WorkSound(work, ctx)
  BY BusySound
<1>2. ctx \in Contexts /\ ctx.swap \in SwapArgs
  BY <1>1 DEF WorkSound, Contexts
<1>3. orders \in Seq(OrderArgs) /\ Len(orders) = 1 /\ IsSwapOrder(ctx.swap, orders[1])
  BY <1>2, SwapOrderTyped
<1>4. c = [ctx EXCEPT !.phase = "next", !.visited = {}, !.total = 0, !.left = 0,
                      !.orders = orders]
  BY DEF EstimateDone
<1> HIDE DEF orders, c
<1>5. c \in Contexts
  BY <1>2, <1>3, <1>4 DEF Contexts, Phases
<1>6. /\ c.phase = "next" /\ c.kind = ctx.kind /\ c.seat = ctx.seat
      /\ c.pending = ctx.pending /\ c.temp = ctx.temp /\ c.swap = ctx.swap
      /\ c.args = ctx.args /\ c.initial = ctx.initial /\ c.orders = orders
  BY <1>2, <1>4 DEF Contexts
<1>7. Balanced(work, c)
  BY <1>1, <1>6 DEF WorkSound, Balanced, VirtualOf, PendingOf
<1>8. SwapSound(work, c)
  <2>1. \A k \in 1 .. Len(orders) : IsSwapOrder(ctx.swap, orders[k])
    BY <1>3
  <2>2. Len(orders) <= 1
    BY <1>3
  <2>3. QED
    BY <1>1, <1>6, <2>1, <2>2 DEF WorkSound, SwapSound, MatchingPhases
<1>9. TempSound(work, c) /\ SpareSound(work, c) /\ ctx.pending = 0
  BY <1>1, <1>6 DEF WorkSound, TempSound, SpareSound, MatchingPhases
<1>10. WorkSound(work, c)
  BY <1>1, <1>5, <1>6, <1>7, <1>8, <1>9 DEF WorkSound, MatchingPhases
<1>11. QED
  BY <1>6, <1>10, StepSound DEF c

\* The trade the estimator expects with the maker at index i.
LEMMA EstimateNat ==
    ASSUME ctx \in Contexts, work.m \in Markets, NEW i \in Index, Walked(i)
    PROVE  Estimate(i).base \in Nat /\ Estimate(i).quote \in Nat
<1> DEFINE order == work.m.data[i]
           limit == BaseLimit(i)
           base == IF limit >= order.base THEN order.base ELSE limit
<1>1. order \in RestingOrders
  BY OrderTyped DEF Walked, BestAmong, BookSide
<1>2. order.price \in Nat /\ order.base \in Nat /\ ctx.left \in Nat
  BY <1>1 DEF RestingOrders, Contexts
<1>3. TakerIsBid \in BOOLEAN
  BY DEF TakerIsBid
<1>4. limit \in Nat
  BY <1>2, <1>3, BaseForQuoteNat DEF BaseLimit
<1>5. base \in Nat
  BY <1>2, <1>4
<1>6. (TakerIsBid # (limit >= order.base)) \in BOOLEAN
  OBVIOUS
<1> DEFINE quote == QuoteForBase(order.price, base, TakerIsBid # (limit >= order.base))
<1>7. quote \in Nat
  BY <1>2, <1>5, <1>6, QuoteForBaseNat
<1>8. Estimate(i) = [full |-> limit >= order.base, base |-> base, quote |-> quote,
                     got |-> IF TakerIsBid THEN base ELSE quote]
  BY DEF Estimate
<1> HIDE DEF base, quote
<1>9. Estimate(i).base = base /\ Estimate(i).quote = quote
  BY <1>8
<1>10. QED
  BY <1>5, <1>7, <1>9

LEMMA WalkPastStep ==
    ASSUME IInv, WalkPast
    PROVE  IInv'
<1>1. PICK i \in Index : Walked(i) /\ Step(work, [ctx EXCEPT !.visited = @ \cup {i}])
  BY DEF WalkPast
<1> DEFINE visited == ctx.visited \cup {i}
<1>2. ctx.phase = "impact"
  BY <1>1 DEF Walked
<1>3. ctx \in Contexts
  BY <1>2, BusySound DEF WorkSound
<1>4. visited \in SUBSET Index /\ ctx.total \in Nat /\ ctx.left \in Nat
  BY <1>3 DEF Contexts
<1>5. [ctx EXCEPT !.visited = @ \cup {i}]
        = [ctx EXCEPT !.visited = visited, !.total = ctx.total, !.left = ctx.left]
  BY <1>3 DEF Contexts
<1> HIDE DEF visited
<1>6. QED
  BY <1>1, <1>2, <1>4, <1>5, WalkSound

LEMMA CountMakerStep ==
    ASSUME IInv, CountMaker
    PROVE  IInv'
<1>1. PICK i \in Index :
        LET estimate == Estimate(i)
            total    == ctx.total + estimate.base
        IN  /\ Counts(i)
            /\ CanCount(i)
            /\ Step(work, IF ~ estimate.full \/ estimate.quote = ctx.left
                          THEN EstimateDone(total)
                          ELSE [ctx EXCEPT !.visited = @ \cup {i}, !.total = total,
                                           !.left = @ - estimate.quote])
  BY DEF CountMaker
<1> DEFINE estimate == Estimate(i)
           total == ctx.total + estimate.base
           visited == ctx.visited \cup {i}
           left == ctx.left - estimate.quote
<1>2. Walked(i) /\ ctx.phase = "impact"
  BY <1>1 DEF Counts, Walked
<1>3. ctx \in Contexts /\ work.m \in Markets
  BY <1>2, BusySound DEF WorkSound, MarketSound
<1>4. estimate.base \in Nat /\ estimate.quote \in Nat
  BY <1>2, <1>3, EstimateNat
<1>5. estimate.full => estimate.quote <= ctx.left
  BY <1>1 DEF CanCount
<1>6. Step(work, IF ~ estimate.full \/ estimate.quote = ctx.left
                 THEN EstimateDone(total)
                 ELSE [ctx EXCEPT !.visited = visited, !.total = total, !.left = left])
  BY <1>1
<1> HIDE DEF estimate
<1>7. total \in Nat /\ visited \in SUBSET Index /\ ctx.left \in Nat
  BY <1>3, <1>4 DEF Contexts
<1>8. CASE ~ estimate.full \/ estimate.quote = ctx.left
  <2>1. Step(work, EstimateDone(total))
    BY <1>6, <1>8
  <2> HIDE DEF total
  <2>2. QED
    BY <1>2, <1>7, <2>1, EstimateDoneSound
<1>9. CASE ~ (~ estimate.full \/ estimate.quote = ctx.left)
  <2>1. Step(work, [ctx EXCEPT !.visited = visited, !.total = total, !.left = left])
    BY <1>6, <1>9
  <2>2. left \in Nat
    BY <1>4, <1>5, <1>7, <1>9
  <2> HIDE DEF total, visited, left
  <2>3. QED
    BY <1>2, <1>7, <2>1, <2>2, WalkSound
<1>10. QED
  BY <1>8, <1>9

LEMMA StopWalkingStep ==
    ASSUME IInv, StopWalking
    PROVE  IInv'
<1>1. ctx.phase = "impact" /\ Step(work, EstimateDone(ctx.total))
  BY DEF StopWalking
<1>2. ctx \in Contexts
  BY <1>1, BusySound DEF WorkSound
<1>3. ctx.total \in Nat
  BY <1>2 DEF Contexts
<1>4. QED
  BY <1>1, <1>3, EstimateDoneSound

-----------------------------------------------------------------------------
(* The end of a swap. *)

\* A seat gives back to its trader what the swap left on it.
LEMMA SeatSettledSound ==
    ASSUME WorkSound(work, ctx), ctx.phase = "next", \A t \in Tokens : Extra(t) >= 0
    PROVE  /\ MarketSound(SeatSettled) /\ UniqueSeats(SeatSettled)
           /\ \A t \in Tokens : Claims(SeatSettled, t) = Claims(work.m, t) - Extra(t)
           /\ SameOrders(work.m, SeatSettled) /\ SeatSettled.seq = work.m.seq
           /\ IF ctx.temp
              THEN /\ SeatIndices(SeatSettled) = SeatIndices(work.m) \ {ctx.seat}
                   /\ \A j \in SeatIndices(SeatSettled) :
                        SeatSettled.data[j].trader = work.m.data[j].trader
              ELSE /\ ctx.seat \in SeatIndices(SeatSettled)
                   /\ SeatSettled.data[ctx.seat].bal = ctx.initial
<1> DEFINE m == work.m
           seat == ctx.seat
<1>1. /\ MarketSound(m) /\ UniqueSeats(m) /\ seat \in SeatIndices(m) /\ m \in Markets
      /\ ctx \in Contexts
  BY DEF WorkSound, MarketSound
<1>2. \A t \in Tokens :
        /\ m.data[seat].bal[t] \in Nat /\ ctx.initial[t] \in Nat
        /\ m.withdrawable[t] \in Int /\ m.orderbook[t] \in Int
        /\ Extra(t) = m.data[seat].bal[t] - ctx.initial[t]
  <2>1. m.data[seat].bal \in [Tokens -> Nat]
    BY <1>1, SeatTyped DEF Seats
  <2>2. m.withdrawable \in [Tokens -> Int] /\ m.orderbook \in [Tokens -> Int]
    BY <1>1 DEF Markets
  <2>3. ctx.initial \in [Tokens -> Nat]
    BY <1>1 DEF Contexts
  <2>4. QED
    BY <2>1, <2>2, <2>3 DEF Extra
<1>3. CASE ctx.temp
  <2> DEFINE n == ReleaseSeat(m, seat)
  <2>1. NoOrdersOf(m, seat) /\ ctx.initial = NoTokens
    BY <1>3 DEF WorkSound, TempSound
  <2>2. SeatSettled = n
    BY <1>3 DEF SeatSettled
  <2>3. \A j \in Index : j # seat => n.data[j] = m.data[j]
    BY <1>1 DEF ReleaseSeat, Markets
  <2> HIDE DEF n
  <2> HIDE DEF m, seat
  <2>4. /\ MarketSound(n) /\ SeatIndices(n) = SeatIndices(m) \ {seat}
        /\ n.orderbook = m.orderbook
        /\ \A t \in Tokens : n.withdrawable[t] = m.withdrawable[t] - m.data[seat].bal[t]
    BY <1>1, <2>1, ReleaseSeatSound DEF n
  <2>5. UniqueSeats(n)
    BY <1>1, <2>3, <2>4 DEF UniqueSeats, SeatIndices
  <2>6. \A t \in Tokens : Claims(n, t) = Claims(m, t) - Extra(t)
    BY <1>2, <2>1, <2>4 DEF Claims, NoTokens
  <2>7. SameOrders(m, n) /\ n.seq = m.seq
    BY <1>1, <2>1, ReleaseSeatSound DEF n, SameOrders
  <2>8. \A j \in SeatIndices(n) : n.data[j].trader = m.data[j].trader
    BY <2>3, <2>4 DEF SeatIndices
  <2>9. QED
    BY <1>3, <2>2, <2>4, <2>5, <2>6, <2>7, <2>8 DEF m, seat
<1>4. CASE ~ ctx.temp
  <2> DEFINE k == UpdateBalance(m, seat, "base", - Extra("base"))
             n == UpdateBalance(k, seat, "quote", - Extra("quote"))
  <2>1. SeatSettled = n
    BY <1>4 DEF SeatSettled
  <2>2. /\ "base" \in Tokens /\ "quote" \in Tokens /\ Tokens = {"base", "quote"}
        /\ - Extra("base") \in Int /\ - Extra("quote") \in Int
    BY <1>2 DEF Tokens
  <2>3. m.data[seat].bal["base"] + (- Extra("base")) >= 0
    BY <1>2, <2>2
  <2> HIDE DEF m, seat
  <2>4. /\ MarketSound(k) /\ SameBlocks(m, k) /\ k.orderbook = m.orderbook
        /\ \A t \in Tokens : k.withdrawable[t] =
                m.withdrawable[t] + (IF t = "base" THEN - Extra("base") ELSE 0)
        /\ \A j \in SeatIndices(m), t \in Tokens : k.data[j].bal[t] = m.data[j].bal[t]
                + (IF j = seat /\ t = "base" THEN - Extra("base") ELSE 0)
    BY <1>1, <2>2, <2>3, UpdateBalanceSound
  <2>5. k.data[seat].bal["quote"] = m.data[seat].bal["quote"]
    BY <1>1, <1>2, <2>2, <2>4
  <2>6. k.data[seat].bal["quote"] + (- Extra("quote")) >= 0
    BY <1>2, <2>2, <2>5
  <2>7. seat \in SeatIndices(k)
    BY <1>1, <2>4 DEF SameBlocks
  <2> HIDE DEF k
  <2>8. /\ MarketSound(n) /\ SameBlocks(k, n) /\ n.orderbook = k.orderbook
        /\ \A t \in Tokens : n.withdrawable[t] =
                k.withdrawable[t] + (IF t = "quote" THEN - Extra("quote") ELSE 0)
        /\ \A j \in SeatIndices(k), t \in Tokens : n.data[j].bal[t] = k.data[j].bal[t]
                + (IF j = seat /\ t = "quote" THEN - Extra("quote") ELSE 0)
    BY <2>2, <2>4, <2>6, <2>7, UpdateBalanceSound
  <2> HIDE DEF n
  <2>9. UniqueSeats(n)
    BY <1>1, <2>4, <2>8, UniqueKept DEF SameBlocks, SameTraders
  <2>10. \A t \in Tokens : Claims(n, t) = Claims(m, t) - Extra(t)
    <3>1. Claims(n, "base") = Claims(m, "base") - Extra("base")
        BY <1>2, <2>2, <2>4, <2>8 DEF Claims
    <3>2. Claims(n, "quote") = Claims(m, "quote") - Extra("quote")
        BY <1>2, <2>2, <2>4, <2>8 DEF Claims
    <3>3. QED
        BY <2>2, <3>1, <3>2
  <2>11. SameOrders(m, n) /\ n.seq = m.seq
    BY <2>4, <2>8 DEF SameBlocks, SameOrders
  <2>12. seat \in SeatIndices(n) /\ n.data[seat].bal = ctx.initial
    <3>1. seat \in SeatIndices(n) /\ n \in Markets
        BY <2>7, <2>8 DEF SameBlocks, MarketSound
    <3>2. n.data[seat].bal \in [Tokens -> Nat] /\ ctx.initial \in [Tokens -> Nat]
        BY <1>1, <3>1, SeatTyped DEF Seats, Contexts
    <3>3. /\ n.data[seat].bal["base"] = k.data[seat].bal["base"]
          /\ n.data[seat].bal["quote"] = k.data[seat].bal["quote"] - Extra("quote")
          /\ k.data[seat].bal["base"] = m.data[seat].bal["base"] - Extra("base")
        <4>1. k.data[seat].bal \in [Tokens -> Nat]
            BY <2>4, <2>7, SeatTyped DEF Seats, MarketSound
        <4>2. QED
            BY <1>1, <1>2, <2>2, <2>4, <2>7, <2>8, <4>1
    <3>4. \A t \in Tokens : n.data[seat].bal[t] = ctx.initial[t]
        BY <1>2, <2>2, <2>5, <3>3
    <3>5. QED
        BY <3>1, <3>2, <3>4
  <2>13. QED
    BY <1>4, <2>1, <2>8, <2>9, <2>10, <2>11, <2>12 DEF m, seat
<1>5. QED
  BY <1>3, <1>4

LEMMA FinishSwapStep ==
    ASSUME IInv, FinishSwap
    PROVE  IInv'
<1> DEFINE in == InToken(ctx.swap)
           out == OutToken(ctx.swap)
           m == SeatSettled
           vault == [work.vault EXCEPT ![in] = @ + Consumed, ![out] = @ - Extra(out)]
           wallet == [work.wallet EXCEPT ![Swapper][in] = @ - Consumed,
                                         ![Swapper][out] = @ + Extra(out)]
           a == [work EXCEPT !.m = m, !.vault = vault, !.wallet = wallet]
<1>1. /\ ctx.phase = "next" /\ ctx.kind = "swap"
      /\ \A t \in Tokens : Extra(t) >= 0
      /\ Consumed <= work.wallet[Swapper][in]
      /\ Extra(out) <= work.vault[out]
      /\ HasFreeBlock(m)
  BY DEF FinishSwap, SwapOrderDone, CanFinishSwap
<1>2. Commit(a)
  BY DEF FinishSwap
<1>3. WorkSound(work, ctx)
  BY <1>1, BusySound
<1>4. /\ MarketSound(work.m) /\ work \in Accounts /\ ctx \in Contexts /\ work.m \in Markets
      /\ ctx.seat \in SeatIndices(work.m) /\ ctx.pending = 0
  BY <1>1, <1>3 DEF WorkSound, MarketSound, MatchingPhases
<1>5. in \in Tokens /\ out \in Tokens /\ in # out /\ Tokens = {in, out}
  <2>1. ctx.swap.is_base_in \in BOOLEAN
    BY <1>4 DEF Contexts, SwapArgs
  <2>2. QED
    BY <2>1, BackingToken DEF InToken, OutToken
<1>6. Swapper \in Traders
  BY <1>4, SeatTyped DEF Swapper, Seats
<1>7. \A t \in Tokens : Extra(t) \in Nat
  <2>1. \A t \in Tokens : work.m.data[ctx.seat].bal[t] \in Nat /\ ctx.initial[t] \in Nat
    BY <1>4, SeatTyped DEF Seats, Contexts
  <2>2. QED
    BY <1>1, <2>1 DEF Extra
<1>8. Consumed \in Nat /\ Consumed = ctx.swap.in - Extra(in)
  <2>1. ctx.swap.in \in Nat /\ Extra(in) \in Nat
    BY <1>4, <1>5, <1>7 DEF Contexts, SwapArgs
  <2>2. Extra(in) <= ctx.swap.in
    <3>1. work.m.data[ctx.seat].bal[in] <= ctx.initial[in] + ctx.swap.in
        BY <1>1, <1>3 DEF WorkSound, SwapSound
    <3>2. work.m.data[ctx.seat].bal[in] \in Nat /\ ctx.initial[in] \in Nat
      <4>1. work.m.data[ctx.seat].bal \in [Tokens -> Nat]
          BY <1>4, SeatTyped DEF Seats
      <4>2. ctx.initial \in [Tokens -> Nat]
          BY <1>4 DEF Contexts
      <4>3. QED
          BY <1>5, <4>1, <4>2
    <3> HIDE DEF in
    <3>3. QED
        BY <2>1, <3>1, <3>2 DEF Extra
  <2>3. QED
    BY <2>1, <2>2 DEF Consumed
<1>9. /\ MarketSound(m) /\ UniqueSeats(m)
      /\ \A t \in Tokens : Claims(m, t) = Claims(work.m, t) - Extra(t)
  BY <1>1, <1>3, SeatSettledSound
<1> HIDE DEF in, out, m
<1>10. work.vault \in [Tokens -> Nat] /\ work.wallet \in [Traders -> [Tokens -> Nat]]
  BY <1>4 DEF Accounts
<1>11. /\ vault[in] = work.vault[in] + Consumed /\ vault[out] = work.vault[out] - Extra(out)
       /\ vault \in [Tokens -> Nat]
  BY <1>1, <1>5, <1>7, <1>8, <1>10
<1>12. wallet \in [Traders -> [Tokens -> Nat]]
  <2> DEFINE paid == [work.wallet EXCEPT ![Swapper][in] = @ + (- Consumed)]
  <2>1. paid \in [Traders -> [Tokens -> Nat]]
    <3>1. - Consumed \in Int /\ work.wallet[Swapper][in] + (- Consumed) >= 0
        BY <1>1, <1>5, <1>6, <1>8, <1>10 DEF in
    <3>2. QED
        BY <1>5, <1>6, <1>10, <3>1, WalletTyped
  <2>2. wallet = [paid EXCEPT ![Swapper][out] = @ + Extra(out)]
    BY <1>5, <1>6, <1>8, <1>10
  <2> HIDE DEF paid
  <2>3. paid[Swapper][out] + Extra(out) >= 0 /\ Extra(out) \in Int
    BY <1>5, <1>6, <1>7, <2>1
  <2>4. QED
    BY <1>5, <1>6, <2>1, <2>2, <2>3, WalletTyped
<1> HIDE DEF vault, wallet
<1>13. a \in Accounts /\ a.m = m /\ a.vault = vault
  BY <1>4, <1>9, <1>11, <1>12 DEF Accounts, MarketSound
<1>14. \A t \in Tokens : vault[t] = Claims(m, t)
  <2>1. \A t \in Tokens : work.vault[t] + VirtualOf(ctx, t) + PendingOf(ctx, t)
                                = Claims(work.m, t)
    BY <1>3 DEF WorkSound, Balanced
  <2>2. VirtualOf(ctx, in) = ctx.swap.in /\ VirtualOf(ctx, out) = 0
    BY <1>1, <1>5 DEF VirtualOf, in
  <2>3. \A t \in Tokens : PendingOf(ctx, t) = 0
    BY <1>4 DEF PendingOf
  <2>4. ctx.swap.in \in Nat
    BY <1>4 DEF Contexts, SwapArgs
  <2>5. vault[in] = Claims(m, in)
    BY <1>5, <1>7, <1>8, <1>9, <1>10, <1>11, <2>1, <2>2, <2>3, <2>4
  <2>6. vault[out] = Claims(m, out)
    BY <1>5, <1>7, <1>9, <1>10, <1>11, <2>1, <2>2, <2>3
  <2>7. QED
    BY <1>5, <2>5, <2>6
<1> HIDE DEF a
<1>15. AccountsSound(a)
  BY <1>1, <1>9, <1>13, <1>14 DEF AccountsSound
<1>16. QED
  BY <1>2, <1>15, CommitSound

-----------------------------------------------------------------------------
(* The inductive invariant. *)

\* An instruction that fails is rolled back.
LEMMA FailStep ==
    ASSUME IInv,
           \/ CancelFails \/ PrepayGasFails \/ BeginOrderFails \/ FillFails
           \/ PlaceReverseFails \/ FinishOrderFails \/ EstimateFails \/ FinishSwapFails
    PROVE  IInv'
<1>1. Abort
  BY DEF CancelFails, PrepayGasFails, BeginOrderFails, FillFails, PlaceReverseFails,
         FinishOrderFails, EstimateFails, FinishSwapFails
<1>2. QED
  BY <1>1, AbortSound

LEMMA NewMarketSound == MarketSound(NewMarket)
<1> DEFINE m == NewMarket
           data == [i \in Index |-> EmptyBlock]
<1>1. 0 \in Index /\ MAX_BLOCKS \in Nat /\ MAX_BLOCKS >= 1
  BY MarketAssumption DEF Index
<1>2. /\ m.num = 1 /\ m.data = data /\ m.free = <<0>> /\ m.seq = 0
      /\ m.withdrawable = [token \in Tokens |-> 0]
      /\ m.orderbook = [token \in Tokens |-> 0]
  BY DEF NewMarket
<1>3. data \in [Index -> Blocks]
  BY DEF Blocks
<1>4. m \in Markets
  <2>1. <<0>> \in Seq(Index) /\ 1 \in 0 .. MAX_BLOCKS
    BY <1>1
  <2>2. QED
    BY <1>3, <2>1 DEF NewMarket, Markets
<1> HIDE DEF m
<1>5. \A i \in Index : m.data[i] = EmptyBlock
  BY <1>2
<1>6. FreeListSound(m)
  <2>1. Len(m.free) = 1 /\ m.free[1] = 0
    BY <1>2
  <2>2. \A k \in 1 .. Len(m.free) : k = 1
    BY <2>1
  <2>3. \A k \in 1 .. Len(m.free) : m.free[k] = 0
    BY <2>1, <2>2
  <2>4. \A i \in Index : i < m.num => i = 0
    BY <1>2 DEF Index
  <2>5. \A i \in Index : i < m.num => \E k \in 1 .. Len(m.free) : m.free[k] = i
    BY <2>1, <2>4
  <2>6. QED
    BY <1>1, <1>2, <1>5, <2>2, <2>3, <2>5 DEF FreeListSound
<1>7. OrderIndices(m) = {}
  BY <1>5 DEF OrderIndices, EmptyBlock
<1>8. TotalsSound(m)
  <2> SUFFICES ASSUME NEW t \in Tokens
               PROVE  /\ m.withdrawable[t] =
                           SumFunctionOnSet([i \in Index |-> SeatAtoms(m.data[i], t)], Index)
                      /\ m.orderbook[t] =
                           SumFunctionOnSet([i \in Index |-> BackingAtoms(m.data[i], t)], Index)
    BY DEF TotalsSound
  <2> DEFINE g == [i \in Index |-> SeatAtoms(m.data[i], t)]
             h == [i \in Index |-> BackingAtoms(m.data[i], t)]
  <2>1. \A i \in Index : g[i] = 0 /\ h[i] = 0
    BY <1>5 DEF SeatAtoms, BackingAtoms, EmptyBlock
  <2>2. m.withdrawable[t] = 0 /\ m.orderbook[t] = 0
    BY <1>2
  <2> HIDE DEF g, h
  <2>3. SumFunctionOnSet(g, Index) = 0 /\ SumFunctionOnSet(h, Index) = 0
    BY <2>1, IndexFinite, SumOfZeros
  <2>4. QED
    BY <2>2, <2>3 DEF g, h
<1>9. QED
  BY <1>4, <1>6, <1>7, <1>8 DEF MarketSound, OwnersSeated, m

LEMMA InitSound ==
    ASSUME Init
    PROVE  IInv
<1> DEFINE m == NewMarket
<1>1. /\ accounts = [m |-> NewMarket, vault |-> NoTokens, wallet |-> InitialWallet,
                     glob |-> [token \in Tokens |-> NewGlobal]]
      /\ work = accounts /\ ctx = Idle /\ slot \in Nat
  BY DEF Init
<1>2. MarketSound(m)
  BY NewMarketSound
<1>3. NewGlobal \in Globals
  BY DEF NewGlobal, Globals
<1>4. accounts \in Accounts
  <2>1. NoTokens \in [Tokens -> Nat] /\ InitialWallet \in [Traders -> [Tokens -> Nat]]
    BY NothingTyped, ManifestAssumption
  <2>2. m \in Markets
    BY <1>2 DEF MarketSound
  <2>3. QED
    BY <1>1, <1>3, <2>1, <2>2 DEF Accounts
<1>5. accounts.m = m /\ accounts.vault = NoTokens
  BY <1>1
<1>6. UniqueSeats(m)
  BY DEF UniqueSeats, SeatIndices, NewMarket, EmptyBlock
<1>7. HasFreeBlock(m)
  BY DEF HasFreeBlock, NewMarket
<1>8. \A token \in Tokens : NoTokens[token] = Claims(m, token)
  BY DEF Claims, NewMarket, NoTokens
<1> HIDE DEF m
<1>9. AccountsSound(accounts)
  BY <1>2, <1>4, <1>5, <1>6, <1>7, <1>8 DEF AccountsSound
<1>10. ctx.phase = "idle"
  BY <1>1 DEF Idle
<1>11. QED
  BY <1>1, <1>9, <1>10 DEF IInv

LEMMA StutterSound ==
    ASSUME IInv, UNCHANGED vars
    PROVE  IInv'
BY DEF IInv, vars, AccountsSound, WorkSound, Balanced, SwapSound, TempSound, SpareSound

LEMMA MarketArrivalStep ==
    ASSUME IInv, MarketArrival
    PROVE  IInv'
<1>1. Amounts \subseteq Nat /\ MaxExpand \in Nat
  BY ManifestAssumption
<1>2. CASE \E trader \in Traders : ClaimSeat(trader)
  BY <1>2, ClaimSeatStep
<1>3. CASE \E trader \in Traders, token \in Tokens, atoms \in Amounts :
              Deposit(trader, token, atoms) \/ Withdraw(trader, token, atoms)
  BY <1>1, <1>3, DepositStep, WithdrawStep
<1>4. CASE Expand
  BY <1>4, ExpandStep
<1>5. CASE \E n \in 0 .. MaxExpand : ExpandTo(n)
  <2>1. PICK n \in 0 .. MaxExpand : ExpandTo(n)
    BY <1>5
  <2>2. n \in Nat
    BY <1>1
  <2>3. QED
    BY <2>1, <2>2, ExpandToStep
<1>6. QED
  BY <1>2, <1>3, <1>4, <1>5 DEF MarketArrival

LEMMA GlobalArrivalStep ==
    ASSUME IInv, GlobalArrival
    PROVE  IInv'
<1>1. Amounts \subseteq Nat
  BY ManifestAssumption
<1>2. CASE \E trader \in Traders, token \in Tokens : GlobalAddTrader(trader, token)
  BY <1>2, GlobalAddTraderStep
<1>3. CASE \E trader \in Traders, token \in Tokens, atoms \in Amounts :
              \/ GlobalDeposit(trader, token, atoms)
              \/ GlobalWithdraw(trader, token, atoms)
              \/ \E evictee \in Traders : GlobalEvict(trader, evictee, token, atoms)
  BY <1>1, <1>3, GlobalDepositStep, GlobalWithdrawStep, GlobalEvictStep
<1>4. CASE \E i \in Index : GlobalClean(i)
  BY <1>4, GlobalCleanStep
<1>5. QED
  BY <1>2, <1>3, <1>4 DEF GlobalArrival

LEMMA TradeArrivalStep ==
    ASSUME IInv, TradeArrival
    PROVE  IInv'
BY BatchUpdateStep, SwapStep DEF TradeArrival

LEMMA ProgressStep ==
    ASSUME IInv, Progress
    PROVE  IInv'
<1>1. CASE CancelOrder \/ PrepayGas \/ FinishBatch \/ BeginOrder \/ StopMatching
  BY <1>1, CancelOrderStep, PrepayGasStep, FinishBatchStep, BeginOrderStep, StopMatchingStep
<1>2. CASE CleanStaleMaker \/ CleanUnbackedMaker \/ Fill \/ PlaceReverse \/ FinishOrder
  BY <1>2, CleanStep, FillStep, PlaceReverseStep, FinishOrderStep
<1>3. CASE WalkPast \/ CountMaker \/ StopWalking \/ FinishSwap
  BY <1>3, WalkPastStep, CountMakerStep, StopWalkingStep, FinishSwapStep
<1>4. CASE \/ CancelFails \/ PrepayGasFails \/ BeginOrderFails \/ FillFails
           \/ PlaceReverseFails \/ FinishOrderFails \/ EstimateFails \/ FinishSwapFails
  BY <1>4, FailStep
<1>5. QED
  BY <1>1, <1>2, <1>3, <1>4 DEF Progress

LEMMA NextSound ==
    ASSUME IInv, [Next]_vars
    PROVE  IInv'
BY MarketArrivalStep, GlobalArrivalStep, TradeArrivalStep, AdvanceSlotStep, ProgressStep,
   StutterSound DEF Next

\* IInv holds in every reachable state.
THEOREM Inductive == Spec => []IInv
<1>1. Init => IInv
  BY InitSound
<1>2. IInv /\ [Next]_vars => IInv'
  BY NextSound
<1>3. QED
  BY <1>1, <1>2, PTL DEF Spec

-----------------------------------------------------------------------------
(* What it implies. *)

\* The same accounts, committed or in the making, are sound.
LEMMA WorkIsSound ==
    ASSUME IInv
    PROVE  /\ accounts \in Accounts /\ work \in Accounts /\ ctx \in Contexts /\ slot \in Nat
           /\ MarketSound(work.m) /\ UniqueSeats(work.m)
<1>1. CASE ctx.phase = "idle"
  <2>1. ctx = Idle /\ work = accounts /\ AccountsSound(accounts) /\ slot \in Nat
    BY <1>1 DEF IInv
  <2>2. QED
    BY <2>1, NothingTyped DEF AccountsSound
<1>2. CASE ctx.phase # "idle"
  BY <1>2, BusySound DEF WorkSound, AccountsSound
<1>3. QED
  BY <1>1, <1>2

\* No balance, vault, deposit, wallet or order size of a committed state or of
\* an instruction in progress goes below zero: the checks before update_balance,
\* the transfers and the deposits are enough.
THEOREM TypeCorrect == Spec => []TypeOK
<1>1. IInv => TypeOK
  BY WorkIsSound DEF TypeOK
<1>2. QED
  BY <1>1, Inductive, PTL

\* Whatever sequence of claims, releases, insertions, removals, coalesced
\* reversals and expansions, no block leaks or is handed out twice; and no trader
\* has two seats, neither by ClaimSeat nor by the temporary seat of a swap.
THEOREM BlocksNeverLeak == Spec => []BlocksSound
<1>1. IInv => OneSeatEach
  BY WorkIsSound DEF OneSeatEach, UniqueSeats
<1>2. IInv => BlocksSound
  BY <1>1, WorkIsSound DEF BlocksSound, MarketSound
<1>3. QED
  BY <1>2, Inductive, PTL

\* The withdrawable total of the header is the sum of all seats' balances, and
\* the orderbook total that of what backs all resting orders: every change of a
\* balance or an order, in whichever handler, moves its total by as much.
THEOREM TotalsExact == Spec => []TotalsAreSums
<1>1. IInv => TotalsAreSums
  BY WorkIsSound DEF TotalsAreSums, MarketSound
<1>2. QED
  BY <1>1, Inductive, PTL

\* A block is there for whoever takes one without asking.
LEMMA BlockSpare == IInv => SpareBlock
<1> SUFFICES ASSUME IInv PROVE SpareBlock
  OBVIOUS
<1>1. HasFreeBlock(accounts.m)
  BY DEF IInv, AccountsSound
<1>2. ctx.phase = "reverse" => HasFreeBlock(work.m)
  <2> SUFFICES ASSUME ctx.phase = "reverse" PROVE HasFreeBlock(work.m)
    OBVIOUS
  <2>1. WorkSound(work, ctx)
    BY BusySound
  <2>2. Len(work.m.free) >= 1
    <3>1. Len(work.m.free) >= (IF ctx.remaining > 0 THEN 2 ELSE 1)
      BY <2>1 DEF WorkSound, SpareSound
    <3>2. work.m.free \in Seq(Index)
      BY <2>1 DEF WorkSound, MarketSound, Markets
    <3>3. QED
      BY <3>1, <3>2
  <2>3. QED
    BY <2>2 DEF HasFreeBlock
<1>3. ctx.phase = "settle" /\ Rests => HasFreeBlock(work.m)
  BY BusySound DEF WorkSound, SpareSound, Rests
<1>4. QED
  BY <1>1, <1>2, <1>3 DEF SpareBlock

\* The program has a block whenever it takes one without asking for it.
THEOREM BlockAlwaysSpare == Spec => []SpareBlock
<1>1. IInv => SpareBlock
  BY BlockSpare
<1>2. QED
  BY <1>1, Inductive, PTL

\* The market vault holds what its seats and orders claim.
LEMMA VaultBacks == IInv => VaultBacksClaims
<1> SUFFICES ASSUME IInv, NEW token \in Tokens
             PROVE  /\ accounts.vault[token] = Claims(accounts.m, token)
                    /\ work.vault[token] + Virtual(token) + Pending(token)
                          = Claims(work.m, token)
  BY DEF VaultBacksClaims, Claims
<1>1. accounts.vault[token] = Claims(accounts.m, token)
  BY DEF IInv, AccountsSound
<1>2. CASE ctx.phase = "idle"
  <2>1. ctx = Idle /\ work = accounts /\ accounts \in Accounts
    BY <1>2 DEF IInv, AccountsSound
  <2>2. Virtual(token) = 0 /\ Pending(token) = 0
    BY <2>1 DEF Virtual, Pending, Idle
  <2>3. work.vault[token] \in Nat
    BY <2>1 DEF Accounts
  <2>4. QED
    BY <1>1, <2>1, <2>2, <2>3
<1>3. CASE ctx.phase # "idle"
  <2>1. Balanced(work, ctx)
    BY <1>3, BusySound DEF WorkSound
  <2>2. Virtual(token) = VirtualOf(ctx, token) /\ Pending(token) = PendingOf(ctx, token)
    BY DEF Virtual, VirtualOf, Pending, PendingOf, MakerToken
  <2>3. QED
    BY <1>1, <2>1, <2>2 DEF Balanced
<1>4. QED
  BY <1>1, <1>2, <1>3

\* The market vault is exactly what the seats may withdraw plus what backs the
\* resting orders, after any number of trades, roundings, bonus atoms,
\* cancellations, reversals and swaps.
THEOREM Solvent == Spec => []VaultBacksClaims
<1>1. IInv => VaultBacksClaims
  BY VaultBacks
<1>2. QED
  BY <1>1, Inductive, PTL

(***************************************************************************)
(* The book is never crossed and sequence numbers name one order each.     *)
(* The inductive invariant BookInv adds what an instruction in progress    *)
(* knows of the order it is placing: its number is taken and no order      *)
(* bears it, and the price at which it, or a reversal, comes to rest       *)
(* crosses nothing on the other side.                                      *)
(***************************************************************************)

\* Every order of m has a number that the counter has passed, and its own.
SequencesSound(m) ==
    /\ \A i \in OrderIndices(m) : m.data[i].seq < m.seq
    /\ \A i, j \in OrderIndices(m) : m.data[i].seq = m.data[j].seq => i = j

NotCrossed(m) ==
    \A i \in BookSide(m, TRUE), j \in BookSide(m, FALSE) : m.data[i].price <= m.data[j].price

BookSound(m) == SequencesSound(m) /\ NotCrossed(m)

\* The number is taken, and no order bears it yet.
Reserved(m, seq) == seq < m.seq /\ \A i \in OrderIndices(m) : m.data[i].seq # seq

\* An order of this side and price crosses none of the other side.
Outside(m, is_bid, price) ==
    \A j \in BookSide(m, ~ is_bid) :
        IF is_bid THEN price <= m.data[j].price ELSE m.data[j].price <= price

\* Every order of n is one of m, but for its size.
FewerOrders(m, n) ==
    \A i \in OrderIndices(n) :
        /\ i \in OrderIndices(m)
        /\ n.data[i].seq = m.data[i].seq
        /\ n.data[i].price = m.data[i].price
        /\ n.data[i].is_bid = m.data[i].is_bid

\* The accounts w in the course of an instruction c.
WorkBookSound(w, c) ==
    /\ BookSound(w.m)
    /\ c.phase \in MatchingPhases => Reserved(w.m, c.seq)
    /\ c.phase = "reverse" => Outside(w.m, c.args.is_bid, c.reversal.price)
    /\ c.phase = "settle" /\ CanRest(c.args.type) /\ c.remaining > 0 =>
            Outside(w.m, c.args.is_bid, c.args.price)

BookInv ==
    /\ BookSound(accounts.m)
    /\ WorkBookSound(work, ctx)

-----------------------------------------------------------------------------
(* Books. *)

LEMMA SameFewer ==
    ASSUME NEW m, NEW n, SameOrders(m, n)
    PROVE  FewerOrders(m, n)
BY DEF SameOrders, FewerOrders

LEMMA RemovedFewer ==
    ASSUME NEW m, NEW n, NEW i, Removed(m, n, i)
    PROVE  FewerOrders(m, n)
BY DEF Removed, FewerOrders

LEMMA ResizedFewer ==
    ASSUME NEW m \in Markets, NEW n, NEW i \in OrderIndices(m), Resized(m, n, i)
    PROVE  FewerOrders(m, n)
<1>1. PICK base \in Nat : n.data[i] = [m.data[i] EXCEPT !.base = base]
  BY DEF Resized
<1>2. m.data[i] \in RestingOrders
  BY OrderTyped
<1>3. /\ n.data[i].seq = m.data[i].seq /\ n.data[i].price = m.data[i].price
      /\ n.data[i].is_bid = m.data[i].is_bid
  BY <1>1, <1>2 DEF RestingOrders
<1>4. QED
  BY <1>3 DEF Resized, FewerOrders

\* Numbers and prices of orders are numbers.
LEMMA BookTyped ==
    ASSUME NEW m \in Markets
    PROVE  /\ m.seq \in Nat
           /\ \A i \in OrderIndices(m) :
                /\ m.data[i].seq \in Nat /\ m.data[i].price \in Nat
                /\ m.data[i].is_bid \in BOOLEAN
BY OrderTyped DEF Markets, RestingOrders

\* Removing and resizing orders, and counting on, keeps a book sound.
LEMMA FewerSound ==
    ASSUME NEW m \in Markets, NEW n \in Markets, FewerOrders(m, n), n.seq >= m.seq,
           BookSound(m)
    PROVE  BookSound(n)
<1>1. SequencesSound(n)
  BY BookTyped DEF BookSound, SequencesSound, FewerOrders
<1>2. NotCrossed(n)
  BY DEF BookSound, NotCrossed, FewerOrders, BookSide
<1>3. QED
  BY <1>1, <1>2 DEF BookSound

LEMMA FewerReserved ==
    ASSUME NEW m \in Markets, NEW n \in Markets, FewerOrders(m, n), n.seq >= m.seq,
           NEW seq \in Nat, Reserved(m, seq)
    PROVE  Reserved(n, seq)
BY BookTyped DEF Reserved, FewerOrders

LEMMA FewerOutside ==
    ASSUME NEW m, NEW n, FewerOrders(m, n), NEW is_bid, NEW price, Outside(m, is_bid, price)
    PROVE  Outside(n, is_bid, price)
BY DEF Outside, FewerOrders, BookSide

\* So does inserting an order with a number of its own that crosses nothing.
LEMMA InsertedSound ==
    ASSUME NEW m \in Markets, NEW n \in Markets, BookSound(m), n.seq >= m.seq,
           NEW order \in RestingOrders, Inserted(m, n, order), order.seq < n.seq,
           \A i \in OrderIndices(m) : m.data[i].seq # order.seq,
           Outside(m, order.is_bid, order.price)
    PROVE  BookSound(n)
<1>1. PICK h \in Index \ OrderIndices(m) :
            /\ OrderIndices(n) = OrderIndices(m) \cup {h}
            /\ \A j \in OrderIndices(m) : n.data[j] = m.data[j]
            /\ n.data[h] = order
  BY DEF Inserted
<1>2. SequencesSound(n)
  BY <1>1, BookTyped DEF BookSound, SequencesSound
<1>3. ASSUME NEW i \in BookSide(n, TRUE), NEW j \in BookSide(n, FALSE)
      PROVE  n.data[i].price <= n.data[j].price
  <2>1. /\ i \in OrderIndices(n) /\ n.data[i].is_bid = TRUE
        /\ j \in OrderIndices(n) /\ n.data[j].is_bid = FALSE
    BY DEF BookSide
  <2>2. CASE i # h /\ j # h
    BY <1>1, <2>1, <2>2 DEF BookSound, NotCrossed, BookSide
  <2>3. CASE i = h
    <3>1. j # h /\ j \in BookSide(m, ~ order.is_bid) /\ order.is_bid = TRUE
        BY <1>1, <2>1, <2>3 DEF BookSide
    <3>2. order.price <= m.data[j].price
        BY <3>1 DEF Outside
    <3>3. QED
        BY <1>1, <2>1, <2>3, <3>1, <3>2
  <2>4. CASE j = h
    <3>1. i # h /\ i \in BookSide(m, ~ order.is_bid) /\ order.is_bid = FALSE
        BY <1>1, <2>1, <2>4 DEF BookSide
    <3>2. m.data[i].price <= order.price
        BY <3>1 DEF Outside
    <3>3. QED
        BY <1>1, <2>1, <2>4, <3>1, <3>2
  <2>5. QED
    BY <2>2, <2>3, <2>4
<1>4. QED
  BY <1>2, <1>3 DEF BookSound, NotCrossed

\* No order of a side is better than its best one.
LEMMA BestIsBest ==
    ASSUME NEW m \in Markets, NEW is_bid \in BOOLEAN,
           NEW i \in BestAmong(m, BookSide(m, ~ is_bid)), NEW j \in BookSide(m, ~ is_bid)
    PROVE  IF is_bid THEN m.data[i].price <= m.data[j].price
                     ELSE m.data[j].price <= m.data[i].price
<1>1. /\ i \in OrderIndices(m) /\ j \in OrderIndices(m)
      /\ m.data[i].is_bid = ~ is_bid /\ m.data[j].is_bid = ~ is_bid
  BY DEF BestAmong, BookSide
<1>2. ~ Precedes(m, j, i)
  BY DEF BestAmong
<1>3. m.data[i].price \in Nat /\ m.data[j].price \in Nat
  BY <1>1, BookTyped
<1>4. ~ IF m.data[j].is_bid THEN m.data[j].price > m.data[i].price
                            ELSE m.data[j].price < m.data[i].price
  BY <1>2 DEF Precedes
<1>5. CASE is_bid
  <2>1. m.data[j].is_bid = FALSE
    BY <1>1, <1>5
  <2>2. ~ (m.data[j].price < m.data[i].price)
    BY <1>4, <2>1
  <2>3. m.data[i].price <= m.data[j].price
    BY <1>3, <2>2
  <2>4. QED
    BY <1>5, <2>3
<1>6. CASE ~ is_bid
  <2>1. m.data[j].is_bid = TRUE
    BY <1>1, <1>6
  <2>2. ~ (m.data[j].price > m.data[i].price)
    BY <1>4, <2>1
  <2>3. m.data[j].price <= m.data[i].price
    BY <1>3, <2>2
  <2>4. QED
    BY <1>6, <2>3
<1>7. QED
  BY <1>5, <1>6

-----------------------------------------------------------------------------
(* How a step ends. *)

LEMMA BothMarkets == IInv => accounts.m \in Markets /\ work.m \in Markets /\ ctx \in Contexts
  BY WorkIsSound DEF Accounts

LEMMA BothMarketsNext == IInv' => (accounts.m \in Markets /\ work.m \in Markets /\ ctx \in Contexts)'
  BY BothMarkets, PTL

LEMMA CommitBook ==
    ASSUME NEW a, BookSound(a.m), Commit(a)
    PROVE  BookInv'
BY DEF BookInv, WorkBookSound, Commit, Idle, MatchingPhases, BookSound, SequencesSound,
       NotCrossed, OrderIndices, BookSide

LEMMA AbortBook ==
    ASSUME BookInv, Abort
    PROVE  BookInv'
BY DEF BookInv, WorkBookSound, Abort, Idle, MatchingPhases, BookSound, SequencesSound,
       NotCrossed, OrderIndices, BookSide

LEMMA StepBook ==
    ASSUME BookInv, accounts' = accounts, WorkBookSound(work', ctx')
    PROVE  BookInv'
<1>1. WorkBookSound(work, ctx)'
  BY DEF WorkBookSound, BookSound, SequencesSound, NotCrossed, OrderIndices, BookSide,
         Reserved, Outside
<1>2. BookSound(accounts.m)'
  BY DEF BookInv, BookSound, SequencesSound, NotCrossed, OrderIndices, BookSide
<1>3. QED
  BY <1>1, <1>2 DEF BookInv

\* A one-step instruction that takes orders from the book at most.
LEMMA FewerCommit ==
    ASSUME IInv, IInv', BookInv, NEW a, Commit(a),
           FewerOrders(accounts.m, a.m), a.m.seq >= accounts.m.seq
    PROVE  BookInv'
<1>1. accounts.m \in Markets
  BY BothMarkets
<1>2. a.m \in Markets
  BY BothMarketsNext DEF Commit
<1>3. BookSound(a.m)
  BY <1>1, <1>2, FewerSound DEF BookInv
<1>4. QED
  BY <1>3, CommitBook

\* A step of a batch or swap that takes orders from the book at most.
LEMMA FewerStep ==
    ASSUME IInv, IInv', BookInv, accounts' = accounts, FewerOrders(work.m, work.m'),
           work.m'.seq >= work.m.seq,
           ctx'.phase \in MatchingPhases => ctx.phase \in MatchingPhases /\ ctx'.seq = ctx.seq,
           ctx'.phase = "reverse" => Outside(work.m', ctx'.args.is_bid, ctx'.reversal.price),
           ctx'.phase = "settle" /\ CanRest(ctx'.args.type) /\ ctx'.remaining > 0 =>
                Outside(work.m', ctx'.args.is_bid, ctx'.args.price)
    PROVE  BookInv'
<1>1. work.m \in Markets /\ ctx.seq \in Nat
  BY BothMarkets DEF Contexts
<1>2. work.m' \in Markets
  BY BothMarketsNext
<1>3. WorkBookSound(work, ctx)
  BY DEF BookInv
<1> DEFINE m == work.m
           n == work.m'
<1>4. BookSound(n)
  <2>1. BookSound(m)
    BY <1>3 DEF WorkBookSound
  <2> HIDE DEF m, n
  <2>2. FewerOrders(m, n) /\ n.seq >= m.seq /\ m \in Markets /\ n \in Markets
    BY <1>1, <1>2 DEF m, n
  <2>3. QED
    BY <2>1, <2>2, FewerSound
<1>5. ctx'.phase \in MatchingPhases => Reserved(n, ctx'.seq)
  <2> SUFFICES ASSUME ctx'.phase \in MatchingPhases
               PROVE  Reserved(n, ctx.seq)
    OBVIOUS
  <2>1. Reserved(m, ctx.seq)
    BY <1>3 DEF WorkBookSound
  <2>2. FewerOrders(m, n) /\ n.seq >= m.seq /\ m \in Markets /\ n \in Markets
    BY <1>1, <1>2
  <2> HIDE DEF m, n
  <2>3. QED
    BY <1>1, <2>1, <2>2, FewerReserved
<1>6. WorkBookSound(work', ctx')
  BY <1>4, <1>5 DEF WorkBookSound
<1>7. QED
  BY <1>6, StepBook

-----------------------------------------------------------------------------
(* Instructions of one step: none but GlobalClean touches an order. *)

\* A step that leaves orders alone.
OrdersStay ==
    /\ ctx = Idle
    /\ \E a : Commit(a) /\ SameOrders(accounts.m, a.m) /\ a.m.seq = accounts.m.seq

LEMMA OrdersStayBook ==
    ASSUME IInv, IInv', BookInv, OrdersStay
    PROVE  BookInv'
<1>1. PICK a : Commit(a) /\ SameOrders(accounts.m, a.m) /\ a.m.seq = accounts.m.seq
  BY DEF OrdersStay
<1>2. accounts.m.seq \in Nat
  BY BothMarkets, BookTyped
<1> DEFINE m == accounts.m
           n == a.m
<1>3. FewerOrders(m, n)
  BY <1>1, SameFewer
<1>4. QED
  BY <1>1, <1>2, <1>3, FewerCommit

LEMMA SameBlocksOrders ==
    ASSUME NEW m, NEW n, SameBlocks(m, n)
    PROVE  SameOrders(m, n) /\ n.seq = m.seq
BY DEF SameBlocks, SameOrders

LEMMA ClaimSeatOrders ==
    ASSUME IInv, NEW trader \in Traders, ClaimSeat(trader)
    PROVE  OrdersStay
<1> DEFINE claimed == ClaimSeatOn(accounts.m, trader)
           m == ExpandIfNeeded(claimed)
           a == [accounts EXCEPT !.m = m]
<1>1. /\ HasFreeBlock(accounts.m) /\ CanExpandIfNeeded(claimed) /\ Commit(a) /\ ctx = Idle
  BY DEF ClaimSeat
<1>2. MarketSound(accounts.m) /\ accounts \in Accounts
  BY <1>1, IdleSound DEF AccountsSound
<1>3. MarketSound(claimed) /\ SameOrders(accounts.m, claimed) /\ claimed.seq = accounts.m.seq
  BY <1>1, <1>2, ClaimSeatSound DEF SameOrders
<1> HIDE DEF claimed
<1>4. SameOrders(claimed, m) /\ m.seq = claimed.seq
  BY <1>1, <1>3, ExpandIfNeededSound DEF SameOrders
<1> HIDE DEF m
<1>5. a.m = m
  BY <1>2 DEF Accounts
<1> HIDE DEF a
<1>6. QED
  BY <1>1, <1>3, <1>4, <1>5 DEF SameOrders, OrdersStay

\* Deposit and Withdraw.
LEMMA BalanceOrders ==
    ASSUME IInv, NEW trader \in Traders, NEW token \in Tokens,
           NEW atoms \in Nat, Deposit(trader, token, atoms) \/ Withdraw(trader, token, atoms)
    PROVE  OrdersStay
<1> DEFINE seat == GetTraderIndex(accounts.m, trader)
<1>1. ctx = Idle /\ seat # NIL
  BY DEF Deposit, Withdraw
<1>2. MarketSound(accounts.m) /\ accounts \in Accounts
  BY <1>1, IdleSound DEF AccountsSound
<1>3. seat \in SeatIndices(accounts.m)
  BY <1>1, <1>2, TraderIndexSound
<1>4. \E delta \in Int : \E vault, wallet :
        /\ CanUpdateBalance(accounts.m, seat, token, delta)
        /\ Commit([accounts EXCEPT !.m = UpdateBalance(accounts.m, seat, token, delta),
                                   !.vault = vault, !.wallet = wallet])
  <2>1. CASE Deposit(trader, token, atoms)
    <3> DEFINE vault == [accounts.vault EXCEPT ![token] = @ + atoms]
               wallet == [accounts.wallet EXCEPT ![trader][token] = @ - atoms]
    <3>1. /\ CanUpdateBalance(accounts.m, seat, token, atoms)
          /\ Commit([accounts EXCEPT !.m = UpdateBalance(accounts.m, seat, token, atoms),
                                     !.vault = vault, !.wallet = wallet])
        BY <1>2, <2>1 DEF Deposit, Accounts
    <3>2. atoms \in Int
        OBVIOUS
    <3> HIDE DEF vault, wallet, seat
    <3>3. QED
        BY <3>1, <3>2
  <2>2. CASE Withdraw(trader, token, atoms)
    <3> DEFINE vault == [accounts.vault EXCEPT ![token] = @ - atoms]
               wallet == [accounts.wallet EXCEPT ![trader][token] = @ + atoms]
    <3>1. /\ CanUpdateBalance(accounts.m, seat, token, - atoms)
          /\ Commit([accounts EXCEPT !.m = UpdateBalance(accounts.m, seat, token, - atoms),
                                     !.vault = vault, !.wallet = wallet])
        BY <1>2, <2>2 DEF Withdraw, Accounts
    <3>2. - atoms \in Int
        OBVIOUS
    <3> HIDE DEF vault, wallet, seat
    <3>3. QED
        BY <3>1, <3>2
  <2>3. QED
    BY <2>1, <2>2
<1>5. PICK delta \in Int : \E vault, wallet :
        /\ CanUpdateBalance(accounts.m, seat, token, delta)
        /\ Commit([accounts EXCEPT !.m = UpdateBalance(accounts.m, seat, token, delta),
                                   !.vault = vault, !.wallet = wallet])
  BY <1>4
<1>6. PICK vault, wallet :
        /\ CanUpdateBalance(accounts.m, seat, token, delta)
        /\ Commit([accounts EXCEPT !.m = UpdateBalance(accounts.m, seat, token, delta),
                                   !.vault = vault, !.wallet = wallet])
  BY <1>5
<1> DEFINE m == UpdateBalance(accounts.m, seat, token, delta)
           a == [accounts EXCEPT !.m = m, !.vault = vault, !.wallet = wallet]
<1> HIDE DEF seat
<1>7. SameBlocks(accounts.m, m)
  BY <1>2, <1>3, <1>6, UpdateBalanceSound DEF CanUpdateBalance
<1>8. Commit(a) /\ a.m = m
  BY <1>2, <1>6 DEF Accounts
<1> HIDE DEF m, a
<1>9. SameOrders(accounts.m, a.m) /\ a.m.seq = accounts.m.seq
  BY <1>7, <1>8, SameBlocksOrders
<1>10. QED
  BY <1>1, <1>8, <1>9 DEF OrdersStay

\* Expand and ExpandTo.
LEMMA ExpandedOrders ==
    ASSUME IInv, ctx = Idle, NEW n \in Nat, accounts.m.num + n <= MAX_BLOCKS,
           Commit([accounts EXCEPT !.m = ExpandBy(@, n)])
    PROVE  OrdersStay
<1> DEFINE m == ExpandBy(accounts.m, n)
           a == [accounts EXCEPT !.m = m]
<1>1. MarketSound(accounts.m) /\ accounts \in Accounts
  BY IdleSound DEF AccountsSound
<1>2. SameOrders(accounts.m, m) /\ m.seq = accounts.m.seq
  BY <1>1, ExpandBySound DEF SameOrders
<1>3. Commit(a) /\ a.m = m
  BY <1>1 DEF Accounts
<1> HIDE DEF m, a
<1>4. QED
  BY <1>2, <1>3 DEF OrdersStay

LEMMA MarketArrivalOrders ==
    ASSUME IInv, MarketArrival
    PROVE  OrdersStay
<1>1. Amounts \subseteq Nat /\ MaxExpand \in Nat
  BY ManifestAssumption
<1>2. CASE \E trader \in Traders : ClaimSeat(trader)
  BY <1>2, ClaimSeatOrders
<1>3. CASE \E trader \in Traders, token \in Tokens, atoms \in Amounts :
              Deposit(trader, token, atoms) \/ Withdraw(trader, token, atoms)
  BY <1>1, <1>3, BalanceOrders
<1>4. CASE Expand
  <2>1. /\ ctx = Idle /\ accounts.m.num < MAX_BLOCKS
        /\ Commit([accounts EXCEPT !.m = ExpandBy(@, 1)])
    BY <1>4 DEF Expand
  <2>2. accounts.m.num \in Nat
    BY <2>1, IdleSound DEF AccountsSound, MarketSound, Markets
  <2>3. accounts.m.num + 1 <= MAX_BLOCKS
    BY <2>1, <2>2, MarketAssumption
  <2>4. QED
    BY <2>1, <2>3, ExpandedOrders
<1>5. CASE \E n \in 0 .. MaxExpand : ExpandTo(n)
  <2>1. PICK n \in 0 .. MaxExpand : ExpandTo(n)
    BY <1>5
  <2> DEFINE missing == FreeBlocksShortOfN(accounts.m, n)
  <2>2. /\ ctx = Idle /\ missing # NIL /\ accounts.m.num + missing <= MAX_BLOCKS
        /\ Commit([accounts EXCEPT !.m = ExpandBy(@, missing)])
    BY <2>1 DEF ExpandTo
  <2>3. accounts.m.free \in Seq(Index)
    BY <2>2, IdleSound DEF AccountsSound, MarketSound, Markets
  <2>4. missing \in Nat
    BY <1>1, <2>2, <2>3 DEF FreeBlocksShortOfN
  <2> HIDE DEF missing
  <2>5. QED
    BY <2>2, <2>4, ExpandedOrders
<1>6. QED
  BY <1>2, <1>3, <1>4, <1>5 DEF MarketArrival

\* Instructions on a global account leave the market alone.
LEMMA GlobalBook ==
    ASSUME IInv, IInv', BookInv, ctx = Idle, NEW glob, NEW wallet,
           Commit([accounts EXCEPT !.glob = glob, !.wallet = wallet])
    PROVE  BookInv'
<1> DEFINE a == [accounts EXCEPT !.glob = glob, !.wallet = wallet]
<1>1. a.m = accounts.m
  BY IdleSound DEF AccountsSound, Accounts
<1> HIDE DEF a
<1>2. SameOrders(accounts.m, a.m) /\ a.m.seq = accounts.m.seq
  BY <1>1 DEF SameOrders
<1>3. QED
  BY <1>2, OrdersStayBook DEF a, OrdersStay

LEMMA GlobalCleanBook ==
    ASSUME IInv, IInv', BookInv, NEW i \in Index, GlobalClean(i)
    PROVE  BookInv'
<1> DEFINE order == accounts.m.data[i]
           token == Backing(order.is_bid)
           m == ReturnOrder(accounts.m, i)
           glob == [accounts.glob EXCEPT ![token].gas =
                        IF order.type = "Global" THEN @ - 1 ELSE @]
           a == [accounts EXCEPT !.m = m, !.glob = glob]
<1>1. ctx = Idle /\ i \in OrderIndices(accounts.m) /\ CanReturnOrder(accounts.m, i)
  BY DEF GlobalClean, CanCancelOrder
<1>2. MarketSound(accounts.m) /\ accounts \in Accounts
  BY <1>1, IdleSound DEF AccountsSound
<1>3. Commit(a)
  BY <1>2 DEF GlobalClean, Accounts
<1> HIDE DEF glob
<1>4. Removed(accounts.m, m, i) /\ m.seq = accounts.m.seq
  BY <1>1, <1>2, ReturnOrderSound
<1> HIDE DEF m
<1>5. a.m = m
  BY <1>2 DEF Accounts
<1> HIDE DEF a
<1>6. FewerOrders(accounts.m, a.m)
  BY <1>4, <1>5, RemovedFewer
<1>7. a.m.seq >= accounts.m.seq
  BY <1>2, <1>4, <1>5, BookTyped DEF MarketSound
<1>8. QED
  BY <1>3, <1>6, <1>7, FewerCommit

LEMMA GlobalArrivalBook ==
    ASSUME IInv, IInv', BookInv, GlobalArrival
    PROVE  BookInv'
<1>1. CASE \E trader \in Traders, token \in Tokens : GlobalAddTrader(trader, token)
  <2>1. PICK trader \in Traders, token \in Tokens : GlobalAddTrader(trader, token)
    BY <1>1
  <2> DEFINE glob == [accounts.glob EXCEPT ![token] = AddTrader(@, trader)]
  <2>2. ctx = Idle /\ Commit([accounts EXCEPT !.glob = glob, !.wallet = accounts.wallet])
    <3>1. ctx = Idle
        BY <2>1 DEF GlobalAddTrader
    <3>2. accounts \in Accounts
        BY <3>1, IdleSound DEF AccountsSound
    <3>3. QED
        BY <2>1, <3>1, <3>2 DEF GlobalAddTrader, Accounts
  <2> HIDE DEF glob
  <2>3. QED
    BY <2>2, GlobalBook
<1>2. ASSUME NEW trader \in Traders, NEW token \in Tokens, NEW atoms,
             \/ GlobalDeposit(trader, token, atoms)
             \/ GlobalWithdraw(trader, token, atoms)
             \/ \E evictee \in Traders : GlobalEvict(trader, evictee, token, atoms)
      PROVE  BookInv'
  <2>1. ctx = Idle
    BY <1>2 DEF GlobalDeposit, GlobalWithdraw, GlobalEvict
  <2>2. accounts \in Accounts
    BY <2>1, IdleSound DEF AccountsSound
  <2>3. PICK glob, wallet : Commit([accounts EXCEPT !.glob = glob, !.wallet = wallet])
    <3>1. CASE GlobalDeposit(trader, token, atoms)
        BY <2>2, <3>1 DEF GlobalDeposit, Accounts
    <3>2. CASE GlobalWithdraw(trader, token, atoms)
        BY <2>2, <3>2 DEF GlobalWithdraw, Accounts
    <3>3. CASE \E evictee \in Traders : GlobalEvict(trader, evictee, token, atoms)
        BY <2>2, <3>3 DEF GlobalEvict, Accounts
    <3>4. QED
        BY <1>2, <3>1, <3>2, <3>3
  <2>4. QED
    BY <2>1, <2>3, GlobalBook
<1>3. CASE \E i \in Index : GlobalClean(i)
  BY <1>3, GlobalCleanBook
<1>4. QED
  BY <1>1, <1>2, <1>3 DEF GlobalArrival

-----------------------------------------------------------------------------
(* The start and the end of a batch or swap. *)

LEMMA BatchUpdateBook ==
    ASSUME IInv, IInv', BookInv, NEW trader, NEW batch, NEW globals, NEW cancels,
           BatchUpdate(trader, batch, globals, cancels)
    PROVE  BookInv'
<1>1. accounts' = accounts /\ work' = work /\ ctx'.phase = "cancel"
  BY DEF BatchUpdate, Step, Idle
<1>2. FewerOrders(work.m, work.m') /\ work.m.seq \in Nat
  BY <1>1, BothMarkets, BookTyped DEF FewerOrders
<1>3. QED
  BY <1>1, <1>2, FewerStep DEF MatchingPhases

LEMMA SwapBook ==
    ASSUME IInv, IInv', BookInv, NEW trader \in Traders, NEW swap \in Swaps[trader],
           NEW globals \in GlobalsPassed, Swap(trader, swap, globals)
    PROVE  BookInv'
<1> DEFINE existing == GetTraderIndex(accounts.m, trader)
           seated == IF existing = NIL THEN ClaimSeatOn(accounts.m, trader) ELSE accounts.m
           m == ExpandIfNeeded(seated)
           seat == GetTraderIndex(m, trader)
           token == InToken(swap)
           n == UpdateBalance(m, seat, token, swap.in)
           w == [work EXCEPT !.m = n]
<1>1. /\ ctx = Idle /\ CanExpandIfNeeded(seated)
      /\ CanUpdateBalance(m, seat, token, swap.in)
      /\ existing = NIL => HasFreeBlock(accounts.m)
  BY DEF Swap
<1>2. accounts' = accounts /\ work' = w /\ ctx'.phase \in {"impact", "next"}
  BY DEF Swap, Step, Idle
<1>3. AccountsSound(accounts) /\ work = accounts /\ accounts \in Accounts /\ MarketSound(accounts.m)
  BY <1>1, IdleSound DEF AccountsSound
<1>4. MarketSound(m) /\ seat \in SeatIndices(m)
  BY <1>1, <1>3, SwapSeated
<1>5. MarketSound(seated) /\ SameOrders(accounts.m, seated) /\ seated.seq = accounts.m.seq
  BY <1>1, <1>3, ClaimSeatSound DEF SameOrders
<1> HIDE DEF existing, seated
<1>6. SameOrders(seated, m) /\ m.seq = seated.seq
  BY <1>1, <1>5, ExpandIfNeededSound DEF SameOrders
<1> HIDE DEF m, seat
<1>7. swap.in \in Nat /\ token \in Tokens
  <2>1. swap \in SwapArgs
    BY ManifestAssumption
  <2>2. QED
    BY <2>1 DEF SwapArgs, InToken, Backing, Tokens
<1>8. SameBlocks(m, n)
  <2>1. m.data[seat].bal[token] + swap.in >= 0 /\ swap.in \in Int
    BY <1>1, <1>7 DEF CanUpdateBalance
  <2>2. QED
    BY <1>4, <1>7, <2>1, UpdateBalanceSound
<1> HIDE DEF n
<1>9. w.m = n
  BY <1>3 DEF Accounts
<1>10. SameOrders(work.m, n) /\ n.seq = work.m.seq
  BY <1>3, <1>5, <1>6, <1>8, SameBlocksOrders DEF SameOrders
<1> HIDE DEF w
<1>11. FewerOrders(work.m, work.m') /\ work.m'.seq >= work.m.seq
  BY <1>2, <1>9, <1>10, BothMarkets, BookTyped, SameFewer
<1>12. QED
  BY <1>2, <1>11, FewerStep DEF MatchingPhases

\* FinishBatch and FinishSwap commit the orders as they are.
LEMMA FinishBook ==
    ASSUME IInv, IInv', BookInv, FinishBatch \/ FinishSwap
    PROVE  BookInv'
<1>1. ctx.phase = "next"
  BY DEF FinishBatch, FinishSwap, SwapOrderDone
<1>2. WorkSound(work, ctx) /\ work \in Accounts /\ work.m \in Markets
  BY <1>1, BusySound DEF WorkSound, MarketSound
<1>3. PICK a : Commit(a) /\ SameOrders(work.m, a.m) /\ a.m.seq = work.m.seq
  <2>1. CASE FinishBatch
    <3> DEFINE glob == [token \in Tokens |->
                            [work.glob[token] EXCEPT !.gas = @ - ctx.refunds[token]]]
               a == [work EXCEPT !.glob = glob]
    <3>1. Commit(a)
        BY <2>1 DEF FinishBatch
    <3> HIDE DEF glob
    <3>2. a.m = work.m
        BY <1>2 DEF Accounts
    <3> HIDE DEF a
    <3>3. QED
        BY <3>1, <3>2 DEF SameOrders
  <2>2. CASE FinishSwap
    <3> DEFINE in == InToken(ctx.swap)
               out == OutToken(ctx.swap)
               vault == [work.vault EXCEPT ![in] = @ + Consumed, ![out] = @ - Extra(out)]
               wallet == [work.wallet EXCEPT ![Swapper][in] = @ - Consumed,
                                             ![Swapper][out] = @ + Extra(out)]
               a == [work EXCEPT !.m = SeatSettled, !.vault = vault, !.wallet = wallet]
    <3>1. Commit(a) /\ \A t \in Tokens : Extra(t) >= 0
        BY <2>2 DEF FinishSwap, CanFinishSwap
    <3> HIDE DEF vault, wallet
    <3>2. a.m = SeatSettled
        BY <1>2 DEF Accounts
    <3>3. SameOrders(work.m, SeatSettled) /\ SeatSettled.seq = work.m.seq
        BY <1>1, <1>2, <3>1, SeatSettledSound
    <3> HIDE DEF a
    <3>4. QED
        BY <3>1, <3>2, <3>3
  <2>3. QED
    BY <2>1, <2>2
<1>4. BookSound(work.m)
  BY DEF BookInv, WorkBookSound
<1>5. a.m \in Markets
  BY <1>3, BothMarketsNext DEF Commit
<1>6. BookSound(a.m)
  BY <1>2, <1>3, <1>4, <1>5, SameFewer, BookTyped, FewerSound
<1>7. QED
  BY <1>3, <1>6, CommitBook

-----------------------------------------------------------------------------
(* Steps that remove orders, or none. *)

\* The walk of the estimator, the prepayments and the end of the loop leave the
\* market alone.
LEMMA SameMarketBook ==
    ASSUME IInv, IInv', BookInv, accounts' = accounts, work.m' = work.m,
           ctx'.phase \notin MatchingPhases
    PROVE  BookInv'
<1>1. FewerOrders(work.m, work.m') /\ work.m'.seq >= work.m.seq
  BY BothMarkets, BookTyped DEF FewerOrders
<1>2. QED
  BY <1>1, FewerStep DEF MatchingPhases

LEMMA QuietBook ==
    ASSUME IInv, IInv', BookInv, PrepayGas \/ WalkPast \/ CountMaker \/ StopWalking
    PROVE  BookInv'
<1>1. ctx.phase \in {"cancel", "impact"}
  BY DEF PrepayGas, WalkPast, CountMaker, StopWalking, Walked, Counts
<1>2. work \in Accounts /\ ctx \in Contexts
  BY <1>1, BusySound DEF WorkSound
<1>3. CASE PrepayGas
  <2> DEFINE glob == [token \in Tokens |->
                        [work.glob[token] EXCEPT !.gas = @ + GasPrepayments(token)]]
             w == [work EXCEPT !.glob = glob]
             c == [ctx EXCEPT !.phase = "next"]
  <2>1. Step(w, c)
    BY <1>3 DEF PrepayGas
  <2> HIDE DEF glob
  <2>2. w.m = work.m /\ c.phase = "next"
    BY <1>2 DEF Accounts, Contexts
  <2> HIDE DEF w, c
  <2>3. QED
    BY <2>1, <2>2, SameMarketBook DEF Step, MatchingPhases
<1>4. CASE WalkPast \/ CountMaker \/ StopWalking
  <2>1. PICK c : Step(work, c) /\ c.phase \in {"impact", "next"}
    <3>1. ASSUME NEW total
          PROVE  EstimateDone(total).phase = "next"
        BY <1>2 DEF Contexts, EstimateDone
    <3>2. ASSUME NEW visited, NEW total, NEW left, ctx.phase = "impact"
          PROVE  /\ [ctx EXCEPT !.visited = visited].phase = "impact"
                 /\ [ctx EXCEPT !.visited = visited, !.total = total,
                                !.left = left].phase = "impact"
        BY <1>2, <3>2 DEF Contexts
    <3>3. CASE WalkPast
        BY <3>2, <3>3 DEF WalkPast, Walked
    <3>4. CASE CountMaker
      <4>1. PICK i \in Index :
              LET estimate == Estimate(i)
                  total    == ctx.total + estimate.base
              IN  /\ Counts(i)
                  /\ Step(work, IF ~ estimate.full \/ estimate.quote = ctx.left
                                THEN EstimateDone(total)
                                ELSE [ctx EXCEPT !.visited = @ \cup {i}, !.total = total,
                                                 !.left = @ - estimate.quote])
          BY <3>4 DEF CountMaker
      <4> DEFINE estimate == Estimate(i)
                 total == ctx.total + estimate.base
                 visited == ctx.visited \cup {i}
                 left == ctx.left - estimate.quote
                 onward == [ctx EXCEPT !.visited = visited, !.total = total, !.left = left]
      <4>2. ctx.phase = "impact"
          BY <4>1 DEF Counts, Walked
      <4>3. Step(work, EstimateDone(total)) \/ Step(work, onward)
          BY <4>1
      <4>4. onward.phase = "impact"
          BY <3>2, <4>2
      <4> HIDE DEF estimate, total, onward
      <4>5. QED
          BY <3>1, <4>3, <4>4
    <3>5. CASE StopWalking
        BY <3>1, <3>5 DEF StopWalking
    <3>6. QED
        BY <1>4, <3>3, <3>4, <3>5
  <2>2. QED
    BY <2>1, SameMarketBook DEF Step, MatchingPhases
<1>5. QED
  BY <1>3, <1>4

\* Whatever lies within reach of an order is matched before it rests.
LEMMA StopMatchingOutside ==
    ASSUME IInv, StopMatching, CanRest(ctx.args.type), ctx.remaining > 0
    PROVE  Outside(work.m, ctx.args.is_bid, ctx.args.price)
<1>1. ctx.phase = "match"
  BY DEF StopMatching
<1>2. WorkSound(work, ctx) /\ work.m \in Markets /\ ctx \in Contexts
  BY <1>1, BusySound DEF WorkSound, MarketSound
<1>3. /\ ctx.args.is_bid \in BOOLEAN /\ ctx.args.price \in Nat /\ ctx.remaining \in Nat
  BY <1>2 DEF Contexts, OrderArgs
<1> DEFINE m == work.m
           is_bid == ctx.args.is_bid
           price == ctx.args.price
<1>4. CASE BookSide(m, ~ is_bid) = {}
  BY <1>4 DEF Outside
<1>5. CASE \E i \in Index : IsMaker(i) /\ ~ Crosses(m.data[i], is_bid, price)
  <2>1. PICK i \in Index : IsMaker(i) /\ ~ Crosses(m.data[i], is_bid, price)
    BY <1>5
  <2>2. /\ i \in BestAmong(m, BookSide(m, ~ is_bid)) /\ i \in OrderIndices(m)
    BY <2>1, MakerSound DEF IsMaker
  <2>3. ~ IF is_bid THEN m.data[i].price <= price ELSE m.data[i].price >= price
    BY <2>1 DEF Crosses
  <2>4. ASSUME NEW j \in BookSide(m, ~ is_bid)
        PROVE  IF is_bid THEN price <= m.data[j].price ELSE m.data[j].price <= price
    <3>1. j \in OrderIndices(m)
        BY DEF BookSide
    <3> HIDE DEF m, is_bid, price
    <3>2. m \in Markets /\ is_bid \in BOOLEAN /\ price \in Nat
        BY <1>2, <1>3 DEF m, is_bid, price
    <3>3. m.data[i].price \in Nat /\ m.data[j].price \in Nat
        BY <2>2, <3>1, <3>2, BookTyped
    <3>4. IF is_bid THEN m.data[i].price <= m.data[j].price
                    ELSE m.data[j].price <= m.data[i].price
        BY <2>2, <3>2, BestIsBest
    <3>5. QED
        BY <2>3, <3>2, <3>3, <3>4
  <2>5. QED
    BY <2>4 DEF Outside
<1>6. QED
  BY <1>3, <1>4, <1>5 DEF StopMatching

LEMMA StopMatchingBook ==
    ASSUME IInv, IInv', BookInv, StopMatching
    PROVE  BookInv'
<1> DEFINE c == [ctx EXCEPT !.phase = "settle"]
<1>1. ctx.phase = "match" /\ Step(work, c)
  BY DEF StopMatching
<1>2. ctx \in Contexts
  BY BothMarkets
<1>3. /\ c.phase = "settle" /\ c.seq = ctx.seq /\ c.args = ctx.args
      /\ c.remaining = ctx.remaining
  BY <1>2 DEF Contexts
<1> HIDE DEF c
<1>4. accounts' = accounts /\ work' = work /\ ctx' = c
  BY <1>1 DEF Step
<1>5. WorkBookSound(work, ctx)
  BY DEF BookInv
<1>6. WorkBookSound(work, c)
  BY <1>1, <1>3, <1>5, StopMatchingOutside DEF WorkBookSound, MatchingPhases
<1>7. QED
  BY <1>4, <1>6, StepBook

\* A cancel, or the loop at a stale or unbacked maker, gives an order back.
LEMMA ReturnBook ==
    ASSUME IInv, IInv', BookInv, ctx.phase \in {"cancel", "match"}, NEW i \in OrderIndices(work.m),
           CanReturnOrder(work.m, i), NEW cancels, NEW refunds,
           Step([work EXCEPT !.m = ReturnOrder(work.m, i)],
                [ctx EXCEPT !.cancels = cancels, !.refunds = refunds])
    PROVE  BookInv'
<1> DEFINE m == ReturnOrder(work.m, i)
           w == [work EXCEPT !.m = m]
           c == [ctx EXCEPT !.cancels = cancels, !.refunds = refunds]
<1>1. WorkSound(work, ctx) /\ work \in Accounts /\ ctx \in Contexts /\ MarketSound(work.m)
  BY BusySound DEF WorkSound
<1>2. Removed(work.m, m, i) /\ m.seq = work.m.seq
  BY <1>1, ReturnOrderSound
<1> HIDE DEF m
<1>3. w.m = m /\ c.phase = ctx.phase /\ c.seq = ctx.seq
  BY <1>1 DEF Accounts, Contexts
<1>4. accounts' = accounts /\ work' = w /\ ctx' = c
  BY DEF Step, m
<1> HIDE DEF w, c
<1>5. FewerOrders(work.m, work.m') /\ work.m'.seq >= work.m.seq
  BY <1>1, <1>2, <1>3, <1>4, BookTyped, RemovedFewer DEF MarketSound
<1>6. QED
  BY <1>3, <1>4, <1>5, FewerStep

LEMMA CancelOrderBook ==
    ASSUME IInv, IInv', BookInv, CancelOrder
    PROVE  BookInv'
<1>1. PICK i \in Index :
        /\ i \in OrderIndices(work.m) /\ CanReturnOrder(work.m, i)
        /\ Step([work EXCEPT !.m = ReturnOrder(@, i)],
                [ctx EXCEPT !.cancels = Tail(@), !.refunds = DeferredRefunds(work.m.data[i])])
  BY DEF CancelOrder, IsCancelTarget, CanCancelOrder
<1>2. ctx.phase = "cancel" /\ work \in Accounts /\ ctx \in Contexts
  BY BusySound DEF CancelOrder, WorkSound
<1>3. Step([work EXCEPT !.m = ReturnOrder(work.m, i)],
           [ctx EXCEPT !.cancels = Tail(ctx.cancels),
                       !.refunds = DeferredRefunds(work.m.data[i])])
  BY <1>1
<1>4. QED
  BY <1>1, <1>2, <1>3, ReturnBook

LEMMA CleanBook ==
    ASSUME IInv, IInv', BookInv, CleanStaleMaker \/ CleanUnbackedMaker
    PROVE  BookInv'
<1>1. PICK i \in Index : IsMaker(i) /\ CleanMaker(i)
  BY DEF CleanStaleMaker, CleanUnbackedMaker
<1>2. ctx.phase = "match" /\ i \in OrderIndices(work.m)
  BY <1>1, MakerSound
<1>3. ctx \in Contexts
  BY BothMarkets
<1>4. [ctx EXCEPT !.refunds = DeferredRefunds(work.m.data[i])]
        = [ctx EXCEPT !.cancels = ctx.cancels, !.refunds = DeferredRefunds(work.m.data[i])]
  BY <1>3 DEF Contexts
<1>5. /\ CanReturnOrder(work.m, i)
      /\ Step([work EXCEPT !.m = ReturnOrder(work.m, i)],
              [ctx EXCEPT !.cancels = ctx.cancels, !.refunds = DeferredRefunds(work.m.data[i])])
  BY <1>1, <1>4 DEF CleanMaker
<1>6. QED
  BY <1>2, <1>5, ReturnBook

-----------------------------------------------------------------------------
(* A trade. *)

\* A whole number of parts and less than one more.
LEMMA QuotientExact ==
    ASSUME NEW p \in Nat, NEW d \in Nat \ {0}, NEW r \in Nat, r < d
    PROVE  (p * d + r) \div d = p
<1> DEFINE a == p * d + r
           q == a \div d
           t == a % d
<1>1. p * d \in Nat /\ a \in Nat
  OBVIOUS
<1> HIDE DEF a
<1>2. q \in Int /\ t \in 0 .. (d - 1) /\ a = d * q + t
  BY <1>1
<1> HIDE DEF q, t
<1>3. ASSUME p > q PROVE FALSE
  <2> DEFINE k == p - q - 1
  <2>1. k \in Nat /\ p = q + 1 + k
    BY <1>2, <1>3
  <2> HIDE DEF k
  <2>2. p * d = d * q + d + d * k
    BY <1>2, <2>1
  <2>3. d * k \in Nat /\ d * q \in Int
    BY <1>2, <2>1
  <2>4. QED
    BY <1>1, <1>2, <2>2, <2>3 DEF a
<1>4. ASSUME p < q PROVE FALSE
  <2> DEFINE k == q - p - 1
  <2>1. k \in Nat /\ q = p + 1 + k
    BY <1>2, <1>4
  <2> HIDE DEF k
  <2>2. d * q = p * d + d + d * k
    BY <1>2, <2>1
  <2>3. d * k \in Nat /\ d * q \in Int
    BY <1>2, <2>1
  <2>4. QED
    BY <1>1, <1>2, <2>2, <2>3 DEF a
<1>5. p = q
  BY <1>2, <1>3, <1>4
<1>6. QED
  BY <1>5 DEF q, a

\* A reversed ask buys at its own price or below, a reversed bid sells at its own
\* price or above.
LEMMA ReversePriceOutside ==
    ASSUME NEW order \in RestingOrders, IsReversible(order.type)
    PROVE  IF order.is_bid THEN ReversePrice(order) >= order.price
                           ELSE ReversePrice(order) <= order.price
<1> DEFINE base == SPREAD_BASE[order.type]
           net == base - order.spread
           p == order.price
<1>1. /\ base \in Nat \ {0} /\ net \in Nat \ {0} /\ net <= base /\ p \in Nat
      /\ order.is_bid \in BOOLEAN
  BY MarketAssumption DEF IsReversible, RestingOrders, Spreads
<1>2. ReversePrice(order) = IF order.is_bid THEN Div(p * base, net, FALSE)
                                            ELSE Div(p * net, base, TRUE)
  BY DEF ReversePrice, MultiplyRational
<1> HIDE DEF base, net, p
<1>3. p * base \in Nat /\ p * net \in Nat /\ p * net <= p * base
  <2> DEFINE k == base - net
  <2>1. k \in Nat /\ base = net + k
    BY <1>1
  <2> HIDE DEF k
  <2>2. p * base = p * net + p * k /\ p * k \in Nat /\ p * net \in Nat
    BY <1>1, <2>1
  <2>3. QED
    BY <2>2
<1>4. Div(p * base, net, FALSE) >= p
  <2>1. (p * net + 0) \div net = p
    BY <1>1, QuotientExact
  <2>2. (p * net) \div net <= (p * base) \div net
    BY <1>1, <1>3, QuotientMonotone
  <2>3. (p * base) \div net \in Int /\ (p * net) \div net = p
    BY <1>1, <1>3, <2>1
  <2>4. QED
    BY <1>1, <2>2, <2>3 DEF Div
<1>5. Div(p * net, base, TRUE) <= p
  <2> DEFINE low == p * net + base - 1
             high == p * base + (base - 1)
  <2>1. low \in Nat /\ high \in Nat /\ low <= high
    BY <1>1, <1>3
  <2>2. base - 1 \in Nat /\ base - 1 < base
    BY <1>1
  <2>3. high \div base = p
    BY <1>1, <2>2, QuotientExact
  <2> HIDE DEF low, high
  <2>4. low \div base <= high \div base
    BY <1>1, <2>1, QuotientMonotone
  <2>5. low \div base <= p
    BY <2>3, <2>4
  <2>6. QED
    BY <2>5 DEF Div, low
<1>6. QED
  BY <1>1, <1>2, <1>4, <1>5 DEF p

\* What a trade with the maker at index i does.
FilledBy(i) ==
    LET order    == work.m.data[i]
        trade    == Trade(i)
        maker    == work.m.data[order.trader_index].trader
        owes     == order.type = "Global"
        reverses == IsReversible(order.type) /\ HasReversePrice(order)
        is_bid   == ctx.args.is_bid
        n        == work'.m
    IN  /\ IsMaker(i) /\ IsMatch(i) /\ CanFill(i)
        /\ i \in OrderIndices(work.m) /\ order \in RestingOrders /\ order.is_bid = ~ is_bid
        /\ maker \in Traders
        /\ trade.base \in Nat /\ trade.quote \in Nat /\ trade.got \in Nat
        /\ accounts' = accounts /\ slot' = slot
        /\ n = Traded(work.m, ctx.seat, i, is_bid, trade)
        /\ n.seq = work.m.seq
        /\ IF trade.full THEN Removed(work.m, n, i)
                         ELSE Resized(work.m, n, i) /\ n.data[i].base <= order.base
        /\ n.data[ctx.seat].bal[Backing(~ is_bid)]
                >= work.m.data[ctx.seat].bal[Backing(~ is_bid)] + trade.got
        /\ work'.vault = work.vault /\ work'.wallet = work.wallet
        /\ work'.glob = [work.glob EXCEPT ![MakerToken] =
                            IF owes THEN UpdateDeposit(@, maker, - trade.got) ELSE @]
        /\ ctx'.phase = IF reverses THEN "reverse" ELSE "match"
        /\ ctx'.pending = IF owes THEN ctx.pending + trade.got ELSE ctx.pending
        /\ ctx'.refunds = IF trade.full THEN DeferredRefunds(order) ELSE ctx.refunds
        /\ ctx'.traded = [base |-> ctx.traded["base"] + trade.base,
                          quote |-> ctx.traded["quote"] + trade.quote]
        /\ reverses => /\ ctx'.reversal.price = ReversePrice(order)
                       /\ ctx'.reversal.type = order.type
                       /\ ctx'.reversal.trader_index = order.trader_index
                       /\ ctx'.reversal.base = trade.base
                       /\ ctx'.reversal.quote = trade.quote
        /\ ctx'.kind = ctx.kind /\ ctx'.seat = ctx.seat /\ ctx'.globals = ctx.globals
        /\ ctx'.orders = ctx.orders /\ ctx'.args = ctx.args /\ ctx'.seq = ctx.seq
        /\ ctx'.swap = ctx.swap /\ ctx'.temp = ctx.temp /\ ctx'.initial = ctx.initial

LEMMA FillEffect ==
    ASSUME IInv, Fill
    PROVE  \E i \in Index : FilledBy(i)
<1>1. PICK i \in Index :
        LET order == work.m.data[i]
            trade == Trade(i)
            maker == work.m.data[order.trader_index].trader
            reverses == IsReversible(order.type) /\ HasReversePrice(order)
        IN  /\ IsMaker(i) /\ IsMatch(i) /\ CanFill(i)
            /\ Step([work EXCEPT
                        !.m = Traded(@, ctx.seat, i, ctx.args.is_bid, trade),
                        !.glob[MakerToken] = IF IsGlobalMaker(i)
                                             THEN UpdateDeposit(@, maker, - trade.got)
                                             ELSE @],
                    [ctx EXCEPT
                        !.phase = IF reverses THEN "reverse" ELSE @,
                        !.remaining = IF trade.full THEN @ - trade.base ELSE 0,
                        !.pending = IF IsGlobalMaker(i) THEN @ + trade.got ELSE @,
                        !.refunds = IF trade.full THEN DeferredRefunds(order) ELSE @,
                        !.traded = [base |-> @["base"] + trade.base,
                                    quote |-> @["quote"] + trade.quote],
                        !.reversal = IF ~ reverses THEN @ ELSE
                                     [trader_index |-> order.trader_index,
                                      type |-> order.type, spread |-> order.spread,
                                      price |-> ReversePrice(order), base |-> trade.base,
                                      quote |-> trade.quote, full |-> trade.full]])
  BY DEF Fill
<1> DEFINE order == work.m.data[i]
           trade == Trade(i)
           maker == work.m.data[order.trader_index].trader
           owes == IsGlobalMaker(i)
           reverses == IsReversible(order.type) /\ HasReversePrice(order)
           is_bid == ctx.args.is_bid
           m == Traded(work.m, ctx.seat, i, is_bid, trade)
           glob == [work.glob EXCEPT ![MakerToken] = IF owes
                                                      THEN UpdateDeposit(@, maker, - trade.got)
                                                      ELSE @]
           phase == IF reverses THEN "reverse" ELSE ctx.phase
           remaining == IF trade.full THEN ctx.remaining - trade.base ELSE 0
           pending == IF owes THEN ctx.pending + trade.got ELSE ctx.pending
           refunds == IF trade.full THEN DeferredRefunds(order) ELSE ctx.refunds
           traded == [base |-> ctx.traded["base"] + trade.base,
                      quote |-> ctx.traded["quote"] + trade.quote]
           reversal == IF ~ reverses THEN ctx.reversal ELSE
                           [trader_index |-> order.trader_index, type |-> order.type,
                            spread |-> order.spread, price |-> ReversePrice(order),
                            base |-> trade.base, quote |-> trade.quote, full |-> trade.full]
           w == [work EXCEPT !.m = m, !.glob = glob]
           c == [ctx EXCEPT !.phase = phase, !.remaining = remaining, !.pending = pending,
                            !.refunds = refunds, !.traded = traded, !.reversal = reversal]
<1>2. /\ ctx.phase = "match" /\ ctx.remaining > 0
      /\ i \in OrderIndices(work.m) /\ order.is_bid = ~ is_bid
  BY <1>1, MakerSound
<1>3. /\ MarketSound(work.m) /\ work \in Accounts /\ ctx \in Contexts /\ work.m \in Markets
      /\ ctx.seat \in SeatIndices(work.m)
  BY <1>2, BusySound DEF WorkSound, MarketSound
<1>4. is_bid \in BOOLEAN /\ ctx.remaining \in Nat
  BY <1>3 DEF Contexts, OrderArgs
<1>5. Step(w, c)
  BY <1>1, <1>3 DEF Accounts
<1>6. order \in RestingOrders /\ order.trader_index \in SeatIndices(work.m)
  BY <1>2, <1>3, OrderTyped DEF MarketSound, OwnersSeated
<1>7. maker \in Traders
  BY <1>3, <1>6, SeatTyped DEF Seats
<1>8. trade = TradeWith(order, is_bid, ctx.remaining)
  BY DEF Trade
<1>9. trade.base \in Nat /\ trade.quote \in Nat /\ trade.got \in Nat
  <2> HIDE DEF trade, order
  <2>1. QED
    BY <1>4, <1>6, <1>8, TradeNat
<1>10. CanTrade(work.m, ctx.seat, order, is_bid, trade)
  BY <1>1 DEF CanFill
<1>11. /\ m.seq = work.m.seq
       /\ IF trade.full THEN Removed(work.m, m, i)
                        ELSE Resized(work.m, m, i) /\ m.data[i].base <= order.base
       /\ m.data[ctx.seat].bal[Backing(~ is_bid)]
            >= work.m.data[ctx.seat].bal[Backing(~ is_bid)] + trade.got
  <2> DEFINE before == work.m
             taker == ctx.seat
  <2>1. order = before.data[i] /\ m = Traded(before, taker, i, is_bid, trade)
    OBVIOUS
  <2>2. /\ MarketSound(before) /\ taker \in SeatIndices(before) /\ i \in OrderIndices(before)
        /\ order.is_bid = ~ is_bid /\ CanTrade(before, taker, order, is_bid, trade)
    BY <1>2, <1>3, <1>10
  <2> HIDE DEF trade, m, order, w, c, before, taker, is_bid, glob, phase, remaining, pending,
               refunds, traded, reversal, maker, owes, reverses
  <2>3. IsTraded(before, m, taker, i, order, is_bid, ctx.remaining, trade)
    BY <1>4, <1>8, <2>1, <2>2 DEF IsTraded
  <2>4. /\ m.seq = before.seq
        /\ IF trade.full THEN Removed(before, m, i)
                         ELSE Resized(before, m, i) /\ m.data[i].base <= order.base
        /\ m.data[taker].bal[Backing(~ is_bid)]
            >= before.data[taker].bal[Backing(~ is_bid)] + trade.got
    BY <2>2, <2>3, TradedSound
  <2>5. QED
    BY <2>4 DEF before, taker
<1>12. phase = IF reverses THEN "reverse" ELSE "match"
  BY <1>2
<1>13. reverses => /\ reversal.price = ReversePrice(order) /\ reversal.type = order.type
                   /\ reversal.trader_index = order.trader_index
                   /\ reversal.base = trade.base /\ reversal.quote = trade.quote
  OBVIOUS
<1>14. owes = (order.type = "Global")
  BY DEF IsGlobalMaker
<1> HIDE DEF m, glob, phase, remaining, pending, refunds, traded, reversal
<1>15. w.m = m /\ w.vault = work.vault /\ w.wallet = work.wallet /\ w.glob = glob
  BY <1>3 DEF Accounts
<1>16. /\ c.phase = phase /\ c.kind = ctx.kind /\ c.seat = ctx.seat /\ c.pending = pending
       /\ c.globals = ctx.globals /\ c.seq = ctx.seq /\ c.refunds = refunds
       /\ c.traded = traded
       /\ c.temp = ctx.temp /\ c.swap = ctx.swap /\ c.args = ctx.args /\ c.initial = ctx.initial
       /\ c.orders = ctx.orders /\ c.reversal = reversal
  BY <1>3 DEF Contexts
<1> HIDE DEF w, c
<1>17. work' = w /\ ctx' = c /\ accounts' = accounts /\ slot' = slot
  BY <1>5 DEF Step
<1>18. FilledBy(i)
  BY <1>1, <1>2, <1>6, <1>7, <1>9, <1>11, <1>12, <1>13, <1>14, <1>15, <1>16, <1>17
     DEF FilledBy, m, glob, pending, refunds, traded
<1>19. QED
  BY <1>18

LEMMA FillBook ==
    ASSUME IInv, IInv', BookInv, Fill
    PROVE  BookInv'
<1>1. PICK i \in Index : FilledBy(i)
  BY FillEffect
<1> DEFINE m == work.m
           n == work'.m
           order == m.data[i]
           is_bid == ctx.args.is_bid
<1>2. /\ IsMaker(i) /\ i \in OrderIndices(m) /\ order \in RestingOrders
      /\ order.is_bid = ~ is_bid /\ accounts' = accounts /\ n.seq = m.seq
      /\ ctx'.args = ctx.args /\ ctx'.seq = ctx.seq /\ ctx'.phase \in {"match", "reverse"}
      /\ Removed(m, n, i) \/ Resized(m, n, i)
  BY <1>1 DEF FilledBy
<1>3. ctx'.phase = "reverse" =>
            IsReversible(order.type) /\ ctx'.reversal.price = ReversePrice(order)
  BY <1>1 DEF FilledBy
<1>4. /\ ctx.phase = "match" /\ m \in Markets /\ n \in Markets /\ is_bid \in BOOLEAN
      /\ i \in BestAmong(m, BookSide(m, ~ is_bid))
  <2>1. n \in Markets
    BY BothMarketsNext
  <2>2. is_bid \in BOOLEAN
    BY BothMarkets DEF Contexts, OrderArgs
  <2>3. QED
    BY <1>2, <2>1, <2>2, BothMarkets, MakerSound DEF IsMaker
<1>5. FewerOrders(m, n) /\ n.seq >= m.seq
  <2> HIDE DEF m, n
  <2>1. FewerOrders(m, n)
    BY <1>2, <1>4, RemovedFewer, ResizedFewer
  <2>2. QED
    BY <1>2, <1>4, <2>1, BookTyped
<1>6. ctx'.phase = "reverse" => Outside(n, is_bid, ctx'.reversal.price)
  <2> SUFFICES ASSUME ctx'.phase = "reverse"
               PROVE  Outside(n, is_bid, ReversePrice(order))
    BY <1>3
  <2> DEFINE price == ReversePrice(order)
  <2>1. /\ IF order.is_bid THEN price >= order.price ELSE price <= order.price
        /\ price \in Nat
    BY <1>2, <1>3, ReversePriceOutside, ReversePriceNat
  <2>2. Outside(m, is_bid, price)
    <3> SUFFICES ASSUME NEW j \in BookSide(m, ~ is_bid)
                 PROVE  IF is_bid THEN price <= m.data[j].price ELSE m.data[j].price <= price
        BY DEF Outside
    <3> HIDE DEF price, is_bid
    <3>1. j \in OrderIndices(m)
        BY DEF BookSide
    <3> HIDE DEF m
    <3>2. IF is_bid THEN m.data[i].price <= m.data[j].price
                    ELSE m.data[j].price <= m.data[i].price
        BY <1>4, BestIsBest
    <3>3. m.data[i].price \in Nat /\ m.data[j].price \in Nat
        BY <1>2, <1>4, <3>1, BookTyped
    <3>4. CASE is_bid
      <4>1. price <= order.price
          <5>1. order.is_bid = FALSE
              BY <1>2, <3>4
          <5>2. QED
              BY <2>1, <5>1
      <4>2. QED
          BY <2>1, <3>2, <3>3, <3>4, <4>1
    <3>5. CASE ~ is_bid
      <4>1. price >= order.price
          <5>1. order.is_bid = TRUE
              BY <1>2, <3>5
          <5>2. QED
              BY <2>1, <5>1
      <4>2. QED
          BY <2>1, <3>2, <3>3, <3>5, <4>1
    <3>6. QED
        BY <3>4, <3>5
  <2> HIDE DEF m, n, price, is_bid
  <2>3. Outside(n, is_bid, price)
    BY <1>5, <2>2, FewerOutside
  <2>4. QED
    BY <2>3 DEF price
<1>7. QED
  BY <1>2, <1>4, <1>5, <1>6, FewerStep DEF MatchingPhases

-----------------------------------------------------------------------------
(* Steps that insert an order. *)

LEMMA PlaceReverseEffect ==
    ASSUME IInv, PlaceReverse
    PROVE  \E i \in ReverseTargets :
             /\ CanReverse(work.m, i, ctx.reversal, ctx.args.is_bid)
             /\ MarketSound(work.m) /\ work.m \in Markets /\ ctx \in Contexts
             /\ work'.m = Reversed(work.m, i, ctx.reversal, ctx.args.is_bid)
             /\ work'.vault = work.vault /\ work'.wallet = work.wallet /\ work'.glob = work.glob
             /\ ReversalOnBook(work.m, work'.m, i, ctx.reversal, ctx.args.is_bid)
             /\ \A s \in SeatIndices(work.m) :
                  work'.m.data[s].bal[Backing(~ ctx.args.is_bid)]
                        = work.m.data[s].bal[Backing(~ ctx.args.is_bid)]
             /\ ctx.phase = "reverse"
             /\ ctx' = [ctx EXCEPT !.phase = "match", !.reversal = NoReversal]
             /\ accounts' = accounts /\ slot' = slot
<1>1. ctx.phase = "reverse"
  BY DEF PlaceReverse
<1>2. PICK i \in ReverseTargets :
        /\ CanReverse(work.m, i, ctx.reversal, ctx.args.is_bid)
        /\ Step([work EXCEPT !.m = Reversed(@, i, ctx.reversal, ctx.args.is_bid)],
                [ctx EXCEPT !.phase = "match", !.reversal = NoReversal])
  BY DEF PlaceReverse
<1> DEFINE r == ctx.reversal
           is_bid == ctx.args.is_bid
           before == work.m
           m == Reversed(before, i, r, is_bid)
           w == [work EXCEPT !.m = m]
<1>3. /\ MarketSound(work.m) /\ work \in Accounts /\ ctx \in Contexts /\ work.m \in Markets
      /\ r.trader_index \in SeatIndices(work.m)
  BY <1>1, BusySound DEF WorkSound, MarketSound
<1>4. is_bid \in BOOLEAN /\ r \in Reversals
  BY <1>3 DEF Contexts, OrderArgs
<1>5. /\ r.type \in ReversibleTypes /\ r.spread \in Spreads
      /\ r.price \in Nat /\ r.base \in Nat /\ r.quote \in Nat
  BY <1>4 DEF Reversals
<1>6. /\ i \in LookupResults(before, is_bid, r.trader_index, r.type, r.price)
      /\ CanReverse(before, i, r, is_bid) /\ MarketSound(before)
      /\ r.trader_index \in SeatIndices(before)
  BY <1>2, <1>3 DEF ReverseTargets
<1>7. /\ ReversalOnBook(before, m, i, r, is_bid)
      /\ \A s \in SeatIndices(before) :
            m.data[s].bal[Backing(~ is_bid)] = before.data[s].bal[Backing(~ is_bid)]
  <2> HIDE DEF r, is_bid, before
  <2>1. QED
    BY <1>4, <1>5, <1>6, ReversedSound
<1> HIDE DEF m
<1>8. w.m = m /\ w.vault = work.vault /\ w.wallet = work.wallet /\ w.glob = work.glob
  BY <1>3 DEF Accounts
<1>9. /\ work' = w /\ ctx' = [ctx EXCEPT !.phase = "match", !.reversal = NoReversal]
      /\ accounts' = accounts /\ slot' = slot
  BY <1>2 DEF Step, m
<1> HIDE DEF w
<1>10. QED
  BY <1>1, <1>2, <1>3, <1>7, <1>8, <1>9 DEF m

\* A reversal rests at a price where it crosses nothing, under the next number.
LEMMA PlaceReverseBook ==
    ASSUME IInv, IInv', BookInv, PlaceReverse
    PROVE  BookInv'
<1> DEFINE m == work.m
           n == work'.m
           r == ctx.reversal
           is_bid == ctx.args.is_bid
           c == [ctx EXCEPT !.phase = "match", !.reversal = NoReversal]
<1>1. PICK i : /\ ReversalOnBook(m, n, i, r, is_bid) /\ m \in Markets /\ ctx \in Contexts
               /\ ctx.phase = "reverse" /\ ctx' = c /\ accounts' = accounts
  BY PlaceReverseEffect
<1>2. c.phase = "match" /\ c.seq = ctx.seq /\ ctx.seq \in Nat
  BY <1>1 DEF Contexts
<1>3. n \in Markets
  BY BothMarketsNext
<1>4. BookSound(m) /\ Reserved(m, ctx.seq) /\ Outside(m, is_bid, r.price)
  BY <1>1 DEF BookInv, WorkBookSound, MatchingPhases
<1> HIDE DEF m, n, r, c, is_bid
<1>5. CASE FewerOrders(m, n) /\ n.seq = m.seq
  <2>1. n.seq >= m.seq
    BY <1>1, <1>5, BookTyped
  <2>2. BookSound(n) /\ Reserved(n, ctx.seq)
    BY <1>1, <1>2, <1>3, <1>4, <1>5, <2>1, FewerSound, FewerReserved
  <2>3. QED
    BY <1>1, <1>2, <2>2, StepBook DEF WorkBookSound, n
<1>6. CASE \E order \in RestingOrders :
            /\ order.seq = m.seq /\ order.price = r.price /\ order.is_bid = is_bid
            /\ Inserted(m, n, order) /\ n.seq = m.seq + 1
  <2>1. PICK order \in RestingOrders :
            /\ order.seq = m.seq /\ order.price = r.price /\ order.is_bid = is_bid
            /\ Inserted(m, n, order) /\ n.seq = m.seq + 1
    BY <1>6
  <2>2. m.seq \in Nat /\ \A j \in OrderIndices(m) : m.data[j].seq < m.seq
    BY <1>1, <1>4, BookTyped DEF BookSound, SequencesSound
  <2>3. BookSound(n)
    <3>1. n.seq >= m.seq /\ order.seq < n.seq
        BY <2>1, <2>2
    <3>2. \A j \in OrderIndices(m) : m.data[j].seq # order.seq
        BY <1>1, <2>1, <2>2, BookTyped
    <3>3. Outside(m, order.is_bid, order.price)
        BY <1>4, <2>1
    <3>4. QED
        BY <1>1, <1>3, <1>4, <2>1, <3>1, <3>2, <3>3, InsertedSound
  <2>4. Reserved(n, ctx.seq)
    BY <1>2, <1>4, <2>1, <2>2 DEF Reserved, Inserted
  <2>5. QED
    BY <1>1, <1>2, <2>3, <2>4, StepBook DEF WorkBookSound, n
<1>7. ReversalOnBook(m, n, i, r, is_bid) =>
        \/ FewerOrders(m, n) /\ n.seq = m.seq
        \/ \E order \in RestingOrders :
            /\ order.seq = m.seq /\ order.price = r.price /\ order.is_bid = is_bid
            /\ Inserted(m, n, order) /\ n.seq = m.seq + 1
  BY <1>1, SameFewer, ResizedFewer DEF ReversalOnBook
<1>8. QED
  BY <1>1, <1>5, <1>6, <1>7

\* An order takes the next number, which no order has.
LEMMA BeginOrderBook ==
    ASSUME IInv, IInv', BookInv, BeginOrder
    PROVE  BookInv'
<1> DEFINE args == Head(ctx.orders)
           m == work.m
           n == [work.m EXCEPT !.seq = @ + 1]
           w == [work EXCEPT !.m = n]
           c == [ctx EXCEPT !.phase = "match", !.orders = Tail(@), !.args = args,
                            !.seq = work.m.seq, !.remaining = args.base, !.pending = 0,
                            !.traded = NoTokens]
<1>1. ctx.phase = "next"
  BY DEF BeginOrder
<1>2. work \in Accounts /\ ctx \in Contexts /\ MarketSound(m) /\ m \in Markets
  BY <1>1, BusySound DEF WorkSound, MarketSound
<1>3. Step(w, c)
  BY <1>2 DEF BeginOrder, Accounts
<1>4. MarketSound(n) /\ n.seq = m.seq + 1 /\ SameOrders(m, n)
  BY <1>2, SequenceSound DEF SameOrders
<1> HIDE DEF n
<1>5. w.m = n /\ c.phase = "match" /\ c.seq = m.seq
  BY <1>2 DEF Accounts, Contexts
<1> HIDE DEF w, c
<1>6. accounts' = accounts /\ work'.m = n /\ ctx' = c
  BY <1>3, <1>5 DEF Step
<1>7. BookSound(m)
  BY DEF BookInv, WorkBookSound
<1>8. m.seq \in Nat /\ \A j \in OrderIndices(m) : m.data[j].seq \in Nat /\ m.data[j].seq < m.seq
  BY <1>2, <1>7, BookTyped DEF BookSound, SequencesSound
<1> HIDE DEF m
<1>9. BookSound(n)
  <2>1. FewerOrders(m, n)
    BY <1>4, SameFewer
  <2>2. n.seq >= m.seq /\ n \in Markets
    BY <1>4, <1>8 DEF MarketSound
  <2>3. QED
    BY <1>2, <1>7, <2>1, <2>2, FewerSound
<1>10. Reserved(n, m.seq)
  BY <1>4, <1>8 DEF Reserved, SameOrders
<1>11. WorkBookSound(work', ctx')
  BY <1>5, <1>6, <1>9, <1>10 DEF WorkBookSound
<1>12. QED
  BY <1>6, <1>11, StepBook

LEMMA FinishOrderEffect ==
    ASSUME IInv, FinishOrder
    PROVE  /\ ctx.phase = "settle" /\ CanFinishOrder
           /\ work \in Accounts /\ ctx \in Contexts /\ MarketSound(work.m)
           /\ ctx.seat \in SeatIndices(work.m)
           /\ IF Rests THEN Inserted(work.m, work'.m, RestingOrder(work.m))
                       ELSE SameOrders(work.m, work'.m)
           /\ work'.m.seq = work.m.seq
           /\ ctx.kind = "swap" => work'.m = work.m
           /\ work'.wallet = work.wallet
           /\ work'.vault = [work.vault EXCEPT ![MakerToken] = @ + ctx.pending]
           /\ work'.glob = [work.glob EXCEPT ![MakerToken].vault = @ - ctx.pending]
           /\ ctx' = [ctx EXCEPT !.phase = "next", !.pending = 0, !.remaining = 0, !.seq = 0]
           /\ accounts' = accounts /\ slot' = slot
<1> DEFINE m == IF ctx.kind = "batch" THEN ExpandIfNeeded(AfterRest) ELSE AfterRest
           vault == [work.vault EXCEPT ![MakerToken] = @ + ctx.pending]
           glob == [work.glob EXCEPT ![MakerToken].vault = @ - ctx.pending]
           w == [work EXCEPT !.vault = vault, !.glob = glob, !.m = m]
           c == [ctx EXCEPT !.phase = "next", !.pending = 0, !.remaining = 0, !.seq = 0]
<1>1. ctx.phase = "settle" /\ CanFinishOrder
  BY DEF FinishOrder
<1>2. WorkSound(work, ctx)
  BY <1>1, BusySound
<1>3. /\ MarketSound(work.m) /\ work \in Accounts /\ ctx \in Contexts
      /\ ctx.seat \in SeatIndices(work.m)
  BY <1>2 DEF WorkSound
<1>4. Step(w, c)
  BY <1>3 DEF FinishOrder, Accounts
<1> DEFINE after == AfterRest
<1>5. /\ MarketSound(after) /\ after.seq = work.m.seq
      /\ IF Rests THEN Inserted(work.m, after, RestingOrder(work.m))
                  ELSE SameOrders(work.m, after)
      /\ ~ Rests => after = work.m
  <2>1. CASE Rests
    <3>1. CanRestOn(work.m) /\ after = Rested(work.m)
        BY <1>1, <2>1 DEF CanFinishOrder, AfterRest
    <3>2. QED
        BY <1>3, <2>1, <3>1, RestedSound
  <2>2. CASE ~ Rests
    BY <1>3, <2>2 DEF AfterRest, SameOrders
  <2>3. QED
    BY <2>1, <2>2
<1>6. ctx.kind = "swap" => ~ Rests
  BY <1>1, <1>2 DEF WorkSound, SwapSound, MatchingPhases, IsSwapOrder, CanRest, Rests
<1>7. SameOrders(after, m) /\ m.seq = after.seq /\ (ctx.kind = "swap" => m = after)
  <2>1. CASE ctx.kind = "batch"
    <3>1. CanExpandIfNeeded(after) /\ m = ExpandIfNeeded(after)
        BY <1>1, <2>1 DEF CanFinishOrder
    <3> HIDE DEF after, m
    <3>2. QED
        BY <1>5, <2>1, <3>1, ExpandIfNeededSound DEF SameOrders
  <2>2. CASE ctx.kind # "batch"
    BY <2>2 DEF SameOrders
  <2>3. QED
    BY <2>1, <2>2
<1> HIDE DEF after, m, vault, glob
<1>8. IF Rests THEN Inserted(work.m, m, RestingOrder(work.m)) ELSE SameOrders(work.m, m)
  BY <1>5, <1>7 DEF Inserted, SameOrders
<1>9. w.m = m /\ w.vault = vault /\ w.wallet = work.wallet /\ w.glob = glob
  BY <1>3 DEF Accounts
<1>10. work' = w /\ ctx' = c /\ accounts' = accounts /\ slot' = slot
  BY <1>4 DEF Step
<1> HIDE DEF w
<1>11. QED
  BY <1>1, <1>3, <1>5, <1>6, <1>7, <1>8, <1>9, <1>10 DEF vault, glob

LEMMA FinishOrderBook ==
    ASSUME IInv, IInv', BookInv, FinishOrder
    PROVE  BookInv'
<1> DEFINE m == work.m
           n == work'.m
           order == RestingOrder(m)
           c == [ctx EXCEPT !.phase = "next", !.pending = 0, !.remaining = 0, !.seq = 0]
<1>1. /\ ctx.phase = "settle" /\ ctx \in Contexts /\ MarketSound(m)
      /\ ctx.seat \in SeatIndices(m)
      /\ IF Rests THEN Inserted(m, n, order) ELSE SameOrders(m, n)
      /\ n.seq = m.seq /\ ctx' = c /\ accounts' = accounts
  BY FinishOrderEffect
<1>2. c.phase = "next"
  BY <1>1 DEF Contexts
<1>3. m \in Markets /\ n \in Markets /\ m.seq \in Nat
  BY <1>1, BothMarkets, BothMarketsNext, BookTyped
<1>4. /\ BookSound(m) /\ Reserved(m, ctx.seq)
      /\ Rests => Outside(m, ctx.args.is_bid, ctx.args.price)
  BY <1>1 DEF BookInv, WorkBookSound, MatchingPhases, Rests
<1>5. /\ order \in RestingOrders /\ order.seq = ctx.seq
      /\ order.is_bid = ctx.args.is_bid /\ order.price = ctx.args.price
  BY <1>1, <1>3, RestingOrderTyped DEF RestingOrder
<1> HIDE DEF m, n, c, order
<1>6. BookSound(n)
  <2>1. CASE Rests
    <3>1. n.seq >= m.seq /\ order.seq < n.seq
        BY <1>1, <1>3, <1>4, <1>5 DEF Reserved
    <3>2. \A i \in OrderIndices(m) : m.data[i].seq # order.seq
        BY <1>4, <1>5 DEF Reserved
    <3>3. QED
        BY <1>1, <1>3, <1>4, <1>5, <2>1, <3>1, <3>2, InsertedSound
  <2>2. CASE ~ Rests
    <3>1. FewerOrders(m, n) /\ n.seq >= m.seq
        BY <1>1, <1>3, <2>2, SameFewer
    <3>2. QED
        BY <1>3, <1>4, <3>1, FewerSound
  <2>3. QED
    BY <2>1, <2>2
<1>7. WorkBookSound(work', ctx')
  BY <1>1, <1>2, <1>6 DEF WorkBookSound, MatchingPhases, n
<1>8. QED
  BY <1>1, <1>7, StepBook

-----------------------------------------------------------------------------
(* The book in every reachable state. *)

LEMMA NextBook ==
    ASSUME IInv, IInv', BookInv, [Next]_vars
    PROVE  BookInv'
<1>1. CASE MarketArrival
  BY <1>1, MarketArrivalOrders, OrdersStayBook
<1>2. CASE GlobalArrival
  BY <1>2, GlobalArrivalBook
<1>3. CASE TradeArrival
  BY <1>3, BatchUpdateBook, SwapBook DEF TradeArrival
<1>4. CASE AdvanceSlot \/ UNCHANGED vars
  <2>1. accounts' = accounts /\ work' = work /\ ctx' = ctx
    BY <1>4 DEF AdvanceSlot, vars
  <2>2. WorkBookSound(work, ctx)' = WorkBookSound(work, ctx)
    BY <2>1 DEF WorkBookSound, BookSound, SequencesSound, NotCrossed, OrderIndices, BookSide,
                Reserved, Outside
  <2>3. BookSound(accounts.m)' = BookSound(accounts.m)
    BY <2>1 DEF BookSound, SequencesSound, NotCrossed, OrderIndices, BookSide
  <2>4. QED
    BY <2>1, <2>2, <2>3 DEF BookInv
<1>5. CASE Progress
  <2>1. CASE \/ CancelFails \/ PrepayGasFails \/ BeginOrderFails \/ FillFails
             \/ PlaceReverseFails \/ FinishOrderFails \/ EstimateFails \/ FinishSwapFails
    <3>1. Abort
        BY <2>1 DEF CancelFails, PrepayGasFails, BeginOrderFails, FillFails,
                    PlaceReverseFails, FinishOrderFails, EstimateFails, FinishSwapFails
    <3>2. QED
        BY <3>1, AbortBook
  <2>2. CASE CancelOrder \/ CleanStaleMaker \/ CleanUnbackedMaker
    BY <2>2, CancelOrderBook, CleanBook
  <2>3. CASE PrepayGas \/ WalkPast \/ CountMaker \/ StopWalking \/ StopMatching
    BY <2>3, QuietBook, StopMatchingBook
  <2>4. CASE BeginOrder \/ Fill \/ PlaceReverse \/ FinishOrder \/ FinishBatch \/ FinishSwap
    BY <2>4, BeginOrderBook, FillBook, PlaceReverseBook, FinishOrderBook, FinishBook
  <2>5. QED
    BY <1>5, <2>1, <2>2, <2>3, <2>4 DEF Progress
<1>6. QED
  BY <1>1, <1>2, <1>3, <1>4, <1>5 DEF Next

LEMMA InitBook ==
    ASSUME Init
    PROVE  BookInv
<1>1. accounts.m = NewMarket /\ work.m = NewMarket /\ ctx.phase = "idle"
  BY DEF Init, Idle
<1>2. OrderIndices(NewMarket) = {}
  BY DEF OrderIndices, NewMarket, EmptyBlock
<1> DEFINE m == NewMarket
<1>3. BookSound(m)
  <2>1. OrderIndices(m) = {}
    BY <1>2
  <2> HIDE DEF m
  <2>2. QED
    BY <2>1 DEF BookSound, SequencesSound, NotCrossed, BookSide
<1> HIDE DEF m
<1>4. QED
  BY <1>1, <1>3 DEF BookInv, WorkBookSound, MatchingPhases, m

\* BookInv holds in every reachable state.
THEOREM BookInductive == Spec => []BookInv
<1>1. Init => BookInv
  BY InitBook
<1>2. IInv /\ IInv' /\ BookInv /\ [Next]_vars => BookInv'
  BY NextBook
<1>3. QED
  BY <1>1, <1>2, Inductive, PTL DEF Spec

\* The counter is ahead of every order, no two orders share a number, and none has
\* the number of the order being matched, whatever reversals are placed meanwhile:
\* a cancel by sequence number hits the order it names.
THEOREM SequenceNumbersNameOneOrder == Spec => []SequenceNumbersUnique
<1>1. BookInv => SequenceNumbersUnique
  BY DEF BookInv, WorkBookSound, BookSound, SequencesSound, Reserved, MatchingPhases,
         SequenceNumbersUnique
<1>2. QED
  BY <1>1, BookInductive, PTL

\* No bid is above an ask, within an instruction either: an order rests only when
\* what it would match is gone, a reversed price lies outside its maker's, which
\* was the best, and a reversal coalesces at a price that was on the book.
THEOREM BookNeverCrossed == Spec => []BookNotCrossed
<1>1. BookInv => BookNotCrossed
  BY DEF BookInv, WorkBookSound, BookSound, NotCrossed, BookNotCrossed
<1>2. QED
  BY <1>1, BookInductive, PTL

=============================================================================
