--------------------- MODULE TriageAndEvaluationProofs ---------------------
(***************************************************************************)
(* What is measured, on both sides: what triage and its tools read of a    *)
(* recording, and what the evaluation commands say of trials.  Both rest   *)
(* on sums over finite sets and on strict orders of them, for which        *)
(* induction is stated and used as a fact about families of subsets.       *)
(*                                                                         *)
(* A query that keeps the first of an order keeps nothing that comes after *)
(* what it leaves out, and who is among the first few of a strict order is *)
(* told by how many come before it.  Walks over calls and spans are        *)
(* recursive functions: that there is such a function is shown first, and  *)
(* then what each of its levels holds.                                     *)
(*                                                                         *)
(* Shares of suspicion are whole numbers of a common whole.  A pass of the *)
(* walk is linear and hands on no more than the damping of a difference,   *)
(* so it keeps a distribution one, and settles; and what it hands on goes  *)
(* along calls, so that suspicion stays below what moved (TriageInv).      *)
(*                                                                         *)
(* The argument about the evaluation commands goes, for any library, any   *)
(* answers and any script of commands, from the label files (LabelsInv) to *)
(* what is remembered (MemoryInv), and from where a job stands (JobInv) to *)
(* what it measures (MeasureInv), what its report says (ReportsInv) and    *)
(* what two sides of one job have in common (AlikeInv).                    *)
(***************************************************************************)
EXTENDS Triage, Evaluation, FiniteSetTheorems, WellFoundedInduction, TLAPS

-----------------------------------------------------------------------------
(* Induction over finite sets and over numbers *)

\* A family of subsets of a finite set that has a subset whenever it has
\* all that are one element smaller has them all.
LEMMA SmallerFirst ==
  ASSUME NEW S, IsFiniteSet(S), NEW Good \in SUBSET (SUBSET S),
         \A T \in SUBSET S : (\A x \in T : T \ {x} \in Good) => T \in Good
  PROVE  Good = SUBSET S
<1>. DEFINE Bad == (SUBSET S) \ Good
            Sizes == {Cardinality(T) : T \in Bad}
<1>1. SUFFICES ASSUME Bad # {} PROVE FALSE
  OBVIOUS
<1>2. Sizes \in SUBSET Nat /\ Sizes # {}
  BY <1>1, FS_Subset, FS_CardinalityType
<1>3. PICK n \in Sizes : \A m \in Sizes : <<m, n>> \notin OpToRel(<, Nat)
  <2>. HIDE DEF Sizes
  <2> QED BY <1>2, NatLessThanWellFounded, WFMin
<1>4. PICK T \in Bad : n = Cardinality(T)
  BY <1>3
<1>5. IsFiniteSet(T) /\ T \in SUBSET S /\ Cardinality(T) \in Nat
  BY <1>4, FS_Subset, FS_CardinalityType
<1>6. PICK x \in T : T \ {x} \in Bad
  BY <1>4, <1>5
<1>7. Cardinality(T \ {x}) = Cardinality(T) - 1
  BY <1>5, <1>6, FS_RemoveElement
<1>8. Cardinality(T \ {x}) \in Sizes
  BY <1>6
<1>. HIDE DEF Sizes
<1>9. ASSUME NEW m \in Sizes PROVE ~(m < n)
  BY <1>2, <1>3 DEF OpToRel
<1> QED BY <1>4, <1>5, <1>7, <1>8, <1>9

\* What holds of nothing, and of a set with one thing more whenever it
\* holds of the set, holds of every subset of a finite set.
LEMMA EverySubset ==
  ASSUME NEW S, IsFiniteSet(S), NEW Good \in SUBSET (SUBSET S), {} \in Good,
         \A T \in Good : \A x \in S \ T : T \cup {x} \in Good
  PROVE  Good = SUBSET S
<1>1. ASSUME NEW T \in SUBSET S, \A x \in T : T \ {x} \in Good
      PROVE  T \in Good
  <2>1. CASE T = {}
    BY <2>1
  <2>2. CASE T # {}
    <3>1. PICK x \in T : TRUE
      BY <2>2
    <3>2. T = (T \ {x}) \cup {x} /\ x \in S \ (T \ {x})
      BY <3>1
    <3> QED BY <1>1, <3>1, <3>2
  <2> QED BY <2>1, <2>2
<1> QED BY <1>1, SmallerFirst

\* A set of naturals with 0, and with a number the next, has all of them.
LEMMA EveryNat ==
  ASSUME NEW Good \in SUBSET Nat, 0 \in Good, \A n \in Good : n + 1 \in Good
  PROVE  Good = Nat
<1>. DEFINE Bad == Nat \ Good
<1>1. SUFFICES ASSUME Bad # {} PROVE FALSE
  OBVIOUS
<1>2. PICK n \in Bad : \A m \in Bad : <<m, n>> \notin OpToRel(<, Nat)
  <2>1. Bad \subseteq Nat
    OBVIOUS
  <2>. HIDE DEF Bad
  <2> QED BY <1>1, <2>1, NatLessThanWellFounded, WFMin
<1>3. n \in Nat /\ n # 0
  BY <1>2
<1>4. n - 1 \in Nat /\ n - 1 < n /\ (n - 1) + 1 = n
  BY <1>3
<1>5. n - 1 \notin Bad
  <2>. HIDE DEF Bad
  <2> QED BY <1>2, <1>3, <1>4 DEF OpToRel
<1>6. n - 1 \in Good
  BY <1>4, <1>5
<1> QED BY <1>2, <1>4, <1>6

-----------------------------------------------------------------------------
(* Sums *)

\* total[T] is the sum of f over T, whatever the order.
Totals(total, f, S) ==
  /\ total \in [SUBSET S -> Int]
  /\ total[{}] = 0
  /\ \A T \in SUBSET S : \A x \in T : total[T] = f[x] + total[T \ {x}]

\* The totals over a set give those over a set with one thing more.
LEMMA TotalsGrow ==
  ASSUME NEW T, NEW y, y \notin T, NEW f, f[y] \in Int, \A x \in T : f[x] \in Int, NEW total, Totals(total, f, T)
  PROVE  \E more : Totals(more, f, T \cup {y})
<1>. DEFINE more == [U \in SUBSET (T \cup {y}) |-> IF y \in U THEN f[y] + total[U \ {y}] ELSE total[U]]
<1>1. \A U \in SUBSET (T \cup {y}) : U \ {y} \in SUBSET T /\ (y \notin U => U \in SUBSET T)
  OBVIOUS
<1>2. more \in [SUBSET (T \cup {y}) -> Int]
  BY <1>1 DEF Totals
<1>3. more[{}] = 0
  BY DEF Totals
<1>4. ASSUME NEW U \in SUBSET (T \cup {y}), NEW x \in U
      PROVE  more[U] = f[x] + more[U \ {x}]
  <2>1. CASE y \notin U
    BY <2>1, <1>1 DEF Totals
  <2>2. CASE y \in U /\ x = y
    <3>1. more[U] = f[y] + total[U \ {y}] /\ more[U \ {y}] = total[U \ {y}]
      BY <2>2
    <3> QED BY <3>1, <2>2
  <2>3. CASE y \in U /\ x # y
    <3>1. more[U] = f[y] + total[U \ {y}]
      BY <2>3
    <3>2. more[U \ {x}] = f[y] + total[(U \ {x}) \ {y}]
      BY <2>3
    <3>3. x \in U \ {y} /\ U \ {y} \in SUBSET T
      BY <2>3, <1>1
    <3>4. total[U \ {y}] = f[x] + total[(U \ {y}) \ {x}]
      BY <3>3 DEF Totals
    <3>5. (U \ {x}) \ {y} = (U \ {y}) \ {x} /\ (U \ {y}) \ {x} \in SUBSET T
      BY <3>3
    <3>6. total[(U \ {y}) \ {x}] \in Int /\ f[x] \in Int
      BY <3>5, <3>3 DEF Totals
    <3>7. more[U \ {x}] = f[y] + total[(U \ {y}) \ {x}]
      BY <3>2, <3>5
    <3>8. more[U] = f[y] + (f[x] + total[(U \ {y}) \ {x}])
      BY <3>1, <3>4
    <3>9. \A a, b, c \in Int : a + (b + c) = b + (a + c)
      OBVIOUS
    <3> QED BY <3>6, <3>7, <3>8, <3>9
  <2> QED BY <2>1, <2>2, <2>3
<1>. HIDE DEF more
<1> QED BY <1>2, <1>3, <1>4 DEF Totals

\* Every finite set of whole numbers has totals.
LEMMA TotalsExist ==
  ASSUME NEW S, IsFiniteSet(S), NEW f, \A x \in S : f[x] \in Int
  PROVE  \E total : Totals(total, f, S)
<1>. DEFINE Good == {T \in SUBSET S : \E total : Totals(total, f, T)}
<1>1. {} \in Good
  <2>. DEFINE none == [T \in SUBSET {} |-> 0]
  <2>1. Totals(none, f, {})
    BY DEF Totals
  <2> QED BY <2>1
<1>2. ASSUME NEW T \in Good, NEW x \in S \ T
      PROVE  T \cup {x} \in Good
  <2>1. PICK total : Totals(total, f, T)
    OBVIOUS
  <2>2. \E more : Totals(more, f, T \cup {x})
    BY <2>1, TotalsGrow
  <2> QED BY <2>2
<1>3. Good = SUBSET S
  <2>. HIDE DEF Good
  <2>1. Good \in SUBSET (SUBSET S)
    BY DEF Good
  <2> QED BY <1>1, <1>2, <2>1, EverySubset
<1> QED BY <1>3

\* SumFunctionOnSet is such a sum.
LEMMA SumIsTotal ==
  ASSUME NEW S, NEW f, NEW total, Totals(total, f, S), IsFiniteSet(S)
  PROVE  SumFunctionOnSet(f, S) = total[S]
<1>. DEFINE Body(iter) == [s \in SUBSET S |-> IF s = {} THEN 0 ELSE f[CHOOSE x \in s : TRUE] + iter[s \ {CHOOSE x \in s : TRUE}]]
            iter == CHOOSE it : it = Body(it)
<1>1. total = Body(total)
  <2>1. ASSUME NEW s \in SUBSET S PROVE total[s] = Body(total)[s]
    <3>1. CASE s = {}
      BY <3>1 DEF Totals
    <3>2. CASE s # {}
      BY <3>2 DEF Totals
    <3> QED BY <3>1, <3>2
  <2> QED BY <2>1 DEF Totals
<1>2. iter = Body(iter)
  <2>. HIDE DEF Body
  <2> QED BY <1>1
<1>3. SumFunctionOnSet(f, S) = iter[S]
  BY DEF SumFunctionOnSet, FoldFunctionOnSet, MapThenFoldSet
<1>. DEFINE Good == {T \in SUBSET S : iter[T] = total[T]}
<1>. HIDE DEF iter
<1>4. ASSUME NEW T \in SUBSET S, \A x \in T : T \ {x} \in Good
      PROVE  T \in Good
  <2>. DEFINE c == CHOOSE z \in T : TRUE
  <2>1. iter[T] = Body(iter)[T] /\ total[T] = Body(total)[T]
    <3>. HIDE DEF Body
    <3> QED BY <1>1, <1>2
  <2>2. T # {} => iter[T \ {c}] = total[T \ {c}]
    BY <1>4
  <2> QED BY <2>1, <2>2
<1>5. Good = SUBSET S
  <2>. HIDE DEF Good
  <2>1. Good \in SUBSET (SUBSET S)
    BY DEF Good
  <2> QED BY <1>4, <2>1, SmallerFirst
<1> QED BY <1>3, <1>5

\* A sum of whole numbers is one, nothing adds up to zero, and any term
\* can be taken out first.
LEMMA SumsAreInts ==
  ASSUME NEW S, IsFiniteSet(S), NEW f, \A x \in S : f[x] \in Int
  PROVE  /\ SumFunctionOnSet(f, S) \in Int
         /\ S = {} => SumFunctionOnSet(f, S) = 0
         /\ \A x \in S : SumFunctionOnSet(f, S) = f[x] + SumFunctionOnSet(f, S \ {x})
<1>1. PICK total : Totals(total, f, S)
  BY TotalsExist
<1>2. SumFunctionOnSet(f, S) = total[S]
  BY <1>1, SumIsTotal
<1>3. ASSUME NEW x \in S PROVE SumFunctionOnSet(f, S \ {x}) = total[S \ {x}]
  <2>. DEFINE T == S \ {x}
              rest == [U \in SUBSET T |-> total[U]]
  <2>1. T \in SUBSET S /\ IsFiniteSet(T) /\ \A U \in SUBSET T : U \in SUBSET S
    BY FS_Subset
  <2>2. Totals(rest, f, T)
    BY <1>1, <2>1 DEF Totals
  <2>3. SumFunctionOnSet(f, T) = rest[T]
    <3>. HIDE DEF rest, T
    <3> QED BY <2>1, <2>2, SumIsTotal
  <2> QED BY <2>3
<1> QED BY <1>1, <1>2, <1>3 DEF Totals

\* One thing more adds its value to a sum.
LEMMA SumGrows ==
  ASSUME NEW T, IsFiniteSet(T), NEW x, x \notin T, NEW f, f[x] \in Int, \A y \in T : f[y] \in Int
  PROVE  /\ SumFunctionOnSet(f, T) \in Int
         /\ SumFunctionOnSet(f, T \cup {x}) = f[x] + SumFunctionOnSet(f, T)
<1>1. IsFiniteSet(T \cup {x}) /\ \A y \in T \cup {x} : f[y] \in Int
  BY FS_AddElement
<1>2. (T \cup {x}) \ {x} = T
  OBVIOUS
<1>3. \A z \in T \cup {x} : SumFunctionOnSet(f, T \cup {x}) = f[z] + SumFunctionOnSet(f, (T \cup {x}) \ {z})
  BY <1>1, SumsAreInts
<1> QED BY <1>2, <1>3, SumsAreInts

\* A sum over nothing is zero, whatever is summed.
LEMMA SumOfNothing ==
  ASSUME NEW f
  PROVE  SumFunctionOnSet(f, {}) = 0
BY FS_EmptySet, SumsAreInts

\* A sum depends on the values it adds.
LEMMA SumOfTheSame ==
  ASSUME NEW S, IsFiniteSet(S), NEW f, NEW g, \A x \in S : f[x] \in Int /\ f[x] = g[x]
  PROVE  SumFunctionOnSet(f, S) = SumFunctionOnSet(g, S)
<1>1. PICK total : Totals(total, f, S)
  BY TotalsExist
<1>2. Totals(total, g, S)
  BY <1>1 DEF Totals
<1> QED BY <1>1, <1>2, SumIsTotal

\* The smaller the values, the smaller the sum.
LEMMA SumOfSmaller ==
  ASSUME NEW S, IsFiniteSet(S), NEW f, NEW g, \A x \in S : f[x] \in Int /\ g[x] \in Int /\ f[x] <= g[x]
  PROVE  SumFunctionOnSet(f, S) <= SumFunctionOnSet(g, S)
<1>. DEFINE Good == {T \in SUBSET S : SumFunctionOnSet(f, T) <= SumFunctionOnSet(g, T)}
<1>1. {} \in Good
  BY SumOfNothing
<1>2. ASSUME NEW T \in Good, NEW x \in S \ T PROVE T \cup {x} \in Good
  <2>1. IsFiniteSet(T)
    BY FS_Subset
  <2>2. /\ SumFunctionOnSet(f, T \cup {x}) = f[x] + SumFunctionOnSet(f, T)
        /\ SumFunctionOnSet(g, T \cup {x}) = g[x] + SumFunctionOnSet(g, T)
        /\ SumFunctionOnSet(f, T) \in Int /\ SumFunctionOnSet(g, T) \in Int
    BY <2>1, SumGrows
  <2> QED BY <2>2
<1>3. Good = SUBSET S
  <2>. HIDE DEF Good
  <2>1. Good \in SUBSET (SUBSET S)
    BY DEF Good
  <2> QED BY <1>1, <1>2, <2>1, EverySubset
<1> QED BY <1>3

\* Ones add up to how many there are.
LEMMA SumOfOnes ==
  ASSUME NEW S, IsFiniteSet(S), NEW f, \A x \in S : f[x] = 1
  PROVE  SumFunctionOnSet(f, S) = Cardinality(S)
<1>. DEFINE Good == {T \in SUBSET S : SumFunctionOnSet(f, T) = Cardinality(T)}
<1>1. {} \in Good
  BY SumOfNothing, FS_EmptySet
<1>2. ASSUME NEW T \in Good, NEW x \in S \ T PROVE T \cup {x} \in Good
  <2>1. IsFiniteSet(T) /\ Cardinality(T) \in Nat
    BY FS_Subset, FS_CardinalityType
  <2>. \A y \in S : f[y] \in Int
    OBVIOUS
  <2>2. SumFunctionOnSet(f, T \cup {x}) = f[x] + SumFunctionOnSet(f, T)
    BY <2>1, SumGrows
  <2>3. Cardinality(T \cup {x}) = Cardinality(T) + 1
    BY <2>1, FS_AddElement
  <2> QED BY <2>1, <2>2, <2>3
<1>3. Good = SUBSET S
  <2>. HIDE DEF Good
  <2>1. Good \in SUBSET (SUBSET S)
    BY DEF Good
  <2> QED BY <1>1, <1>2, <2>1, EverySubset
<1> QED BY <1>3

\* Nothing adds up to nothing.
LEMMA SumOfZeros ==
  ASSUME NEW S, IsFiniteSet(S), NEW f, \A x \in S : f[x] = 0
  PROVE  SumFunctionOnSet(f, S) = 0
<1>. DEFINE Good == {T \in SUBSET S : SumFunctionOnSet(f, T) = 0}
<1>1. {} \in Good
  BY SumOfNothing
<1>2. ASSUME NEW T \in Good, NEW x \in S \ T PROVE T \cup {x} \in Good
  <2>1. IsFiniteSet(T) /\ \A y \in S : f[y] \in Int
    BY FS_Subset
  <2>2. SumFunctionOnSet(f, T \cup {x}) = f[x] + SumFunctionOnSet(f, T)
    BY <2>1, SumGrows
  <2> QED BY <2>2
<1>3. Good = SUBSET S
  <2>. HIDE DEF Good
  <2>1. Good \in SUBSET (SUBSET S)
    BY DEF Good
  <2> QED BY <1>1, <1>2, <2>1, EverySubset
<1> QED BY <1>3

\* What is added up heap by heap is added up.
LEMMA SumOfHeaps ==
  ASSUME NEW S, IsFiniteSet(S), NEW K, IsFiniteSet(K), NEW h \in [S -> K], NEW f, \A x \in S : f[x] \in Int
  PROVE  SumFunctionOnSet([k \in K |-> SumFunctionOnSet(f, {x \in S : h[x] = k})], K) = SumFunctionOnSet(f, S)
<1>. DEFINE Heap(T, k) == {x \in T : h[x] = k}
            Heaps(T) == [k \in K |-> SumFunctionOnSet(f, Heap(T, k))]
            Good == {T \in SUBSET S : SumFunctionOnSet(Heaps(T), K) = SumFunctionOnSet(f, T)}
<1>0. \A T \in SUBSET S : \A k \in K : IsFiniteSet(Heap(T, k)) /\ Heaps(T)[k] = SumFunctionOnSet(f, Heap(T, k)) /\ Heaps(T)[k] \in Int
  <2>1. ASSUME NEW T \in SUBSET S, NEW k \in K PROVE IsFiniteSet(Heap(T, k)) /\ \A x \in Heap(T, k) : f[x] \in Int
    BY FS_Subset
  <2>. HIDE DEF Heap
  <2> QED BY <2>1, SumsAreInts
<1>1. {} \in Good
  <2>1. \A k \in K : Heaps({})[k] = 0
    BY SumOfNothing
  <2>. HIDE DEF Heaps
  <2> QED BY <2>1, SumOfZeros, SumOfNothing
<1>2. ASSUME NEW T \in Good, NEW x \in S \ T PROVE T \cup {x} \in Good
  <2>. DEFINE U == T \cup {x}
              k == h[x]
              a == Heaps(T)
              b == Heaps(U)
  <2>1. IsFiniteSet(T) /\ k \in K /\ U \in SUBSET S
    BY FS_Subset
  <2>2. Heap(U, k) = Heap(T, k) \cup {x} /\ x \notin Heap(T, k)
    OBVIOUS
  <2>3. \A j \in K \ {k} : Heap(U, j) = Heap(T, j)
    OBVIOUS
  <2>4. \A j \in K : a[j] \in Int /\ b[j] \in Int
    BY <1>0, <2>1
  <2>5. b[k] = f[x] + a[k]
    <3>1. \A y \in Heap(T, k) : f[y] \in Int
      OBVIOUS
    <3>2. SumFunctionOnSet(f, Heap(T, k) \cup {x}) = f[x] + SumFunctionOnSet(f, Heap(T, k))
      <4>. HIDE DEF Heap
      <4> QED BY <1>0, <2>2, <3>1, SumGrows
    <3> QED BY <2>1, <2>2, <3>2
  <2>6. \A j \in K \ {k} : a[j] \in Int /\ a[j] = b[j]
    <3>. HIDE DEF Heap
    <3> QED BY <2>1, <2>3, <2>4
  <2>7. SumFunctionOnSet(a, K \ {k}) = SumFunctionOnSet(b, K \ {k}) /\ SumFunctionOnSet(a, K \ {k}) \in Int
    <3>1. IsFiniteSet(K \ {k})
      BY FS_Subset
    <3>. HIDE DEF a, b, k
    <3> QED BY <2>6, <3>1, SumOfTheSame, SumsAreInts
  <2>8. SumFunctionOnSet(a, K) = a[k] + SumFunctionOnSet(a, K \ {k}) /\ SumFunctionOnSet(b, K) = b[k] + SumFunctionOnSet(b, K \ {k})
    <3>. HIDE DEF a, b, k
    <3> QED BY <2>1, <2>4, SumsAreInts
  <2>9. SumFunctionOnSet(f, U) = f[x] + SumFunctionOnSet(f, T)
    BY <2>1, SumGrows
  <2>10. SumFunctionOnSet(a, K) = SumFunctionOnSet(f, T)
    OBVIOUS
  <2>11. f[x] \in Int /\ a[k] \in Int
    BY <2>1, <2>4
  <2>12. \A p, q, r \in Int : (p + q) + r = p + (q + r)
    OBVIOUS
  <2>13. SumFunctionOnSet(b, K) = SumFunctionOnSet(f, U)
    <3>. HIDE DEF a, b, k, U
    <3> QED BY <2>5, <2>7, <2>8, <2>9, <2>10, <2>11, <2>12
  <2> QED BY <2>1, <2>13
<1>3. Good = SUBSET S
  <2>1. Good \in SUBSET (SUBSET S)
    OBVIOUS
  <2>. HIDE DEF Good
  <2> QED BY <1>1, <1>2, <2>1, EverySubset
<1> QED BY <1>3

\* A magnitude is no less than zero, and keeps to the triangle and to
\* squares.
LEMMA Distances ==
  ASSUME NEW a \in Int, NEW b \in Int
  PROVE  /\ Magnitude(a) \in Nat
         /\ Magnitude(a + b) <= Magnitude(a) + Magnitude(b)
         /\ Magnitude(a) * Magnitude(a) = a * a
BY DEF Magnitude

\* A sum is no further from nothing than its terms together.
LEMMA SumOfDistances ==
  ASSUME NEW S, IsFiniteSet(S), NEW f, NEW g, \A x \in S : f[x] \in Int /\ g[x] = Magnitude(f[x])
  PROVE  Magnitude(SumFunctionOnSet(f, S)) <= SumFunctionOnSet(g, S)
<1>. DEFINE Good == {T \in SUBSET S : Magnitude(SumFunctionOnSet(f, T)) <= SumFunctionOnSet(g, T)}
<1>0. ASSUME NEW x \in S PROVE g[x] \in Int
  <2>1. f[x] \in Int /\ g[x] = Magnitude(f[x])
    OBVIOUS
  <2> QED BY <2>1 DEF Magnitude
<1>1. {} \in Good
  BY SumOfNothing DEF Magnitude
<1>2. ASSUME NEW T \in Good, NEW x \in S \ T PROVE T \cup {x} \in Good
  <2>1. IsFiniteSet(T)
    BY FS_Subset
  <2>2. /\ SumFunctionOnSet(f, T \cup {x}) = f[x] + SumFunctionOnSet(f, T)
        /\ SumFunctionOnSet(g, T \cup {x}) = g[x] + SumFunctionOnSet(g, T)
        /\ SumFunctionOnSet(f, T) \in Int /\ SumFunctionOnSet(g, T) \in Int
    BY <1>0, <2>1, SumGrows
  <2>3. Magnitude(f[x] + SumFunctionOnSet(f, T)) <= g[x] + Magnitude(SumFunctionOnSet(f, T))
    BY <2>2, Distances
  <2>4. Magnitude(SumFunctionOnSet(f, T)) <= SumFunctionOnSet(g, T)
    OBVIOUS
  <2>5. f[x] + SumFunctionOnSet(f, T) \in Int /\ g[x] \in Int
    BY <1>0, <2>2
  <2>6. Magnitude(f[x] + SumFunctionOnSet(f, T)) \in Int /\ Magnitude(SumFunctionOnSet(f, T)) \in Int
    BY <2>2, <2>5 DEF Magnitude
  <2> QED BY <2>2, <2>3, <2>4, <2>5, <2>6
<1>3. Good = SUBSET S
  <2>. HIDE DEF Good
  <2>1. Good \in SUBSET (SUBSET S)
    BY DEF Good
  <2> QED BY <1>1, <1>2, <2>1, EverySubset
<1> QED BY <1>3

\* One step of Cauchy and Schwarz: a number more keeps the square of a sum
\* within as many times the sum of squares.
LEMMA Squares ==
  ASSUME NEW n \in Int, NEW A \in Int, NEW d \in Int, NEW Q \in Int, 1 <= n, A * A <= n * Q
  PROVE  2 * (A * d) <= n * (d * d) + Q
<1>. DEFINE z == n * (d * d) + Q - 2 * (A * d)
            e == n * d - A
<1>1. e * e >= 0
  <2>1. e \in Int
    OBVIOUS
  <2>. HIDE DEF e
  <2> QED BY <2>1
<1>2. e * e = n * (n * (d * d)) - 2 * (n * (A * d)) + A * A
  OBVIOUS
<1>3. n * z = n * (n * (d * d)) + n * Q - 2 * (n * (A * d))
  OBVIOUS
<1>4. n * z >= 0
  <2>1. n * (n * (d * d)) \in Int /\ n * (A * d) \in Int /\ n * Q \in Int /\ A * A \in Int
    OBVIOUS
  <2>. HIDE DEF z, e
  <2> QED BY <1>1, <1>2, <1>3, <2>1
<1>5. z \in Int
  OBVIOUS
<1>6. z >= 0
  <2>. HIDE DEF z
  <2> QED BY <1>4, <1>5
<1> QED BY <1>6

\* The square of a sum is at most as many times the sum of the squares as
\* there are terms.
LEMMA SquareOfSum ==
  ASSUME NEW S, IsFiniteSet(S), NEW f, NEW g, \A x \in S : f[x] \in Int /\ g[x] = f[x] * f[x]
  PROVE  SumFunctionOnSet(f, S) * SumFunctionOnSet(f, S) <= Cardinality(S) * SumFunctionOnSet(g, S)
<1>. DEFINE Good == {T \in SUBSET S : SumFunctionOnSet(f, T) * SumFunctionOnSet(f, T) <= Cardinality(T) * SumFunctionOnSet(g, T)}
<1>0. \A x \in S : g[x] \in Int
  OBVIOUS
<1>1. {} \in Good
  BY SumOfNothing, FS_EmptySet
<1>2. ASSUME NEW T \in Good, NEW x \in S \ T PROVE T \cup {x} \in Good
  <2>. DEFINE A == SumFunctionOnSet(f, T)
              Q == SumFunctionOnSet(g, T)
              n == Cardinality(T)
              d == f[x]
  <2>1. IsFiniteSet(T)
    BY FS_Subset
  <2>2. /\ SumFunctionOnSet(f, T \cup {x}) = d + A
        /\ SumFunctionOnSet(g, T \cup {x}) = d * d + Q
        /\ A \in Int /\ Q \in Int /\ d \in Int
    BY <1>0, <2>1, SumGrows
  <2>3. Cardinality(T \cup {x}) = n + 1 /\ n \in Nat
    BY <2>1, FS_AddElement, FS_CardinalityType
  <2>4. A * A <= n * Q
    OBVIOUS
  <2>5. (d + A) * (d + A) <= (n + 1) * (d * d + Q)
    <3>1. CASE n = 0
      <4>1. T = {}
        BY <2>1, <3>1, FS_EmptySet
      <4>2. A = 0 /\ Q = 0
        BY <4>1, SumOfNothing
      <4>. HIDE DEF A, Q, n, d
      <4> QED BY <2>2, <3>1, <4>2
    <3>2. CASE n # 0
      <4>. HIDE DEF A, Q, n, d
      <4>1. 2 * (A * d) <= n * (d * d) + Q
        <5>1. n \in Int /\ 1 <= n
          BY <2>3, <3>2
        <5> QED BY <2>2, <2>4, <5>1, Squares
      <4>2. (d + A) * (d + A) = d * d + 2 * (A * d) + A * A
        BY <2>2
      <4>3. (n + 1) * (d * d + Q) = n * (d * d) + n * Q + d * d + Q
        BY <2>2, <2>3
      <4>4. n * (d * d) \in Int /\ n * Q \in Int /\ d * d \in Int /\ A * d \in Int /\ A * A \in Int
        BY <2>2, <2>3
      <4> QED BY <2>2, <2>4, <4>1, <4>2, <4>3, <4>4
    <3> QED BY <3>1, <3>2
  <2>. HIDE DEF A, Q, n, d
  <2>6. SumFunctionOnSet(f, T \cup {x}) * SumFunctionOnSet(f, T \cup {x})
          <= Cardinality(T \cup {x}) * SumFunctionOnSet(g, T \cup {x})
    BY <2>2, <2>3, <2>5
  <2> QED BY <2>6
<1>3. Good = SUBSET S
  <2>. HIDE DEF Good
  <2>1. Good \in SUBSET (SUBSET S)
    BY DEF Good
  <2> QED BY <1>1, <1>2, <2>1, EverySubset
<1> QED BY <1>3

\* g says how far f is from what happened: from a hundred for those of R, else
\* from nothing.
OffBy(f, g, R, S) ==
  \A x \in S : f[x] \in Int /\ (x \in R => g[x] = f[x] - 100) /\ (x \notin R => g[x] = f[x])

\* What is stated, less a hundred for each that is right, is the sum of
\* how far each is off.
LEMMA SumOfOffs ==
  ASSUME NEW S, IsFiniteSet(S), NEW f, NEW g, NEW R, OffBy(f, g, R, S)
  PROVE  SumFunctionOnSet(f, S) - 100 * Cardinality(S \cap R) = SumFunctionOnSet(g, S)
<1>. DEFINE Good == {T \in SUBSET S : SumFunctionOnSet(f, T) - 100 * Cardinality(T \cap R) = SumFunctionOnSet(g, T)}
<1>0. \A x \in S : f[x] \in Int /\ g[x] \in Int
  BY DEF OffBy
<1>1. {} \in Good
  <2>1. {} \cap R = {}
    OBVIOUS
  <2> QED BY <2>1, SumOfNothing, FS_EmptySet
<1>2. ASSUME NEW T \in Good, NEW x \in S \ T PROVE T \cup {x} \in Good
  <2>1. IsFiniteSet(T) /\ IsFiniteSet(T \cap R)
    BY FS_Subset
  <2>2. /\ SumFunctionOnSet(f, T \cup {x}) = f[x] + SumFunctionOnSet(f, T)
        /\ SumFunctionOnSet(g, T \cup {x}) = g[x] + SumFunctionOnSet(g, T)
        /\ SumFunctionOnSet(f, T) \in Int /\ SumFunctionOnSet(g, T) \in Int
    BY <1>0, <2>1, SumGrows
  <2>3. Cardinality((T \cup {x}) \cap R) = Cardinality(T \cap R) + (IF x \in R THEN 1 ELSE 0) /\ Cardinality(T \cap R) \in Nat
    <3>1. CASE x \in R
      <4>1. (T \cup {x}) \cap R = (T \cap R) \cup {x} /\ x \notin T \cap R
        BY <3>1
      <4> QED BY <2>1, <3>1, <4>1, FS_AddElement, FS_CardinalityType
    <3>2. CASE x \notin R
      <4>1. (T \cup {x}) \cap R = T \cap R
        BY <3>2
      <4>2. Cardinality(T \cap R) \in Nat
        BY <2>1, FS_CardinalityType
      <4>3. \A c \in Nat : c = c + 0
        OBVIOUS
      <4> QED BY <3>2, <4>1, <4>2, <4>3
    <3> QED BY <3>1, <3>2
  <2>4. SumFunctionOnSet(f, T) - 100 * Cardinality(T \cap R) = SumFunctionOnSet(g, T)
    OBVIOUS
  <2>5. f[x] \in Int /\ (x \in R => g[x] = f[x] - 100) /\ (x \notin R => g[x] = f[x])
    BY DEF OffBy
  <2>6. SumFunctionOnSet(f, T \cup {x}) - 100 * Cardinality((T \cup {x}) \cap R) = SumFunctionOnSet(g, T \cup {x})
    <3>. HIDE DEF Good
    <3>1. CASE x \in R
      BY <2>2, <2>3, <2>4, <2>5, <3>1
    <3>2. CASE x \notin R
      BY <2>2, <2>3, <2>4, <2>5, <3>2
    <3> QED BY <3>1, <3>2
  <2> QED BY <2>6
<1>3. Good = SUBSET S
  <2>. HIDE DEF Good
  <2>1. Good \in SUBSET (SUBSET S)
    BY DEF Good
  <2> QED BY <1>1, <1>2, <2>1, EverySubset
<1> QED BY <1>3

\* What is left of each adds up to what is left of the sum.
LEMMA SumOfDifferences ==
  ASSUME NEW S, IsFiniteSet(S), NEW f, NEW g, NEW d,
         \A x \in S : f[x] \in Int /\ g[x] \in Int /\ d[x] = f[x] - g[x]
  PROVE  SumFunctionOnSet(d, S) = SumFunctionOnSet(f, S) - SumFunctionOnSet(g, S)
<1>. DEFINE Good == {T \in SUBSET S : SumFunctionOnSet(d, T) = SumFunctionOnSet(f, T) - SumFunctionOnSet(g, T)}
<1>1. {} \in Good
  BY SumOfNothing
<1>2. ASSUME NEW T \in Good, NEW x \in S \ T PROVE T \cup {x} \in Good
  <2>1. IsFiniteSet(T) /\ \A y \in S : f[y] \in Int /\ g[y] \in Int /\ d[y] \in Int
    BY FS_Subset
  <2>2. /\ SumFunctionOnSet(f, T \cup {x}) = f[x] + SumFunctionOnSet(f, T)
        /\ SumFunctionOnSet(g, T \cup {x}) = g[x] + SumFunctionOnSet(g, T)
        /\ SumFunctionOnSet(d, T \cup {x}) = d[x] + SumFunctionOnSet(d, T)
        /\ SumFunctionOnSet(f, T) \in Int /\ SumFunctionOnSet(g, T) \in Int
    BY <2>1, SumGrows
  <2>3. d[x] = f[x] - g[x] /\ f[x] \in Int /\ g[x] \in Int
    OBVIOUS
  <2>4. SumFunctionOnSet(d, T) = SumFunctionOnSet(f, T) - SumFunctionOnSet(g, T)
    OBVIOUS
  <2>. HIDE DEF Good
  <2>5. SumFunctionOnSet(d, T \cup {x}) = SumFunctionOnSet(f, T \cup {x}) - SumFunctionOnSet(g, T \cup {x})
    BY <2>2, <2>3, <2>4
  <2> QED BY <2>5 DEF Good
<1>3. Good = SUBSET S
  <2>. HIDE DEF Good
  <2>1. Good \in SUBSET (SUBSET S)
    BY DEF Good
  <2> QED BY <1>1, <1>2, <2>1, EverySubset
<1> QED BY <1>3

\* What is added up in two parts is added up.
LEMMA SumOfParts ==
  ASSUME NEW A, IsFiniteSet(A), NEW B, IsFiniteSet(B), A \cap B = {}, NEW f, \A x \in A \cup B : f[x] \in Int
  PROVE  SumFunctionOnSet(f, A \cup B) = SumFunctionOnSet(f, A) + SumFunctionOnSet(f, B)
<1>. DEFINE Good == {T \in SUBSET B : SumFunctionOnSet(f, A \cup T) = SumFunctionOnSet(f, A) + SumFunctionOnSet(f, T)}
<1>0. SumFunctionOnSet(f, A) \in Int
  BY SumsAreInts
<1>1. {} \in Good
  <2>1. A \cup {} = A /\ SumFunctionOnSet(f, {}) = 0
    BY SumOfNothing
  <2> QED BY <1>0, <2>1
<1>2. ASSUME NEW T \in Good, NEW x \in B \ T PROVE T \cup {x} \in Good
  <2>1. IsFiniteSet(T) /\ IsFiniteSet(A \cup T) /\ x \notin A \cup T /\ A \cup (T \cup {x}) = (A \cup T) \cup {x}
    BY FS_Subset, FS_Union
  <2>2. /\ SumFunctionOnSet(f, T \cup {x}) = f[x] + SumFunctionOnSet(f, T)
        /\ SumFunctionOnSet(f, T) \in Int
    BY <2>1, SumGrows
  <2>3. SumFunctionOnSet(f, (A \cup T) \cup {x}) = f[x] + SumFunctionOnSet(f, A \cup T)
    <3>1. \A y \in A \cup T : f[y] \in Int
      OBVIOUS
    <3> QED BY <2>1, <3>1, SumGrows
  <2>4. SumFunctionOnSet(f, A \cup T) = SumFunctionOnSet(f, A) + SumFunctionOnSet(f, T) /\ f[x] \in Int
    OBVIOUS
  <2>. HIDE DEF Good
  <2>5. SumFunctionOnSet(f, A \cup (T \cup {x})) = SumFunctionOnSet(f, A) + SumFunctionOnSet(f, T \cup {x})
    <3>1. SumFunctionOnSet(f, A \cup (T \cup {x})) = SumFunctionOnSet(f, (A \cup T) \cup {x})
      BY <2>1
    <3> QED BY <1>0, <2>2, <2>3, <2>4, <3>1
  <2> QED BY <2>5 DEF Good
<1>3. Good = SUBSET B
  <2>. HIDE DEF Good
  <2>1. Good \in SUBSET (SUBSET B)
    BY DEF Good
  <2> QED BY <1>1, <1>2, <2>1, EverySubset
<1> QED BY <1>3

-----------------------------------------------------------------------------
(* Orders *)

\* Whoever comes before t in a strict order, given by its pairs.
Ahead(R, S, t) == {u \in S : <<u, t>> \in R}

\* R is a strict order of S, and a total one.
StrictOn(R, S) ==
  /\ \A s \in S : <<s, s>> \notin R
  /\ \A s, t, u \in S : <<s, t>> \in R /\ <<t, u>> \in R => <<s, u>> \in R

TotalOn(R, S) == \A s, t \in S : s # t => <<s, t>> \in R \/ <<t, s>> \in R

\* In a strict order of a finite set, whoever comes before t has fewer
\* before it than t has.
LEMMA FewerAhead ==
  ASSUME NEW S, IsFiniteSet(S), NEW R, StrictOn(R, S), NEW t \in S, NEW u \in S, <<u, t>> \in R
  PROVE  Cardinality(Ahead(R, S, u)) < Cardinality(Ahead(R, S, t))
<1>1. Ahead(R, S, t) \in SUBSET S /\ Ahead(R, S, u) \in SUBSET Ahead(R, S, t)
  BY DEF Ahead, StrictOn
<1>2. u \in Ahead(R, S, t) \ Ahead(R, S, u)
  BY DEF Ahead, StrictOn
<1>3. IsFiniteSet(Ahead(R, S, t))
  BY <1>1, FS_Subset
<1>4. IsFiniteSet(Ahead(R, S, u)) /\ Cardinality(Ahead(R, S, u)) <= Cardinality(Ahead(R, S, t))
  BY <1>1, <1>3, FS_Subset
<1>5. Cardinality(Ahead(R, S, u)) # Cardinality(Ahead(R, S, t))
  BY <1>1, <1>2, <1>3, FS_Subset
<1> QED BY <1>3, <1>4, <1>5, FS_CardinalityType

\* In a strict order of a finite set that is not empty, somebody has
\* nobody before it.
LEMMA SomebodyLeads ==
  ASSUME NEW S, IsFiniteSet(S), S # {}, NEW R, StrictOn(R, S)
  PROVE  \E t \in S : Ahead(R, S, t) = {}
<1>. DEFINE Counts == {Cardinality(Ahead(R, S, t)) : t \in S}
<1>1. \A t \in S : Cardinality(Ahead(R, S, t)) \in Nat
  <2>. TAKE t \in S
  <2>1. Ahead(R, S, t) \in SUBSET S
    BY DEF Ahead
  <2> QED BY <2>1, FS_Subset, FS_CardinalityType
<1>2. Counts \in SUBSET Nat /\ Counts # {}
  BY <1>1
<1>3. PICK n \in Counts : \A m \in Counts : <<m, n>> \notin OpToRel(<, Nat)
  BY <1>2, NatLessThanWellFounded, WFMin
<1>4. PICK t \in S : n = Cardinality(Ahead(R, S, t))
  BY <1>3
<1>5. ASSUME NEW u \in Ahead(R, S, t) PROVE FALSE
  <2>1. u \in S /\ <<u, t>> \in R
    BY DEF Ahead
  <2>2. Cardinality(Ahead(R, S, u)) < n
    BY <2>1, <1>4, FewerAhead
  <2>3. Cardinality(Ahead(R, S, u)) \in Counts
    BY <2>1
  <2> QED BY <1>1, <1>2, <1>3, <2>2, <2>3 DEF OpToRel
<1> QED BY <1>5

\* Those with fewer than n before them in a strict and total order are n,
\* or all where there are fewer: places are counted without gaps and
\* without ties.
LEMMA FirstFew ==
  ASSUME NEW S, IsFiniteSet(S), NEW R, StrictOn(R, S), TotalOn(R, S), NEW n \in Nat
  PROVE  Cardinality({t \in S : Cardinality(Ahead(R, S, t)) < n}) = IF Cardinality(S) < n THEN Cardinality(S) ELSE n
<1>. DEFINE c == Cardinality(S)
           place == [t \in S |-> Cardinality(Ahead(R, S, t))]
           kept == {t \in S : Cardinality(Ahead(R, S, t)) < n}
           m == IF c < n THEN c ELSE n
           short == [t \in kept |-> place[t]]
<1>1. c \in Nat /\ m \in Nat /\ m <= c /\ m <= n
  BY FS_CardinalityType
<1>2. \A t \in S : place[t] \in 0 .. c - 1
  <2>. SUFFICES ASSUME NEW t \in S PROVE Cardinality(Ahead(R, S, t)) \in 0 .. c - 1
    OBVIOUS
  <2>1. Ahead(R, S, t) \in SUBSET (S \ {t})
    BY DEF Ahead, StrictOn
  <2>2. IsFiniteSet(S \ {t}) /\ Cardinality(S \ {t}) = c - 1
    BY FS_RemoveElement
  <2>3. Cardinality(Ahead(R, S, t)) \in Nat /\ Cardinality(Ahead(R, S, t)) <= c - 1
    BY <2>1, <2>2, FS_Subset, FS_CardinalityType
  <2>. HIDE DEF c
  <2> QED BY <2>3, <1>1
<1>3. \A s, t \in S : place[s] = place[t] => s = t
  <2>. SUFFICES ASSUME NEW s \in S, NEW t \in S, s # t PROVE Cardinality(Ahead(R, S, s)) # Cardinality(Ahead(R, S, t))
    OBVIOUS
  <2>1. <<s, t>> \in R \/ <<t, s>> \in R
    BY DEF TotalOn
  <2>2. place[s] \in Int /\ place[t] \in Int
    BY <1>1, <1>2
  <2> QED BY <2>1, <2>2, FewerAhead
<1>4. place \in Injection(S, 0 .. c - 1)
  <2>. HIDE DEF c
  <2>1. place \in [S -> 0 .. c - 1]
    BY <1>2
  <2> QED BY <1>3, <2>1 DEF Injection, IsInjective
<1>5. IsFiniteSet(0 .. c - 1) /\ Cardinality(0 .. c - 1) = c
  <2>. HIDE DEF c
  <2> QED BY <1>1, FS_Interval
<1>6. place \in Surjection(S, 0 .. c - 1)
  BY <1>4, <1>5, FS_Injection
<1>7. \A k \in 0 .. c - 1 : \E t \in S : place[t] = k
  <2>. HIDE DEF c, place
  <2> QED BY <1>6 DEF Surjection
<1>8. short \in Injection(kept, 0 .. m - 1)
  <2>1. ASSUME NEW t \in kept PROVE place[t] \in 0 .. m - 1
    <3>1. t \in S /\ place[t] < n /\ place[t] \in 0 .. c - 1
      BY <1>2
    <3>. HIDE DEF place, c
    <3> QED BY <3>1, <1>1
  <2>2. kept \subseteq S
    OBVIOUS
  <2>. HIDE DEF place, m, kept
  <2>3. short \in [kept -> 0 .. m - 1]
    BY <2>1
  <2> QED BY <2>2, <2>3, <1>3 DEF Injection, IsInjective
<1>9. short \in Surjection(kept, 0 .. m - 1)
  <2>1. ASSUME NEW k \in 0 .. m - 1 PROVE \E t \in kept : short[t] = k
    <3>1. k \in 0 .. c - 1 /\ k < n
      <4>. HIDE DEF c
      <4> QED BY <1>1
    <3>2. PICK t \in S : place[t] = k
      BY <3>1, <1>7
    <3>3. t \in kept
      BY <3>1, <3>2
    <3>4. short[t] = k
      BY <3>2, <3>3
    <3> QED BY <3>3, <3>4
  <2>. HIDE DEF short, kept, m
  <2> QED BY <1>8, <2>1 DEF Injection, Surjection
<1>10. IsFiniteSet(0 .. m - 1) /\ Cardinality(0 .. m - 1) = m
  <2>1. m \in Nat
    BY <1>1
  <2>. HIDE DEF m
  <2> QED BY <2>1, FS_Interval
<1>11. Cardinality(kept) = m
  <2>. HIDE DEF kept, m, short
  <2> QED BY <1>8, <1>9, <1>10, FS_Injection
<1> QED BY <1>11

\* Max of a finite set of integers is in it and none of it is larger.
LEMMA MaxIsLargest ==
  ASSUME NEW S, S \subseteq Int, IsFiniteSet(S), S # {}
  PROVE  Max(S) \in S /\ \A y \in S : y <= Max(S)
<1>. DEFINE R == {pair \in S \X S : pair[1] > pair[2]}
<1>1. StrictOn(R, S)
  BY DEF StrictOn
<1>2. PICK x \in S : Ahead(R, S, x) = {}
  BY <1>1, SomebodyLeads
<1>3. ASSUME NEW y \in S PROVE x >= y
  <2>1. <<y, x>> \notin R
    BY <1>2 DEF Ahead
  <2>2. <<y, x>> \in S \X S /\ <<y, x>>[1] = y /\ <<y, x>>[2] = x
    OBVIOUS
  <2> QED BY <2>1, <2>2
<1> QED BY <1>3 DEF Max

\* Min of a finite set of integers is in it and none of it is smaller.
LEMMA MinIsSmallest ==
  ASSUME NEW S, S \subseteq Int, IsFiniteSet(S), S # {}
  PROVE  Min(S) \in S /\ \A y \in S : Min(S) <= y
<1>. DEFINE R == {pair \in S \X S : pair[1] < pair[2]}
<1>1. StrictOn(R, S)
  BY DEF StrictOn
<1>2. PICK x \in S : Ahead(R, S, x) = {}
  BY <1>1, SomebodyLeads
<1>3. ASSUME NEW y \in S PROVE x =< y
  <2>1. <<y, x>> \notin R
    BY <1>2 DEF Ahead
  <2>2. <<y, x>> \in S \X S /\ <<y, x>>[1] = y /\ <<y, x>>[2] = x
    OBVIOUS
  <2> QED BY <2>1, <2>2
<1> QED BY <1>3 DEF Min

-----------------------------------------------------------------------------
(* Searches of lines and traces *)

\* A search of log lines gives all that it found, or as many as its limit
\* with nothing newer left out (BundleBackend.search_logs).
LEMMA LinesKept ==
  ASSUME NEW logs, NEW window, NEW service, NEW severity, NEW limit,
         NEW kept \in SearchLogs(logs, window, service, severity, limit)
  PROVE  LET found == LinesIn(logs, window, service, severity) IN
           /\ kept \subseteq found
           /\ \/ kept = found
              \/ /\ Cardinality(kept) = Capped(limit)
                 /\ \A k \in kept, l \in found \ kept : ~(logs[l].at > logs[k].at)
BY DEF SearchLogs, FirstBy, kSubset

\* A search of spans gives all that it found, or as many as its limit with
\* nothing slower left out (BundleBackend.find_spans).
LEMMA SpansKept ==
  ASSUME NEW spans, NEW service, NEW limit, NEW kept \in FindSpans(spans, service, limit)
  PROVE  LET found == {k \in DOMAIN spans : service \in {Anything, spans[k].service}} IN
           /\ kept \subseteq found
           /\ \/ kept = found
              \/ /\ ~(Cardinality(found) <= Capped(limit))
                 /\ Cardinality(kept) = Capped(limit)
                 /\ \A k \in kept, l \in found \ kept : ~Slower(spans, l, k)
BY DEF FindSpans, FirstBy, kSubset

\* Two answers to one search of log lines differ in lines of one moment
\* only.
LEMMA TiesOnly ==
  ASSUME NEW logs \in Seq(LogLine), NEW window, NEW service, NEW severity, NEW limit,
         NEW a \in SearchLogs(logs, window, service, severity, limit),
         NEW b \in SearchLogs(logs, window, service, severity, limit),
         NEW k \in a \ b, NEW l \in b \ a
  PROVE  logs[k].at = logs[l].at
<1>. DEFINE found == LinesIn(logs, window, service, severity)
<1>1. a \subseteq found /\ b \subseteq found
  BY LinesKept
<1>2. ~(logs[l].at > logs[k].at)
  BY <1>1, LinesKept
<1>3. ~(logs[k].at > logs[l].at)
  BY <1>1, LinesKept
<1>4. k \in DOMAIN logs /\ l \in DOMAIN logs
  BY <1>1 DEF LinesIn
<1>5. logs[k] \in LogLine /\ logs[l] \in LogLine
  BY <1>4
<1>6. logs[k].at \in Int /\ logs[l].at \in Int
  BY <1>5 DEF LogLine
<1> QED BY <1>2, <1>3, <1>6

\* Any places of a sequence are finitely many.
LEMMA PlacesAreFinite ==
  ASSUME NEW T, NEW s \in Seq(T), NEW S, S \subseteq DOMAIN s
  PROVE  IsFiniteSet(S)
<1>1. DOMAIN s = 1 .. Len(s) /\ Len(s) \in Nat
  OBVIOUS
<1>2. IsFiniteSet(1 .. Len(s))
  BY <1>1, FS_Interval
<1> QED BY <1>1, <1>2, FS_Subset

\* A line that a search of all severities leaves out is behind as many
\* newer lines as a search may return.
LEMMA UnkeptAreHidden ==
  ASSUME NEW logs \in Seq(LogLine), NEW window, NEW service,
         NEW kept \in SearchLogs(logs, window, service, Anything, MaxRows),
         NEW k \in LinesIn(logs, window, service, Anything) \ kept
  PROVE  LET lines == LinesIn(logs, window, service, Anything)
         IN Cardinality({l \in lines \ {k} : logs[l].at >= logs[k].at}) >= MaxRows
<1>. DEFINE lines == LinesIn(logs, window, service, Anything)
           newer == {l \in lines \ {k} : logs[l].at >= logs[k].at}
<1>1. lines \subseteq DOMAIN logs
  BY DEF LinesIn
<1>2. \A l \in lines : logs[l].at \in Int
  <2>. TAKE l \in lines
  <2>1. logs[l] \in LogLine
    BY <1>1
  <2> QED BY <2>1 DEF LogLine
<1>3. Capped(MaxRows) = MaxRows
  BY SearchAssumption DEF Capped
<1>4. kept \subseteq lines /\ Cardinality(kept) = MaxRows
  BY <1>3, LinesKept
<1>5. \A l \in kept : ~(logs[k].at > logs[l].at)
  BY LinesKept
<1>6. kept \in SUBSET newer
  BY <1>2, <1>4, <1>5
<1>7. IsFiniteSet(newer)
  BY <1>1, PlacesAreFinite
<1>8. Cardinality(kept) <= Cardinality(newer)
  BY <1>6, <1>7, FS_Subset
<1>9. Cardinality(newer) \in Nat
  BY <1>7, FS_CardinalityType
<1>. HIDE DEF newer
<1>10. Cardinality(newer) >= MaxRows
  BY <1>4, <1>8, <1>9, SearchAssumption
<1> QED BY <1>10 DEF newer

\* The templates of some lines, and the lines of a template.
Templates(logs, lines) == {Mask(logs[k]) : k \in lines}

TemplateOf(logs, lines, t) == {k \in lines : Mask(logs[k]) = t}

\* A template that is reported counts the lines it masks, and was first
\* seen at the oldest of them (cluster_templates).
LEMMA ClusterIsCounted ==
  ASSUME NEW logs, NEW lines, NEW t \in DOMAIN Clusters(logs, lines)
  PROVE  /\ t \in Templates(logs, lines)
         /\ Clusters(logs, lines)[t].count = Cardinality(TemplateOf(logs, lines, t))
         /\ Clusters(logs, lines)[t].first = Min({logs[k].at : k \in TemplateOf(logs, lines, t)})
BY DEF Clusters, Templates, TemplateOf

\* Where there are lines some template of theirs is reported: the most
\* frequent one, and of those the first in the order of their text.
LEMMA SomeCluster ==
  ASSUME NEW logs \in Seq(LogLine), NEW lines, lines \subseteq DOMAIN logs, lines # {}
  PROVE  DOMAIN Clusters(logs, lines) # {}
<1>. DEFINE T == Templates(logs, lines)
           count == [t \in T |-> Cardinality(TemplateOf(logs, lines, t))]
           R == {pair \in T \X T : \/ count[pair[1]] > count[pair[2]]
                                   \/ count[pair[1]] = count[pair[2]] /\ pair[1] < pair[2]}
<1>1. \A k \in lines : Mask(logs[k]) \in Int
  <2>. TAKE k \in lines
  <2>1. logs[k] \in LogLine
    OBVIOUS
  <2> QED BY <2>1 DEF LogLine, Mask
<1>2. T \subseteq Int /\ T # {}
  BY <1>1 DEF Templates
<1>3. \A t \in T : count[t] \in Nat
  <2>. TAKE t \in T
  <2>1. IsFiniteSet(TemplateOf(logs, lines, t))
    BY PlacesAreFinite DEF TemplateOf
  <2> QED BY <2>1, FS_CardinalityType
<1>4. IsFiniteSet(T)
  <2>1. IsFiniteSet(lines)
    BY PlacesAreFinite
  <2>. DEFINE f == [k \in lines |-> Mask(logs[k])]
  <2>2. f \in Surjection(lines, T)
    BY DEF Surjection, Templates
  <2> QED BY <2>1, <2>2, FS_Surjection
<1>5. StrictOn(R, T)
  <2>. HIDE DEF T, count
  <2> QED BY <1>2, <1>3 DEF StrictOn
<1>6. PICK t \in T : Ahead(R, T, t) = {}
  BY <1>2, <1>4, <1>5, SomebodyLeads
<1>7. {v \in T : count[v] > count[t] \/ (count[v] = count[t] /\ v < t)} = {}
  <2>. SUFFICES ASSUME NEW v \in T, count[v] > count[t] \/ (count[v] = count[t] /\ v < t) PROVE FALSE
    OBVIOUS
  <2>1. <<v, t>> \in T \X T /\ <<v, t>>[1] = v /\ <<v, t>>[2] = t
    OBVIOUS
  <2>2. <<v, t>> \in R
    BY <2>1
  <2> QED BY <2>2, <1>6 DEF Ahead
<1>8. Cardinality({v \in T : count[v] > count[t] \/ (count[v] = count[t] /\ v < t)}) < TopSignatures
  <2>1. Cardinality({}) = 0 /\ 0 < TopSignatures
    BY FS_EmptySet, SearchAssumption
  <2> QED BY <1>7, <2>1
<1>9. t \in DOMAIN Clusters(logs, lines)
  BY <1>8 DEF Clusters, Templates, TemplateOf
<1> QED BY <1>9

\* The errors among some lines, and those of them behind as many newer lines as
\* a search may return.
ErrorsIn(logs, lines) == {k \in lines : logs[k].severity \in ErrorSeverities}

HiddenIn(logs, lines) ==
  {k \in ErrorsIn(logs, lines) : Cardinality({l \in lines \ {k} : logs[l].at >= logs[k].at}) >= MaxRows}

\* What top_error_signatures reports is short of the errors of a window by
\* those that are hidden behind newer lines and by no other.
LEMMA SignaturesStand ==
  ASSUME NEW logs \in Seq(LogLine), NEW window, NEW service,
         NEW kept \in SearchLogs(logs, window, service, Anything, MaxRows)
  PROVE  LET lines == LinesIn(logs, window, service, Anything)
             errors == ErrorsIn(logs, lines)
             hidden == HiddenIn(logs, lines)
             found == Clusters(logs, ErrorsIn(logs, kept))
         IN /\ \A t \in DOMAIN found :
                 /\ found[t].count <= Cardinality(TemplateOf(logs, errors, t))
                 /\ found[t].count + Cardinality(TemplateOf(logs, hidden, t)) >= Cardinality(TemplateOf(logs, errors, t))
                 /\ TemplateOf(logs, hidden, t) = {} => \A k \in TemplateOf(logs, errors, t) : found[t].first <= logs[k].at
            /\ DOMAIN found = {} => errors = hidden
<1>. DEFINE lines == LinesIn(logs, window, service, Anything)
           errors == ErrorsIn(logs, lines)
           hidden == HiddenIn(logs, lines)
           seen == ErrorsIn(logs, kept)
           found == Clusters(logs, seen)
<1>1. lines \subseteq DOMAIN logs /\ kept \subseteq lines
  BY LinesKept DEF LinesIn
<1>2. seen \subseteq errors /\ hidden \subseteq errors /\ errors \subseteq DOMAIN logs
  BY <1>1 DEF ErrorsIn, HiddenIn
<1>3. errors \ seen \subseteq hidden
  BY UnkeptAreHidden DEF ErrorsIn, HiddenIn
<1>4. ASSUME NEW t
      PROVE  /\ TemplateOf(logs, seen, t) \subseteq TemplateOf(logs, errors, t)
             /\ TemplateOf(logs, errors, t) \subseteq TemplateOf(logs, seen, t) \cup TemplateOf(logs, hidden, t)
             /\ IsFiniteSet(TemplateOf(logs, seen, t))
             /\ IsFiniteSet(TemplateOf(logs, hidden, t))
             /\ IsFiniteSet(TemplateOf(logs, errors, t))
  <2>. HIDE DEF seen, errors, hidden
  <2>1. /\ TemplateOf(logs, seen, t) \subseteq DOMAIN logs
        /\ TemplateOf(logs, hidden, t) \subseteq DOMAIN logs
        /\ TemplateOf(logs, errors, t) \subseteq DOMAIN logs
    BY <1>2 DEF TemplateOf
  <2>2. /\ IsFiniteSet(TemplateOf(logs, seen, t))
        /\ IsFiniteSet(TemplateOf(logs, hidden, t))
        /\ IsFiniteSet(TemplateOf(logs, errors, t))
    BY <2>1, PlacesAreFinite
  <2> QED BY <1>2, <1>3, <2>2 DEF TemplateOf
<1>5. ASSUME NEW t \in DOMAIN found
      PROVE  /\ found[t].count <= Cardinality(TemplateOf(logs, errors, t))
             /\ found[t].count + Cardinality(TemplateOf(logs, hidden, t)) >= Cardinality(TemplateOf(logs, errors, t))
             /\ TemplateOf(logs, hidden, t) = {} => \A k \in TemplateOf(logs, errors, t) : found[t].first <= logs[k].at
  <2>1. /\ t \in Templates(logs, seen)
        /\ found[t].count = Cardinality(TemplateOf(logs, seen, t))
        /\ found[t].first = Min({logs[k].at : k \in TemplateOf(logs, seen, t)})
    BY ClusterIsCounted
  <2>. HIDE DEF found, seen, errors, hidden
  <2>. DEFINE A == TemplateOf(logs, seen, t)
             B == TemplateOf(logs, hidden, t)
             C == TemplateOf(logs, errors, t)
  <2>2. A \subseteq C /\ C \subseteq A \cup B /\ IsFiniteSet(A) /\ IsFiniteSet(B) /\ IsFiniteSet(C)
    BY <1>4
  <2>3. Cardinality(A) \in Nat /\ Cardinality(B) \in Nat /\ Cardinality(C) \in Nat
    BY <2>2, FS_CardinalityType
  <2>4. Cardinality(A) <= Cardinality(C)
    BY <2>2, FS_Subset
  <2>5. Cardinality(C) <= Cardinality(A) + Cardinality(B)
    <3>1. IsFiniteSet(A \cup B) /\ Cardinality(A \cup B) = Cardinality(A) + Cardinality(B) - Cardinality(A \cap B)
      BY <2>2, FS_Union
    <3>2. IsFiniteSet(A \cap B)
      <4>1. A \cap B \in SUBSET A
        OBVIOUS
      <4> QED BY <4>1, <2>2, FS_Subset
    <3>3. Cardinality(A \cap B) \in Nat
      BY <3>2, FS_CardinalityType
    <3>4. Cardinality(C) <= Cardinality(A \cup B)
      BY <2>2, <3>1, FS_Subset
    <3>. HIDE DEF A, B, C
    <3> QED BY <2>3, <3>1, <3>3, <3>4
  <2>6. ASSUME B = {} PROVE \A k \in C : found[t].first <= logs[k].at
    <3>. DEFINE S == {logs[k].at : k \in A}
    <3>1. A = C
      BY <2>2, <2>6
    <3>2. A \subseteq DOMAIN logs
      BY <1>2 DEF TemplateOf
    <3>3. S \subseteq Int
      <4>1. \A k \in A : logs[k] \in LogLine
        BY <3>2
      <4> QED BY <4>1 DEF LogLine
    <3>4. IsFiniteSet(S)
      <4>. DEFINE f == [k \in A |-> logs[k].at]
      <4>1. f \in Surjection(A, S)
        BY DEF Surjection
      <4> QED BY <4>1, <2>2, FS_Surjection
    <3>5. S # {}
      BY <2>1 DEF Templates, TemplateOf
    <3>6. \A y \in S : Min(S) <= y
      BY <3>3, <3>4, <3>5, MinIsSmallest
    <3> QED BY <3>1, <3>6, <2>1
  <2>. HIDE DEF A, B, C
  <2>7. found[t].count <= Cardinality(C) /\ found[t].count + Cardinality(B) >= Cardinality(C)
    BY <2>1, <2>3, <2>4, <2>5 DEF A
  <2> QED BY <2>6, <2>7 DEF A, B, C
<1>6. ASSUME DOMAIN found = {} PROVE errors = hidden
  <2>1. seen \subseteq DOMAIN logs
    BY <1>2
  <2>2. seen = {}
    BY <1>6, <2>1, SomeCluster
  <2>. HIDE DEF seen, errors, hidden
  <2> QED BY <1>2, <1>3, <2>2
<1> QED BY <1>5, <1>6

\* The traces of some spans; that one of them has a span slower than all of the
\* other; and the order this makes of them.
TracesIn(spans, kept) == {spans[k].trace : k \in kept}

Leads(spans, kept, t, u) ==
  \E k \in kept : spans[k].trace = t /\ \A l \in kept : spans[l].trace = u => Slower(spans, k, l)

Lead(spans, kept) ==
  {pair \in TracesIn(spans, kept) \X TracesIn(spans, kept) :
     pair[1] # pair[2] /\ Leads(spans, kept, pair[1], pair[2])}

\* Spans have a duration and a trace that can be compared.
LEMMA SpansAreNumbers ==
  ASSUME NEW spans \in Seq(CallSpan)
  PROVE  \A k \in DOMAIN spans : spans[k].ms \in Int /\ spans[k].trace \in Int
<1>1. \A k \in DOMAIN spans : spans[k] \in CallSpan
  OBVIOUS
<1> QED BY <1>1 DEF CallSpan

\* Of the spans of a trace one is slowest.
LEMMA SlowestOfTrace ==
  ASSUME NEW spans \in Seq(CallSpan), NEW kept, kept \subseteq DOMAIN spans, NEW t \in TracesIn(spans, kept)
  PROVE  \E k \in kept : spans[k].trace = t /\ \A l \in kept : spans[l].trace = t => spans[l].ms <= spans[k].ms
<1>. DEFINE mine == {k \in kept : spans[k].trace = t}
           S == {spans[k].ms : k \in mine}
<1>1. IsFiniteSet(mine)
  BY PlacesAreFinite
<1>2. IsFiniteSet(S)
  <2>. DEFINE f == [k \in mine |-> spans[k].ms]
  <2>1. f \in Surjection(mine, S)
    BY DEF Surjection
  <2> QED BY <1>1, <2>1, FS_Surjection
<1>3. S \subseteq Int /\ S # {}
  BY SpansAreNumbers DEF TracesIn
<1>4. Max(S) \in S /\ \A y \in S : y <= Max(S)
  BY <1>2, <1>3, MaxIsLargest
<1> QED BY <1>4

\* Traces that lead one another are in a strict and total order: by their
\* slowest span, and then by trace.
LEMMA LeadIsAnOrder ==
  ASSUME NEW spans \in Seq(CallSpan), NEW kept, kept \subseteq DOMAIN spans
  PROVE  StrictOn(Lead(spans, kept), TracesIn(spans, kept)) /\ TotalOn(Lead(spans, kept), TracesIn(spans, kept))
<1>. DEFINE T == TracesIn(spans, kept)
           R == Lead(spans, kept)
<1>1. \A k \in kept : spans[k].ms \in Int /\ spans[k].trace \in Int
  BY SpansAreNumbers
<1>2. \A s, t \in T : <<s, t>> \in R <=> s # t /\ Leads(spans, kept, s, t)
  <2>. TAKE s, t \in T
  <2>1. <<s, t>> \in T \X T /\ <<s, t>>[1] = s /\ <<s, t>>[2] = t
    OBVIOUS
  <2> QED BY <2>1 DEF Lead
<1>3. ASSUME NEW s \in T, NEW t \in T, NEW u \in T, <<s, t>> \in R, <<t, u>> \in R
      PROVE  <<s, u>> \in R
  <2>1. PICK k \in kept : spans[k].trace = s /\ \A l \in kept : spans[l].trace = t => Slower(spans, k, l)
    BY <1>2, <1>3 DEF Leads
  <2>2. PICK j \in kept : spans[j].trace = t /\ \A l \in kept : spans[l].trace = u => Slower(spans, j, l)
    BY <1>2, <1>3 DEF Leads
  <2>3. Slower(spans, k, j)
    BY <2>1, <2>2
  <2>4. ASSUME NEW l \in kept, Slower(spans, j, l) PROVE Slower(spans, k, l) /\ l # k
    BY <1>1, <2>3, <2>4 DEF Slower
  <2>5. s # u
    BY <2>1, <2>2, <2>4
  <2>6. Leads(spans, kept, s, u)
    BY <2>1, <2>2, <2>4 DEF Leads
  <2> QED BY <1>2, <2>5, <2>6
<1>4. ASSUME NEW s \in T, NEW t \in T, s # t
      PROVE  <<s, t>> \in R \/ <<t, s>> \in R
  <2>1. PICK k \in kept : spans[k].trace = s /\ \A l \in kept : spans[l].trace = s => spans[l].ms <= spans[k].ms
    BY SlowestOfTrace
  <2>2. PICK j \in kept : spans[j].trace = t /\ \A l \in kept : spans[l].trace = t => spans[l].ms <= spans[j].ms
    BY SlowestOfTrace
  <2>3. CASE Slower(spans, k, j)
    <3>1. \A l \in kept : spans[l].trace = t => Slower(spans, k, l)
      BY <1>1, <2>1, <2>2, <2>3 DEF Slower
    <3> QED BY <1>2, <1>4, <2>1, <3>1 DEF Leads
  <2>4. CASE Slower(spans, j, k)
    <3>1. \A l \in kept : spans[l].trace = s => Slower(spans, j, l)
      BY <1>1, <2>1, <2>2, <2>4 DEF Slower
    <3> QED BY <1>2, <1>4, <2>2, <3>1 DEF Leads
  <2>5. Slower(spans, k, j) \/ Slower(spans, j, k)
    BY <1>1, <1>4, <2>1, <2>2 DEF Slower
  <2> QED BY <2>3, <2>4, <2>5
<1>5. \A s \in T : <<s, s>> \notin R
  BY <1>2
<1>. HIDE DEF T, R
<1>6. StrictOn(R, T) /\ TotalOn(R, T)
  BY <1>3, <1>4, <1>5 DEF StrictOn, TotalOn
<1> QED BY <1>6 DEF T, R

\* find_traces gives the traces with fewer than its limit of them before
\* them.
LEMMA RepresentativesLead ==
  ASSUME NEW spans, NEW kept
  PROVE  Representative(spans, kept) =
           {t \in TracesIn(spans, kept) :
              Cardinality(Ahead(Lead(spans, kept), TracesIn(spans, kept), t)) < TopTraces}
<1>. DEFINE T == TracesIn(spans, kept)
<1>1. ASSUME NEW t \in T
      PROVE  Ahead(Lead(spans, kept), T, t) = {u \in T \ {t} : Leads(spans, kept, u, t)}
  <2>1. ASSUME NEW u \in T PROVE <<u, t>> \in Lead(spans, kept) <=> u # t /\ Leads(spans, kept, u, t)
    <3>1. <<u, t>> \in T \X T /\ <<u, t>>[1] = u /\ <<u, t>>[2] = t
      OBVIOUS
    <3> QED BY <3>1 DEF Lead
  <2> QED BY <2>1 DEF Ahead
<1>2. Representative(spans, kept) =
        {t \in T : Cardinality({u \in T \ {t} : Leads(spans, kept, u, t)}) < TopTraces}
  BY DEF Representative, TracesIn, Leads
<1>. HIDE DEF T
<1>3. Representative(spans, kept) = {t \in T : Cardinality(Ahead(Lead(spans, kept), T, t)) < TopTraces}
  BY <1>1, <1>2
<1> QED BY <1>3 DEF T

\* Finitely many spans are of finitely many traces.
LEMMA TracesAreFinite ==
  ASSUME NEW spans \in Seq(CallSpan), NEW kept, kept \subseteq DOMAIN spans
  PROVE  IsFiniteSet(TracesIn(spans, kept))
<1>. DEFINE f == [k \in kept |-> spans[k].trace]
<1>1. IsFiniteSet(kept)
  BY PlacesAreFinite
<1>2. f \in Surjection(kept, TracesIn(spans, kept))
  BY DEF Surjection, TracesIn
<1> QED BY <1>1, <1>2, FS_Surjection

\* The longest a span of a trace took.
SlowestIn(spans, t) == Max({spans[k].ms : k \in {j \in DOMAIN spans : spans[j].trace = t}})

\* The slowest duration of a trace is that of one of its spans, and no
\* span of it is slower.
LEMMA SlowestIsSlowest ==
  ASSUME NEW spans \in Seq(CallSpan), NEW t \in TracesIn(spans, DOMAIN spans)
  PROVE  /\ \E k \in DOMAIN spans : spans[k].trace = t /\ SlowestIn(spans, t) = spans[k].ms
         /\ \A k \in DOMAIN spans : spans[k].trace = t => spans[k].ms <= SlowestIn(spans, t)
<1>. DEFINE mine == {j \in DOMAIN spans : spans[j].trace = t}
           S == {spans[k].ms : k \in mine}
<1>1. IsFiniteSet(mine)
  BY PlacesAreFinite
<1>2. IsFiniteSet(S)
  <2>. DEFINE f == [k \in mine |-> spans[k].ms]
  <2>1. f \in Surjection(mine, S)
    BY DEF Surjection
  <2> QED BY <1>1, <2>1, FS_Surjection
<1>3. S \subseteq Int /\ S # {}
  BY SpansAreNumbers DEF TracesIn
<1>4. Max(S) \in S /\ \A y \in S : y <= Max(S)
  BY <1>2, <1>3, MaxIsLargest
<1> QED BY <1>4 DEF SlowestIn

\* A trace that find_traces leaves out has no span slower than one it
\* gives; it gives some where there are any, and as many as it may where
\* its limit of spans is not reached.
LEMMA TracesStand ==
  ASSUME NEW spans \in Seq(CallSpan), NEW limit \in 1 .. MaxRows, NEW kept \in FindSpans(spans, Anything, limit)
  PROVE  LET traces == Representative(spans, kept)
             all == TracesIn(spans, DOMAIN spans)
         IN /\ \A t \in traces, u \in all \ traces : SlowestIn(spans, u) <= SlowestIn(spans, t)
            /\ traces # {} \/ all = {}
            /\ Len(spans) <= limit =>
                 Cardinality(traces) = IF Cardinality(all) < TopTraces THEN Cardinality(all) ELSE TopTraces
<1>. DEFINE traces == Representative(spans, kept)
           all == TracesIn(spans, DOMAIN spans)
           T == TracesIn(spans, kept)
           R == Lead(spans, kept)
<1>1. {k \in DOMAIN spans : Anything \in {Anything, spans[k].service}} = DOMAIN spans
  OBVIOUS
<1>2. /\ kept \subseteq DOMAIN spans
      /\ \/ kept = DOMAIN spans
         \/ /\ ~(Cardinality(DOMAIN spans) <= Capped(limit))
            /\ Cardinality(kept) = Capped(limit)
            /\ \A k \in kept, l \in DOMAIN spans \ kept : ~Slower(spans, l, k)
  <2>. DEFINE found == {k \in DOMAIN spans : Anything \in {Anything, spans[k].service}}
  <2>1. /\ kept \subseteq found
        /\ \/ kept = found
           \/ /\ ~(Cardinality(found) <= Capped(limit))
              /\ Cardinality(kept) = Capped(limit)
              /\ \A k \in kept, l \in found \ kept : ~Slower(spans, l, k)
    BY SpansKept
  <2>. HIDE DEF found
  <2>2. found = DOMAIN spans
    BY <1>1 DEF found
  <2> QED BY <2>1, <2>2
<1>3. Capped(limit) = limit /\ limit \in Nat \ {0}
  BY SearchAssumption DEF Capped
<1>4. Cardinality(DOMAIN spans) = Len(spans)
  <2>. DEFINE n == Len(spans)
  <2>1. DOMAIN spans = 1 .. n /\ n \in Nat
    OBVIOUS
  <2>. HIDE DEF n
  <2>2. Cardinality(1 .. n) = IF 1 > n THEN 0 ELSE n - 1 + 1
    BY <2>1, FS_Interval
  <2>3. Cardinality(1 .. n) = n
    BY <2>1, <2>2
  <2> QED BY <2>1, <2>3 DEF n
<1>5. IsFiniteSet(T) /\ StrictOn(R, T) /\ TotalOn(R, T)
  BY <1>2, LeadIsAnOrder, TracesAreFinite
<1>6. traces = {t \in T : Cardinality(Ahead(R, T, t)) < TopTraces}
  BY RepresentativesLead
<1>7. \A k \in DOMAIN spans : spans[k].ms \in Int /\ spans[k].trace \in Int
  BY SpansAreNumbers
<1>8. T \subseteq all
  BY <1>2 DEF TracesIn
<1>9. \A t \in T : Cardinality(Ahead(R, T, t)) \in Nat
  <2>. TAKE t \in T
  <2>1. Ahead(R, T, t) \in SUBSET T
    BY DEF Ahead
  <2> QED BY <1>5, <2>1, FS_Subset, FS_CardinalityType
<1>10. ASSUME NEW t \in traces, NEW u \in all \ traces
       PROVE  SlowestIn(spans, u) <= SlowestIn(spans, t)
  <2>1. t \in T
    BY <1>6
  <2>2. ASSUME NEW l \in DOMAIN spans, spans[l].trace = u
        PROVE  \E k \in kept : spans[k].trace = t /\ spans[l].ms <= spans[k].ms
    <3>1. CASE u \in T
      <4>1. u # t /\ ~(Cardinality(Ahead(R, T, u)) < TopTraces) /\ Cardinality(Ahead(R, T, t)) < TopTraces
        BY <1>6, <3>1
      <4>2. <<u, t>> \notin R
        <5>1. <<u, t>> \in R => Cardinality(Ahead(R, T, u)) < Cardinality(Ahead(R, T, t))
          <6>. HIDE DEF R, T
          <6> QED BY <1>5, <2>1, <3>1, FewerAhead
        <5>. HIDE DEF R, T
        <5> QED BY <1>9, <2>1, <3>1, <4>1, <5>1, SearchAssumption
      <4>3. <<t, u>> \in R
        BY <1>5, <2>1, <3>1, <4>1, <4>2 DEF TotalOn
      <4>4. Leads(spans, kept, t, u)
        BY <4>3 DEF Lead
      <4>5. PICK k \in kept : spans[k].trace = t /\ \A j \in kept : spans[j].trace = u => Slower(spans, k, j)
        BY <4>4 DEF Leads
      <4>6. PICK j \in kept : spans[j].trace = u
        BY <3>1 DEF TracesIn
      <4>7. Slower(spans, k, j)
        BY <4>5, <4>6
      <4>8. CASE l \in kept
        <5>1. Slower(spans, k, l)
          BY <2>2, <4>5, <4>8
        <5> QED BY <1>2, <1>7, <4>5, <5>1 DEF Slower
      <4>9. CASE l \notin kept
        <5>1. ~Slower(spans, l, j)
          BY <1>2, <4>6, <4>9
        <5> QED BY <1>2, <1>7, <4>5, <4>6, <4>7, <5>1 DEF Slower
      <4> QED BY <4>8, <4>9
    <3>2. CASE u \notin T
      <4>1. l \notin kept
        BY <2>2, <3>2 DEF TracesIn
      <4>2. PICK k \in kept : spans[k].trace = t
        BY <2>1 DEF TracesIn
      <4>3. ~Slower(spans, l, k)
        BY <1>2, <4>1, <4>2
      <4> QED BY <1>2, <1>7, <4>2, <4>3 DEF Slower
    <3> QED BY <3>1, <3>2
  <2>3. PICK l \in DOMAIN spans : spans[l].trace = u /\ SlowestIn(spans, u) = spans[l].ms
    BY SlowestIsSlowest
  <2>4. PICK k \in kept : spans[k].trace = t /\ spans[l].ms <= spans[k].ms
    BY <2>2, <2>3
  <2>5. PICK j \in DOMAIN spans : SlowestIn(spans, t) = spans[j].ms
    BY <1>8, <2>1, SlowestIsSlowest
  <2>6. spans[k].ms <= SlowestIn(spans, t)
    BY <1>2, <1>8, <2>1, <2>4, SlowestIsSlowest
  <2>7. spans[l].ms \in Int /\ spans[k].ms \in Int /\ spans[j].ms \in Int
    BY <1>2, <1>7
  <2> QED BY <2>3, <2>4, <2>5, <2>6, <2>7
<1>11. traces # {} \/ all = {}
  <2>. SUFFICES ASSUME all # {} PROVE traces # {}
    OBVIOUS
  <2>1. DOMAIN spans # {}
    BY DEF TracesIn
  <2>2. kept # {}
    <3>1. Cardinality({}) = 0
      BY FS_EmptySet
    <3> QED BY <1>2, <1>3, <2>1, <3>1
  <2>3. T # {}
    BY <2>2 DEF TracesIn
  <2>4. PICK t \in T : Ahead(R, T, t) = {}
    BY <1>5, <2>3, SomebodyLeads
  <2>5. Cardinality(Ahead(R, T, t)) < TopTraces
    BY <2>4, FS_EmptySet, SearchAssumption
  <2> QED BY <1>6, <2>5
<1>12. ASSUME Len(spans) <= limit
       PROVE  Cardinality(traces) = IF Cardinality(all) < TopTraces THEN Cardinality(all) ELSE TopTraces
  <2>1. kept = DOMAIN spans
    BY <1>2, <1>3, <1>4, <1>12
  <2>2. Cardinality({t \in T : Cardinality(Ahead(R, T, t)) < TopTraces}) =
          IF Cardinality(T) < TopTraces THEN Cardinality(T) ELSE TopTraces
    BY <1>5, FirstFew, SearchAssumption
  <2> QED BY <1>6, <2>1, <2>2
<1> QED BY <1>10, <1>11, <1>12

-----------------------------------------------------------------------------
(* Windows *)

\* A share of a length, rounded down, is within it.
LEMMA ShareOfLength ==
  ASSUME NEW n \in Nat, NEW a \in Int, NEW b \in Int, 0 < a, a < b
  PROVE  /\ (n * a) \div b \in 0 .. n
         /\ \A g \in Nat : (n * a) \div b < g => n * a < g * b
<1>. DEFINE x == n * a
           q == x \div b
<1>1. x \in Nat /\ x <= n * b
  OBVIOUS
<1>2. q \in Int /\ b * q <= x /\ x < b * q + b
  OBVIOUS
<1>3. q >= 0
  BY <1>1, <1>2
<1>4. q <= n
  BY <1>1, <1>2
<1>5. \A g \in Nat : q < g => x < g * b
  BY <1>1, <1>2
<1> QED BY <1>2, <1>3, <1>4, <1>5

\* The windows of a recording are of it, end no earlier than they start,
\* and keep a guard between them unless the recording is too short for one
\* (choose_windows).
LEMMA WindowsOfRecording ==
  ASSUME NEW r \in Inputs
  PROVE  LET w == ChooseWindows(r) IN
           /\ w.baseline.start = r.start /\ w.incident.end = r.end
           /\ w.baseline.start <= w.baseline.end
           /\ w.incident.start \in Int /\ w.incident.start <= w.incident.end
           /\ \/ w.baseline.end + GuardSeconds = w.incident.start
              \/ /\ w.baseline.end = r.start
                 /\ (r.end - r.start) * BaselineThirds[1] < (GuardSeconds + 1) * BaselineThirds[2]
<1>. DEFINE a == BaselineThirds[1]
           b == BaselineThirds[2]
           n == r.end - r.start
           g == GuardSeconds
           anchor == Anchor(r)
<1>1. /\ a \in Int /\ b \in Int /\ 0 < a /\ a < b /\ g \in Nat
      /\ r.start \in Int /\ r.end \in Int /\ n \in Nat /\ r.end = r.start + n
      /\ r.alert # Never => r.alert \in Int
  BY TriageAssumption, InputAssumption DEF TriageAssumption
<1>2. (n * a) \div b \in 0 .. n /\ ((n * a) \div b < g => n * a < g * b)
  BY <1>1, ShareOfLength
<1>3. /\ anchor \in Int /\ r.start <= anchor /\ anchor <= r.end
      /\ \/ anchor >= r.start + g
         \/ n * a < g * b
  <2>1. CASE Anchored(r)
    <3>1. anchor = r.alert /\ r.alert # Never /\ r.start + 2 * g < r.alert /\ r.alert < r.end
      BY <2>1 DEF Anchor, Anchored
    <3>. HIDE DEF anchor, a, b, n, g
    <3> QED BY <1>1, <3>1
  <2>2. CASE ~Anchored(r)
    <3>1. anchor = r.start + (n * a) \div b
      BY <2>2 DEF Anchor
    <3>. DEFINE q == (n * a) \div b
    <3>2. q \in 0 .. n /\ (q < g => n * a < g * b) /\ anchor = r.start + q
      BY <1>2, <3>1
    <3>. HIDE DEF anchor, a, b, n, g, q
    <3> QED BY <1>1, <3>2
  <2> QED BY <2>1, <2>2
<1>4. n * a < g * b => n * a < (g + 1) * b
  <2>. HIDE DEF a, b, n, g
  <2>1. n * a \in Int /\ g * b \in Int /\ (g + 1) * b = g * b + b
    BY <1>1
  <2> QED BY <1>1, <2>1
<1>5. /\ ChooseWindows(r).baseline = [start |-> r.start, end |-> MaxOf(anchor - g, r.start)]
      /\ ChooseWindows(r).incident = [start |-> anchor, end |-> r.end]
  BY DEF ChooseWindows, Window
<1>6. \/ MaxOf(anchor - g, r.start) = r.start /\ anchor - g < r.start
      \/ MaxOf(anchor - g, r.start) = anchor - g /\ anchor - g >= r.start
  <2>. HIDE DEF anchor, g
  <2> QED BY <1>1, <1>3 DEF MaxOf
<1>7. /\ r.start <= MaxOf(anchor - g, r.start)
      /\ \/ MaxOf(anchor - g, r.start) + g = anchor
         \/ MaxOf(anchor - g, r.start) = r.start /\ n * a < (g + 1) * b
  <2>1. CASE MaxOf(anchor - g, r.start) = r.start /\ anchor - g < r.start
    <3>1. ~(anchor >= r.start + g)
      <4>. HIDE DEF anchor, g
      <4> QED BY <1>1, <1>3, <2>1
    <3>2. n * a < (g + 1) * b
      <4>. HIDE DEF a, b, n, g, anchor
      <4> QED BY <1>3, <1>4, <3>1
    <3>3. r.start <= r.start
      BY <1>1
    <3>. HIDE DEF a, b, n, g, anchor
    <3> QED BY <2>1, <3>2, <3>3
  <2>2. CASE MaxOf(anchor - g, r.start) = anchor - g /\ anchor - g >= r.start
    <3>1. (anchor - g) + g = anchor /\ r.start <= anchor - g
      <4>. HIDE DEF anchor, g
      <4> QED BY <1>1, <1>3, <2>2
    <3>. HIDE DEF a, b, n, g, anchor
    <3> QED BY <2>2, <3>1
  <2>. HIDE DEF a, b, n, g, anchor
  <2> QED BY <1>6, <2>1, <2>2
<1>8. r.start <= MaxOf(anchor - g, r.start) /\ anchor \in Int /\ anchor <= r.end
  BY <1>3, <1>7
<1> QED BY <1>5, <1>7, <1>8

-----------------------------------------------------------------------------
(* What the tools read of samples *)

\* Every service has a place in the order of names, and one of its own.
LEMMA PlacesOfServices ==
  ASSUME NEW s \in ToSet(ServiceOrder), NEW t \in ToSet(ServiceOrder)
  PROVE  SortPlace(s) \in Nat /\ (SortPlace(s) = SortPlace(t) => s = t)
<1>1. ASSUME NEW u \in ToSet(ServiceOrder)
      PROVE  SortPlace(u) \in DOMAIN ServiceOrder /\ ServiceOrder[SortPlace(u)] = u
  <2>1. \E k \in DOMAIN ServiceOrder : ServiceOrder[k] = u
    BY DEF ToSet
  <2> QED BY <2>1 DEF SortPlace
<1>2. DOMAIN ServiceOrder \subseteq Nat
  BY TelemetryAssumption
<1> QED BY <1>1, <1>2

\* The order a series is read in, as the pairs of some rows.
SeriesOrder(samples, rows) == {pair \in rows \X rows : ServiceFirst(samples, pair[1], pair[2])}

\* A series is read in a strict order that leaves no ties.
LEMMA SeriesAreOrdered ==
  ASSUME NEW samples \in Seq(Sample), NEW rows \in SUBSET (DOMAIN samples)
  PROVE  StrictOn(SeriesOrder(samples, rows), rows) /\ TotalOn(SeriesOrder(samples, rows), rows)
<1>1. ASSUME NEW k \in rows
      PROVE  k \in Nat /\ samples[k].at \in Int /\ samples[k].service \in ToSet(ServiceOrder)
  <2>1. k \in 1 .. Len(samples) /\ samples[k] \in Sample
    OBVIOUS
  <2> QED BY <2>1 DEF Sample
<1>2. ASSUME NEW j \in rows, NEW k \in rows
      PROVE  <<j, k>> \in SeriesOrder(samples, rows) <=> ServiceFirst(samples, j, k)
  BY DEF SeriesOrder
<1>3. ASSUME NEW j \in rows PROVE ~ServiceFirst(samples, j, j)
  BY <1>1, PlacesOfServices DEF ServiceFirst
<1>4. ASSUME NEW j \in rows, NEW k \in rows, NEW l \in rows, ServiceFirst(samples, j, k), ServiceFirst(samples, k, l)
      PROVE  ServiceFirst(samples, j, l)
  <2>. DEFINE p == samples[j]
              q == samples[k]
              r == samples[l]
  <2>1. /\ p.at \in Int /\ q.at \in Int /\ r.at \in Int /\ j \in Nat /\ k \in Nat /\ l \in Nat
        /\ SortPlace(p.service) \in Nat /\ SortPlace(q.service) \in Nat /\ SortPlace(r.service) \in Nat
    BY <1>1, PlacesOfServices
  <2> QED BY <1>4, <2>1 DEF ServiceFirst
<1>5. ASSUME NEW j \in rows, NEW k \in rows, j # k PROVE ServiceFirst(samples, j, k) \/ ServiceFirst(samples, k, j)
  <2>. DEFINE p == samples[j]
              q == samples[k]
  <2>1. /\ p.at \in Int /\ q.at \in Int /\ j \in Nat /\ k \in Nat
        /\ SortPlace(p.service) \in Nat /\ SortPlace(q.service) \in Nat
        /\ SortPlace(p.service) = SortPlace(q.service) => p.service = q.service
    BY <1>1, PlacesOfServices
  <2> QED BY <1>5, <2>1 DEF ServiceFirst
<1>6. StrictOn(SeriesOrder(samples, rows), rows)
  BY <1>2, <1>3, <1>4 DEF StrictOn
<1>7. TotalOn(SeriesOrder(samples, rows), rows)
  BY <1>2, <1>5 DEF TotalOn
<1> QED BY <1>6, <1>7

\* What is read of a series is all of it, or as many rows as may be read,
\* and then every row that is read comes before every one that is not
\* (BundleBackend.metric_series).
LEMMA SeriesKept ==
  ASSUME NEW samples \in Seq(Sample), NEW metric, NEW window
  PROVE  LET rows == RowsIn(samples, metric, window, {})
             read == MetricSeries(samples, metric, window, {})
         IN /\ read \subseteq rows
            /\ read = rows \/ Cardinality(read) = MaxSeriesPoints
            /\ Cardinality(rows) <= MaxSeriesPoints => read = rows
            /\ \A k \in read, l \in rows \ read : ServiceFirst(samples, k, l)
<1>. DEFINE rows == RowsIn(samples, metric, window, {})
            read == MetricSeries(samples, metric, window, {})
            R == SeriesOrder(samples, rows)
            few == {k \in rows : Cardinality(Ahead(R, rows, k)) < MaxSeriesPoints}
<1>1. rows \in SUBSET (DOMAIN samples)
  BY DEF RowsIn
<1>2. IsFiniteSet(rows) /\ Cardinality(rows) \in Nat
  BY <1>1, PlacesAreFinite, FS_CardinalityType
<1>3. StrictOn(R, rows) /\ TotalOn(R, rows)
  BY <1>1, SeriesAreOrdered
<1>4. ASSUME NEW k \in rows
      PROVE  Ahead(R, rows, k) = {j \in rows : ServiceFirst(samples, j, k)}
  BY DEF Ahead, SeriesOrder
<1>5. read = IF Cardinality(rows) <= MaxSeriesPoints THEN rows ELSE few
  BY <1>4 DEF MetricSeries, FirstOf
<1>6. MaxSeriesPoints \in Nat
  BY TelemetryAssumption
<1>7. Cardinality(few) = IF Cardinality(rows) < MaxSeriesPoints THEN Cardinality(rows) ELSE MaxSeriesPoints
  BY <1>2, <1>3, <1>6, FirstFew
<1>8. ASSUME NEW k \in few, NEW l \in rows \ few PROVE ServiceFirst(samples, k, l)
  <2>1. Cardinality(Ahead(R, rows, k)) \in Nat /\ Cardinality(Ahead(R, rows, l)) \in Nat
    <3>1. Ahead(R, rows, k) \in SUBSET rows /\ Ahead(R, rows, l) \in SUBSET rows
      BY DEF Ahead
    <3> QED BY <1>2, <3>1, FS_Subset, FS_CardinalityType
  <2>2. <<l, k>> \notin R
    <3>1. ASSUME <<l, k>> \in R PROVE FALSE
      <4>1. Cardinality(Ahead(R, rows, l)) < Cardinality(Ahead(R, rows, k))
        BY <1>2, <1>3, <3>1, FewerAhead
      <4> QED BY <1>6, <2>1, <4>1
    <3> QED BY <3>1
  <2>3. <<k, l>> \in R
    BY <1>3, <2>2 DEF TotalOn
  <2> QED BY <2>3 DEF SeriesOrder
<1>9. /\ read \subseteq rows
      /\ read = rows \/ Cardinality(read) = MaxSeriesPoints
      /\ Cardinality(rows) <= MaxSeriesPoints => read = rows
  <2>1. few \subseteq rows
    OBVIOUS
  <2>. HIDE DEF rows, read, R, few
  <2> QED BY <1>2, <1>5, <1>6, <1>7, <2>1
<1>10. \A k \in read, l \in rows \ read : ServiceFirst(samples, k, l)
  <2>. HIDE DEF rows, read, R, few
  <2> QED BY <1>5, <1>8
<1> QED BY <1>9, <1>10

\* Where no cap cuts, the rows the tool reads of one service are those the
\* ranking reads of it (tools/metrics._fetch, scoring.fetch_metric).
LEMMA SameRows ==
  ASSUME NEW samples \in Seq(Sample), NEW metric, NEW window, NEW service,
         Cardinality(RowsIn(samples, metric, window, {service})) <= MaxRows,
         Cardinality(RowsIn(samples, metric, window, {})) <= MaxSeriesPoints
  PROVE  FetchRows(samples, metric, window, {service}, MaxSeriesPoints) =
           PointsOf(samples, FetchMetric(samples, metric, window, {}), service)
<1>. DEFINE all == RowsIn(samples, metric, window, {})
            own == RowsIn(samples, metric, window, {service})
<1>1. own = {k \in all : samples[k].service = service}
  BY DEF RowsIn
<1>2. all \subseteq DOMAIN samples
  BY DEF RowsIn
<1>3. IsFiniteSet(all) /\ Cardinality(all) \in Nat
  BY <1>2, PlacesAreFinite, FS_CardinalityType
<1>4. Cardinality(own) \in Nat /\ Cardinality(own) <= Cardinality(all)
  BY <1>1, <1>3, FS_Subset, FS_CardinalityType
<1>5. Cardinality(own) <= Capped(MaxSeriesPoints)
  BY <1>3, <1>4, SearchAssumption, TelemetryAssumption DEF Capped
<1>6. QueryMetrics(samples, metric, window, {service}, MaxSeriesPoints) = own
  BY <1>5 DEF QueryMetrics, FirstOf
<1>7. MetricSeries(samples, metric, window, {}) = all
  BY DEF MetricSeries, FirstOf
<1>8. ErrorOnly(samples, own, metric) = {k \in ErrorOnly(samples, all, metric) : samples[k].service = service}
  BY <1>1 DEF ErrorOnly
<1> QED BY <1>6, <1>7, <1>8 DEF FetchRows, FetchMetric, PointsOf

\* Asked about one service and metric, compare_windows gives the score the
\* ranking used, unless a cap cut rows off (tools/metrics.compare_windows).
LEMMA ComparisonsStand ==
  ASSUME NEW samples \in Seq(Sample), NEW baseline, NEW incident,
         NEW pair \in DOMAIN ScoreServices(samples, baseline, incident),
         \A w \in {baseline, incident} :
           /\ Cardinality(RowsIn(samples, pair[1], w, {pair[2]})) <= MaxRows
           /\ Cardinality(RowsIn(samples, pair[1], w, {})) <= MaxSeriesPoints
  PROVE  CompareWindows(samples, pair[1], pair[2], baseline, incident) =
           ScoreServices(samples, baseline, incident)[pair]
<1>1. pair[1] \in Metrics
  <2>. DEFINE before == [m \in Metrics |-> FetchMetric(samples, m, baseline, {})]
              during == [m \in Metrics |-> FetchMetric(samples, m, incident, {})]
              Found(m) == ServicesOf(samples, before[m] \cup during[m])
  <2>1. pair \in UNION {{m} \X Found(m) : m \in Metrics}
    BY DEF ScoreServices
  <2>. HIDE DEF Found
  <2>2. PICK m \in Metrics : pair \in {m} \X Found(m)
    BY <2>1
  <2> QED BY <2>2
<1>2. \A w \in {baseline, incident} :
        FetchRows(samples, pair[1], w, {pair[2]}, MaxSeriesPoints) =
          PointsOf(samples, FetchMetric(samples, pair[1], w, {}), pair[2])
  BY SameRows
<1> QED BY <1>1, <1>2 DEF CompareWindows, ScoreServices

-----------------------------------------------------------------------------
(* Walks over calls *)

\* The edges are calls.
CallsOf(edges) == \A k \in DOMAIN edges : edges[k] \in CallEdge

\* So many calls lead from one service to another in a direction.
Trail(edges, direction, n, s, t) ==
  \E path \in [1 .. n -> DOMAIN edges] :
    /\ Near(edges[path[1]], direction) = s
    /\ Far(edges[path[n]], direction) = t
    /\ \A j \in 1 .. n - 1 : Far(edges[path[j]], direction) = Near(edges[path[j + 1]], direction)

\* Who is met within so many calls of a service, itself among them.
Within(edges, direction, n, s) == {t \in Services : t = s \/ \E k \in 1 .. n : Trail(edges, direction, k, s, t)}

\* Whom one more call leads to.
Beyond(edges, direction, from) == {Far(edges[e], direction) : e \in {d \in DOMAIN edges : Near(edges[d], direction) \in from}}

\* One call is a trail, and a call from its end makes a trail longer.
LEMMA TrailGrows ==
  ASSUME NEW edges, NEW direction, NEW e \in DOMAIN edges, NEW s
  PROVE  /\ Near(edges[e], direction) = s => Trail(edges, direction, 1, s, Far(edges[e], direction))
         /\ \A n \in Nat \ {0} : Trail(edges, direction, n, s, Near(edges[e], direction)) =>
              Trail(edges, direction, n + 1, s, Far(edges[e], direction))
<1>1. ASSUME Near(edges[e], direction) = s
      PROVE  Trail(edges, direction, 1, s, Far(edges[e], direction))
  <2>. DEFINE path == [j \in 1 .. 1 |-> e]
  <2>1. path \in [1 .. 1 -> DOMAIN edges] /\ path[1] = e
    OBVIOUS
  <2>. HIDE DEF path
  <2> QED BY <1>1, <2>1 DEF Trail
<1>2. ASSUME NEW n \in Nat \ {0}, Trail(edges, direction, n, s, Near(edges[e], direction))
      PROVE  Trail(edges, direction, n + 1, s, Far(edges[e], direction))
  <2>1. PICK path \in [1 .. n -> DOMAIN edges] :
          /\ Near(edges[path[1]], direction) = s
          /\ Far(edges[path[n]], direction) = Near(edges[e], direction)
          /\ \A j \in 1 .. n - 1 : Far(edges[path[j]], direction) = Near(edges[path[j + 1]], direction)
    BY <1>2 DEF Trail
  <2>. DEFINE longer == [j \in 1 .. n + 1 |-> IF j = n + 1 THEN e ELSE path[j]]
  <2>2. longer \in [1 .. n + 1 -> DOMAIN edges]
    OBVIOUS
  <2>3. longer[n + 1] = e /\ \A j \in 1 .. n : longer[j] = path[j]
    OBVIOUS
  <2>. HIDE DEF longer
  <2>4. Near(edges[longer[1]], direction) = s
    BY <2>1, <2>3
  <2>5. ASSUME NEW j \in 1 .. (n + 1) - 1
        PROVE  Far(edges[longer[j]], direction) = Near(edges[longer[j + 1]], direction)
    <3>1. CASE j = n
      BY <2>1, <2>3, <3>1
    <3>2. CASE j \in 1 .. n - 1
      <4>1. longer[j] = path[j] /\ longer[j + 1] = path[j + 1]
        BY <2>3, <3>2
      <4> QED BY <2>1, <3>2, <4>1
    <3> QED BY <3>1, <3>2
  <2> QED BY <2>2, <2>3, <2>4, <2>5 DEF Trail
<1> QED BY <1>1, <1>2

\* A longer trail ends with a call from where a shorter one does.
LEMMA TrailEnds ==
  ASSUME NEW edges, NEW direction, NEW n \in Nat, NEW s, NEW t, Trail(edges, direction, n + 1, s, t)
  PROVE  \E e \in DOMAIN edges :
           /\ Far(edges[e], direction) = t
           /\ \/ n = 0 /\ Near(edges[e], direction) = s
              \/ n # 0 /\ Trail(edges, direction, n, s, Near(edges[e], direction))
<1>1. PICK path \in [1 .. n + 1 -> DOMAIN edges] :
        /\ Near(edges[path[1]], direction) = s
        /\ Far(edges[path[n + 1]], direction) = t
        /\ \A j \in 1 .. (n + 1) - 1 : Far(edges[path[j]], direction) = Near(edges[path[j + 1]], direction)
  BY DEF Trail
<1>2. path[n + 1] \in DOMAIN edges
  OBVIOUS
<1>3. CASE n = 0
  BY <1>1, <1>2, <1>3
<1>4. CASE n # 0
  <2>. DEFINE shorter == [j \in 1 .. n |-> path[j]]
  <2>1. shorter \in [1 .. n -> DOMAIN edges] /\ \A j \in 1 .. n : shorter[j] = path[j]
    OBVIOUS
  <2>2. 1 \in 1 .. n /\ n \in 1 .. n /\ \A j \in 1 .. n - 1 : j \in 1 .. n /\ j + 1 \in 1 .. n /\ j \in 1 .. (n + 1) - 1
    BY <1>4
  <2>3. Far(edges[path[n]], direction) = Near(edges[path[n + 1]], direction)
    BY <1>1, <2>2
  <2>. HIDE DEF shorter
  <2>4. Trail(edges, direction, n, s, Near(edges[path[n + 1]], direction))
    BY <1>1, <2>1, <2>2, <2>3 DEF Trail
  <2> QED BY <1>1, <1>2, <1>4, <2>4
<1> QED BY <1>3, <1>4

\* Nobody else is met within no call, and one call more meets whom one
\* call leads to.
LEMMA WithinGrows ==
  ASSUME NEW edges, CallsOf(edges), NEW direction, NEW s \in Services
  PROVE  /\ Within(edges, direction, 0, s) = {s}
         /\ \A n \in Nat :
              /\ Within(edges, direction, n, s) \subseteq Within(edges, direction, n + 1, s)
              /\ Within(edges, direction, n + 1, s) = {s} \cup Beyond(edges, direction, Within(edges, direction, n, s))
<1>1. Within(edges, direction, 0, s) = {s}
  BY DEF Within
<1>2. ASSUME NEW n \in Nat
      PROVE  Within(edges, direction, n, s) \subseteq Within(edges, direction, n + 1, s)
  BY DEF Within
<1>3. ASSUME NEW e \in DOMAIN edges
      PROVE  Far(edges[e], direction) \in Services /\ Near(edges[e], direction) \in Services
  <2>1. edges[e] \in CallEdge
    BY DEF CallsOf
  <2> QED BY <2>1 DEF CallEdge, Far, Near
<1>4. ASSUME NEW n \in Nat, NEW e \in DOMAIN edges, Near(edges[e], direction) \in Within(edges, direction, n, s)
      PROVE  Far(edges[e], direction) \in Within(edges, direction, n + 1, s)
  <2>. DEFINE u == Near(edges[e], direction)
              t == Far(edges[e], direction)
  <2>1. CASE u = s
    <3>1. Trail(edges, direction, 1, s, t) /\ 1 \in 1 .. n + 1
      BY <2>1, TrailGrows
    <3>. HIDE DEF t
    <3> QED BY <1>3, <3>1 DEF Within, t
  <2>2. ASSUME NEW k \in 1 .. n, Trail(edges, direction, k, s, u)
        PROVE  t \in Within(edges, direction, n + 1, s)
    <3>1. Trail(edges, direction, k + 1, s, t) /\ k + 1 \in 1 .. n + 1
      BY <2>2, TrailGrows
    <3> QED BY <1>3, <3>1 DEF Within
  <2> QED BY <1>4, <2>1, <2>2 DEF Within
<1>5. ASSUME NEW n \in Nat, NEW t \in Within(edges, direction, n + 1, s), t # s
      PROVE  t \in Beyond(edges, direction, Within(edges, direction, n, s))
  <2>1. PICK k \in 1 .. n + 1 : Trail(edges, direction, k, s, t)
    BY <1>5 DEF Within
  <2>2. k - 1 \in Nat /\ (k - 1) + 1 = k /\ (k - 1 # 0 => k - 1 \in 1 .. n)
    OBVIOUS
  <2>3. PICK e \in DOMAIN edges :
          /\ Far(edges[e], direction) = t
          /\ \/ k - 1 = 0 /\ Near(edges[e], direction) = s
             \/ k - 1 # 0 /\ Trail(edges, direction, k - 1, s, Near(edges[e], direction))
    BY <2>1, <2>2, TrailEnds
  <2>4. Near(edges[e], direction) \in Within(edges, direction, n, s)
    BY <1>3, <2>2, <2>3 DEF Within
  <2> QED BY <2>3, <2>4 DEF Beyond
<1>6. ASSUME NEW n \in Nat
      PROVE  Within(edges, direction, n + 1, s) = {s} \cup Beyond(edges, direction, Within(edges, direction, n, s))
  <2>1. s \in Within(edges, direction, n + 1, s)
    BY DEF Within
  <2>2. Beyond(edges, direction, Within(edges, direction, n, s)) \subseteq Within(edges, direction, n + 1, s)
    BY <1>4 DEF Beyond
  <2> QED BY <1>5, <2>1, <2>2
<1> QED BY <1>1, <1>2, <1>6

\* A walk of so many levels is one that each level makes of the one before.
LevelsOf(walk, edges, service, direction, depth) ==
  [level \in 0 .. depth |->
     IF level = 0 THEN [visited |-> {service}, frontier |-> {service}, rows |-> {}]
     ELSE WalkLevel(edges, direction, level, walk[level - 1])]

\* There is such a walk of every depth, and the rows of its last level are
\* what topology._walk returns.
LEMMA WalksExist ==
  ASSUME NEW edges, NEW service, NEW direction, NEW depth \in Nat
  PROVE  \E walk : /\ walk = LevelsOf(walk, edges, service, direction, depth)
                   /\ Walk(edges, service, direction, depth) = walk[depth].rows
<1>. DEFINE Good == {n \in Nat : \E walk : walk = LevelsOf(walk, edges, service, direction, n)}
<1>1. 0 \in Good
  <2>. DEFINE one == [level \in 0 .. 0 |-> [visited |-> {service}, frontier |-> {service}, rows |-> {}]]
  <2>1. one = LevelsOf(one, edges, service, direction, 0)
    BY DEF LevelsOf
  <2> QED BY <2>1
<1>2. ASSUME NEW n \in Good PROVE n + 1 \in Good
  <2>1. PICK walk : walk = LevelsOf(walk, edges, service, direction, n)
    OBVIOUS
  <2>. DEFINE more == [level \in 0 .. n + 1 |->
                         IF level = n + 1 THEN WalkLevel(edges, direction, n + 1, walk[n]) ELSE walk[level]]
  <2>2. more[n + 1] = WalkLevel(edges, direction, n + 1, walk[n]) /\ \A level \in 0 .. n : more[level] = walk[level]
    OBVIOUS
  <2>3. ASSUME NEW level \in 0 .. n + 1
        PROVE  more[level] = LevelsOf(more, edges, service, direction, n + 1)[level]
    <3>1. CASE level = n + 1
      <4>1. LevelsOf(more, edges, service, direction, n + 1)[level] = WalkLevel(edges, direction, level, more[level - 1])
        BY <3>1 DEF LevelsOf
      <4>2. level - 1 = n /\ more[level - 1] = walk[n]
        BY <2>2, <3>1
      <4> QED BY <2>2, <3>1, <4>1, <4>2
    <3>2. CASE level \in 0 .. n
      <4>1. level # 0 => level - 1 \in 0 .. n /\ more[level - 1] = walk[level - 1]
        BY <2>2, <3>2
      <4>2. walk[level] = LevelsOf(walk, edges, service, direction, n)[level]
        BY <2>1
      <4>3. LevelsOf(more, edges, service, direction, n + 1)[level] = LevelsOf(walk, edges, service, direction, n)[level]
        <5>. HIDE DEF more
        <5> QED BY <3>2, <4>1 DEF LevelsOf
      <4> QED BY <2>2, <3>2, <4>2, <4>3
    <3> QED BY <3>1, <3>2
  <2>4. more = LevelsOf(more, edges, service, direction, n + 1)
    <3>1. more = [level \in 0 .. n + 1 |-> more[level]]
      OBVIOUS
    <3>2. LevelsOf(more, edges, service, direction, n + 1) =
            [level \in 0 .. n + 1 |-> LevelsOf(more, edges, service, direction, n + 1)[level]]
      BY DEF LevelsOf
    <3>. HIDE DEF more
    <3> QED BY <2>3, <3>1, <3>2
  <2>. HIDE DEF more
  <2> QED BY <2>4
<1>3. Good = Nat
  <2>1. Good \in SUBSET Nat
    OBVIOUS
  <2>. HIDE DEF Good
  <2> QED BY <1>1, <1>2, <2>1, EveryNat
<1>. DEFINE W == CHOOSE walk : walk = LevelsOf(walk, edges, service, direction, depth)
<1>4. W = LevelsOf(W, edges, service, direction, depth)
  BY <1>3
<1>5. Walk(edges, service, direction, depth) = W[depth].rows
  BY DEF Walk, LevelsOf
<1>. HIDE DEF W
<1> QED BY <1>4, <1>5

\* Who is met with so many calls and not with fewer.
Newly(edges, direction, n, s) ==
  IF n = 0 THEN {s} ELSE Within(edges, direction, n, s) \ Within(edges, direction, n - 1, s)

\* What a level of a walk holds.
LevelHolds(edges, direction, s, n, level) ==
  /\ level.visited = Within(edges, direction, n, s)
  /\ level.frontier = Newly(edges, direction, n, s)
  /\ {<<row[2], row[3]>> : row \in level.rows} =
       {met \in Services \X (1 .. n) : met[1] \in Newly(edges, direction, met[2], s)}
  /\ {row[2] : row \in level.rows} = level.visited \ {s}

\* One level more meets those one call further away (topology._walk).
LEMMA LevelGrows ==
  ASSUME NEW edges, CallsOf(edges), NEW direction, NEW s \in Services, NEW n \in Nat, NEW level,
         LevelHolds(edges, direction, s, n, level)
  PROVE  LevelHolds(edges, direction, s, n + 1, WalkLevel(edges, direction, n + 1, level))
<1>. DEFINE W(k) == Within(edges, direction, k, s)
            on == {e \in DOMAIN edges : Near(edges[e], direction) \in level.frontier /\ Far(edges[e], direction) \notin level.visited}
            met == {<<e, Far(edges[e], direction), n + 1>> : e \in on}
            next == {row[2] : row \in met}
            after == WalkLevel(edges, direction, n + 1, level)
            new == Newly(edges, direction, n + 1, s)
<1>1. after = [visited |-> level.visited \cup next, frontier |-> next, rows |-> level.rows \cup met]
  BY DEF WalkLevel
<1>2. /\ W(n) \subseteq W(n + 1)
      /\ W(n + 1) = {s} \cup Beyond(edges, direction, W(n))
      /\ n # 0 => W(n) = {s} \cup Beyond(edges, direction, W(n - 1))
      /\ W(n) \subseteq Services /\ W(n + 1) \subseteq Services /\ s \in W(n)
  <2>1. n # 0 => n - 1 \in Nat /\ (n - 1) + 1 = n
    OBVIOUS
  <2>2. \A k \in Nat : W(k) \subseteq Services /\ s \in W(k)
    BY DEF Within
  <2> QED BY <2>1, <2>2, WithinGrows
<1>3. new = W(n + 1) \ W(n)
  <2>1. n + 1 # 0 /\ (n + 1) - 1 = n
    OBVIOUS
  <2> QED BY <2>1 DEF Newly
<1>4. next = {Far(edges[e], direction) : e \in on}
  <2>1. \A e \in on : <<e, Far(edges[e], direction), n + 1>>[2] = Far(edges[e], direction)
    OBVIOUS
  <2>2. ASSUME NEW e \in on PROVE Far(edges[e], direction) \in next
    <3>1. <<e, Far(edges[e], direction), n + 1>> \in met
      OBVIOUS
    <3>. HIDE DEF met, on
    <3> QED BY <2>1, <3>1
  <2>3. ASSUME NEW t \in next PROVE \E e \in on : t = Far(edges[e], direction)
    <3>1. PICK row \in met : t = row[2]
      OBVIOUS
    <3>2. PICK e \in on : row = <<e, Far(edges[e], direction), n + 1>>
      OBVIOUS
    <3>. HIDE DEF on, met
    <3> QED BY <3>1, <3>2
  <2>. HIDE DEF next, on
  <2> QED BY <2>2, <2>3
<1>5. next = new
  <2>1. ASSUME NEW e \in on PROVE Far(edges[e], direction) \in new
    <3>1. Near(edges[e], direction) \in W(n)
      BY WithinGrows DEF LevelHolds, Newly
    <3>2. Far(edges[e], direction) \in W(n + 1)
      BY <1>2, <3>1 DEF Beyond
    <3> QED BY <1>3, <3>2 DEF LevelHolds
  <2>2. ASSUME NEW t \in new PROVE \E e \in on : t = Far(edges[e], direction)
    <3>1. PICK e \in DOMAIN edges : t = Far(edges[e], direction) /\ Near(edges[e], direction) \in W(n)
      BY <1>2, <1>3 DEF Beyond
    <3>2. n # 0 => Near(edges[e], direction) \notin W(n - 1)
      BY <1>2, <1>3, <3>1 DEF Beyond
    <3>3. n = 0 => W(n) = {s}
      BY WithinGrows
    <3>4. Near(edges[e], direction) \in Newly(edges, direction, n, s)
      BY <3>1, <3>2, <3>3 DEF Newly
    <3>5. e \in on
      BY <1>3, <3>1, <3>4 DEF LevelHolds
    <3> QED BY <3>1, <3>5
  <2>. HIDE DEF new, on
  <2> QED BY <1>4, <2>1, <2>2
<1>6. {<<row[2], row[3]>> : row \in met} = {<<t, n + 1>> : t \in next}
  OBVIOUS
<1>7. {<<row[2], row[3]>> : row \in level.rows \cup met} =
        {pair \in Services \X (1 .. n + 1) : pair[1] \in Newly(edges, direction, pair[2], s)}
  <2>1. {<<row[2], row[3]>> : row \in level.rows \cup met} =
          {<<row[2], row[3]>> : row \in level.rows} \cup {<<row[2], row[3]>> : row \in met}
    OBVIOUS
  <2>2. {pair \in Services \X (1 .. n + 1) : pair[1] \in Newly(edges, direction, pair[2], s)} =
          {pair \in Services \X (1 .. n) : pair[1] \in Newly(edges, direction, pair[2], s)} \cup {<<t, n + 1>> : t \in new}
    <3>1. new \subseteq Services
      BY <1>2, <1>3
    <3>2. 1 .. n + 1 = (1 .. n) \cup {n + 1}
      OBVIOUS
    <3>. HIDE DEF W
    <3> QED BY <3>1, <3>2
  <2>. HIDE DEF met, next, new
  <2> QED BY <1>5, <1>6, <2>1, <2>2 DEF LevelHolds
<1>8. {row[2] : row \in level.rows \cup met} = (level.visited \cup next) \ {s}
  <2>1. {row[2] : row \in level.rows \cup met} = {row[2] : row \in level.rows} \cup next
    OBVIOUS
  <2>2. s \notin next
    BY <1>2, <1>3, <1>5
  <2>. HIDE DEF met, next
  <2> QED BY <2>1, <2>2 DEF LevelHolds
<1>9. level.visited \cup next = W(n + 1)
  BY <1>2, <1>3, <1>5 DEF LevelHolds
<1>. HIDE DEF met, next, new, W, after
<1>10. after.visited = W(n + 1) /\ after.frontier = new /\ after.rows = level.rows \cup met
  <2>1. after.visited = level.visited \cup next /\ after.frontier = next /\ after.rows = level.rows \cup met
    BY <1>1
  <2> QED BY <1>5, <1>9, <2>1
<1> QED BY <1>7, <1>8, <1>9, <1>10 DEF LevelHolds, W, new, after

\* What a walk of so many levels returns.
Reaches(edges, direction, s, depth) ==
  /\ {<<row[2], row[3]>> : row \in Walk(edges, s, direction, depth)} =
       {met \in Services \X (1 .. depth) : met[1] \in Newly(edges, direction, met[2], s)}
  /\ {row[2] : row \in Walk(edges, s, direction, depth)} = Within(edges, direction, depth, s) \ {s}

\* Every level of a walk holds who is met with so many calls.
LEMMA WalksReach ==
  ASSUME NEW edges, CallsOf(edges), NEW direction, NEW s \in Services, NEW depth \in Nat
  PROVE  Reaches(edges, direction, s, depth)
<1>1. PICK walk : /\ walk = LevelsOf(walk, edges, s, direction, depth)
                  /\ Walk(edges, s, direction, depth) = walk[depth].rows
  BY WalksExist
<1>. DEFINE Good == {n \in Nat : n <= depth => LevelHolds(edges, direction, s, n, walk[n])}
<1>2. 0 \in Good
  <2>1. walk[0] = [visited |-> {s}, frontier |-> {s}, rows |-> {}]
    <3>1. walk[0] = LevelsOf(walk, edges, s, direction, depth)[0] /\ 0 \in 0 .. depth
      BY <1>1
    <3> QED BY <3>1 DEF LevelsOf
  <2>2. Within(edges, direction, 0, s) = {s}
    BY WithinGrows
  <2>3. walk[0].visited = {s} /\ walk[0].frontier = {s} /\ walk[0].rows = {}
    BY <2>1
  <2>4. {<<row[2], row[3]>> : row \in walk[0].rows} = {} /\ {row[2] : row \in walk[0].rows} = {}
    BY <2>3
  <2>5. {met \in Services \X (1 .. 0) : met[1] \in Newly(edges, direction, met[2], s)} = {}
    <3>1. 1 .. 0 = {}
      OBVIOUS
    <3> QED BY <3>1
  <2>6. Newly(edges, direction, 0, s) = {s}
    BY DEF Newly
  <2> QED BY <2>2, <2>3, <2>4, <2>5, <2>6 DEF LevelHolds
<1>3. ASSUME NEW n \in Good PROVE n + 1 \in Good
  <2>. SUFFICES ASSUME n + 1 <= depth PROVE LevelHolds(edges, direction, s, n + 1, walk[n + 1])
    OBVIOUS
  <2>1. n <= depth /\ n + 1 \in 0 .. depth /\ n + 1 # 0 /\ (n + 1) - 1 = n
    OBVIOUS
  <2>2. walk[n + 1] = LevelsOf(walk, edges, s, direction, depth)[n + 1]
    BY <1>1
  <2>3. walk[n + 1] = WalkLevel(edges, direction, n + 1, walk[n])
    BY <2>1, <2>2 DEF LevelsOf
  <2> QED BY <2>1, <2>3, LevelGrows
<1>4. Good = Nat
  <2>1. Good \in SUBSET Nat
    OBVIOUS
  <2>. HIDE DEF Good
  <2> QED BY <1>2, <1>3, <2>1, EveryNat
<1>5. LevelHolds(edges, direction, s, depth, walk[depth])
  BY <1>4
<1> QED BY <1>1, <1>5 DEF LevelHolds, Reaches

\* Downstream a trail is a path of calls, and upstream it is one walked
\* backwards.
LEMMA TrailsAreCalls ==
  ASSUME NEW edges, NEW k \in Nat \ {0}, NEW s, NEW t
  PROVE  /\ Trail(edges, "downstream", k, s, t) <=> Connects(edges, k, s, t)
         /\ Trail(edges, "upstream", k, s, t) <=> Connects(edges, k, t, s)
<1>1. \A e : /\ Near(e, "downstream") = e.client /\ Far(e, "downstream") = e.server
             /\ Near(e, "upstream") = e.server /\ Far(e, "upstream") = e.client
  BY DEF Near, Far
<1>2. Trail(edges, "downstream", k, s, t) <=> Connects(edges, k, s, t)
  <2>1. ASSUME NEW path
        PROVE  /\ Near(edges[path[1]], "downstream") = edges[path[1]].client
               /\ Far(edges[path[k]], "downstream") = edges[path[k]].server
               /\ \A j \in 1 .. k - 1 :
                    /\ Far(edges[path[j]], "downstream") = edges[path[j]].server
                    /\ Near(edges[path[j + 1]], "downstream") = edges[path[j + 1]].client
    BY <1>1
  <2>2. ASSUME Trail(edges, "downstream", k, s, t) PROVE Connects(edges, k, s, t)
    <3>1. PICK path \in [1 .. k -> DOMAIN edges] :
            /\ Near(edges[path[1]], "downstream") = s
            /\ Far(edges[path[k]], "downstream") = t
            /\ \A j \in 1 .. k - 1 : Far(edges[path[j]], "downstream") = Near(edges[path[j + 1]], "downstream")
      BY <2>2 DEF Trail
    <3> QED BY <2>1, <3>1 DEF Connects
  <2>3. ASSUME Connects(edges, k, s, t) PROVE Trail(edges, "downstream", k, s, t)
    <3>1. PICK path \in [1 .. k -> DOMAIN edges] :
            /\ edges[path[1]].client = s /\ edges[path[k]].server = t
            /\ \A j \in 1 .. k - 1 : edges[path[j]].server = edges[path[j + 1]].client
      BY <2>3 DEF Connects
    <3> QED BY <2>1, <3>1 DEF Trail
  <2> QED BY <2>2, <2>3
<1>3. 1 \in 1 .. k /\ k \in 1 .. k /\ \A j \in 1 .. k - 1 : j \in 1 .. k /\ j + 1 \in 1 .. k
  OBVIOUS
<1>4. ASSUME Trail(edges, "upstream", k, s, t) PROVE Connects(edges, k, t, s)
  <2>1. PICK path \in [1 .. k -> DOMAIN edges] :
          /\ edges[path[1]].server = s
          /\ edges[path[k]].client = t
          /\ \A j \in 1 .. k - 1 : edges[path[j]].client = edges[path[j + 1]].server
    BY <1>1, <1>4 DEF Trail
  <2>. DEFINE back == [j \in 1 .. k |-> path[k + 1 - j]]
  <2>2. back \in [1 .. k -> DOMAIN edges]
    OBVIOUS
  <2>3. \A j \in 1 .. k : back[j] = path[k + 1 - j]
    OBVIOUS
  <2>. HIDE DEF back
  <2>4. back[1] = path[k] /\ back[k] = path[1]
    BY <1>3, <2>3
  <2>5. ASSUME NEW j \in 1 .. k - 1 PROVE edges[back[j]].server = edges[back[j + 1]].client
    <3>1. k - j \in 1 .. k - 1 /\ (k - j) + 1 = k + 1 - j /\ k + 1 - (j + 1) = k - j
      OBVIOUS
    <3>2. edges[path[k - j]].client = edges[path[(k - j) + 1]].server
      BY <2>1, <3>1
    <3>3. back[j] = path[(k - j) + 1] /\ back[j + 1] = path[k - j]
      BY <1>3, <2>3, <3>1
    <3> QED BY <3>2, <3>3
  <2> QED BY <2>1, <2>2, <2>4, <2>5 DEF Connects
<1>5. ASSUME Connects(edges, k, t, s) PROVE Trail(edges, "upstream", k, s, t)
  <2>1. PICK path \in [1 .. k -> DOMAIN edges] :
          /\ edges[path[1]].client = t
          /\ edges[path[k]].server = s
          /\ \A j \in 1 .. k - 1 : edges[path[j]].server = edges[path[j + 1]].client
    BY <1>5 DEF Connects
  <2>. DEFINE back == [j \in 1 .. k |-> path[k + 1 - j]]
  <2>2. back \in [1 .. k -> DOMAIN edges]
    OBVIOUS
  <2>3. \A j \in 1 .. k : back[j] = path[k + 1 - j]
    OBVIOUS
  <2>. HIDE DEF back
  <2>4. back[1] = path[k] /\ back[k] = path[1]
    BY <1>3, <2>3
  <2>5. ASSUME NEW j \in 1 .. k - 1 PROVE edges[back[j]].client = edges[back[j + 1]].server
    <3>1. k - j \in 1 .. k - 1 /\ (k - j) + 1 = k + 1 - j /\ k + 1 - (j + 1) = k - j
      OBVIOUS
    <3>2. edges[path[k - j]].server = edges[path[(k - j) + 1]].client
      BY <2>1, <3>1
    <3>3. back[j] = path[(k - j) + 1] /\ back[j + 1] = path[k - j]
      BY <1>3, <2>3, <3>1
    <3> QED BY <3>2, <3>3
  <2> QED BY <1>1, <2>1, <2>2, <2>4, <2>5 DEF Trail
<1> QED BY <1>2, <1>4, <1>5

\* A walk upstream of as many levels as there are services finds whoever
\* has a path of calls to the service, and one downstream meets each
\* service at its distance (topology._transitive_upstream, _walk).
LEMMA WalksStand ==
  ASSUME NEW edges, CallsOf(edges), NEW s \in Services
  PROVE  /\ TransitiveUpstream(edges, s) =
              {t \in Services \ {s} : \E k \in 1 .. Cardinality(Services) : Connects(edges, k, t, s)}
         /\ \A depth \in Nat :
              {<<row[2], row[3]>> : row \in Walk(edges, s, "downstream", depth)} =
                {met \in (Services \ {s}) \X (1 .. depth) :
                   /\ Connects(edges, met[2], s, met[1])
                   /\ \A k \in 1 .. met[2] - 1 : ~Connects(edges, k, s, met[1])}
<1>1. Cardinality(Services) \in Nat
  <2>1. IsFiniteSet(DOMAIN ServiceOrder)
    BY TelemetryAssumption, PlacesAreFinite
  <2>2. ServiceOrder \in Surjection(DOMAIN ServiceOrder, Services)
    BY TelemetryAssumption DEF Surjection, Services, ToSet
  <2> QED BY <2>1, <2>2, FS_Surjection, FS_CardinalityType
<1>2. TransitiveUpstream(edges, s) =
        {t \in Services \ {s} : \E k \in 1 .. Cardinality(Services) : Connects(edges, k, t, s)}
  <2>1. TransitiveUpstream(edges, s) = Within(edges, "upstream", Cardinality(Services), s) \ {s}
    <3>1. Reaches(edges, "upstream", s, Cardinality(Services))
      BY <1>1, WalksReach
    <3> QED BY <3>1 DEF TransitiveUpstream, Reaches
  <2>2. \A t, k : k \in 1 .. Cardinality(Services) =>
          (Trail(edges, "upstream", k, s, t) <=> Connects(edges, k, t, s))
    BY <1>1, TrailsAreCalls
  <2> QED BY <2>1, <2>2 DEF Within
<1>3. ASSUME NEW depth \in Nat, NEW t \in Services, NEW k \in 1 .. depth
      PROVE  t \in Newly(edges, "downstream", k, s) <=>
               /\ t # s
               /\ Connects(edges, k, s, t)
               /\ \A j \in 1 .. k - 1 : ~Connects(edges, j, s, t)
  <2>1. k \in Nat \ {0} /\ 1 .. k = (1 .. k - 1) \cup {k} /\ \A j \in 1 .. k : j \in Nat \ {0}
    OBVIOUS
  <2>2. \A j \in 1 .. k : Trail(edges, "downstream", j, s, t) <=> Connects(edges, j, s, t)
    BY <2>1, TrailsAreCalls
  <2> QED BY <2>1, <2>2 DEF Newly, Within
<1>4. ASSUME NEW depth \in Nat
      PROVE  {<<row[2], row[3]>> : row \in Walk(edges, s, "downstream", depth)} =
                {met \in (Services \ {s}) \X (1 .. depth) :
                   /\ Connects(edges, met[2], s, met[1])
                   /\ \A k \in 1 .. met[2] - 1 : ~Connects(edges, k, s, met[1])}
  <2>1. {<<row[2], row[3]>> : row \in Walk(edges, s, "downstream", depth)} =
          {met \in Services \X (1 .. depth) : met[1] \in Newly(edges, "downstream", met[2], s)}
    <3>1. Reaches(edges, "downstream", s, depth)
      BY WalksReach
    <3> QED BY <3>1 DEF Reaches
  <2>2. \A met \in Services \X (1 .. depth) :
          met[1] \in Newly(edges, "downstream", met[2], s) <=>
               /\ met[1] # s
               /\ Connects(edges, met[2], s, met[1])
               /\ \A k \in 1 .. met[2] - 1 : ~Connects(edges, k, s, met[1])
    BY <1>3
  <2> QED BY <2>1, <2>2
<1> QED BY <1>2, <1>4

-----------------------------------------------------------------------------
(* Walks over spans *)

\* Of some spans, one is the longest (traces.critical_path, max).
LEMMA LongestStands ==
  ASSUME NEW spans, spans \subseteq TraceSpan, IsFiniteSet(spans), spans # {}
  PROVE  LongestOf(spans) \in spans /\ \A s \in spans : s.ms <= LongestOf(spans).ms
<1>. DEFINE R == {pair \in spans \X spans :
                    pair[1].ms > pair[2].ms \/ (pair[1].ms = pair[2].ms /\ pair[1].id > pair[2].id)}
<1>1. \A s \in spans : s.ms \in Int /\ s.id \in Int
  BY DEF TraceSpan
<1>2. \A s, t \in spans : <<s, t>> \in R <=> s.ms > t.ms \/ (s.ms = t.ms /\ s.id > t.id)
  OBVIOUS
<1>3. StrictOn(R, spans)
  <2>. HIDE DEF R
  <2> QED BY <1>1, <1>2 DEF StrictOn
<1>4. PICK s \in spans : Ahead(R, spans, s) = {}
  <2>. HIDE DEF R
  <2> QED BY <1>3, SomebodyLeads
<1>5. ASSUME NEW t \in spans PROVE s.ms > t.ms \/ (s.ms = t.ms /\ s.id >= t.id)
  <2>1. <<t, s>> \notin R
    BY <1>4 DEF Ahead
  <2>. HIDE DEF R
  <2>2. ~(t.ms > s.ms \/ (t.ms = s.ms /\ t.id > s.id))
    BY <1>2, <2>1
  <2> QED BY <1>1, <2>2
<1>6. LongestOf(spans) \in spans
      /\ \A t \in spans : LongestOf(spans).ms > t.ms \/ (LongestOf(spans).ms = t.ms /\ LongestOf(spans).id >= t.id)
  BY <1>5 DEF LongestOf
<1> QED BY <1>1, <1>6

\* The children of the last span walked that were not walked yet.
Onwards(spans, walked) == {s \in ChildrenOf(spans, Last(walked)) : \A k \in DOMAIN walked : walked[k].id # s.id}

\* One hop more, where there is one.
Hopped(spans, walked) ==
  IF Onwards(spans, walked) = {} THEN walked ELSE Append(walked, LongestOf(Onwards(spans, walked)))

\* A path hop by hop.
Hops(path, spans, hops) ==
  [hop \in 0 .. hops |-> IF hop = 0 THEN <<LongestOf(Roots(spans))>> ELSE Hopped(spans, path[hop - 1])]

\* There is such a path of every length, and its last is what
\* traces.critical_path returns.
LEMMA PathsExist ==
  ASSUME NEW spans, Roots(spans) # {}
  PROVE  \E path : /\ path = Hops(path, spans, MaxPathSpans)
                   /\ CriticalPath(spans) = path[MaxPathSpans]
<1>. DEFINE Good == {n \in Nat : \E path : path = Hops(path, spans, n)}
<1>1. 0 \in Good
  <2>. DEFINE one == [hop \in 0 .. 0 |-> <<LongestOf(Roots(spans))>>]
  <2>1. one = Hops(one, spans, 0)
    BY DEF Hops
  <2> QED BY <2>1
<1>2. ASSUME NEW n \in Good PROVE n + 1 \in Good
  <2>1. PICK path : path = Hops(path, spans, n)
    OBVIOUS
  <2>. DEFINE more == [hop \in 0 .. n + 1 |-> IF hop = n + 1 THEN Hopped(spans, path[n]) ELSE path[hop]]
  <2>2. more[n + 1] = Hopped(spans, path[n]) /\ \A hop \in 0 .. n : more[hop] = path[hop]
    OBVIOUS
  <2>3. ASSUME NEW hop \in 0 .. n + 1
        PROVE  more[hop] = Hops(more, spans, n + 1)[hop]
    <3>1. CASE hop = n + 1
      <4>1. Hops(more, spans, n + 1)[hop] = Hopped(spans, more[hop - 1])
        BY <3>1 DEF Hops
      <4>2. hop - 1 = n /\ more[hop - 1] = path[n]
        BY <2>2, <3>1
      <4> QED BY <2>2, <3>1, <4>1, <4>2
    <3>2. CASE hop \in 0 .. n
      <4>1. hop # 0 => hop - 1 \in 0 .. n /\ more[hop - 1] = path[hop - 1]
        BY <2>2, <3>2
      <4>2. path[hop] = Hops(path, spans, n)[hop]
        BY <2>1
      <4>3. Hops(more, spans, n + 1)[hop] = Hops(path, spans, n)[hop]
        <5>. HIDE DEF more
        <5> QED BY <3>2, <4>1 DEF Hops
      <4> QED BY <2>2, <3>2, <4>2, <4>3
    <3> QED BY <3>1, <3>2
  <2>4. more = Hops(more, spans, n + 1)
    <3>1. more = [hop \in 0 .. n + 1 |-> more[hop]]
      OBVIOUS
    <3>2. Hops(more, spans, n + 1) = [hop \in 0 .. n + 1 |-> Hops(more, spans, n + 1)[hop]]
      BY DEF Hops
    <3>. HIDE DEF more
    <3> QED BY <2>3, <3>1, <3>2
  <2>. HIDE DEF more
  <2> QED BY <2>4
<1>3. Good = Nat
  <2>1. Good \in SUBSET Nat
    OBVIOUS
  <2>. HIDE DEF Good
  <2> QED BY <1>1, <1>2, <2>1, EveryNat
<1>. DEFINE P == CHOOSE path : path = Hops(path, spans, MaxPathSpans)
<1>4. P = Hops(P, spans, MaxPathSpans)
  BY <1>3, PathAssumption
<1>5. CriticalPath(spans) = P[MaxPathSpans]
  BY DEF CriticalPath, Hops, Hopped, Onwards
<1>. HIDE DEF P
<1> QED BY <1>4, <1>5

\* A path from a root that takes the longest child at every span and none twice.
Follows(spans, path) ==
  /\ path \in Seq(spans) /\ Len(path) >= 1
  /\ path[1] \in Roots(spans)
  /\ \A k \in 2 .. Len(path) :
       /\ path[k] \in ChildrenOf(spans, path[k - 1])
       /\ \A s \in ChildrenOf(spans, path[k - 1]) : s.ms <= path[k].ms
  /\ \A j, k \in 1 .. Len(path) : path[j] = path[k] => j = k

\* Spans of a trace, with ids of their own.
OwnIds(spans) ==
  /\ IsFiniteSet(spans) /\ spans \subseteq TraceSpan
  /\ \A s, t \in spans : s.id = t.id => s = t

\* A hop takes the longest child, or the path has come to a leaf: nobody
\* on a path from a root is a child of its last span.
LEMMA HopsFollow ==
  ASSUME NEW spans, OwnIds(spans), NEW path, Follows(spans, path)
  PROVE  /\ Follows(spans, Hopped(spans, path))
         /\ \/ Len(Hopped(spans, path)) = Len(path) + 1
            \/ Hopped(spans, path) = path /\ ChildrenOf(spans, Last(path)) = {}
<1>. DEFINE last == path[Len(path)]
            children == ChildrenOf(spans, last)
            next == LongestOf(children)
            longer == Append(path, next)
<1>1. Last(path) = last /\ Len(path) \in Nat \ {0} /\ last \in spans /\ \A k \in 1 .. Len(path) : path[k] \in spans
  BY DEF Last, Follows
<1>2. ASSUME NEW s \in children, NEW k \in 1 .. Len(path) PROVE path[k].id # s.id
  <2>. SUFFICES ASSUME path[k].id = s.id PROVE FALSE
    OBVIOUS
  <2>1. s \in spans /\ s.parent = last.id /\ path[k] = s
    BY <1>1 DEF ChildrenOf, OwnIds
  <2>2. CASE k = 1
    <3>1. s \in Roots(spans)
      BY <2>1, <2>2 DEF Follows
    <3> QED BY <1>1, <2>1, <3>1 DEF Roots
  <2>3. CASE k \in 2 .. Len(path)
    <3>1. path[k] \in ChildrenOf(spans, path[k - 1]) /\ k - 1 \in 1 .. Len(path)
      BY <2>3 DEF Follows
    <3>2. path[k - 1].id = last.id
      BY <2>1, <3>1 DEF ChildrenOf
    <3>3. path[k - 1] = path[Len(path)]
      BY <1>1, <3>1, <3>2 DEF OwnIds
    <3>4. k - 1 = Len(path)
      BY <1>1, <3>1, <3>3 DEF Follows
    <3> QED BY <1>1, <2>3, <3>4
  <2> QED BY <1>1, <2>2, <2>3
<1>3. Onwards(spans, path) = children
  <2>1. DOMAIN path = 1 .. Len(path)
    BY DEF Follows
  <2> QED BY <1>1, <1>2, <2>1 DEF Onwards
<1>4. CASE children = {}
  BY <1>1, <1>3, <1>4 DEF Hopped
<1>5. CASE children # {}
  <2>1. next \in children /\ \A s \in children : s.ms <= next.ms
    <3>1. children \subseteq TraceSpan /\ IsFiniteSet(children)
      BY FS_Subset DEF ChildrenOf, OwnIds
    <3>. HIDE DEF children
    <3> QED BY <1>5, <3>1, LongestStands
  <2>2. next \in spans /\ path \in Seq(spans)
    BY <2>1 DEF ChildrenOf, Follows
  <2>3. Hopped(spans, path) = longer
    BY <1>3, <1>5 DEF Hopped
  <2>4. \A k \in 1 .. Len(path) : path[k] # next
    BY <1>2, <2>1
  <2>. HIDE DEF children, next
  <2>5. longer \in Seq(spans) /\ Len(longer) = Len(path) + 1 /\ longer[Len(path) + 1] = next
        /\ \A k \in 1 .. Len(path) : longer[k] = path[k]
    BY <2>2
  <2>. HIDE DEF longer, last
  <2>6. longer[1] \in Roots(spans)
    BY <1>1, <2>5 DEF Follows
  <2>7. ASSUME NEW k \in 2 .. Len(longer)
        PROVE  /\ longer[k] \in ChildrenOf(spans, longer[k - 1])
               /\ \A s \in ChildrenOf(spans, longer[k - 1]) : s.ms <= longer[k].ms
    <3>1. CASE k = Len(path) + 1
      <4>1. longer[k] = next /\ longer[k - 1] = last
        BY <1>1, <2>5, <3>1 DEF last
      <4> QED BY <2>1, <4>1 DEF children
    <3>2. CASE k \in 2 .. Len(path)
      <4>1. longer[k] = path[k] /\ longer[k - 1] = path[k - 1]
        BY <2>5, <3>2
      <4> QED BY <3>2, <4>1 DEF Follows
    <3> QED BY <1>1, <2>5, <3>1, <3>2
  <2>8. ASSUME NEW j \in 1 .. Len(longer), NEW k \in 1 .. Len(longer), longer[j] = longer[k]
        PROVE  j = k
    <3>1. j \in 1 .. Len(path) /\ k \in 1 .. Len(path) => j = k
      BY <2>5, <2>8 DEF Follows
    <3>2. \A i \in 1 .. Len(longer) : i \in 1 .. Len(path) \/ i = Len(path) + 1
      BY <1>1, <2>5
    <3> QED BY <2>4, <2>5, <2>8, <3>1, <3>2
  <2>9. Len(longer) >= 1
    BY <1>1, <2>5
  <2> QED BY <2>3, <2>5, <2>6, <2>7, <2>8, <2>9 DEF Follows
<1> QED BY <1>4, <1>5

\* The critical path starts at a root, follows the longest child, visits
\* no span twice and ends at a leaf, unless it went on as often as it may
\* (traces.critical_path).
LEMMA PathsStand ==
  ASSUME NEW spans, OwnIds(spans)
  PROVE  /\ (CriticalPath(spans) = <<>>) <=> (Roots(spans) = {})
         /\ CriticalPath(spans) # <<>> =>
              /\ Follows(spans, CriticalPath(spans))
              /\ Len(CriticalPath(spans)) > MaxPathSpans \/ ChildrenOf(spans, Last(CriticalPath(spans))) = {}
<1>1. CASE Roots(spans) = {}
  BY <1>1 DEF CriticalPath
<1>2. CASE Roots(spans) # {}
  <2>1. PICK path : /\ path = Hops(path, spans, MaxPathSpans)
                    /\ CriticalPath(spans) = path[MaxPathSpans]
    BY <1>2, PathsExist
  <2>. DEFINE Reached(n, walked) == Len(walked) = n + 1 \/ ChildrenOf(spans, Last(walked)) = {}
              Good == {n \in Nat : n <= MaxPathSpans => Follows(spans, path[n]) /\ Reached(n, path[n])}
  <2>2. 0 \in Good
    <3>. DEFINE root == LongestOf(Roots(spans))
    <3>1. root \in Roots(spans)
      <4>1. Roots(spans) \subseteq TraceSpan /\ IsFiniteSet(Roots(spans))
        BY FS_Subset DEF Roots, OwnIds
      <4> QED BY <1>2, <4>1, LongestStands
    <3>2. root \in spans
      BY <3>1 DEF Roots
    <3>3. path[0] = <<root>>
      <4>1. path[0] = Hops(path, spans, MaxPathSpans)[0]
        BY <2>1
      <4>2. 0 \in 0 .. MaxPathSpans
        BY PathAssumption
      <4> QED BY <4>1, <4>2 DEF Hops
    <3>. HIDE DEF root
    <3>4. path[0] \in Seq(spans) /\ Len(path[0]) = 1 /\ path[0][1] = root
      BY <3>2, <3>3
    <3> QED BY <3>1, <3>4 DEF Follows
  <2>3. ASSUME NEW n \in Good PROVE n + 1 \in Good
    <3>. SUFFICES ASSUME n + 1 <= MaxPathSpans PROVE Follows(spans, path[n + 1]) /\ Reached(n + 1, path[n + 1])
      OBVIOUS
    <3>1. n <= MaxPathSpans /\ n + 1 \in 0 .. MaxPathSpans /\ n + 1 # 0 /\ (n + 1) - 1 = n
      BY PathAssumption
    <3>2. path[n + 1] = Hopped(spans, path[n])
      <4>1. path[n + 1] = Hops(path, spans, MaxPathSpans)[n + 1]
        BY <2>1
      <4> QED BY <3>1, <4>1 DEF Hops
    <3>3. Follows(spans, path[n]) /\ Reached(n, path[n])
      BY <3>1
    <3>4. /\ Follows(spans, Hopped(spans, path[n]))
          /\ \/ Len(Hopped(spans, path[n])) = Len(path[n]) + 1
             \/ Hopped(spans, path[n]) = path[n] /\ ChildrenOf(spans, Last(path[n])) = {}
      BY <3>3, HopsFollow
    <3>5. CASE Hopped(spans, path[n]) = path[n] /\ ChildrenOf(spans, Last(path[n])) = {}
      BY <3>2, <3>4, <3>5
    <3>6. CASE /\ Len(Hopped(spans, path[n])) = Len(path[n]) + 1
               /\ ~(Hopped(spans, path[n]) = path[n] /\ ChildrenOf(spans, Last(path[n])) = {})
      <4>1. ChildrenOf(spans, Last(path[n])) # {}
        BY <3>6 DEF Hopped, Onwards
      <4>2. Len(path[n]) = n + 1
        BY <3>3, <4>1
      <4> QED BY <3>2, <3>4, <3>6, <4>2
    <3> QED BY <3>4, <3>5, <3>6
  <2>4. Good = Nat
    <3>1. Good \in SUBSET Nat
      OBVIOUS
    <3>. HIDE DEF Good
    <3> QED BY <2>2, <2>3, <3>1, EveryNat
  <2>5. Follows(spans, path[MaxPathSpans]) /\ Reached(MaxPathSpans, path[MaxPathSpans])
    <3>1. MaxPathSpans \in Good /\ MaxPathSpans <= MaxPathSpans
      <4>1. MaxPathSpans \in Nat
        BY PathAssumption
      <4>. HIDE DEF Good
      <4> QED BY <2>4, <4>1
    <3> QED BY <3>1
  <2>6. path[MaxPathSpans] # <<>>
    BY <2>5 DEF Follows
  <2> QED BY <1>2, <2>1, <2>5, <2>6, PathAssumption
<1> QED BY <1>1, <1>2

\* No child is longer, all of them together, than what they are children of.
Fits(spans) == \A s \in spans : SumFunctionOnSet(Took(spans), ChildrenOf(spans, s)) <= s.ms

\* Where children fit in their parents, the time spans spent themselves
\* adds up to what the roots took (traces.self_times_ms).
LEMMA SelfTimesStand ==
  ASSUME NEW spans, OwnIds(spans), Fits(spans)
  PROVE  SumFunction([s \in spans |-> SelfTime(spans, s)]) = SumFunctionOnSet(Took(spans), Roots(spans))
<1>. DEFINE f == Took(spans)
            self == [s \in spans |-> SelfTime(spans, s)]
            called == spans \ Roots(spans)
            heaps == [s \in spans |-> SumFunctionOnSet(f, ChildrenOf(spans, s))]
            h == [t \in called |-> CHOOSE s \in spans : s.id = t.parent]
<1>1. IsFiniteSet(spans) /\ IsFiniteSet(called) /\ IsFiniteSet(Roots(spans)) /\ Roots(spans) \subseteq spans
  BY FS_Subset DEF OwnIds, Roots
<1>2. \A s \in spans : f[s] = s.ms /\ f[s] \in Int
  BY DEF Took, OwnIds, TraceSpan
<1>3. ASSUME NEW s \in spans
      PROVE  heaps[s] = SumFunctionOnSet(f, ChildrenOf(spans, s)) /\ heaps[s] \in Int
  <2>1. ChildrenOf(spans, s) \subseteq spans
    BY DEF ChildrenOf
  <2>2. IsFiniteSet(ChildrenOf(spans, s)) /\ \A t \in ChildrenOf(spans, s) : f[t] \in Int
    BY <1>1, <1>2, <2>1, FS_Subset
  <2>. HIDE DEF f
  <2> QED BY <2>2, SumsAreInts
<1>4. ASSUME NEW s \in spans PROVE self[s] = f[s] - heaps[s]
  <2>1. heaps[s] <= s.ms
    BY <1>3 DEF Fits
  <2>2. self[s] = MaxOf(s.ms - heaps[s], 0)
    BY <1>3 DEF SelfTime
  <2>. HIDE DEF self, heaps, f
  <2> QED BY <1>2, <1>3, <2>1, <2>2 DEF MaxOf
<1>5. SumFunctionOnSet(self, spans) = SumFunctionOnSet(f, spans) - SumFunctionOnSet(heaps, spans)
  <2>. HIDE DEF self, heaps, f
  <2> QED BY <1>1, <1>2, <1>3, <1>4, SumOfDifferences
<1>6. h \in [called -> spans] /\ \A t \in called : h[t].id = t.parent
  BY DEF Roots
<1>7. ASSUME NEW s \in spans PROVE {t \in called : h[t] = s} = ChildrenOf(spans, s)
  <2>1. ASSUME NEW t \in called, h[t] = s PROVE t \in ChildrenOf(spans, s)
    BY <1>6, <2>1 DEF ChildrenOf
  <2>2. ASSUME NEW t \in ChildrenOf(spans, s) PROVE t \in called /\ h[t] = s
    <3>1. t \in spans /\ t.parent = s.id
      BY DEF ChildrenOf
    <3>2. t \in called
      BY <3>1 DEF Roots
    <3>. HIDE DEF h
    <3> QED BY <1>6, <3>1, <3>2 DEF OwnIds
  <2>. HIDE DEF h, called
  <2> QED BY <2>1, <2>2
<1>8. SumFunctionOnSet(heaps, spans) = SumFunctionOnSet(f, called)
  <2>1. heaps = [s \in spans |-> SumFunctionOnSet(f, {t \in called : h[t] = s})]
    <3>. HIDE DEF h, called, f
    <3> QED BY <1>7
  <2>2. \A t \in called : f[t] \in Int
    BY <1>2
  <2>. HIDE DEF h, called, f, heaps
  <2>3. SumFunctionOnSet([s \in spans |-> SumFunctionOnSet(f, {t \in called : h[t] = s})], spans) = SumFunctionOnSet(f, called)
    BY <1>1, <1>6, <2>2, SumOfHeaps
  <2> QED BY <2>1, <2>3
<1>9. SumFunctionOnSet(f, spans) = SumFunctionOnSet(f, Roots(spans)) + SumFunctionOnSet(f, called)
  <2>1. spans = Roots(spans) \cup called /\ Roots(spans) \cap called = {}
    BY <1>1
  <2>. HIDE DEF called, f
  <2> QED BY <1>1, <1>2, <2>1, SumOfParts
<1>10. SumFunctionOnSet(f, Roots(spans)) \in Int /\ SumFunctionOnSet(f, called) \in Int
  <2>1. \A t \in called : f[t] \in Int
    BY <1>2
  <2>. HIDE DEF called, f
  <2> QED BY <1>1, <1>2, <2>1, SumsAreInts
<1>11. SumFunction(self) = SumFunctionOnSet(self, spans)
  BY DEF SumFunction
<1>. HIDE DEF self, heaps, f, called
<1>12. SumFunction(self) = SumFunctionOnSet(f, Roots(spans))
  BY <1>5, <1>8, <1>9, <1>10, <1>11
<1> QED BY <1>12 DEF self, f

-----------------------------------------------------------------------------
(* Divisors *)

Positive == Nat \ {0}

Divides(d, n) == \E k \in Nat : n = d * k

\* What is divided by its divisor is the other factor.
LEMMA ExactShare ==
  ASSUME NEW d \in Positive, NEW k \in Nat
  PROVE  (d * k) \div d = k
<1>. DEFINE x == d * k
            q == x \div d
<1>1. x \in Nat /\ d \in Int /\ d > 0
  BY DEF Positive
<1>2. q \in Int /\ d * q <= x /\ x < d * q + d
  BY <1>1
<1>3. q <= k
  BY <1>1, <1>2
<1>4. k < q + 1
  BY <1>1, <1>2
<1> QED BY <1>2, <1>3, <1>4

\* A number is a multiple of another with a smaller rest.
LEMMA Remainders ==
  ASSUME NEW a \in Nat, NEW b \in Positive
  PROVE  a % b \in 0 .. b - 1 /\ \E q \in Nat : a = b * q + (a % b)
<1>. DEFINE q == a \div b
<1>1. b \in Int /\ b > 0
  BY DEF Positive
<1>2. q \in Int /\ a = b * q + (a % b) /\ a % b \in 0 .. b - 1
  BY <1>1
<1>3. q >= 0
  BY <1>1, <1>2
<1> QED BY <1>2, <1>3

\* Who divides a number and the rest it leaves divides what left it, and
\* the other way round.
LEMMA RestsDivide ==
  ASSUME NEW a \in Nat, NEW b \in Positive, NEW d \in Positive, Divides(d, b)
  PROVE  Divides(d, a) <=> Divides(d, a % b)
<1>1. PICK q \in Nat : a = b * q + (a % b)
  BY Remainders
<1>2. a % b \in Nat
  BY Remainders DEF Positive
<1>3. PICK k \in Nat : b = d * k
  BY DEF Divides
<1>4. b * q = d * (k * q) /\ k * q \in Nat
  BY <1>3 DEF Positive
<1>5. ASSUME NEW j \in Nat, a % b = d * j PROVE Divides(d, a)
  <2>1. a = d * (k * q + j) /\ k * q + j \in Nat
    BY <1>1, <1>4, <1>5 DEF Positive
  <2> QED BY <2>1 DEF Divides
<1>6. ASSUME NEW j \in Nat, a = d * j PROVE Divides(d, a % b)
  <2>. DEFINE m == k * q
  <2>1. a % b = d * (j - m) /\ m \in Nat
    <3>1. a % b = d * j - d * m /\ m \in Nat
      BY <1>1, <1>2, <1>4, <1>6 DEF Positive
    <3>. HIDE DEF m
    <3> QED BY <3>1 DEF Positive
  <2>2. j - m \in Int /\ d > 0 /\ d \in Int
    BY <2>1 DEF Positive
  <2>. HIDE DEF m
  <2>3. j - m >= 0
    BY <1>2, <2>1, <2>2
  <2>4. j - m \in Nat
    BY <2>2, <2>3
  <2> QED BY <2>1, <2>4 DEF Divides
<1> QED BY <1>5, <1>6 DEF Divides

CommonDivisors(a, b) == {d \in Positive : Divides(d, a) /\ Divides(d, b)}

GreatestCommon(a, b) == IF b = 0 THEN a ELSE Max(CommonDivisors(a, b))

\* A divisor is no more than what it divides.
LEMMA DivisorsAreNoMore ==
  ASSUME NEW b \in Positive, NEW d \in Positive, Divides(d, b)
  PROVE  d \in 1 .. b
<1>1. PICK k \in Nat : b = d * k
  BY DEF Divides
<1>2. k >= 1
  BY <1>1 DEF Positive
<1> QED BY <1>1, <1>2 DEF Positive

\* The greatest common divisor follows Euclid's rule.
LEMMA EuclidsRule ==
  ASSUME NEW a \in Nat, NEW b \in Positive
  PROVE  GreatestCommon(a, b) = GreatestCommon(b, a % b)
<1>1. a % b \in Nat /\ b # 0
  BY Remainders DEF Positive
<1>2. CommonDivisors(a, b) = CommonDivisors(b, a % b)
  BY RestsDivide DEF CommonDivisors
<1>3. CASE a % b # 0
  BY <1>1, <1>2, <1>3 DEF GreatestCommon
<1>4. CASE a % b = 0
  <2>1. b = b * 1 /\ 0 = b * 0 /\ b \in Nat
    BY DEF Positive
  <2>2. b \in CommonDivisors(b, a % b)
    BY <1>4, <2>1 DEF CommonDivisors, Divides
  <2>3. CommonDivisors(a, b) \subseteq 1 .. b
    BY DivisorsAreNoMore DEF CommonDivisors
  <2>4. IsFiniteSet(CommonDivisors(a, b))
    BY <2>1, <2>3, FS_Interval, FS_Subset
  <2>5. b \in CommonDivisors(a, b)
    BY <1>2, <2>2
  <2>6. CommonDivisors(a, b) \subseteq Int /\ CommonDivisors(a, b) # {}
    BY <2>5 DEF CommonDivisors, Positive
  <2>7. Max(CommonDivisors(a, b)) \in CommonDivisors(a, b) /\ b <= Max(CommonDivisors(a, b))
    BY <2>4, <2>5, <2>6, MaxIsLargest
  <2>8. Max(CommonDivisors(a, b)) = b
    BY <2>1, <2>3, <2>7
  <2> QED BY <1>1, <1>4, <2>8 DEF GreatestCommon
<1> QED BY <1>3, <1>4

Euclid(f) == [p \in Nat \X Nat |-> IF p[2] = 0 THEN p[1] ELSE f[<<p[2], p[1] % p[2]>>]]

\* GCD is the function that its definition speaks of: there is one.
LEMMA GCDUnfolds ==
  ASSUME NEW a \in Nat, NEW b \in Nat
  PROVE  GCD[<<a, b>>] = IF b = 0 THEN a ELSE GCD[<<b, a % b>>]
<1>. DEFINE f == [p \in Nat \X Nat |-> GreatestCommon(p[1], p[2])]
<1>1. ASSUME NEW x \in Nat, NEW y \in Nat
      PROVE  GreatestCommon(x, y) = IF y = 0 THEN x ELSE f[<<y, x % y>>]
  <2>1. CASE y = 0
    BY <2>1 DEF GreatestCommon
  <2>2. CASE y # 0
    <3>1. y \in Positive /\ x % y \in Nat
      BY <2>2, Remainders DEF Positive
    <3>2. f[<<y, x % y>>] = GreatestCommon(y, x % y)
      BY <3>1
    <3> QED BY <2>2, <3>1, <3>2, EuclidsRule
  <2> QED BY <2>1, <2>2
<1>2. f = Euclid(f)
  BY <1>1 DEF Euclid
<1>. HIDE DEF f
<1>3. GCD = Euclid(GCD)
  <2>1. \E g : g = Euclid(g)
    BY <1>2
  <2>2. GCD = CHOOSE g : g = Euclid(g)
    BY DEF GCD, Euclid
  <2> QED BY <2>1, <2>2
<1>4. Euclid(GCD)[<<a, b>>] = IF b = 0 THEN a ELSE GCD[<<b, a % b>>]
  BY DEF Euclid
<1> QED BY <1>3, <1>4

\* GCD gives a divisor of both its arguments.
LEMMA GCDDivides ==
  ASSUME NEW a \in Nat, NEW b \in Nat, a # 0 \/ b # 0
  PROVE  GCD[<<a, b>>] \in Positive /\ Divides(GCD[<<a, b>>], a) /\ Divides(GCD[<<a, b>>], b)
<1>. DEFINE Fine(x, y) == GCD[<<x, y>>] \in Positive /\ Divides(GCD[<<x, y>>], x) /\ Divides(GCD[<<x, y>>], y)
            Good == {n \in Nat : \A y \in 0 .. n : \A x \in Nat : x # 0 \/ y # 0 => Fine(x, y)}
<1>1. ASSUME NEW x \in Nat, x # 0 PROVE Fine(x, 0)
  <2>1. x \in Positive /\ x = x * 1 /\ 0 = x * 0
    BY <1>1 DEF Positive
  <2>2. GCD[<<x, 0>>] = x
    BY GCDUnfolds
  <2>3. Divides(x, x) /\ Divides(x, 0)
    BY <2>1 DEF Divides
  <2> QED BY <2>1, <2>2, <2>3
<1>2. 0 \in Good
  <2>1. \A y \in 0 .. 0 : y = 0
    OBVIOUS
  <2>. HIDE DEF Fine
  <2> QED BY <1>1, <2>1
<1>3. ASSUME NEW n \in Good PROVE n + 1 \in Good
  <2>1. ASSUME NEW x \in Nat PROVE Fine(x, n + 1)
    <3>1. n + 1 \in Positive /\ n + 1 \in Nat /\ n + 1 # 0
      BY DEF Positive
    <3>2. x % (n + 1) \in 0 .. n
      <4>1. x % (n + 1) \in 0 .. (n + 1) - 1
        BY <3>1, Remainders
      <4> QED BY <4>1
    <3>3. GCD[<<x, n + 1>>] = GCD[<<n + 1, x % (n + 1)>>]
      BY <3>1, GCDUnfolds
    <3>4. Fine(n + 1, x % (n + 1))
      <4>. HIDE DEF Fine
      <4> QED BY <3>1, <3>2
    <3>5. Divides(GCD[<<x, n + 1>>], x)
      BY <3>1, <3>3, <3>4, RestsDivide
    <3> QED BY <3>3, <3>4, <3>5
  <2>2. \A y \in 0 .. n + 1 : y \in 0 .. n \/ y = n + 1
    OBVIOUS
  <2>. HIDE DEF Fine
  <2> QED BY <2>1, <2>2
<1>4. Good = Nat
  <2>1. Good \in SUBSET Nat
    OBVIOUS
  <2>. HIDE DEF Good
  <2> QED BY <1>2, <1>3, <2>1, EveryNat
<1>5. b \in Good /\ b \in 0 .. b
  BY <1>4
<1>. HIDE DEF Fine
<1>6. Fine(a, b)
  BY <1>5
<1> QED BY <1>6 DEF Fine

\* LCM gives a multiple of both its arguments.
LEMMA LCMIsMultiple ==
  ASSUME NEW a \in Positive, NEW b \in Positive
  PROVE  LCM[<<a, b>>] \in Positive /\ Divides(a, LCM[<<a, b>>]) /\ Divides(b, LCM[<<a, b>>])
<1>1. a \in Nat /\ b \in Nat /\ a > 0 /\ b > 0
  BY DEF Positive
<1>. DEFINE g == GCD[<<a, b>>]
<1>2. g \in Positive /\ Divides(g, a) /\ Divides(g, b)
  BY <1>1, GCDDivides
<1>3. LCM[<<a, b>>] = a * (b \div g)
  BY <1>1 DEF LCM
<1>. HIDE DEF g
<1>4. PICK i \in Nat, j \in Nat : a = g * i /\ b = g * j
  BY <1>2 DEF Divides
<1>5. b \div g = j
  BY <1>2, <1>4, ExactShare
<1>6. j > 0
  BY <1>1, <1>2, <1>4 DEF Positive
<1>7. a * j \in Positive
  BY <1>1, <1>6 DEF Positive
<1>8. a * j = b * i
  BY <1>2, <1>4 DEF Positive
<1> QED BY <1>3, <1>5, <1>7, <1>8 DEF Divides

\* Who divides a divisor divides what it divides.
LEMMA DivisorsOfDivisors ==
  ASSUME NEW a \in Nat, NEW b \in Nat, NEW c, Divides(a, b), Divides(b, c)
  PROVE  Divides(a, c)
<1>1. PICK i \in Nat, j \in Nat : b = a * i /\ c = b * j
  BY DEF Divides
<1>2. c = a * (i * j) /\ i * j \in Nat
  BY <1>1
<1> QED BY <1>2 DEF Divides

-----------------------------------------------------------------------------
(* Folds *)

Some(s) == CHOOSE x \in s : TRUE

FoldOf(iter, op, base, f, S) ==
  [s \in SUBSET S |-> IF s = {} THEN base ELSE op[<<f[Some(s)], iter[s \ {Some(s)}]>>]]

\* The values of a finite set can be folded, whatever by.
LEMMA FoldsExist ==
  ASSUME NEW S, IsFiniteSet(S), NEW op, NEW base, NEW f
  PROVE  \E iter : iter = FoldOf(iter, op, base, f, S)
<1>. DEFINE Folding(it, s) == IF s = {} THEN base ELSE op[<<f[Some(s)], it[s \ {Some(s)}]>>]
            Good == {n \in Nat : \E it : \A s \in SUBSET S : Cardinality(s) <= n => it[s] = Folding(it, s)}
<1>1. \A s \in SUBSET S : IsFiniteSet(s) /\ Cardinality(s) \in Nat /\ Cardinality(s) <= Cardinality(S)
  BY FS_Subset, FS_CardinalityType
<1>2. ASSUME NEW s \in SUBSET S, s # {}
      PROVE  s \ {Some(s)} \in SUBSET S /\ Cardinality(s \ {Some(s)}) = Cardinality(s) - 1
  <2>1. Some(s) \in s
    BY <1>2 DEF Some
  <2> QED BY <1>1, <2>1, FS_RemoveElement
<1>3. 0 \in Good
  <2>. DEFINE it == [s \in SUBSET S |-> base]
  <2>1. ASSUME NEW s \in SUBSET S, Cardinality(s) <= 0 PROVE it[s] = Folding(it, s)
    <3>1. s = {}
      BY <1>1, <2>1, FS_EmptySet
    <3> QED BY <3>1
  <2> QED BY <2>1
<1>4. ASSUME NEW n \in Good PROVE n + 1 \in Good
  <2>1. PICK it : \A s \in SUBSET S : Cardinality(s) <= n => it[s] = Folding(it, s)
    OBVIOUS
  <2>. DEFINE more == [s \in SUBSET S |-> Folding(it, s)]
  <2>2. \A s \in SUBSET S : more[s] = Folding(it, s)
    OBVIOUS
  <2>. HIDE DEF more
  <2>3. ASSUME NEW s \in SUBSET S, Cardinality(s) <= n + 1 PROVE more[s] = Folding(more, s)
    <3>1. CASE s = {}
      BY <2>2, <3>1
    <3>2. CASE s # {}
      <4>1. s \ {Some(s)} \in SUBSET S /\ Cardinality(s \ {Some(s)}) <= n
        BY <1>1, <1>2, <2>3, <3>2
      <4>. DEFINE t == s \ {Some(s)}
      <4>2. it[t] = Folding(it, t) /\ more[t] = Folding(it, t)
        <5>. HIDE DEF Folding
        <5> QED BY <2>1, <2>2, <4>1
      <4>3. it[t] = more[t]
        BY <4>2
      <4> QED BY <2>2, <3>2, <4>3
    <3> QED BY <3>1, <3>2
  <2>4. \A s \in SUBSET S : Cardinality(s) <= n + 1 => more[s] = Folding(more, s)
    BY <2>3
  <2>. HIDE DEF Folding
  <2> QED BY <2>4
<1>5. Good = Nat
  <2>1. Good \in SUBSET Nat
    OBVIOUS
  <2>. HIDE DEF Good
  <2> QED BY <1>3, <1>4, <2>1, EveryNat
<1>6. Cardinality(S) \in Good
  BY <1>5, FS_CardinalityType
<1>7. PICK it : \A s \in SUBSET S : Cardinality(s) <= Cardinality(S) => it[s] = Folding(it, s)
  BY <1>6
<1>. DEFINE whole == [s \in SUBSET S |-> it[s]]
<1>8. ASSUME NEW s \in SUBSET S PROVE whole[s] = Folding(whole, s)
  <2>1. it[s] = Folding(it, s)
    <3>. HIDE DEF Folding
    <3> QED BY <1>1, <1>7
  <2>2. s # {} => whole[s \ {Some(s)}] = it[s \ {Some(s)}]
    BY <1>2
  <2> QED BY <2>1, <2>2
<1>9. whole = FoldOf(whole, op, base, f, S)
  <2>1. whole = [s \in SUBSET S |-> whole[s]]
    OBVIOUS
  <2>. HIDE DEF whole
  <2> QED BY <1>8, <2>1 DEF FoldOf
<1> QED BY <1>9

\* A fold by GCD is one that each of its values goes into.
LEMMA CommonOfAll ==
  ASSUME NEW S, IsFiniteSet(S), NEW base \in Positive, NEW f, \A x \in S : f[x] \in Nat
  PROVE  LET g == FoldFunctionOnSet(LAMBDA a, b : GCD[<<a, b>>], base, f, S)
         IN g \in Positive /\ Divides(g, base) /\ \A x \in S : Divides(g, f[x])
<1>. DEFINE iter == CHOOSE it : it = FoldOf(it, GCD, base, f, S)
            g == FoldFunctionOnSet(LAMBDA a, b : GCD[<<a, b>>], base, f, S)
<1>1. iter = FoldOf(iter, GCD, base, f, S)
  BY FoldsExist
<1>2. g = iter[S]
  BY DEF FoldFunctionOnSet, MapThenFoldSet, FoldOf, Some
<1>. HIDE DEF iter, g
<1>. DEFINE Fine(T) == iter[T] \in Positive /\ Divides(iter[T], base) /\ \A x \in T : Divides(iter[T], f[x])
            Good == {T \in SUBSET S : Fine(T)}
<1>3. ASSUME NEW T \in SUBSET S, \A x \in T : T \ {x} \in Good
      PROVE  T \in Good
  <2>1. CASE T = {}
    <3>1. iter[T] = base
      BY <1>1, <2>1 DEF FoldOf
    <3>2. base = base * 1
      BY DEF Positive
    <3> QED BY <2>1, <3>1, <3>2 DEF Divides
  <2>2. CASE T # {}
    <3>. DEFINE x == Some(T)
                rest == iter[T \ {x}]
    <3>1. x \in T
      BY <2>2 DEF Some
    <3>2. Fine(T \ {x})
      <4>. HIDE DEF Fine, x
      <4> QED BY <1>3, <3>1
    <3>3. iter[T] = GCD[<<f[x], rest>>]
      BY <1>1, <2>2 DEF FoldOf
    <3>. HIDE DEF x
    <3>4. rest \in Positive /\ rest \in Nat /\ rest # 0 /\ f[x] \in Nat
      BY <3>1, <3>2 DEF Positive
    <3>. HIDE DEF rest
    <3>5. iter[T] \in Positive /\ iter[T] \in Nat /\ Divides(iter[T], f[x]) /\ Divides(iter[T], rest)
      BY <3>3, <3>4, GCDDivides DEF Positive
    <3>6. Divides(iter[T], base)
      BY <3>2, <3>4, <3>5, DivisorsOfDivisors DEF rest
    <3>7. ASSUME NEW y \in T PROVE Divides(iter[T], f[y])
      <4>1. CASE y = x
        BY <3>5, <4>1
      <4>2. CASE y # x
        <5>1. Divides(rest, f[y])
          BY <3>2, <4>2 DEF rest
        <5> QED BY <3>4, <3>5, <5>1, DivisorsOfDivisors
      <4> QED BY <4>1, <4>2
    <3> QED BY <3>5, <3>6, <3>7
  <2> QED BY <2>1, <2>2
<1>4. Good = SUBSET S
  <2>. HIDE DEF Good
  <2>1. Good \in SUBSET (SUBSET S)
    BY DEF Good
  <2> QED BY <1>3, <2>1, SmallerFirst
<1>5. Fine(S)
  BY <1>4
<1>6. g \in Positive /\ Divides(g, base) /\ \A x \in S : Divides(g, f[x])
  BY <1>2, <1>5
<1> QED BY <1>6 DEF g

\* A fold by LCM is one that goes into each of its values.
LEMMA MultipleOfAll ==
  ASSUME NEW S, IsFiniteSet(S), NEW f, \A x \in S : f[x] \in Positive
  PROVE  LET u == FoldFunctionOnSet(LAMBDA a, b : LCM[<<a, b>>], 1, f, S)
         IN u \in Positive /\ \A x \in S : Divides(f[x], u)
<1>. DEFINE iter == CHOOSE it : it = FoldOf(it, LCM, 1, f, S)
            u == FoldFunctionOnSet(LAMBDA a, b : LCM[<<a, b>>], 1, f, S)
<1>1. iter = FoldOf(iter, LCM, 1, f, S)
  BY FoldsExist
<1>2. u = iter[S]
  BY DEF FoldFunctionOnSet, MapThenFoldSet, FoldOf, Some
<1>. HIDE DEF iter, u
<1>. DEFINE Fine(T) == iter[T] \in Positive /\ \A x \in T : Divides(f[x], iter[T])
            Good == {T \in SUBSET S : Fine(T)}
<1>3. ASSUME NEW T \in SUBSET S, \A x \in T : T \ {x} \in Good
      PROVE  T \in Good
  <2>1. CASE T = {}
    <3>1. iter[T] = 1
      BY <1>1, <2>1 DEF FoldOf
    <3> QED BY <2>1, <3>1 DEF Positive
  <2>2. CASE T # {}
    <3>. DEFINE x == Some(T)
                rest == iter[T \ {x}]
    <3>1. x \in T
      BY <2>2 DEF Some
    <3>2. Fine(T \ {x})
      <4>. HIDE DEF Fine, x
      <4> QED BY <1>3, <3>1
    <3>3. iter[T] = LCM[<<f[x], rest>>]
      BY <1>1, <2>2 DEF FoldOf
    <3>. HIDE DEF x
    <3>4. rest \in Positive /\ f[x] \in Positive
      BY <3>1, <3>2
    <3>. HIDE DEF rest
    <3>5. iter[T] \in Positive /\ Divides(f[x], iter[T]) /\ Divides(rest, iter[T])
      BY <3>3, <3>4, LCMIsMultiple
    <3>6. ASSUME NEW y \in T PROVE Divides(f[y], iter[T])
      <4>1. CASE y = x
        BY <3>5, <4>1
      <4>2. CASE y # x
        <5>1. Divides(f[y], rest) /\ f[y] \in Nat /\ rest \in Nat
          BY <3>2, <3>4, <4>2 DEF rest, Positive
        <5> QED BY <3>5, <5>1, DivisorsOfDivisors
      <4> QED BY <4>1, <4>2
    <3> QED BY <3>5, <3>6
  <2> QED BY <2>1, <2>2
<1>4. Good = SUBSET S
  <2>. HIDE DEF Good
  <2>1. Good \in SUBSET (SUBSET S)
    BY DEF Good
  <2> QED BY <1>3, <2>1, SmallerFirst
<1>5. Fine(S)
  BY <1>4
<1>6. u \in Positive /\ \A x \in S : Divides(f[x], u)
  BY <1>2, <1>5
<1> QED BY <1>6 DEF u

-----------------------------------------------------------------------------
(* Sums of sums *)

\* As many times each is as many times the sum.
LEMMA SumOfMultiples ==
  ASSUME NEW S, IsFiniteSet(S), NEW k \in Int, NEW f, NEW g, \A x \in S : f[x] \in Int /\ g[x] = k * f[x]
  PROVE  SumFunctionOnSet(g, S) = k * SumFunctionOnSet(f, S)
<1>. DEFINE Good == {T \in SUBSET S : SumFunctionOnSet(g, T) = k * SumFunctionOnSet(f, T)}
<1>1. {} \in Good
  BY SumOfNothing
<1>2. ASSUME NEW T \in Good, NEW x \in S \ T PROVE T \cup {x} \in Good
  <2>1. IsFiniteSet(T) /\ \A y \in S : f[y] \in Int /\ g[y] \in Int
    BY FS_Subset
  <2>2. /\ SumFunctionOnSet(f, T \cup {x}) = f[x] + SumFunctionOnSet(f, T)
        /\ SumFunctionOnSet(g, T \cup {x}) = g[x] + SumFunctionOnSet(g, T)
        /\ SumFunctionOnSet(f, T) \in Int
    BY <2>1, SumGrows
  <2>3. g[x] = k * f[x] /\ f[x] \in Int /\ SumFunctionOnSet(g, T) = k * SumFunctionOnSet(f, T)
    OBVIOUS
  <2>. HIDE DEF Good
  <2>4. SumFunctionOnSet(g, T \cup {x}) = k * SumFunctionOnSet(f, T \cup {x})
    BY <2>2, <2>3
  <2> QED BY <2>4 DEF Good
<1>3. Good = SUBSET S
  <2>. HIDE DEF Good
  <2>1. Good \in SUBSET (SUBSET S)
    BY DEF Good
  <2> QED BY <1>1, <1>2, <2>1, EverySubset
<1> QED BY <1>3

\* Two things of each add up to their sums.
LEMMA SumOfSums ==
  ASSUME NEW S, IsFiniteSet(S), NEW f, NEW g, NEW h,
         \A x \in S : f[x] \in Int /\ g[x] \in Int /\ h[x] = f[x] + g[x]
  PROVE  SumFunctionOnSet(h, S) = SumFunctionOnSet(f, S) + SumFunctionOnSet(g, S)
<1>1. \A x \in S : h[x] \in Int /\ g[x] \in Int /\ f[x] = h[x] - g[x]
  OBVIOUS
<1>2. SumFunctionOnSet(f, S) = SumFunctionOnSet(h, S) - SumFunctionOnSet(g, S)
  BY <1>1, SumOfDifferences
<1>3. SumFunctionOnSet(h, S) \in Int /\ SumFunctionOnSet(g, S) \in Int
  BY <1>1, SumsAreInts
<1> QED BY <1>2, <1>3

\* What is not below zero adds up to nothing below zero.
LEMMA SumsAreNats ==
  ASSUME NEW S, IsFiniteSet(S), NEW f, \A x \in S : f[x] \in Nat
  PROVE  SumFunctionOnSet(f, S) \in Nat
<1>. DEFINE z == [x \in S |-> 0]
<1>1. \A x \in S : z[x] \in Int /\ f[x] \in Int /\ z[x] <= f[x] /\ z[x] = 0
  OBVIOUS
<1>. HIDE DEF z
<1>2. SumFunctionOnSet(z, S) = 0
  BY <1>1, SumOfZeros
<1>3. SumFunctionOnSet(z, S) <= SumFunctionOnSet(f, S)
  BY <1>1, SumOfSmaller
<1>4. SumFunctionOnSet(f, S) \in Int
  BY <1>1, SumsAreInts
<1> QED BY <1>2, <1>3, <1>4

\* The sums of rows, and of columns.
RowsOf(m, A, B) == [a \in A |-> SumFunctionOnSet([b \in B |-> m[<<a, b>>]], B)]

ColumnsOf(m, A, B) == [b \in B |-> SumFunctionOnSet([a \in A |-> m[<<a, b>>]], A)]

IntsIn(m, A, B) == \A a \in A, b \in B : m[<<a, b>>] \in Int

\* Rows and columns add up to the same.
LEMMA RowsAndColumns ==
  ASSUME NEW A, IsFiniteSet(A), NEW B, IsFiniteSet(B), NEW m, IntsIn(m, A, B)
  PROVE  SumFunctionOnSet(RowsOf(m, A, B), A) = SumFunctionOnSet(ColumnsOf(m, A, B), B)
<1>. DEFINE Equal(T) == SumFunctionOnSet(RowsOf(m, A, B), T) = SumFunctionOnSet(ColumnsOf(m, T, B), B)
            Good == {T \in SUBSET A : Equal(T)}
<1>0. \A T \in SUBSET A : IsFiniteSet(T)
  BY FS_Subset
<1>1. {} \in Good
  <2>1. \A b \in B : ColumnsOf(m, {}, B)[b] = 0
    BY SumOfNothing DEF ColumnsOf
  <2>2. SumFunctionOnSet(ColumnsOf(m, {}, B), B) = 0
    BY <2>1, SumOfZeros
  <2> QED BY <2>2, SumOfNothing
<1>2. ASSUME NEW T \in Good, NEW x \in A \ T PROVE T \cup {x} \in Good
  <2>. DEFINE row == [b \in B |-> m[<<x, b>>]]
  <2>1. \A b \in B : row[b] \in Int /\ row[b] = m[<<x, b>>]
    BY DEF IntsIn
  <2>. HIDE DEF row
  <2>2. ASSUME NEW b \in B
        PROVE  /\ ColumnsOf(m, T, B)[b] \in Int
               /\ ColumnsOf(m, T \cup {x}, B)[b] = row[b] + ColumnsOf(m, T, B)[b]
    <3>. DEFINE short == [a \in T |-> m[<<a, b>>]]
                long == [a \in T \cup {x} |-> m[<<a, b>>]]
    <3>1. /\ \A a \in T : short[a] \in Int /\ short[a] = long[a] /\ long[a] \in Int
          /\ long[x] = row[b] /\ long[x] \in Int
      BY <2>1 DEF IntsIn
    <3>2. ColumnsOf(m, T, B)[b] = SumFunctionOnSet(short, T)
          /\ ColumnsOf(m, T \cup {x}, B)[b] = SumFunctionOnSet(long, T \cup {x})
      BY DEF ColumnsOf
    <3>. HIDE DEF short, long
    <3>3. SumFunctionOnSet(short, T) = SumFunctionOnSet(long, T)
      BY <1>0, <3>1, SumOfTheSame
    <3>4. SumFunctionOnSet(long, T \cup {x}) = long[x] + SumFunctionOnSet(long, T) /\ SumFunctionOnSet(long, T) \in Int
      BY <1>0, <3>1, SumGrows
    <3> QED BY <3>1, <3>2, <3>3, <3>4
  <2>3. SumFunctionOnSet(ColumnsOf(m, T \cup {x}, B), B) = SumFunctionOnSet(row, B) + SumFunctionOnSet(ColumnsOf(m, T, B), B)
    BY <2>1, <2>2, SumOfSums
  <2>4. \A a \in A : RowsOf(m, A, B)[a] \in Int
    <3>1. ASSUME NEW a \in A PROVE RowsOf(m, A, B)[a] \in Int
      <4>. DEFINE f == [b \in B |-> m[<<a, b>>]]
      <4>1. \A b \in B : f[b] \in Int
        BY DEF IntsIn
      <4>2. RowsOf(m, A, B)[a] = SumFunctionOnSet(f, B)
        BY DEF RowsOf
      <4>. HIDE DEF f
      <4> QED BY <4>1, <4>2, SumsAreInts
    <3> QED BY <3>1
  <2>5. RowsOf(m, A, B)[x] = SumFunctionOnSet(row, B)
    BY DEF RowsOf, row
  <2>6. SumFunctionOnSet(RowsOf(m, A, B), T \cup {x}) = RowsOf(m, A, B)[x] + SumFunctionOnSet(RowsOf(m, A, B), T)
    BY <1>0, <2>4, SumGrows
  <2>7. Equal(T)
    OBVIOUS
  <2>8. Equal(T \cup {x})
    BY <2>3, <2>5, <2>6, <2>7
  <2>. HIDE DEF Equal
  <2> QED BY <2>8
<1>3. Good = SUBSET A
  <2>. HIDE DEF Good
  <2>1. Good \in SUBSET (SUBSET A)
    BY DEF Good
  <2> QED BY <1>1, <1>2, <2>1, EverySubset
<1> QED BY <1>3

-----------------------------------------------------------------------------
(* Shares *)

\* The same shares, of a whole that is not larger.
Scaled(shares, parts, of, S) ==
  /\ shares.parts \in [S -> Nat] /\ shares.of \in Positive
  /\ \E g \in Positive : of = g * shares.of /\ \A n \in S : parts[n] = g * shares.parts[n]

\* Shares in lowest terms are the same shares.
LEMMA SharesAreScaled ==
  ASSUME NEW S, IsFiniteSet(S), NEW parts \in [S -> Nat], NEW of \in Positive
  PROVE  Scaled(Shares(parts, of), parts, of, S)
<1>. DEFINE g == FoldFunctionOnSet(LAMBDA a, b : GCD[<<a, b>>], of, parts, S)
<1>1. g \in Positive /\ Divides(g, of) /\ \A x \in S : Divides(g, parts[x])
  <2>1. \A x \in S : parts[x] \in Nat
    OBVIOUS
  <2> QED BY <2>1, CommonOfAll
<1>2. Shares(parts, of) = [parts |-> [n \in S |-> parts[n] \div g], of |-> of \div g]
  BY DEF Shares
<1>. HIDE DEF g
<1>3. PICK k \in Nat : of = g * k
  BY <1>1 DEF Divides
<1>4. of \div g = k /\ k \in Positive
  BY <1>1, <1>3, ExactShare DEF Positive
<1>5. ASSUME NEW n \in S PROVE parts[n] \div g \in Nat /\ parts[n] = g * (parts[n] \div g)
  <2>1. PICK j \in Nat : parts[n] = g * j
    BY <1>1 DEF Divides
  <2> QED BY <1>1, <2>1, ExactShare
<1>6. Shares(parts, of).parts = [n \in S |-> parts[n] \div g] /\ Shares(parts, of).of = k
  BY <1>2, <1>4
<1> QED BY <1>1, <1>3, <1>4, <1>5, <1>6 DEF Scaled

\* Shares of the whole that add up to it.
Spread(shares, S) ==
  /\ shares.parts \in [S -> Nat] /\ shares.of \in Positive
  /\ SumFunctionOnSet(shares.parts, S) = shares.of

\* Parts that add up to the whole do so in lowest terms.
LEMMA ScaledAddUp ==
  ASSUME NEW S, IsFiniteSet(S), NEW shares, NEW parts, NEW of, Scaled(shares, parts, of, S),
         SumFunctionOnSet(parts, S) = of
  PROVE  Spread(shares, S)
<1>1. PICK g \in Positive : of = g * shares.of /\ \A n \in S : parts[n] = g * shares.parts[n]
  BY DEF Scaled
<1>2. \A n \in S : shares.parts[n] \in Int /\ parts[n] = g * shares.parts[n]
  BY <1>1 DEF Scaled
<1>3. g \in Int /\ g > 0
  BY DEF Positive
<1>4. SumFunctionOnSet(parts, S) = g * SumFunctionOnSet(shares.parts, S)
  BY <1>2, <1>3, SumOfMultiples
<1>5. SumFunctionOnSet(shares.parts, S) \in Int /\ shares.of \in Int
  BY <1>2, SumsAreInts DEF Scaled, Positive
<1>6. \A a, b \in Int : g * a = g * b => a = b
  BY <1>3
<1>7. SumFunctionOnSet(shares.parts, S) = shares.of
  BY <1>1, <1>4, <1>5, <1>6
<1> QED BY <1>7 DEF Spread, Scaled

\* How far apart shares are, of both wholes.
Gap(r, s, S) == SumFunctionOnSet([n \in S |-> Magnitude(r.parts[n] * s.of - s.parts[n] * r.of)], S)

\* They are no further apart than x of y.
Nearby(r, s, S, x, y) == Gap(r, s, S) * y <= x * (r.of * s.of)

\* A multiple is as far from nothing as many times.
LEMMA MultiplesAreFar ==
  ASSUME NEW k \in Nat, NEW a \in Int
  PROVE  Magnitude(k * a) = k * Magnitude(a) /\ Magnitude(a) \in Nat
<1>1. CASE a < 0
  <2>1. k * a <= 0 /\ k * a \in Int
    BY <1>1
  <2>2. -(k * a) = k * (-a)
    OBVIOUS
  <2>3. k * a = 0 => -(k * a) = k * a
    BY <2>1
  <2> QED BY <1>1, <2>1, <2>2, <2>3 DEF Magnitude
<1>2. CASE a >= 0
  <2>1. k * a >= 0
    BY <1>2
  <2> QED BY <1>2, <2>1 DEF Magnitude
<1> QED BY <1>1, <1>2

\* Shares are as near in lowest terms.
LEMMA ScaledAreNear ==
  ASSUME NEW S, IsFiniteSet(S), NEW r, NEW s, NEW t, NEW u,
         Scaled(r, t.parts, t.of, S), Scaled(s, u.parts, u.of, S),
         NEW x \in Nat, NEW y \in Nat, Nearby(t, u, S, x, y)
  PROVE  Nearby(r, s, S, x, y)
<1>1. PICK g \in Positive : t.of = g * r.of /\ \A n \in S : t.parts[n] = g * r.parts[n]
  BY DEF Scaled
<1>2. PICK h \in Positive : u.of = h * s.of /\ \A n \in S : u.parts[n] = h * s.parts[n]
  BY DEF Scaled
<1>3. /\ g \in Int /\ g > 0 /\ h \in Int /\ h > 0
      /\ r.of \in Int /\ s.of \in Int
      /\ \A n \in S : r.parts[n] \in Int /\ s.parts[n] \in Int
  BY DEF Scaled, Positive
<1>. DEFINE k == g * h
            near == [n \in S |-> Magnitude(r.parts[n] * s.of - s.parts[n] * r.of)]
            far == [n \in S |-> Magnitude(t.parts[n] * u.of - u.parts[n] * t.of)]
<1>4. k \in Nat /\ k > 0 /\ k \in Int
  BY <1>3
<1>5. t.of * u.of = k * (r.of * s.of)
  BY <1>1, <1>2, <1>3
<1>6. ASSUME NEW n \in S PROVE near[n] \in Int /\ far[n] = k * near[n]
  <2>. DEFINE d == r.parts[n] * s.of - s.parts[n] * r.of
  <2>1. d \in Int
    BY <1>3
  <2>2. t.parts[n] * u.of - u.parts[n] * t.of = k * d
    <3>1. t.parts[n] * u.of = k * (r.parts[n] * s.of)
      BY <1>1, <1>2, <1>3
    <3>2. u.parts[n] * t.of = k * (s.parts[n] * r.of)
      BY <1>1, <1>2, <1>3
    <3>3. r.parts[n] * s.of \in Int /\ s.parts[n] * r.of \in Int
      BY <1>3
    <3>. HIDE DEF k
    <3> QED BY <1>4, <3>1, <3>2, <3>3
  <2>3. far[n] = Magnitude(k * d) /\ near[n] = Magnitude(d)
    BY <2>2
  <2>. HIDE DEF d, k
  <2> QED BY <1>4, <2>1, <2>3, MultiplesAreFar
<1>. HIDE DEF k, near, far
<1>7. SumFunctionOnSet(far, S) = k * SumFunctionOnSet(near, S)
  BY <1>4, <1>6, SumOfMultiples
<1>8. Gap(r, s, S) = SumFunctionOnSet(near, S) /\ Gap(t, u, S) = SumFunctionOnSet(far, S)
  BY DEF Gap, near, far
<1>9. SumFunctionOnSet(near, S) \in Int
  BY <1>6, SumsAreInts
<1>. DEFINE gap == SumFunctionOnSet(near, S)
            whole == r.of * s.of
<1>10. (k * gap) * y <= x * (k * whole)
  BY <1>5, <1>7, <1>8 DEF Nearby
<1>11. gap \in Int /\ whole \in Int
  BY <1>3, <1>9
<1>. HIDE DEF gap, whole
<1>12. (k * gap) * y = k * (gap * y) /\ x * (k * whole) = k * (x * whole)
  BY <1>4, <1>11
<1>13. gap * y \in Int /\ x * whole \in Int /\ k * (gap * y) <= k * (x * whole)
  BY <1>10, <1>11, <1>12
<1>14. gap * y <= x * whole
  BY <1>4, <1>13
<1> QED BY <1>8, <1>14 DEF Nearby, gap, whole

\* What a pass changed is how far apart the shares are before and after
\* it.
LEMMA ChangeIsGap ==
  ASSUME NEW S, IsFiniteSet(S), NEW r, NEW s, Spread(r, S), Spread(s, S), NEW x \in Nat, NEW y \in Nat,
         Nearby(r, s, S, x, y)
  PROVE  /\ Change(r, s)[1] \in Int /\ Change(r, s)[2] \in Positive
         /\ Change(r, s)[1] * y <= x * Change(r, s)[2]
<1>. DEFINE unit == LCM[<<r.of, s.of>>]
<1>1. /\ DOMAIN r.parts = S /\ r.of \in Positive /\ s.of \in Positive
      /\ \A n \in S : r.parts[n] \in Int /\ s.parts[n] \in Int
  BY DEF Spread
<1>2. unit \in Positive /\ Divides(r.of, unit) /\ Divides(s.of, unit)
  BY <1>1, LCMIsMultiple
<1>. DEFINE i == unit \div r.of
            j == unit \div s.of
            off == [n \in S |-> Abs(r.parts[n] * i - s.parts[n] * j)]
            far == [n \in S |-> Magnitude(r.parts[n] * s.of - s.parts[n] * r.of)]
<1>3. Change(r, s) = <<SumFunctionOnSet(off, S), unit>>
  BY <1>1 DEF Change
<1>4. i \in Nat /\ j \in Nat /\ unit = r.of * i /\ unit = s.of * j
  <2>1. PICK a \in Nat, b \in Nat : unit = r.of * a /\ unit = s.of * b
    BY <1>2 DEF Divides
  <2>. HIDE DEF unit
  <2>2. unit \div r.of = a /\ unit \div s.of = b
    BY <1>1, <2>1, ExactShare
  <2> QED BY <2>1, <2>2
<1>. DEFINE whole == r.of * s.of
<1>5. whole \in Nat /\ whole > 0
  BY <1>1 DEF Positive
<1>6. /\ unit \in Nat /\ unit > 0
  BY <1>2 DEF Positive
<1>. HIDE DEF unit, i, j
<1>7. ASSUME NEW n \in S PROVE off[n] \in Nat /\ far[n] \in Nat /\ whole * off[n] = unit * far[n]
  <2>. DEFINE a == r.parts[n] * i - s.parts[n] * j
              b == r.parts[n] * s.of - s.parts[n] * r.of
  <2>0. r.of \in Int /\ s.of \in Int /\ r.parts[n] \in Int /\ s.parts[n] \in Int /\ i \in Int /\ j \in Int
    BY <1>1, <1>4 DEF Positive
  <2>1. a \in Int /\ b \in Int
    BY <2>0
  <2>2. whole * a = unit * b
    <3>1. whole * (r.parts[n] * i) = (r.of * i) * (r.parts[n] * s.of)
      BY <2>0
    <3>2. whole * (s.parts[n] * j) = (s.of * j) * (s.parts[n] * r.of)
      BY <2>0
    <3>3. r.parts[n] * i \in Int /\ s.parts[n] * j \in Int /\ r.parts[n] * s.of \in Int /\ s.parts[n] * r.of \in Int
      BY <2>0
    <3>4. whole * (r.parts[n] * i) = unit * (r.parts[n] * s.of) /\ whole * (s.parts[n] * j) = unit * (s.parts[n] * r.of)
      BY <1>4, <3>1, <3>2
    <3>. HIDE DEF whole
    <3>5. \A k \in Nat : \A p, q \in Int : k * (p - q) = k * p - k * q
      OBVIOUS
    <3>6. whole * a = whole * (r.parts[n] * i) - whole * (s.parts[n] * j)
      BY <1>5, <3>3, <3>5
    <3>7. unit * b = unit * (r.parts[n] * s.of) - unit * (s.parts[n] * r.of)
      BY <1>6, <3>3, <3>5
    <3> QED BY <3>4, <3>6, <3>7
  <2>3. off[n] = Magnitude(a) /\ far[n] = Magnitude(b)
    BY DEF Abs, Magnitude
  <2>. HIDE DEF a, b, whole
  <2>4. Magnitude(whole * a) = whole * Magnitude(a) /\ Magnitude(unit * b) = unit * Magnitude(b)
        /\ Magnitude(a) \in Nat /\ Magnitude(b) \in Nat
    BY <1>5, <1>6, <2>1, MultiplesAreFar
  <2> QED BY <2>2, <2>3, <2>4
<1>. HIDE DEF off, far, whole
<1>. DEFINE sum == [n \in S |-> whole * off[n]]
<1>8. /\ \A n \in S : off[n] \in Int /\ sum[n] = whole * off[n]
      /\ \A n \in S : far[n] \in Int /\ sum[n] = unit * far[n]
  BY <1>7
<1>. HIDE DEF sum
<1>. DEFINE o == SumFunctionOnSet(off, S)
            f == SumFunctionOnSet(far, S)
<1>9. SumFunctionOnSet(sum, S) = whole * o
  BY <1>5, <1>8, SumOfMultiples
<1>10. SumFunctionOnSet(sum, S) = unit * f
  BY <1>6, <1>8, SumOfMultiples
<1>11. o \in Int /\ f \in Int
  BY <1>8, SumsAreInts
<1>12. f * y <= x * whole
  BY DEF Nearby, Gap, far, whole
<1>. HIDE DEF o, f
<1>13. whole * o = unit * f
  BY <1>9, <1>10
<1>14. unit * (f * y) <= unit * (x * whole)
  BY <1>5, <1>6, <1>11, <1>12
<1>15. whole * (o * y) = unit * (f * y) /\ unit * (x * whole) = whole * (x * unit)
  BY <1>5, <1>6, <1>11, <1>13
<1>16. whole * (o * y) <= whole * (x * unit) /\ o * y \in Int /\ x * unit \in Int
  BY <1>6, <1>11, <1>14, <1>15
<1>17. o * y <= x * unit
  BY <1>5, <1>16
<1> QED BY <1>2, <1>3, <1>11, <1>17 DEF o

-----------------------------------------------------------------------------
(* One pass of the walk *)

\* What is handed to n by those of C, in proportion m.
Handing(m, C, p, n) == SumFunctionOnSet([c \in C |-> p[c] * m[<<c, n>>]], C)

\* Each of C hands out all that it has, of so many.
HandsOn(m, C, S, unit) ==
  /\ C \subseteq S /\ unit \in Positive
  /\ \A c \in C, n \in S : m[<<c, n>>] \in Nat
  /\ \A c \in C : SumFunctionOnSet([n \in S |-> m[<<c, n>>]], S) = unit

\* What is handed on is handed to somebody.
LEMMA HandingAddsUp ==
  ASSUME NEW S, IsFiniteSet(S), NEW C, NEW m, NEW unit, HandsOn(m, C, S, unit),
         NEW p, \A c \in C : p[c] \in Int
  PROVE  /\ \A n \in S : Handing(m, C, p, n) \in Int
         /\ SumFunctionOnSet([n \in S |-> Handing(m, C, p, n)], S) = unit * SumFunctionOnSet(p, C)
<1>0. IsFiniteSet(C) /\ unit \in Int
  BY FS_Subset DEF HandsOn, Positive
<1>. DEFINE pm == [pair \in C \X S |-> p[pair[1]] * m[pair]]
<1>1. \A c \in C, n \in S : pm[<<c, n>>] = p[c] * m[<<c, n>>] /\ pm[<<c, n>>] \in Int /\ m[<<c, n>>] \in Int
  <2>1. \A c \in C, n \in S : pm[<<c, n>>] = p[c] * m[<<c, n>>]
    OBVIOUS
  <2>. HIDE DEF pm
  <2>2. \A c \in C, n \in S : m[<<c, n>>] \in Int
    <3>1. \A c \in C, n \in S : m[<<c, n>>] \in Nat
      BY Zenon DEF HandsOn
    <3>2. \A k \in Nat : k \in Int
      OBVIOUS
    <3> QED BY <3>1, <3>2, Zenon
  <2>3. ASSUME NEW c \in C, NEW n \in S PROVE pm[<<c, n>>] = p[c] * m[<<c, n>>] /\ pm[<<c, n>>] \in Int /\ m[<<c, n>>] \in Int
    <3>1. m[<<c, n>>] \in Int /\ p[c] \in Int /\ pm[<<c, n>>] = p[c] * m[<<c, n>>]
      BY <2>1, <2>2
    <3> QED BY <3>1
  <2> QED BY <2>3
<1>. HIDE DEF pm
<1>2. IntsIn(pm, C, S)
  BY <1>1 DEF IntsIn
<1>3. SumFunctionOnSet(RowsOf(pm, C, S), C) = SumFunctionOnSet(ColumnsOf(pm, C, S), S)
  BY <1>0, <1>2, RowsAndColumns
<1>4. ASSUME NEW n \in S
      PROVE  Handing(m, C, p, n) = ColumnsOf(pm, C, S)[n] /\ Handing(m, C, p, n) \in Int
  <2>. DEFINE f == [c \in C |-> p[c] * m[<<c, n>>]]
              g == [c \in C |-> pm[<<c, n>>]]
  <2>1. \A c \in C : f[c] \in Int /\ f[c] = g[c]
    BY <1>1
  <2>2. Handing(m, C, p, n) = SumFunctionOnSet(f, C) /\ ColumnsOf(pm, C, S)[n] = SumFunctionOnSet(g, C)
    BY DEF Handing, ColumnsOf
  <2>. HIDE DEF f, g
  <2> QED BY <1>0, <2>1, <2>2, SumOfTheSame, SumsAreInts
<1>5. [n \in S |-> Handing(m, C, p, n)] = ColumnsOf(pm, C, S)
  BY <1>4 DEF ColumnsOf
<1>6. ASSUME NEW c \in C PROVE RowsOf(pm, C, S)[c] = unit * p[c]
  <2>. DEFINE f == [n \in S |-> pm[<<c, n>>]]
              g == [n \in S |-> m[<<c, n>>]]
  <2>1. \A n \in S : g[n] \in Int /\ f[n] = p[c] * g[n]
    BY <1>1
  <2>2. RowsOf(pm, C, S)[c] = SumFunctionOnSet(f, S) /\ SumFunctionOnSet(g, S) = unit
    BY DEF RowsOf, HandsOn
  <2>. HIDE DEF f, g
  <2>3. SumFunctionOnSet(f, S) = p[c] * unit
    BY <2>1, <2>2, SumOfMultiples
  <2> QED BY <1>0, <2>2, <2>3
<1>7. SumFunctionOnSet(RowsOf(pm, C, S), C) = unit * SumFunctionOnSet(p, C)
  BY <1>0, <1>6, SumOfMultiples
<1> QED BY <1>3, <1>4, <1>5, <1>7

\* d is so many times p less so many times q.
Combines(d, p, q, a, b, S) == \A c \in S : p[c] \in Int /\ q[c] \in Int /\ d[c] = b * p[c] - a * q[c]

\* A sum of differences of multiples is such a difference of sums.
LEMMA CombinationsAddUp ==
  ASSUME NEW S, IsFiniteSet(S), NEW d, NEW p, NEW q, NEW a \in Int, NEW b \in Int, Combines(d, p, q, a, b, S)
  PROVE  SumFunctionOnSet(d, S) = b * SumFunctionOnSet(p, S) - a * SumFunctionOnSet(q, S)
<1>. DEFINE f == [c \in S |-> b * p[c]]
            g == [c \in S |-> a * q[c]]
<1>1. \A c \in S : /\ p[c] \in Int /\ q[c] \in Int
                   /\ f[c] = b * p[c] /\ g[c] = a * q[c] /\ f[c] \in Int /\ g[c] \in Int /\ d[c] = f[c] - g[c]
  BY DEF Combines
<1>. HIDE DEF f, g
<1>2. SumFunctionOnSet(d, S) = SumFunctionOnSet(f, S) - SumFunctionOnSet(g, S)
  BY <1>1, SumOfDifferences
<1>3. SumFunctionOnSet(f, S) = b * SumFunctionOnSet(p, S)
  BY <1>1, SumOfMultiples
<1>4. SumFunctionOnSet(g, S) = a * SumFunctionOnSet(q, S)
  BY <1>1, SumOfMultiples
<1> QED BY <1>2, <1>3, <1>4

\* What is handed on of a difference is the difference of what is handed
\* on.
LEMMA HandingCombines ==
  ASSUME NEW S, IsFiniteSet(S), NEW C, NEW m, NEW unit, HandsOn(m, C, S, unit), NEW n \in S,
         NEW d, NEW p, NEW q, NEW a \in Int, NEW b \in Int, Combines(d, p, q, a, b, C)
  PROVE  Handing(m, C, d, n) = b * Handing(m, C, p, n) - a * Handing(m, C, q, n)
<1>. DEFINE dm == [c \in C |-> d[c] * m[<<c, n>>]]
            pm == [c \in C |-> p[c] * m[<<c, n>>]]
            qm == [c \in C |-> q[c] * m[<<c, n>>]]
<1>1. ASSUME NEW c \in C PROVE pm[c] \in Int /\ qm[c] \in Int /\ dm[c] = b * pm[c] - a * qm[c]
  <2>1. m[<<c, n>>] \in Int /\ p[c] \in Int /\ q[c] \in Int /\ d[c] = b * p[c] - a * q[c]
    BY DEF HandsOn, Combines
  <2>2. (b * p[c] - a * q[c]) * m[<<c, n>>] = b * (p[c] * m[<<c, n>>]) - a * (q[c] * m[<<c, n>>])
    BY <2>1
  <2> QED BY <2>1, <2>2
<1>2. Combines(dm, pm, qm, a, b, C)
  BY <1>1 DEF Combines
<1>3. IsFiniteSet(C)
  BY FS_Subset DEF HandsOn
<1>. HIDE DEF dm, pm, qm
<1>4. SumFunctionOnSet(dm, C) = b * SumFunctionOnSet(pm, C) - a * SumFunctionOnSet(qm, C)
  BY <1>2, <1>3, CombinationsAddUp
<1> QED BY <1>4 DEF Handing, dm, pm, qm

Magnitudes(e, S) == [c \in S |-> Magnitude(e[c])]

\* What is handed on is no further from nothing than what is handed on of
\* magnitudes.
LEMMA HandingIsNoFurther ==
  ASSUME NEW S, IsFiniteSet(S), NEW C, NEW m, NEW unit, HandsOn(m, C, S, unit), NEW n \in S,
         NEW e, \A c \in S : e[c] \in Int
  PROVE  Magnitude(Handing(m, C, e, n)) <= Handing(m, C, Magnitudes(e, S), n)
<1>. DEFINE f == [c \in C |-> e[c] * m[<<c, n>>]]
            g == [c \in C |-> Magnitudes(e, S)[c] * m[<<c, n>>]]
<1>1. ASSUME NEW c \in C PROVE f[c] \in Int /\ g[c] = Magnitude(f[c])
  <2>1. m[<<c, n>>] \in Nat /\ e[c] \in Int /\ c \in S
    BY DEF HandsOn
  <2>2. Magnitude(m[<<c, n>>] * e[c]) = m[<<c, n>>] * Magnitude(e[c]) /\ Magnitude(e[c]) \in Nat
    BY <2>1, MultiplesAreFar
  <2>3. m[<<c, n>>] * e[c] = e[c] * m[<<c, n>>] /\ m[<<c, n>>] * Magnitude(e[c]) = Magnitude(e[c]) * m[<<c, n>>]
    BY <2>1, <2>2
  <2>4. Magnitudes(e, S)[c] = Magnitude(e[c])
    BY <2>1 DEF Magnitudes
  <2> QED BY <2>1, <2>2, <2>3, <2>4
<1>2. IsFiniteSet(C)
  BY FS_Subset DEF HandsOn
<1>. HIDE DEF f, g
<1>3. Magnitude(SumFunctionOnSet(f, C)) <= SumFunctionOnSet(g, C)
  BY <1>1, <1>2, SumOfDistances
<1> QED BY <1>3 DEF Handing, f, g

\* What a pass makes of p before damping, of a whole that is back.of * unit
\* times as many: what is handed on, and what those who hand nothing on give to
\* the back.
Passing(m, C, S, unit, back, p) ==
  [n \in S |-> back.of * Handing(m, C, p, n) + SumFunctionOnSet(p, S \ C) * (unit * back.parts[n])]

\* A pass neither makes nor loses anything.
LEMMA PassingAddsUp ==
  ASSUME NEW S, IsFiniteSet(S), NEW C, NEW m, NEW unit, HandsOn(m, C, S, unit), NEW back, Spread(back, S),
         NEW p, \A c \in S : p[c] \in Int
  PROVE  /\ \A n \in S : Passing(m, C, S, unit, back, p)[n] \in Int
         /\ SumFunctionOnSet(Passing(m, C, S, unit, back, p), S) = (back.of * unit) * SumFunctionOnSet(p, S)
<1>0. /\ IsFiniteSet(C) /\ IsFiniteSet(S \ C) /\ unit \in Int /\ back.of \in Int
      /\ \A n \in S : back.parts[n] \in Int
      /\ SumFunctionOnSet(back.parts, S) = back.of
      /\ C \subseteq S /\ C \cup (S \ C) = S /\ C \cap (S \ C) = {}
  BY FS_Subset, FS_Difference DEF HandsOn, Spread, Positive
<1>. DEFINE hand == [n \in S |-> Handing(m, C, p, n)]
            left == SumFunctionOnSet(p, S \ C)
            given == SumFunctionOnSet(p, C)
            f == [n \in S |-> back.of * hand[n]]
            g == [n \in S |-> (left * unit) * back.parts[n]]
<1>1. /\ \A n \in S : hand[n] \in Int
      /\ SumFunctionOnSet(hand, S) = unit * given
  <2>1. \A c \in C : p[c] \in Int
    BY <1>0
  <2> QED BY <2>1, HandingAddsUp
<1>2. left \in Int /\ given \in Int /\ SumFunctionOnSet(p, S) = given + left
  <2>1. \A c \in C : p[c] \in Int
    BY <1>0
  <2>2. \A c \in S \ C : p[c] \in Int
    OBVIOUS
  <2>3. \A c \in C \cup (S \ C) : p[c] \in Int
    BY <2>1, <2>2
  <2>4. left \in Int /\ given \in Int
    BY <1>0, <2>1, <2>2, SumsAreInts
  <2>5. SumFunctionOnSet(p, C \cup (S \ C)) = SumFunctionOnSet(p, C) + SumFunctionOnSet(p, S \ C)
    BY <1>0, <2>3, SumOfParts
  <2> QED BY <1>0, <2>4, <2>5
<1>. HIDE DEF hand, left, given
<1>3. \A n \in S : /\ hand[n] \in Int /\ f[n] = back.of * hand[n] /\ f[n] \in Int
                   /\ g[n] = (left * unit) * back.parts[n] /\ g[n] \in Int /\ back.parts[n] \in Int
  BY <1>0, <1>1, <1>2
<1>4. ASSUME NEW n \in S PROVE Passing(m, C, S, unit, back, p)[n] = f[n] + g[n]
  <2>1. Passing(m, C, S, unit, back, p)[n] = back.of * hand[n] + left * (unit * back.parts[n])
    BY DEF Passing, hand, left
  <2>2. left * (unit * back.parts[n]) = (left * unit) * back.parts[n]
    BY <1>0, <1>2
  <2> QED BY <2>1, <2>2
<1>. HIDE DEF f, g
<1>5. SumFunctionOnSet(f, S) = back.of * SumFunctionOnSet(hand, S)
  BY <1>0, <1>3, SumOfMultiples
<1>6. SumFunctionOnSet(g, S) = (left * unit) * SumFunctionOnSet(back.parts, S)
  <2>. DEFINE k == left * unit
  <2>1. k \in Int /\ \A n \in S : back.parts[n] \in Int /\ g[n] = k * back.parts[n]
    BY <1>0, <1>2, <1>3
  <2>. HIDE DEF k
  <2> QED BY <2>1, SumOfMultiples DEF k
<1>7. SumFunctionOnSet(Passing(m, C, S, unit, back, p), S) = SumFunctionOnSet(f, S) + SumFunctionOnSet(g, S)
  BY <1>3, <1>4, SumOfSums
<1>8. back.of * (unit * given) + (left * unit) * back.of = (back.of * unit) * (given + left)
  BY <1>0, <1>2
<1>9. SumFunctionOnSet(Passing(m, C, S, unit, back, p), S) = (back.of * unit) * SumFunctionOnSet(p, S)
  BY <1>0, <1>1, <1>2, <1>5, <1>6, <1>7, <1>8
<1> QED BY <1>3, <1>4, <1>9

\* A pass brings nothing further from nothing, taken together.
LEMMA PassingIsNoFurther ==
  ASSUME NEW S, IsFiniteSet(S), NEW C, NEW m, NEW unit, HandsOn(m, C, S, unit), NEW back, Spread(back, S),
         NEW e, \A c \in S : e[c] \in Int
  PROVE  SumFunctionOnSet(Magnitudes(Passing(m, C, S, unit, back, e), S), S)
           <= (back.of * unit) * SumFunctionOnSet(Magnitudes(e, S), S)
<1>. DEFINE far == Magnitudes(e, S)
<1>1. \A c \in S : far[c] \in Int /\ far[c] = Magnitude(e[c])
  BY DEF Magnitudes, Magnitude
<1>2. /\ IsFiniteSet(C) /\ IsFiniteSet(S \ C) /\ unit \in Nat /\ back.of \in Nat
      /\ \A n \in S : back.parts[n] \in Nat
      /\ C \subseteq S
  BY FS_Subset, FS_Difference DEF HandsOn, Spread, Positive
<1>. HIDE DEF far
<1>. DEFINE P(p) == Passing(m, C, S, unit, back, p)
<1>3. ASSUME NEW n \in S
      PROVE  P(e)[n] \in Int /\ P(far)[n] \in Int /\ Magnitude(P(e)[n]) <= P(far)[n]
  <2>. DEFINE h == Handing(m, C, e, n)
              hf == Handing(m, C, far, n)
              l == SumFunctionOnSet(e, S \ C)
              lf == SumFunctionOnSet(far, S \ C)
              k == unit * back.parts[n]
  <2>1. P(e)[n] = back.of * h + l * k /\ P(far)[n] = back.of * hf + lf * k
    BY DEF Passing
  <2>2. Magnitude(h) <= hf
    BY <1>1, HandingIsNoFurther DEF far
  <2>3. Magnitude(l) <= lf
    <3>1. \A c \in S \ C : e[c] \in Int /\ far[c] = Magnitude(e[c])
      BY <1>1
    <3> QED BY <1>2, <3>1, SumOfDistances
  <2>4. h \in Int /\ hf \in Int /\ l \in Int /\ lf \in Int
    <3>1. \A c \in C : e[c] \in Int /\ far[c] \in Int
      BY <1>1, <1>2
    <3>2. h \in Int /\ hf \in Int
      BY <3>1, HandingAddsUp
    <3>3. l \in Int /\ lf \in Int
      BY <1>1, <1>2, SumsAreInts
    <3> QED BY <3>2, <3>3
  <2>5. k \in Nat
    BY <1>2
  <2>. HIDE DEF h, hf, l, lf, k, P
  <2>6. Magnitude(back.of * h) = back.of * Magnitude(h) /\ Magnitude(h) \in Nat
    BY <1>2, <2>4, MultiplesAreFar
  <2>7. Magnitude(k * l) = k * Magnitude(l) /\ Magnitude(l) \in Nat
    BY <2>4, <2>5, MultiplesAreFar
  <2>8. l * k = k * l /\ lf * k = k * lf /\ k * l \in Int /\ k * lf \in Int /\ back.of * h \in Int /\ back.of * hf \in Int
    BY <1>2, <2>4, <2>5
  <2>9. Magnitude(back.of * h + k * l) <= Magnitude(back.of * h) + Magnitude(k * l)
    BY <2>8, Distances
  <2>10. back.of * Magnitude(h) <= back.of * hf /\ k * Magnitude(l) <= k * lf
    BY <1>2, <2>2, <2>3, <2>4, <2>5, <2>6, <2>7
  <2>11. Magnitude(back.of * h + k * l) \in Int /\ back.of * Magnitude(h) \in Int /\ k * Magnitude(l) \in Int
    BY <1>2, <2>5, <2>6, <2>7, <2>8 DEF Magnitude
  <2>12. Magnitude(back.of * h + k * l) <= back.of * hf + k * lf
    BY <2>6, <2>7, <2>8, <2>9, <2>10, <2>11
  <2> QED BY <2>1, <2>8, <2>12
<1>. DEFINE f == Magnitudes(P(e), S)
<1>4. \A n \in S : f[n] \in Int /\ P(far)[n] \in Int /\ f[n] <= P(far)[n]
  <2>1. \A n \in S : f[n] = Magnitude(P(e)[n])
    BY DEF Magnitudes
  <2>. HIDE DEF P, f
  <2> QED BY <1>3, <2>1 DEF Magnitude
<1>5. SumFunctionOnSet(f, S) <= SumFunctionOnSet(P(far), S)
  <2>. HIDE DEF P, f
  <2> QED BY <1>4, SumOfSmaller
<1>6. SumFunctionOnSet(P(far), S) = (back.of * unit) * SumFunctionOnSet(far, S)
  BY <1>1, PassingAddsUp
<1> QED BY <1>5, <1>6 DEF far

\* A pass over a difference is the difference of passes.
LEMMA PassingCombines ==
  ASSUME NEW S, IsFiniteSet(S), NEW C, NEW m, NEW unit, HandsOn(m, C, S, unit), NEW back, Spread(back, S),
         NEW d, NEW p, NEW q, NEW a \in Int, NEW b \in Int, Combines(d, p, q, a, b, S)
  PROVE  Combines(Passing(m, C, S, unit, back, d), Passing(m, C, S, unit, back, p),
                  Passing(m, C, S, unit, back, q), a, b, S)
<1>1. \A c \in S : p[c] \in Int /\ q[c] \in Int
  BY DEF Combines
<1>2. Combines(d, p, q, a, b, C) /\ Combines(d, p, q, a, b, S \ C)
  BY DEF Combines, HandsOn
<1>3. /\ IsFiniteSet(S \ C) /\ unit \in Int /\ back.of \in Int
      /\ \A n \in S : back.parts[n] \in Int
  <2>1. IsFiniteSet(S \ C)
    BY FS_Difference
  <2>2. unit \in Positive /\ back.of \in Positive /\ \A n \in S : back.parts[n] \in Nat
    BY DEF HandsOn, Spread
  <2> QED BY <2>1, <2>2 DEF Positive
<1>. DEFINE l == SumFunctionOnSet(d, S \ C)
            lp == SumFunctionOnSet(p, S \ C)
            lq == SumFunctionOnSet(q, S \ C)
<1>4. l = b * lp - a * lq
  BY <1>2, <1>3, CombinationsAddUp
<1>5. lp \in Int /\ lq \in Int
  BY <1>1, <1>3, SumsAreInts
<1>. HIDE DEF l, lp, lq
<1>6. ASSUME NEW n \in S
      PROVE  Passing(m, C, S, unit, back, d)[n] =
               b * Passing(m, C, S, unit, back, p)[n] - a * Passing(m, C, S, unit, back, q)[n]
  <2>. DEFINE h == Handing(m, C, d, n)
              hp == Handing(m, C, p, n)
              hq == Handing(m, C, q, n)
              k == unit * back.parts[n]
              r == back.of
  <2>1. h = b * hp - a * hq
    BY <1>2, HandingCombines
  <2>2. hp \in Int /\ hq \in Int
    <3>1. \A c \in C : p[c] \in Int /\ q[c] \in Int
      BY <1>1 DEF HandsOn
    <3> QED BY <3>1, HandingAddsUp
  <2>3. k \in Int /\ r \in Int
    BY <1>3
  <2>4. /\ Passing(m, C, S, unit, back, d)[n] = r * h + l * k
        /\ Passing(m, C, S, unit, back, p)[n] = r * hp + lp * k
        /\ Passing(m, C, S, unit, back, q)[n] = r * hq + lq * k
    BY DEF Passing, l, lp, lq
  <2>. HIDE DEF h, hp, hq, k, r
  <2>5. r * (b * hp - a * hq) + (b * lp - a * lq) * k = b * (r * hp + lp * k) - a * (r * hq + lq * k)
    BY <1>5, <2>2, <2>3
  <2> QED BY <1>4, <2>1, <2>4, <2>5
<1>7. \A n \in S : Passing(m, C, S, unit, back, p)[n] \in Int /\ Passing(m, C, S, unit, back, q)[n] \in Int
  BY <1>1, PassingAddsUp
<1> QED BY <1>6, <1>7 DEF Combines

\* A graph of finitely many nodes, with weights that are not below zero.
Weighted(graph) ==
  /\ IsFiniteSet(graph.nodes)
  /\ \A c, n \in graph.nodes : graph.weight[<<c, n>>] \in Nat

OutOf(graph) == [n \in graph.nodes |-> OutWeight(graph, n)]

ClientsOf(graph) == {n \in graph.nodes : OutOf(graph)[n] > 0}

UnitOf(graph) == FoldFunctionOnSet(LAMBDA a, b : LCM[<<a, b>>], 1, OutOf(graph), ClientsOf(graph))

\* In what proportion clients hand on.
Matrix(graph) ==
  [pair \in ClientsOf(graph) \X graph.nodes |-> graph.weight[pair] * (UnitOf(graph) \div OutOf(graph)[pair[1]])]

\* Each client of the graph hands out all that it has
\* (personalised_pagerank divides by the weight that goes out).
LEMMA ClientsHandOn ==
  ASSUME NEW graph, Weighted(graph)
  PROVE  /\ HandsOn(Matrix(graph), ClientsOf(graph), graph.nodes, UnitOf(graph))
         /\ \A c \in ClientsOf(graph), n \in graph.nodes :
              graph.weight[<<c, n>>] = 0 => Matrix(graph)[<<c, n>>] = 0
<1>. DEFINE S == graph.nodes
            C == ClientsOf(graph)
            out == OutOf(graph)
            unit == UnitOf(graph)
            row(c) == [n \in S |-> graph.weight[<<c, n>>]]
<1>0. IsFiniteSet(S) /\ \A c, n \in S : graph.weight[<<c, n>>] \in Nat
  BY Zenon DEF Weighted
<1>1. ASSUME NEW c \in S PROVE out[c] \in Nat /\ out[c] = SumFunctionOnSet(row(c), S)
  <2>1. out[c] = SumFunctionOnSet(row(c), S)
    BY DEF OutOf, OutWeight
  <2>2. \A n \in S : row(c)[n] \in Nat
    BY <1>0
  <2>. HIDE DEF row
  <2> QED BY <1>0, <2>1, <2>2, SumsAreNats
<1>2. C \subseteq S /\ IsFiniteSet(C) /\ \A c \in C : out[c] > 0
  BY <1>0, FS_Subset DEF ClientsOf
<1>3. \A c \in C : out[c] \in Positive
  <2>1. \A c \in C : out[c] \in Nat /\ out[c] > 0
    BY <1>1, <1>2
  <2>. HIDE DEF C, out
  <2> QED BY <2>1 DEF Positive
<1>4. unit \in Positive /\ \A c \in C : Divides(out[c], unit)
  BY <1>2, <1>3, MultipleOfAll, Zenon DEF UnitOf
<1>5. ASSUME NEW c \in C
      PROVE  /\ \A n \in S : /\ Matrix(graph)[<<c, n>>] \in Nat
                             /\ graph.weight[<<c, n>>] = 0 => Matrix(graph)[<<c, n>>] = 0
             /\ SumFunctionOnSet([n \in S |-> Matrix(graph)[<<c, n>>]], S) = unit
  <2>1. PICK k \in Nat : unit = out[c] * k
    BY <1>4 DEF Divides
  <2>2. unit \div out[c] = k
    BY <1>3, <2>1, ExactShare
  <2>. DEFINE f == [n \in S |-> Matrix(graph)[<<c, n>>]]
              g == row(c)
  <2>3. ASSUME NEW n \in S
        PROVE  Matrix(graph)[<<c, n>>] = graph.weight[<<c, n>>] * k
    <3>1. Matrix(graph)[<<c, n>>] = graph.weight[<<c, n>>] * (unit \div out[c])
      BY DEF Matrix
    <3> QED BY <2>2, <3>1
  <2>4. c \in S
    BY <1>2
  <2>5. ASSUME NEW n \in S
        PROVE  /\ g[n] \in Nat /\ f[n] = k * g[n] /\ f[n] \in Nat /\ f[n] = Matrix(graph)[<<c, n>>]
               /\ g[n] = graph.weight[<<c, n>>]
               /\ graph.weight[<<c, n>>] = 0 => f[n] = 0
    <3>1. graph.weight[<<c, n>>] \in Nat
      BY <1>0, <2>4
    <3>2. f[n] = graph.weight[<<c, n>>] * k /\ g[n] = graph.weight[<<c, n>>] /\ f[n] = Matrix(graph)[<<c, n>>]
      BY <2>3
    <3>. HIDE DEF f, g
    <3> QED BY <3>1, <3>2
  <2>6. SumFunctionOnSet(g, S) = out[c]
    BY <1>1, <2>4
  <2>. HIDE DEF f, g, row, C, out, unit
  <2>7. SumFunctionOnSet(f, S) = k * out[c]
    <3>0. \A i \in Nat : i \in Int
      OBVIOUS
    <3>1. k \in Int /\ \A n \in S : g[n] \in Int /\ f[n] = k * g[n]
      BY <2>5, <3>0, Zenon
    <3> QED BY <1>0, <2>6, <3>1, SumOfMultiples
  <2>8. out[c] \in Int
    BY <1>3 DEF Positive
  <2>9. SumFunctionOnSet(f, S) = unit
    BY <2>1, <2>7, <2>8
  <2> QED BY <2>5, <2>9 DEF f
<1>. HIDE DEF C, unit, out
<1>6. \A c \in C : C \subseteq S
  BY <1>2
<1> QED BY <1>2, <1>4, <1>5, Zenon DEF HandsOn, C, unit

\* What the settings of the walk are.
LEMMA DampingIsAShare ==
  /\ Damping[1] \in Nat /\ Damping[2] \in Positive /\ Damping[2] - Damping[1] \in Positive
  /\ Tolerance[1] \in Nat /\ Tolerance[2] \in Positive
<1>1. Damping \in Nat \X (Nat \ {0}) /\ Tolerance \in Nat \X (Nat \ {0}) /\ Damping[1] < Damping[2]
  BY TriageAssumption DEF TriageAssumption
<1>2. Damping[1] \in Nat /\ Damping[2] \in Nat \ {0} /\ Tolerance[1] \in Nat /\ Tolerance[2] \in Nat \ {0}
  BY <1>1
<1> QED BY <1>1, <1>2 DEF Positive

\* What a pass makes of the rank of all before it is brought to lowest terms.
PassedOn(graph, back, rank_) ==
  Passing(Matrix(graph), ClientsOf(graph), graph.nodes, UnitOf(graph), back, rank_.parts)

Raw(graph, back, rank_) ==
  [parts |-> [n \in graph.nodes |->
                Damping[1] * PassedOn(graph, back, rank_)[n]
                  + ((Damping[2] - Damping[1]) * rank_.of) * (UnitOf(graph) * back.parts[n])],
   of    |-> (Damping[2] * rank_.of) * (UnitOf(graph) * back.of)]

\* A pass is what was handed on, damped, and the restart, in lowest terms.
LEMMA NextIsRaw ==
  ASSUME NEW graph, Weighted(graph), NEW back, Spread(back, graph.nodes), NEW p, Spread(p, graph.nodes)
  PROVE  NextRank(graph, back, p) = Shares(Raw(graph, back, p).parts, Raw(graph, back, p).of)
<1>. DEFINE S == graph.nodes
            C == ClientsOf(graph)
            out == OutOf(graph)
            unit == UnitOf(graph)
            handed(n) == SumFunctionOnSet([c \in C |-> p.parts[c] * (graph.weight[<<c, n>>] * (unit \div out[c]))], C)
            left == SumFunctionOnSet(p.parts, S \ C)
            kept == Damping[1] * left + (Damping[2] - Damping[1]) * p.of
            parts == [n \in S |-> Damping[1] * back.of * handed(n) + kept * unit * back.parts[n]]
            of == Damping[2] * p.of * unit * back.of
<1>1. NextRank(graph, back, p) = Shares(parts, of)
  BY Zenon DEF NextRank, ClientsOf, OutOf, UnitOf
<1>2. HandsOn(Matrix(graph), C, S, unit)
  BY ClientsHandOn
<1>3. \A c \in S : p.parts[c] \in Int
  BY DEF Spread
<1>4. C \subseteq S /\ unit \in Int /\ p.of \in Int /\ back.of \in Int /\ \A n \in S : back.parts[n] \in Int
  <2>1. C \subseteq S /\ unit \in Positive
    BY <1>2 DEF HandsOn
  <2>2. p.of \in Positive /\ back.of \in Positive /\ \A n \in S : back.parts[n] \in Nat
    BY DEF Spread
  <2> QED BY <2>1, <2>2 DEF Positive
<1>5. IsFiniteSet(S) /\ IsFiniteSet(C) /\ IsFiniteSet(S \ C)
  BY <1>4, FS_Subset, FS_Difference DEF Weighted
<1>6. left \in Int
  BY <1>3, <1>5, SumsAreInts
<1>7. Damping[1] \in Int /\ Damping[2] \in Int
  BY DampingIsAShare DEF Positive
<1>8. ASSUME NEW n \in S
      PROVE  /\ handed(n) = Handing(Matrix(graph), C, p.parts, n)
             /\ handed(n) \in Int
  <2>. DEFINE f == [c \in C |-> p.parts[c] * (graph.weight[<<c, n>>] * (unit \div out[c]))]
              g == [c \in C |-> p.parts[c] * Matrix(graph)[<<c, n>>]]
  <2>1. \A c \in C : f[c] = g[c]
    BY DEF Matrix
  <2>2. f = g
    BY <2>1
  <2>3. handed(n) = Handing(Matrix(graph), C, p.parts, n)
    BY <2>2 DEF Handing
  <2>4. \A c \in C : p.parts[c] \in Int
    BY <1>3, <1>4
  <2>. HIDE DEF handed
  <2> QED BY <1>2, <1>5, <2>3, <2>4, HandingAddsUp
<1>. DEFINE raw == Raw(graph, back, p)
<1>9. ASSUME NEW n \in S PROVE parts[n] = raw.parts[n]
  <2>. DEFINE h == handed(n)
              d == Damping[1]
              e == Damping[2]
              b == back.parts[n]
              r == back.of
              q == p.of
  <2>1. PassedOn(graph, back, p)[n] = r * h + left * (unit * b)
    BY <1>8 DEF PassedOn, Passing
  <2>2. raw.parts[n] = d * PassedOn(graph, back, p)[n] + ((e - d) * q) * (unit * b)
    BY DEF Raw
  <2>3. parts[n] = d * r * h + (d * left + (e - d) * q) * unit * b
    OBVIOUS
  <2>4. h \in Int /\ d \in Int /\ e \in Int /\ b \in Int /\ r \in Int /\ q \in Int
    BY <1>4, <1>7, <1>8
  <2>. HIDE DEF h, d, e, b, r, q, unit, left, parts, raw
  <2>5. d * r * h + (d * left + (e - d) * q) * unit * b = d * (r * h + left * (unit * b)) + ((e - d) * q) * (unit * b)
    BY <1>4, <1>6, <2>4
  <2> QED BY <2>1, <2>2, <2>3, <2>5
<1>10. parts = raw.parts
  <2>1. raw.parts = [n \in S |-> raw.parts[n]] /\ parts = [n \in S |-> parts[n]]
    BY DEF Raw
  <2> QED BY <1>9, <2>1
<1>11. of = raw.of
  <2>1. raw.of = (Damping[2] * p.of) * (unit * back.of)
    BY DEF Raw
  <2>. DEFINE e == Damping[2]
              r == back.of
              q == p.of
  <2>. HIDE DEF e, r, q, unit
  <2>2. e * q * unit * r = (e * q) * (unit * r)
    BY <1>4, <1>7 DEF e, r, q
  <2> QED BY <2>1, <2>2 DEF e, r, q
<1> QED BY <1>1, <1>10, <1>11, Zenon

\* What a walk is made of: a graph, where it starts again and where it is.
Walking(graph, back, p) == Weighted(graph) /\ Spread(back, graph.nodes) /\ Spread(p, graph.nodes)

\* The parts of a walk are numbers.
LEMMA WalkingHas ==
  ASSUME NEW graph, NEW back, NEW p, Walking(graph, back, p)
  PROVE  /\ IsFiniteSet(graph.nodes)
         /\ HandsOn(Matrix(graph), ClientsOf(graph), graph.nodes, UnitOf(graph))
         /\ UnitOf(graph) \in Positive /\ back.of \in Positive /\ p.of \in Positive
         /\ \A n \in graph.nodes : back.parts[n] \in Nat /\ p.parts[n] \in Nat
         /\ SumFunctionOnSet(back.parts, graph.nodes) = back.of
         /\ SumFunctionOnSet(p.parts, graph.nodes) = p.of
         /\ Spread(back, graph.nodes)
<1>1. HandsOn(Matrix(graph), ClientsOf(graph), graph.nodes, UnitOf(graph))
  BY ClientsHandOn DEF Walking
<1> QED BY <1>1 DEF Walking, Weighted, Spread, HandsOn

\* What is handed on of what is not below zero is not below zero.
LEMMA PassingIsNat ==
  ASSUME NEW S, IsFiniteSet(S), NEW C, NEW m, NEW unit, HandsOn(m, C, S, unit), NEW back, Spread(back, S),
         NEW p, \A c \in S : p[c] \in Nat, NEW n \in S
  PROVE  /\ Handing(m, C, p, n) \in Nat /\ SumFunctionOnSet(p, S \ C) \in Nat
         /\ Passing(m, C, S, unit, back, p)[n] \in Nat
<1>0. IsFiniteSet(C) /\ IsFiniteSet(S \ C) /\ C \subseteq S
  BY FS_Subset, FS_Difference DEF HandsOn
<1>1. \A c \in C : m[<<c, n>>] \in Nat /\ p[c] \in Nat
  BY <1>0, Zenon DEF HandsOn
<1>2. unit \in Nat /\ back.of \in Nat /\ back.parts[n] \in Nat
  BY DEF HandsOn, Spread, Positive
<1>. DEFINE f == [c \in C |-> p[c] * m[<<c, n>>]]
            h == Handing(m, C, p, n)
            l == SumFunctionOnSet(p, S \ C)
<1>3. \A c \in C : f[c] \in Nat
  BY <1>1
<1>4. h = SumFunctionOnSet(f, C)
  BY DEF Handing
<1>. HIDE DEF f
<1>5. h \in Nat
  BY <1>0, <1>3, <1>4, SumsAreNats
<1>6. l \in Nat
  BY <1>0, SumsAreNats
<1>7. Passing(m, C, S, unit, back, p)[n] = back.of * h + l * (unit * back.parts[n])
  BY DEF Passing
<1>. HIDE DEF h, l
<1>8. back.of * h + l * (unit * back.parts[n]) \in Nat
  <2>1. unit * back.parts[n] \in Nat
    BY <1>2
  <2>2. l * (unit * back.parts[n]) \in Nat /\ back.of * h \in Nat
    BY <1>2, <1>5, <1>6, <2>1
  <2> QED BY <2>2
<1> QED BY <1>5, <1>6, <1>7, <1>8 DEF h, l

\* What a pass makes is none below zero and adds up to the whole.
LEMMA RawAddsUp ==
  ASSUME NEW graph, NEW back, NEW p, Walking(graph, back, p)
  PROVE  /\ Raw(graph, back, p).parts \in [graph.nodes -> Nat]
         /\ Raw(graph, back, p).of \in Positive
         /\ SumFunctionOnSet(Raw(graph, back, p).parts, graph.nodes) = Raw(graph, back, p).of
         /\ \A n \in graph.nodes : PassedOn(graph, back, p)[n] \in Nat
<1>. DEFINE S == graph.nodes
            raw == Raw(graph, back, p)
            on == PassedOn(graph, back, p)
            d == Damping[1]
            e == Damping[2]
            u == UnitOf(graph)
            r == back.of
            q == p.of
            k == (e - d) * q
            f == [n \in S |-> d * on[n]]
            g == [n \in S |-> (k * u) * back.parts[n]]
<1>1. IsFiniteSet(S) /\ HandsOn(Matrix(graph), ClientsOf(graph), S, u) /\ Spread(back, S)
  BY WalkingHas
<1>2. /\ u \in Positive /\ r \in Positive /\ q \in Positive
      /\ \A n \in S : back.parts[n] \in Nat /\ p.parts[n] \in Nat
      /\ SumFunctionOnSet(back.parts, S) = r /\ SumFunctionOnSet(p.parts, S) = q
  BY WalkingHas
<1>3. d \in Nat /\ e \in Positive /\ e - d \in Positive
  BY DampingIsAShare
<1>4. \A n \in S : on[n] \in Nat
  BY <1>1, <1>2, PassingIsNat DEF PassedOn
<1>5. SumFunctionOnSet(on, S) = (r * u) * q
  <2>1. \A n \in S : p.parts[n] \in Int
    BY <1>2
  <2> QED BY <1>1, <1>2, <2>1, PassingAddsUp DEF PassedOn
<1>6. raw.of = (e * q) * (u * r) /\ \A n \in S : raw.parts[n] = d * on[n] + k * (u * back.parts[n])
  BY DEF Raw
<1>7. raw.parts = [n \in S |-> raw.parts[n]]
  BY DEF Raw
<1>. HIDE DEF raw, on, d, e, u, r, q
<1>8. k \in Nat /\ k * u \in Nat /\ e * q \in Positive /\ u * r \in Positive
  BY <1>2, <1>3 DEF Positive
<1>. HIDE DEF k
<1>9. raw.of \in Positive
  <2>. DEFINE a == e * q
              b == u * r
  <2>. HIDE DEF a, b
  <2>1. a * b \in Nat \ {0}
    BY <1>8 DEF Positive, a, b
  <2> QED BY <1>6, <2>1 DEF Positive, a, b
<1>10. ASSUME NEW n \in S
       PROVE  /\ on[n] \in Int /\ back.parts[n] \in Int
              /\ f[n] = d * on[n] /\ g[n] = (k * u) * back.parts[n]
              /\ f[n] \in Nat /\ g[n] \in Nat /\ raw.parts[n] = f[n] + g[n]
  <2>. DEFINE b == back.parts[n]
              a == on[n]
  <2>1. a \in Nat /\ b \in Nat
    BY <1>2, <1>4
  <2>2. f[n] = d * a /\ g[n] = (k * u) * b /\ raw.parts[n] = d * a + k * (u * b)
    BY <1>6
  <2>. HIDE DEF f, g, a, b
  <2>3. (k * u) * b = k * (u * b) /\ d * a \in Nat
    BY <1>2, <1>3, <1>8, <2>1 DEF Positive
  <2>4. (k * u) * b \in Nat
    <3>. DEFINE ku == k * u
    <3>. HIDE DEF ku
    <3> QED BY <1>8, <2>1 DEF ku
  <2> QED BY <2>1, <2>2, <2>3, <2>4 DEF a, b
<1>. HIDE DEF f, g
<1>11. raw.parts \in [S -> Nat]
  <2>1. \A n \in S : raw.parts[n] \in Nat
    BY <1>10
  <2> QED BY <1>7, <2>1
<1>12. SumFunctionOnSet(raw.parts, S) = SumFunctionOnSet(f, S) + SumFunctionOnSet(g, S)
  <2>1. \A n \in S : f[n] \in Int /\ g[n] \in Int /\ raw.parts[n] = f[n] + g[n]
    BY <1>10
  <2> QED BY <1>1, <2>1, SumOfSums
<1>13. SumFunctionOnSet(f, S) = d * ((r * u) * q)
  <2>1. d \in Int
    BY <1>3
  <2> QED BY <1>1, <1>5, <1>10, <2>1, SumOfMultiples
<1>14. SumFunctionOnSet(g, S) = (k * u) * r
  <2>. DEFINE ku == k * u
  <2>1. ku \in Int /\ \A n \in S : g[n] = ku * back.parts[n]
    BY <1>8, <1>10
  <2>. HIDE DEF ku
  <2>2. SumFunctionOnSet(g, S) = ku * r
    BY <1>1, <1>2, <1>10, <2>1, SumOfMultiples
  <2> QED BY <2>2 DEF ku
<1>15. d * ((r * u) * q) + (((e - d) * q) * u) * r = (e * q) * (u * r)
  BY <1>2, <1>3 DEF Positive
<1>16. SumFunctionOnSet(raw.parts, S) = raw.of
  BY <1>6, <1>12, <1>13, <1>14, <1>15 DEF k
<1> QED BY <1>4, <1>9, <1>11, <1>16 DEF raw, on

\* Suspicion is neither made nor lost by a pass (personalised_pagerank).
LEMMA NextIsSpread ==
  ASSUME NEW graph, NEW back, NEW p, Walking(graph, back, p)
  PROVE  /\ Scaled(NextRank(graph, back, p), Raw(graph, back, p).parts, Raw(graph, back, p).of, graph.nodes)
         /\ Spread(NextRank(graph, back, p), graph.nodes)
         /\ Walking(graph, back, NextRank(graph, back, p))
<1>1. NextRank(graph, back, p) = Shares(Raw(graph, back, p).parts, Raw(graph, back, p).of)
  BY NextIsRaw DEF Walking
<1>2. IsFiniteSet(graph.nodes)
  BY WalkingHas
<1>3. Scaled(NextRank(graph, back, p), Raw(graph, back, p).parts, Raw(graph, back, p).of, graph.nodes)
  BY <1>1, <1>2, RawAddsUp, SharesAreScaled
<1>4. Spread(NextRank(graph, back, p), graph.nodes)
  BY <1>2, <1>3, RawAddsUp, ScaledAddUp
<1> QED BY <1>3, <1>4 DEF Walking

\* Whoever a pass leaves with suspicion is where the walk starts again, or
\* is called by somebody with suspicion.
LEMMA SuspicionIsHandedOn ==
  ASSUME NEW graph, NEW back, NEW p, Walking(graph, back, p), NEW n \in graph.nodes,
         NextRank(graph, back, p).parts[n] > 0
  PROVE  \/ back.parts[n] > 0
         \/ \E c \in graph.nodes : p.parts[c] > 0 /\ graph.weight[<<c, n>>] > 0
<1>. DEFINE S == graph.nodes
            C == ClientsOf(graph)
            m == Matrix(graph)
<1>1. SUFFICES ASSUME back.parts[n] = 0, \A c \in S : p.parts[c] = 0 \/ graph.weight[<<c, n>>] = 0
               PROVE  FALSE
  <2>1. back.parts[n] \in Nat /\ \A c \in S : p.parts[c] \in Nat
    BY WalkingHas
  <2>2. \A c \in S : graph.weight[<<c, n>>] \in Nat
    BY Zenon DEF Walking, Weighted
  <2>3. \A i \in Nat : i > 0 \/ i = 0
    OBVIOUS
  <2> QED BY <2>1, <2>2, <2>3, Zenon
<1>2. /\ IsFiniteSet(S) /\ HandsOn(m, C, S, UnitOf(graph)) /\ UnitOf(graph) \in Positive /\ p.of \in Positive
      /\ back.of \in Positive
  BY WalkingHas
<1>3. C \subseteq S /\ IsFiniteSet(C) /\ IsFiniteSet(S \ C)
  BY <1>2, FS_Subset, FS_Difference DEF HandsOn
<1>4. \A c \in C : m[<<c, n>>] \in Nat /\ (graph.weight[<<c, n>>] = 0 => m[<<c, n>>] = 0)
  BY <1>2, ClientsHandOn, Zenon DEF HandsOn, Walking
<1>. DEFINE f == [c \in C |-> p.parts[c] * m[<<c, n>>]]
<1>5. \A c \in C : f[c] = 0
  <2>1. \A c \in C : p.parts[c] \in Nat
    BY <1>3, WalkingHas
  <2>2. ASSUME NEW c \in C PROVE p.parts[c] * m[<<c, n>>] = 0
    BY <1>1, <1>3, <1>4, <2>1
  <2> QED BY <2>2
<1>6. Handing(m, C, p.parts, n) = 0
  <2>1. Handing(m, C, p.parts, n) = SumFunctionOnSet(f, C)
    BY DEF Handing
  <2>. HIDE DEF f
  <2> QED BY <1>3, <1>5, <2>1, SumOfZeros
<1>7. PassedOn(graph, back, p)[n] = 0
  <2>. DEFINE l == SumFunctionOnSet(p.parts, S \ C)
  <2>1. PassedOn(graph, back, p)[n] = back.of * 0 + l * (UnitOf(graph) * 0)
    BY <1>1, <1>6 DEF PassedOn, Passing
  <2>2. l \in Int
    <3>1. \A c \in S \ C : p.parts[c] \in Int
      BY WalkingHas
    <3> QED BY <1>3, <3>1, SumsAreInts
  <2>. HIDE DEF l
  <2> QED BY <1>2, <2>1, <2>2 DEF Positive
<1>8. Raw(graph, back, p).parts[n] = 0
  <2>. DEFINE k == (Damping[2] - Damping[1]) * p.of
  <2>1. Raw(graph, back, p).parts[n] = Damping[1] * 0 + k * (UnitOf(graph) * 0)
    BY <1>1, <1>7 DEF Raw
  <2>2. k \in Int /\ Damping[1] \in Int
    BY <1>2, DampingIsAShare DEF Positive
  <2>. HIDE DEF k
  <2> QED BY <1>2, <2>1, <2>2 DEF Positive
<1>9. PICK g \in Positive : Raw(graph, back, p).parts[n] = g * NextRank(graph, back, p).parts[n]
  BY NextIsSpread DEF Scaled
<1>10. NextRank(graph, back, p).parts[n] \in Nat
  BY NextIsSpread DEF Spread
<1>11. NextRank(graph, back, p).parts[n] = 0
  BY <1>8, <1>9, <1>10 DEF Positive
<1> QED BY <1>11

\* A pass brings two walks over one graph together by the damping,
\* whatever dangling nodes, loops and weights it has
\* (personalised_pagerank: the step of its convergence).
THEOREM PassesContract ==
  ASSUME NEW graph, NEW back, NEW p, Walking(graph, back, p), NEW q, Walking(graph, back, q),
         NEW x \in Nat, NEW y \in Nat, Nearby(p, q, graph.nodes, x, y)
  PROVE  Nearby(NextRank(graph, back, p), NextRank(graph, back, q), graph.nodes, Damping[1] * x, Damping[2] * y)
<1>. DEFINE S == graph.nodes
            a == p.of
            b == q.of
            d == Damping[1]
            e == Damping[2]
            u == UnitOf(graph)
            r == back.of
            w == r * u
            rp == Raw(graph, back, p)
            rq == Raw(graph, back, q)
            on(t) == Passing(Matrix(graph), ClientsOf(graph), S, u, back, t)
            off == [n \in S |-> p.parts[n] * b - q.parts[n] * a]
            far == [n \in S |-> Magnitude(rp.parts[n] * rq.of - rq.parts[n] * rp.of)]
            near == Magnitudes(on(off), S)
            k == d * e * w
<1>1. /\ IsFiniteSet(S) /\ HandsOn(Matrix(graph), ClientsOf(graph), S, u) /\ Spread(back, S)
      /\ u \in Positive /\ r \in Positive /\ a \in Positive /\ b \in Positive
      /\ \A n \in S : back.parts[n] \in Nat /\ p.parts[n] \in Nat /\ q.parts[n] \in Nat
  BY WalkingHas
<1>2. d \in Nat /\ e \in Positive /\ e - d \in Positive
  BY DampingIsAShare
<1>3. w \in Positive /\ k \in Nat
  <2>. HIDE DEF d, e, u, r
  <2>1. w \in Nat \ {0}
    BY <1>1 DEF Positive
  <2>. HIDE DEF w
  <2> QED BY <1>2, <2>1 DEF Positive
<1>4. Combines(off, p.parts, q.parts, a, b, S)
  <2>1. \A n \in S : p.parts[n] \in Int /\ q.parts[n] \in Int /\ a \in Int /\ b \in Int
    BY <1>1 DEF Positive
  <2>2. ASSUME NEW n \in S PROVE off[n] = b * p.parts[n] - a * q.parts[n]
    <3>1. off[n] = p.parts[n] * b - q.parts[n] * a
      OBVIOUS
    <3> QED BY <2>1, <3>1
  <2> QED BY <2>1, <2>2 DEF Combines
<1>5. Combines(on(off), on(p.parts), on(q.parts), a, b, S)
  <2>1. a \in Int /\ b \in Int
    BY <1>1 DEF Positive
  <2>. HIDE DEF off
  <2> QED BY <1>1, <1>4, <2>1, PassingCombines
<1>6. \A n \in S : off[n] \in Int /\ Magnitudes(off, S)[n] = Magnitude(p.parts[n] * b - q.parts[n] * a)
  BY <1>1 DEF Positive, Magnitudes
<1>7. SumFunctionOnSet(near, S) <= w * Gap(p, q, S)
  <2>1. Magnitudes(off, S) = [n \in S |-> Magnitude(p.parts[n] * b - q.parts[n] * a)]
    BY DEF Magnitudes
  <2>2. SumFunctionOnSet(Magnitudes(off, S), S) = Gap(p, q, S)
    BY <2>1 DEF Gap
  <2>. HIDE DEF off
  <2>3. \A n \in S : off[n] \in Int
    BY <1>6
  <2>4. SumFunctionOnSet(near, S) <= w * SumFunctionOnSet(Magnitudes(off, S), S)
    BY <1>1, <2>3, PassingIsNoFurther
  <2> QED BY <2>2, <2>4
<1>8. ASSUME NEW n \in S PROVE far[n] = k * near[n] /\ near[n] \in Nat
  <2>. DEFINE c == (e - d)
              z == back.parts[n]
              i == on(p.parts)[n]
              j == on(q.parts)[n]
              o == on(off)[n]
              v == u * r
  <2>1. o = b * i - a * j /\ i \in Int /\ j \in Int
    BY <1>5 DEF Combines
  <2>2. /\ rp.parts[n] = d * i + (c * a) * (u * z) /\ rp.of = (e * a) * v
        /\ rq.parts[n] = d * j + (c * b) * (u * z) /\ rq.of = (e * b) * v
    BY DEF Raw, PassedOn
  <2>3. far[n] = Magnitude(rp.parts[n] * rq.of - rq.parts[n] * rp.of)
    OBVIOUS
  <2>4. near[n] = Magnitude(o)
    BY DEF Magnitudes
  <2>5. z \in Int
    BY <1>1
  <2>. HIDE DEF off, on, far, near, a, b, d, e, u, r, rp, rq, i, j, o, z, c
  <2>6. a \in Int /\ b \in Int /\ d \in Int /\ e \in Int /\ u \in Int /\ r \in Int /\ c \in Int
    BY <1>1, <1>2 DEF Positive, c
  <2>7. w = v
    BY <2>6
  <2>. HIDE DEF w, v
  <2>8. v \in Int
    BY <1>3, <2>7 DEF Positive
  <2>9. \A g \in Int : (d * i + (c * a) * g) * ((e * b) * v) - (d * j + (c * b) * g) * ((e * a) * v)
                       = (d * e * v) * (b * i - a * j)
    BY <2>1, <2>6, <2>8
  <2>10. u * z \in Int
    BY <2>5, <2>6
  <2>11. rp.parts[n] * rq.of - rq.parts[n] * rp.of = k * o
    BY <2>1, <2>2, <2>7, <2>9, <2>10
  <2>12. o \in Int
    BY <2>1, <2>6
  <2>. HIDE DEF k
  <2>13. Magnitude(k * o) = k * Magnitude(o) /\ Magnitude(o) \in Nat
    BY <1>3, <2>12, MultiplesAreFar
  <2> QED BY <2>3, <2>4, <2>11, <2>13
<1>9. Gap(rp, rq, S) = k * SumFunctionOnSet(near, S)
  <2>1. Gap(rp, rq, S) = SumFunctionOnSet(far, S)
    BY DEF Gap
  <2>3. k \in Int
    BY <1>3
  <2>. HIDE DEF far, near, k
  <2>2. \A n \in S : near[n] \in Int /\ far[n] = k * near[n]
    BY <1>8
  <2> QED BY <1>1, <2>1, <2>2, <2>3, SumOfMultiples
<1>10. Gap(p, q, S) \in Int /\ SumFunctionOnSet(near, S) \in Int
  <2>. DEFINE g == [n \in S |-> Magnitude(p.parts[n] * b - q.parts[n] * a)]
  <2>2. Gap(p, q, S) = SumFunctionOnSet(g, S)
    BY DEF Gap
  <2>3. ASSUME NEW n \in S PROVE g[n] \in Int
    <3>1. p.parts[n] * b - q.parts[n] * a \in Int
      BY <1>1 DEF Positive
    <3>2. Magnitude(p.parts[n] * b - q.parts[n] * a) \in Int
      BY <3>1, Distances
    <3> QED BY <3>2
  <2>. HIDE DEF g, near, k, far
  <2>4. \A n \in S : near[n] \in Int
    BY <1>8
  <2>1. \A n \in S : g[n] \in Int /\ near[n] \in Int
    BY <2>3, <2>4
  <2> QED BY <1>1, <2>1, <2>2, SumsAreInts
<1>11. Gap(rp, rq, S) <= k * (w * Gap(p, q, S))
  <2>. DEFINE f == SumFunctionOnSet(near, S)
              g == w * Gap(p, q, S)
  <2>1. f \in Int /\ g \in Int
    BY <1>3, <1>10 DEF Positive
  <2>2. f <= g
    BY <1>7
  <2>. HIDE DEF f, g, k
  <2>3. k * f <= k * g
    BY <1>3, <2>1, <2>2
  <2> QED BY <1>9, <2>3 DEF f, g
<1>12. Nearby(rp, rq, S, d * x, e * y)
  <2>. DEFINE gap == Gap(p, q, S)
              m == d * e * e
              ww == w * w
              ab == a * b
  <2>1. gap * y <= x * ab
    BY DEF Nearby
  <2>2. rp.of = (e * a) * w /\ rq.of = (e * b) * w
    <3>1. rp.of = (e * a) * (u * r) /\ rq.of = (e * b) * (u * r)
      BY DEF Raw
    <3>. HIDE DEF rp, rq, u, r, e, a, b
    <3>2. u * r = r * u
      BY <1>1 DEF Positive
    <3> QED BY <3>1, <3>2
  <2>3. Gap(rp, rq, S) \in Int
    BY <1>3, <1>9, <1>10
  <2>. HIDE DEF rp, rq, w, d, e, a, b, gap, S
  <2>4. a \in Int /\ b \in Int /\ d \in Int /\ e \in Int /\ w \in Int /\ gap \in Int
    BY <1>1, <1>2, <1>3, <1>10 DEF Positive, gap
  <2>5. m \in Nat /\ ww \in Nat /\ ab \in Int
    BY <1>1, <1>2, <1>3 DEF Positive
  <2>6. (d * x) * (((e * a) * w) * ((e * b) * w)) = (m * ww) * (x * ab)
    BY <2>4
  <2>7. (k * (w * gap)) * (e * y) = (m * ww) * (gap * y)
    BY <2>4
  <2>8. (m * ww) * (gap * y) <= (m * ww) * (x * ab)
    <3>. DEFINE mm == m * ww
                f == gap * y
                g == x * ab
    <3>1. mm \in Nat
      <4>. HIDE DEF m, ww
      <4> QED BY <2>5
    <3>2. f \in Int /\ g \in Int
      <4>. HIDE DEF ab
      <4> QED BY <2>4, <2>5
    <3>. HIDE DEF mm, f, g
    <3>3. mm * f <= mm * g
      BY <2>1, <3>1, <3>2 DEF f, g
    <3> QED BY <3>3 DEF mm, f, g
  <2>9. Gap(rp, rq, S) * (e * y) <= (k * (w * gap)) * (e * y)
    <3>. DEFINE f == Gap(rp, rq, S)
                g == k * (w * gap)
                ey == e * y
    <3>1. f \in Int /\ g \in Int /\ ey \in Nat /\ f <= g
      <4>1. g \in Int
        <5>1. w * gap \in Int
          BY <2>4
        <5>. HIDE DEF k
        <5> QED BY <1>3, <5>1
      <4>2. ey \in Nat
        BY <1>2 DEF Positive
      <4> QED BY <1>11, <2>3, <4>1, <4>2 DEF gap
    <3>. HIDE DEF f, g, ey
    <3> QED BY <3>1 DEF f, g, ey
  <2>. HIDE DEF m, ww, ab, k
  <2>10. Gap(rp, rq, S) * (e * y) <= (d * x) * (rp.of * rq.of)
    <3>. DEFINE lhs == Gap(rp, rq, S) * (e * y)
                mid == (k * (w * gap)) * (e * y)
                rhs == (d * x) * (rp.of * rq.of)
    <3>1. lhs \in Int /\ mid \in Int /\ rhs \in Int
      <4>0. e * y \in Int /\ d * x \in Int /\ w * gap \in Int
        BY <2>4
      <4>1. lhs \in Int
        BY <2>3, <4>0
      <4>2. mid \in Int
        <5>1. k * (w * gap) \in Int
          BY <1>3, <4>0
        <5> QED BY <4>0, <5>1
      <4>3. rhs \in Int
        <5>1. e * a \in Int /\ e * b \in Int
          BY <2>4
        <5>2. (e * a) * w \in Int /\ (e * b) * w \in Int
          BY <2>4, <5>1
        <5>3. rp.of * rq.of \in Int
          BY <2>2, <5>2
        <5> QED BY <4>0, <5>3
      <4> QED BY <4>1, <4>2, <4>3
    <3>2. lhs <= mid /\ mid <= rhs
      BY <2>2, <2>6, <2>7, <2>8, <2>9
    <3>. HIDE DEF lhs, mid, rhs
    <3>3. lhs <= rhs
      BY <3>1, <3>2
    <3> QED BY <3>3 DEF lhs, rhs
  <2> QED BY <2>10 DEF Nearby
<1>13. d * x \in Nat /\ e * y \in Nat
  BY <1>2 DEF Positive
<1>14. Scaled(NextRank(graph, back, p), rp.parts, rp.of, S) /\ Scaled(NextRank(graph, back, q), rq.parts, rq.of, S)
  BY NextIsSpread
<1> QED BY <1>1, <1>12, <1>13, <1>14, ScaledAreNear

\* The first pass of a walk moves at most what the damping hands on, once
\* away and once there.
LEMMA FirstPassIsNear ==
  ASSUME NEW graph, NEW back, Walking(graph, back, back)
  PROVE  Nearby(back, NextRank(graph, back, back), graph.nodes, 2 * Damping[1], Damping[2])
<1>. DEFINE S == graph.nodes
            d == Damping[1]
            e == Damping[2]
            u == UnitOf(graph)
            r == back.of
            w == r * u
            raw == Raw(graph, back, back)
            on == PassedOn(graph, back, back)
            far == [n \in S |-> Magnitude(back.parts[n] * raw.of - raw.parts[n] * back.of)]
            both == [n \in S |-> w * back.parts[n] + on[n]]
            again == [n \in S |-> w * back.parts[n]]
            k == d * r
            most == [n \in S |-> k * both[n]]
<1>1. /\ IsFiniteSet(S) /\ HandsOn(Matrix(graph), ClientsOf(graph), S, u) /\ Spread(back, S)
      /\ u \in Positive /\ r \in Positive
      /\ \A n \in S : back.parts[n] \in Nat
      /\ SumFunctionOnSet(back.parts, S) = r
  BY WalkingHas
<1>2. d \in Nat /\ e \in Positive
  BY DampingIsAShare
<1>3. w \in Positive /\ k \in Nat /\ w = u * r
  <2>. HIDE DEF d, e, u, r
  <2>1. w \in Nat \ {0} /\ w = u * r
    BY <1>1 DEF Positive
  <2>. HIDE DEF w
  <2> QED BY <1>1, <1>2, <2>1 DEF Positive
<1>4. \A n \in S : on[n] \in Nat
  BY RawAddsUp
<1>5. SumFunctionOnSet(on, S) = w * r
  <2>1. \A n \in S : back.parts[n] \in Int
    BY <1>1
  <2> QED BY <1>1, <2>1, PassingAddsUp DEF PassedOn
<1>6. raw.of = (e * r) * w /\ \A n \in S : raw.parts[n] = d * on[n] + ((e - d) * r) * (u * back.parts[n])
  BY <1>3 DEF Raw
<1>. HIDE DEF on, raw, d, e, u, r
<1>7. ASSUME NEW n \in S
      PROVE  /\ far[n] \in Nat /\ both[n] \in Nat /\ again[n] \in Nat /\ on[n] \in Nat
             /\ both[n] = again[n] + on[n] /\ again[n] = w * back.parts[n]
             /\ most[n] \in Nat /\ most[n] = k * both[n] /\ far[n] <= most[n]
  <2>. DEFINE z == back.parts[n]
              i == on[n]
              a == w * z
              x == back.parts[n] * raw.of - raw.parts[n] * back.of
  <2>1. i \in Nat /\ z \in Nat
    BY <1>1, <1>4
  <2>2. a \in Nat
    <3>. HIDE DEF w, z
    <3> QED BY <1>3, <2>1 DEF Positive
  <2>3. x = z * ((e * r) * w) - (d * i + ((e - d) * r) * (u * z)) * r
    BY <1>6 DEF r
  <2>4. /\ far[n] = Magnitude(x) /\ both[n] = a + i /\ again[n] = a /\ most[n] = k * (a + i)
    OBVIOUS
  <2>. HIDE DEF far, both, again, most, x, i, z
  <2>5. z * ((e * r) * (r * u)) - (d * i + ((e - d) * r) * (u * z)) * r = (d * r) * ((r * u) * z - i)
    BY <1>1, <1>2, <2>1 DEF Positive
  <2>6. x = k * (a - i)
    BY <2>3, <2>5
  <2>. HIDE DEF a, k, w
  <2>7. Magnitude(k * (a - i)) = k * Magnitude(a - i) /\ Magnitude(a - i) \in Nat
    BY <1>3, <2>1, <2>2, MultiplesAreFar
  <2>8. Magnitude(a - i) <= a + i
    BY <2>1, <2>2 DEF Magnitude
  <2>9. k * Magnitude(a - i) <= k * (a + i) /\ k * Magnitude(a - i) \in Nat /\ k * (a + i) \in Nat
    <3>. DEFINE f == Magnitude(a - i)
                g == a + i
    <3>1. f \in Nat /\ g \in Nat /\ f <= g
      BY <2>1, <2>2, <2>7, <2>8
    <3>. HIDE DEF f, g
    <3>2. k * f <= k * g /\ k * f \in Nat /\ k * g \in Nat
      BY <1>3, <3>1
    <3> QED BY <3>2 DEF f, g
  <2> QED BY <2>1, <2>2, <2>4, <2>6, <2>7, <2>9 DEF i, a, z
<1>8. Gap(back, raw, S) = SumFunctionOnSet(far, S)
  BY DEF Gap
<1>. HIDE DEF far, both, again, most, k, w
<1>9. SumFunctionOnSet(far, S) <= SumFunctionOnSet(most, S)
  <2>1. \A n \in S : far[n] \in Int /\ most[n] \in Int /\ far[n] <= most[n]
    BY <1>7
  <2> QED BY <1>1, <2>1, SumOfSmaller
<1>10. SumFunctionOnSet(most, S) = k * SumFunctionOnSet(both, S)
  <2>1. k \in Int /\ \A n \in S : both[n] \in Int /\ most[n] = k * both[n]
    BY <1>3, <1>7
  <2> QED BY <1>1, <2>1, SumOfMultiples
<1>11. SumFunctionOnSet(both, S) = SumFunctionOnSet(again, S) + SumFunctionOnSet(on, S)
  <2>1. \A n \in S : again[n] \in Int /\ on[n] \in Int /\ both[n] = again[n] + on[n]
    BY <1>7
  <2> QED BY <1>1, <2>1, SumOfSums
<1>12. SumFunctionOnSet(again, S) = w * r
  <2>1. w \in Int /\ \A n \in S : back.parts[n] \in Int /\ again[n] = w * back.parts[n]
    BY <1>1, <1>3, <1>7 DEF Positive
  <2> QED BY <1>1, <2>1, SumOfMultiples
<1>13. Gap(back, raw, S) <= k * (w * r + w * r)
  BY <1>5, <1>8, <1>9, <1>10, <1>11, <1>12
<1>14. Gap(back, raw, S) \in Int
  <2>1. \A n \in S : far[n] \in Int
    BY <1>7
  <2> QED BY <1>1, <1>8, <2>1, SumsAreInts
<1>15. Nearby(back, raw, S, 2 * d, e)
  <2>. DEFINE gap == Gap(back, raw, S)
              m == k * (w * r + w * r)
  <2>1. r \in Int /\ w \in Int /\ d \in Int /\ e \in Nat /\ k \in Int
    BY <1>1, <1>2, <1>3 DEF Positive
  <2>2. (2 * d) * (r * ((e * r) * w)) = ((d * r) * (w * r + w * r)) * e
    BY <2>1
  <2>3. (2 * d) * (back.of * raw.of) = m * e
    BY <1>6, <2>2 DEF k, r
  <2>4. m \in Int
    BY <2>1
  <2>5. gap <= m /\ gap \in Int
    BY <1>13, <1>14
  <2>. HIDE DEF gap, m
  <2>6. gap * e <= m * e
    BY <2>1, <2>4, <2>5
  <2> QED BY <2>3, <2>6 DEF Nearby, gap
<1>16. Scaled(back, back.parts, back.of, S)
  <2>1. back.parts \in [S -> Nat] /\ back.of \in Positive
    BY <1>1 DEF Spread
  <2>2. 1 \in Positive /\ back.of = 1 * back.of /\ \A n \in S : back.parts[n] = 1 * back.parts[n]
    BY <2>1 DEF Positive
  <2> QED BY <2>1, <2>2, Zenon DEF Scaled
<1>17. Scaled(NextRank(graph, back, back), raw.parts, raw.of, S)
  BY NextIsSpread DEF raw
<1>18. 2 * d \in Nat /\ e \in Nat
  BY <1>2 DEF Positive
<1> QED BY <1>1, <1>15, <1>16, <1>17, <1>18, ScaledAreNear DEF d, e

-----------------------------------------------------------------------------
(* Powers *)

\* Powers one by one.
Powers(power, base, n) == [k \in 0 .. n |-> IF k = 0 THEN 1 ELSE base * power[k - 1]]

\* There are powers, and Power gives the last.
LEMMA PowersExist ==
  ASSUME NEW base, NEW n \in Nat
  PROVE  \E power : power = Powers(power, base, n) /\ Power(base, n) = power[n]
<1>. DEFINE Good == {m \in Nat : \E power : power = Powers(power, base, m)}
<1>1. 0 \in Good
  <2>. DEFINE power == [k \in 0 .. 0 |-> 1]
  <2>1. \A k \in 0 .. 0 : Powers(power, base, 0)[k] = 1
    BY DEF Powers
  <2>2. Powers(power, base, 0) = [k \in 0 .. 0 |-> Powers(power, base, 0)[k]]
    BY DEF Powers
  <2>3. power = Powers(power, base, 0)
    BY <2>1, <2>2
  <2> QED BY <2>3
<1>2. ASSUME NEW m \in Good PROVE m + 1 \in Good
  <2>1. PICK power : power = Powers(power, base, m)
    OBVIOUS
  <2>. DEFINE more == [k \in 0 .. m + 1 |-> IF k = m + 1 THEN base * power[m] ELSE power[k]]
  <2>2. m \in Nat
    OBVIOUS
  <2>3. ASSUME NEW k \in 0 .. m + 1 PROVE more[k] = Powers(more, base, m + 1)[k]
    <3>1. Powers(more, base, m + 1)[k] = IF k = 0 THEN 1 ELSE base * more[k - 1]
      BY DEF Powers
    <3>2. CASE k = m + 1
      BY <2>2, <3>1, <3>2
    <3>3. CASE k # m + 1
      <4>1. k \in 0 .. m
        BY <2>2, <3>3
      <4>2. power[k] = IF k = 0 THEN 1 ELSE base * power[k - 1]
        BY <2>1, <4>1 DEF Powers
      <4>3. more[k] = power[k]
        BY <3>3
      <4>4. k # 0 => more[k - 1] = power[k - 1]
        BY <2>2, <4>1
      <4> QED BY <3>1, <4>2, <4>3, <4>4
    <3> QED BY <3>2, <3>3
  <2>4. Powers(more, base, m + 1) = [k \in 0 .. m + 1 |-> Powers(more, base, m + 1)[k]]
    BY DEF Powers
  <2>5. more = [k \in 0 .. m + 1 |-> more[k]]
    OBVIOUS
  <2>. HIDE DEF more
  <2>6. more = Powers(more, base, m + 1)
    BY <2>3, <2>4, <2>5
  <2> QED BY <2>2, <2>6
<1>. HIDE DEF Good
<1>3. Good = Nat
  <2>1. Good \in SUBSET Nat
    BY DEF Good
  <2> QED BY <1>1, <1>2, <2>1, EveryNat
<1>4. \E power : power = Powers(power, base, n)
  BY <1>3 DEF Good
<1>. DEFINE it == CHOOSE power : power = Powers(power, base, n)
<1>5. it = Powers(it, base, n)
  BY <1>4
<1>6. Power(base, n) = it[n]
  BY Zenon DEF Power, Powers
<1> QED BY <1>5, <1>6

\* Powers are of the base, of no factors or of one more.
LEMMA PowerUnfolds ==
  ASSUME NEW base, NEW n \in Nat
  PROVE  /\ Power(base, 0) = 1
         /\ Power(base, n + 1) = base * Power(base, n)
<1>1. Power(base, 0) = 1
  <2>1. PICK power : power = Powers(power, base, 0) /\ Power(base, 0) = power[0]
    BY PowersExist
  <2> QED BY <2>1 DEF Powers
<1>2. Power(base, n + 1) = base * Power(base, n)
  <2>1. PICK small : small = Powers(small, base, n) /\ Power(base, n) = small[n]
    BY PowersExist
  <2>2. PICK large : large = Powers(large, base, n + 1) /\ Power(base, n + 1) = large[n + 1]
    BY PowersExist
  <2>. DEFINE Good == {m \in Nat : m <= n => small[m] = large[m]}
  <2>3. \A m \in 0 .. n : small[m] = IF m = 0 THEN 1 ELSE base * small[m - 1]
    BY <2>1 DEF Powers
  <2>4. \A m \in 0 .. n + 1 : large[m] = IF m = 0 THEN 1 ELSE base * large[m - 1]
    BY <2>2 DEF Powers
  <2>5. 0 \in Good
    BY <2>3, <2>4
  <2>6. ASSUME NEW m \in Good PROVE m + 1 \in Good
    <3>1. m \in Nat
      OBVIOUS
    <3>2. SUFFICES ASSUME m + 1 <= n PROVE small[m + 1] = large[m + 1]
      BY <3>1
    <3>3. small[m] = large[m] /\ m + 1 \in 0 .. n /\ m + 1 \in 0 .. n + 1 /\ m + 1 # 0 /\ (m + 1) - 1 = m
      BY <3>1, <3>2
    <3> QED BY <2>3, <2>4, <3>3
  <2>7. Good = Nat
    <3>. HIDE DEF Good
    <3>1. Good \in SUBSET Nat
      BY DEF Good
    <3> QED BY <2>5, <2>6, <3>1, EveryNat
  <2>8. small[n] = large[n]
    BY <2>7
  <2>9. large[n + 1] = base * large[n]
    BY <2>4
  <2> QED BY <2>1, <2>2, <2>8, <2>9
<1> QED BY <1>1, <1>2

\* Powers of numbers are numbers, and of those above zero above zero.
LEMMA PowersAreNats ==
  ASSUME NEW base \in Nat, NEW n \in Nat
  PROVE  Power(base, n) \in Nat /\ (base # 0 => Power(base, n) # 0)
<1>. DEFINE Good == {m \in Nat : Power(base, m) \in Nat /\ (base # 0 => Power(base, m) # 0)}
<1>1. 0 \in Good
  BY PowerUnfolds
<1>2. ASSUME NEW m \in Good PROVE m + 1 \in Good
  <2>1. m \in Nat
    OBVIOUS
  <2>. DEFINE k == Power(base, m)
  <2>2. Power(base, m + 1) = base * k
    BY <2>1, PowerUnfolds
  <2>3. k \in Nat /\ (base # 0 => k # 0)
    OBVIOUS
  <2>. HIDE DEF k
  <2>4. base * k \in Nat /\ (base # 0 => base * k # 0)
    BY <2>3
  <2> QED BY <2>1, <2>2, <2>4
<1>3. Good = Nat
  <2>. HIDE DEF Good
  <2>1. Good \in SUBSET Nat
    BY DEF Good
  <2> QED BY <1>1, <1>2, <2>1, EveryNat
<1> QED BY <1>3

-----------------------------------------------------------------------------
(* The walk settles *)

\* After so many passes the next changes no more than this.
Settles(graph, back, p, made) ==
  Nearby(p, NextRank(graph, back, p), graph.nodes, 2 * Power(Damping[1], made + 1), Power(Damping[2], made + 1))

\* A walk starts so, and every pass changes less by the damping.
LEMMA WalksSettle ==
  ASSUME NEW graph, NEW back
  PROVE  /\ Walking(graph, back, back) => Settles(graph, back, back, 0)
         /\ \A p : \A made \in Nat :
              Walking(graph, back, p) /\ Settles(graph, back, p, made)
                => Settles(graph, back, NextRank(graph, back, p), made + 1)
<1>1. ASSUME Walking(graph, back, back) PROVE Settles(graph, back, back, 0)
  <2>1. Nearby(back, NextRank(graph, back, back), graph.nodes, 2 * Damping[1], Damping[2])
    BY <1>1, FirstPassIsNear
  <2>2. Damping[1] \in Int /\ Damping[2] \in Int
    BY DampingIsAShare DEF Positive
  <2>3. Power(Damping[1], 0 + 1) = Damping[1] * 1 /\ Power(Damping[2], 0 + 1) = Damping[2] * 1
    BY PowerUnfolds
  <2>4. Power(Damping[1], 0 + 1) = Damping[1] /\ Power(Damping[2], 0 + 1) = Damping[2]
    BY <2>2, <2>3
  <2> QED BY <2>1, <2>4 DEF Settles
<1>2. ASSUME NEW p, NEW made \in Nat, Walking(graph, back, p), Settles(graph, back, p, made)
      PROVE  Settles(graph, back, NextRank(graph, back, p), made + 1)
  <2>. DEFINE x == Power(Damping[1], made + 1)
              y == Power(Damping[2], made + 1)
              q == NextRank(graph, back, p)
  <2>0. made + 1 \in Nat
    OBVIOUS
  <2>1. Damping[1] \in Nat /\ Damping[2] \in Nat
    BY DampingIsAShare DEF Positive
  <2>2. x \in Nat /\ y \in Nat
    BY <2>0, <2>1, PowersAreNats
  <2>3. Power(Damping[1], (made + 1) + 1) = Damping[1] * x /\ Power(Damping[2], (made + 1) + 1) = Damping[2] * y
    BY <2>0, PowerUnfolds
  <2>4. Nearby(p, q, graph.nodes, 2 * x, y)
    BY <1>2 DEF Settles
  <2>5. Walking(graph, back, q)
    BY <1>2, NextIsSpread
  <2>. HIDE DEF x, y, q
  <2>6. 2 * x \in Nat /\ Damping[1] * (2 * x) = 2 * (Damping[1] * x)
    BY <2>1, <2>2
  <2>7. Nearby(NextRank(graph, back, p), NextRank(graph, back, q), graph.nodes, Damping[1] * (2 * x), Damping[2] * y)
    BY <1>2, <2>2, <2>4, <2>5, <2>6, PassesContract
  <2>8. Nearby(q, NextRank(graph, back, q), graph.nodes, Damping[1] * (2 * x), Damping[2] * y)
    BY <2>7 DEF q
  <2> QED BY <2>3, <2>6, <2>8 DEF Settles, q
<1> QED BY <1>1, <1>2

\* The last pass that is allowed settles (personalised_pagerank raises
\* when it does not).
LEMMA LastPassSettles ==
  ASSUME NEW graph, NEW back, NEW p, Walking(graph, back, p), NEW made \in Nat, Settles(graph, back, p, made),
         made + 1 = MaxIterations
  PROVE  LET change == Change(p, NextRank(graph, back, p)) IN change[1] * Tolerance[2] < Tolerance[1] * change[2]
<1>. DEFINE x == 2 * Power(Damping[1], made + 1)
            y == Power(Damping[2], made + 1)
            q == NextRank(graph, back, p)
            f == Change(p, q)[1]
            g == Change(p, q)[2]
            s == Tolerance[1]
            t == Tolerance[2]
<1>1. Damping[1] \in Nat /\ Damping[2] \in Nat /\ Damping[2] # 0 /\ s \in Nat /\ t \in Nat /\ t # 0
  BY DampingIsAShare DEF Positive
<1>2. x \in Nat /\ y \in Nat /\ y # 0
  <2>1. made + 1 \in Nat
    OBVIOUS
  <2>2. Power(Damping[1], made + 1) \in Nat /\ Power(Damping[2], made + 1) \in Nat /\ Power(Damping[2], made + 1) # 0
    BY <1>1, <2>1, PowersAreNats
  <2> QED BY <2>2
<1>3. x * t < s * y
  BY TriageAssumption DEF TriageAssumption
<1>4. Nearby(p, q, graph.nodes, x, y)
  BY DEF Settles
<1>5. Spread(p, graph.nodes) /\ Spread(q, graph.nodes) /\ IsFiniteSet(graph.nodes)
  BY NextIsSpread, WalkingHas DEF Walking
<1>. HIDE DEF x, y, q, s, t
<1>6. f \in Int /\ g \in Positive /\ f * y <= x * g
  BY <1>2, <1>4, <1>5, ChangeIsGap
<1>. HIDE DEF f, g
<1>7. (f * y) * t <= (x * g) * t
  <2>. DEFINE a == f * y
              b == x * g
  <2>1. a \in Int /\ b \in Int /\ a <= b
    BY <1>2, <1>6 DEF Positive
  <2>. HIDE DEF a, b
  <2>2. a * t <= b * t
    BY <1>1, <2>1
  <2> QED BY <2>2 DEF a, b
<1>8. (x * t) * g < (s * y) * g
  <2>. DEFINE a == x * t
              b == s * y
  <2>1. a \in Int /\ b \in Int /\ a < b
    BY <1>1, <1>2, <1>3
  <2>. HIDE DEF a, b
  <2>2. a * g < b * g
    BY <1>6, <2>1 DEF Positive
  <2> QED BY <2>2 DEF a, b
<1>9. (f * t) * y < (s * g) * y
  <2>1. (f * y) * t = (f * t) * y /\ (x * g) * t = (x * t) * g /\ (s * y) * g = (s * g) * y
    BY <1>1, <1>2, <1>6 DEF Positive
  <2>2. (f * t) * y \in Int /\ (x * t) * g \in Int /\ (s * g) * y \in Int
    <3>1. f * t \in Int /\ x * t \in Int /\ s * g \in Int
      BY <1>1, <1>2, <1>6 DEF Positive
    <3>. DEFINE a == f * t
                b == x * t
                c == s * g
    <3>. HIDE DEF a, b, c
    <3>2. a * y \in Int /\ b * g \in Int /\ c * y \in Int
      BY <1>2, <1>6, <3>1 DEF Positive, a, b, c
    <3> QED BY <3>2 DEF a, b, c
  <2>. DEFINE l == (f * t) * y
              m == (x * t) * g
              r == (s * g) * y
  <2>3. l <= m /\ m < r
    BY <1>7, <1>8, <2>1
  <2>. HIDE DEF l, m, r
  <2>4. l < r
    BY <2>2, <2>3 DEF l, m, r
  <2> QED BY <2>4 DEF l, r
<1>10. f * t < s * g
  <2>. DEFINE a == f * t
              b == s * g
  <2>1. a \in Int /\ b \in Int /\ a * y < b * y
    BY <1>1, <1>6, <1>9 DEF Positive
  <2>. HIDE DEF a, b
  <2>2. a < b
    <3>1. SUFFICES ASSUME b <= a PROVE FALSE
      BY <2>1
    <3>2. b * y <= a * y /\ b * y \in Int /\ a * y \in Int
      BY <1>2, <2>1, <3>1
    <3> QED BY <2>1, <3>2
  <2> QED BY <2>2 DEF a, b
<1> QED BY <1>10 DEF f, g, q, s, t

-----------------------------------------------------------------------------
(* Who can explain what was seen *)

\* Everyone with a path of calls to a service, and itself.
Callers(edges, s) == {s} \cup TransitiveUpstream(edges, s)

\* Walking upstream as many levels as there are services, one level more
\* meets nobody new (_transitive_upstream).
LEMMA CallersAreAll ==
  ASSUME NEW edges, CallsOf(edges), NEW s \in Services, IsFiniteSet(Services)
  PROVE  /\ Callers(edges, s) = Within(edges, "upstream", Cardinality(Services), s)
         /\ Beyond(edges, "upstream", Callers(edges, s)) \subseteq Callers(edges, s)
<1>. DEFINE W(n) == Within(edges, "upstream", n, s)
            N == Cardinality(Services)
            B(from) == Beyond(edges, "upstream", from)
<1>1. W(0) = {s} /\ \A n \in Nat : W(n) \subseteq W(n + 1) /\ W(n + 1) = {s} \cup B(W(n))
  BY WithinGrows
<1>2. \A n : W(n) \subseteq Services /\ s \in W(n) /\ IsFiniteSet(W(n)) /\ Cardinality(W(n)) \in Nat /\ Cardinality(W(n)) <= N
  <2>1. \A n : W(n) \subseteq Services /\ s \in W(n)
    BY DEF Within
  <2>. HIDE DEF W
  <2> QED BY <2>1, FS_Subset, FS_CardinalityType
<1>3. N \in Nat
  BY FS_CardinalityType
<1>. HIDE DEF W, B
<1>. DEFINE Good == {n \in Nat : B(W(n)) \subseteq W(n) \/ Cardinality(W(n)) > n}
<1>4. 0 \in Good
  <2>1. Cardinality(W(0)) = 1
    BY <1>1, FS_Singleton
  <2> QED BY <2>1
<1>5. ASSUME NEW n \in Good PROVE n + 1 \in Good
  <2>1. n \in Nat /\ W(n) \subseteq W(n + 1) /\ W(n + 1) = {s} \cup B(W(n)) /\ s \in W(n)
    BY <1>1, <1>2
  <2>2. CASE B(W(n)) \subseteq W(n)
    <3>1. W(n + 1) = W(n)
      BY <2>1, <2>2
    <3> QED BY <2>1, <2>2, <3>1
  <2>3. CASE ~(B(W(n)) \subseteq W(n))
    <3>1. W(n) # W(n + 1)
      BY <2>1, <2>3
    <3>2. Cardinality(W(n)) < Cardinality(W(n + 1))
      <4>1. Cardinality(W(n)) <= Cardinality(W(n + 1)) /\ (Cardinality(W(n)) = Cardinality(W(n + 1)) => W(n) = W(n + 1))
        BY <1>2, <2>1, FS_Subset
      <4> QED BY <1>2, <3>1, <4>1
    <3>3. Cardinality(W(n)) > n
      BY <2>3
    <3>4. Cardinality(W(n + 1)) > n + 1
      BY <1>2, <2>1, <3>2, <3>3
    <3> QED BY <2>1, <3>4
  <2> QED BY <2>2, <2>3
<1>6. Good = Nat
  <2>. HIDE DEF Good
  <2>1. Good \in SUBSET Nat
    BY DEF Good
  <2> QED BY <1>4, <1>5, <2>1, EveryNat
<1>7. B(W(N)) \subseteq W(N)
  <2>1. B(W(N)) \subseteq W(N) \/ Cardinality(W(N)) > N
    BY <1>3, <1>6
  <2>2. ~(Cardinality(W(N)) > N)
    BY <1>2, <1>3
  <2> QED BY <2>1, <2>2
<1>8. Callers(edges, s) = W(N)
  <2>1. TransitiveUpstream(edges, s) = W(N) \ {s}
    <3>1. Reaches(edges, "upstream", s, N)
      BY <1>3, WalksReach
    <3> QED BY <3>1 DEF Reaches, TransitiveUpstream, W
  <2> QED BY <1>2, <2>1 DEF Callers
<1> QED BY <1>7, <1>8 DEF W, B

\* Who calls a client, directly or through others, calls its server
\* through it.
LEMMA CallersOfCallers ==
  ASSUME NEW edges, CallsOf(edges), IsFiniteSet(Services), NEW e \in DOMAIN edges
  PROVE  Callers(edges, edges[e].client) \subseteq Callers(edges, edges[e].server)
<1>. DEFINE c == edges[e].client
            s == edges[e].server
            V == Callers(edges, s)
            W(n) == Within(edges, "upstream", n, c)
            B(from) == Beyond(edges, "upstream", from)
<1>1. c \in Services /\ s \in Services
  BY DEF CallsOf, CallEdge
<1>2. B(V) \subseteq V
  BY <1>1, CallersAreAll
<1>3. c \in V
  <2>1. s \in V
    BY DEF Callers
  <2>2. Near(edges[e], "upstream") = s /\ Far(edges[e], "upstream") = c
    BY DEF Near, Far
  <2>3. c \in B(V)
    BY <2>1, <2>2 DEF Beyond
  <2> QED BY <1>2, <2>3
<1>4. W(0) = {c} /\ \A n \in Nat : W(n + 1) = {c} \cup B(W(n))
  BY <1>1, WithinGrows
<1>. DEFINE Good == {n \in Nat : W(n) \subseteq V}
<1>. HIDE DEF c, s, V, W
<1>5. 0 \in Good
  BY <1>3, <1>4
<1>6. ASSUME NEW n \in Good PROVE n + 1 \in Good
  <2>1. n \in Nat /\ W(n) \subseteq V
    OBVIOUS
  <2>2. B(W(n)) \subseteq B(V)
    BY <2>1 DEF Beyond
  <2>. HIDE DEF B
  <2> QED BY <1>2, <1>3, <1>4, <2>1, <2>2
<1>7. Good = Nat
  <2>. HIDE DEF Good
  <2>1. Good \in SUBSET Nat
    BY DEF Good
  <2> QED BY <1>5, <1>6, <2>1, EveryNat
<1>8. Callers(edges, c) = W(Cardinality(Services)) /\ Cardinality(Services) \in Nat
  BY <1>1, CallersAreAll, FS_CardinalityType DEF W
<1> QED BY <1>7, <1>8 DEF c, s, V

-----------------------------------------------------------------------------
(* What scores are made of *)

\* Finitely many whole numbers.
Numbers(values) == IsFiniteSet(DOMAIN values) /\ \A k \in DOMAIN values : values[k] \in Int

\* Any of finitely many numbers are finitely many numbers.
LEMMA ValuesAreFinite ==
  ASSUME NEW values, NEW T, IsFiniteSet(T), \A k \in T : values[k] \in Int
  PROVE  IsFiniteSet({values[k] : k \in T}) /\ {values[k] : k \in T} \subseteq Int
<1>. DEFINE f == [k \in T |-> values[k]]
            S == {values[k] : k \in T}
<1>1. f \in Surjection(T, S)
  BY DEF Surjection
<1>2. IsFiniteSet(S)
  BY <1>1, FS_Surjection
<1> QED BY <1>2

\* Sorted, finitely many numbers have one in every place (numpy.median).
LEMMA PlacesAreFilled ==
  ASSUME NEW values, Numbers(values), DOMAIN values # {}, NEW n \in Nat, n <= Cardinality(DOMAIN values)
  PROVE  Nth(values, n) \in Int
<1>. DEFINE D == DOMAIN values
            under(j) == {i \in D : values[i] <= values[j]}
            T == {j \in D : Cardinality(under(j)) >= n}
            R == {pair \in D \X D : values[pair[1]] > values[pair[2]]}
            S == {values[k] : k \in T}
<1>1. IsFiniteSet(D) /\ D # {} /\ \A k \in D : values[k] \in Int
  BY DEF Numbers
<1>. HIDE DEF D
<1>2. StrictOn(R, D)
  BY <1>1 DEF StrictOn
<1>3. PICK j \in D : Ahead(R, D, j) = {}
  BY <1>1, <1>2, SomebodyLeads
<1>4. under(j) = D
  <2>1. ASSUME NEW i \in D PROVE values[i] <= values[j]
    <3>1. <<i, j>> \notin R
      BY <1>3 DEF Ahead
    <3>2. <<i, j>> \in D \X D /\ <<i, j>>[1] = i /\ <<i, j>>[2] = j
      OBVIOUS
    <3> QED BY <1>1, <3>1, <3>2
  <2> QED BY <2>1
<1>5. j \in T
  BY <1>1, <1>4, FS_CardinalityType DEF D
<1>. HIDE DEF R, under
<1>6. IsFiniteSet(T) /\ \A k \in T : values[k] \in Int
  BY <1>1, FS_Subset
<1>. HIDE DEF T
<1>7. S \subseteq Int /\ IsFiniteSet(S) /\ S # {}
  BY <1>5, <1>6, ValuesAreFinite
<1>. HIDE DEF S
<1>8. Min(S) \in Int
  BY <1>7, MinIsSmallest
<1> QED BY <1>8, Zenon DEF Nth, S, T, D, under

\* Finitely many numbers have a median.
LEMMA MediansAreInts ==
  ASSUME NEW values, Numbers(values)
  PROVE  DoubleMedian(values) \in Int
<1>. DEFINE n == Cardinality(DOMAIN values)
<1>1. n \in Nat /\ (n = 0 <=> DOMAIN values = {})
  BY FS_CardinalityType, FS_EmptySet DEF Numbers
<1>. HIDE DEF n
<1>2. CASE n = 0
  BY <1>2 DEF DoubleMedian, n
<1>3. CASE n # 0
  <2>1. (n + 1) \div 2 \in Nat /\ (n + 2) \div 2 \in Nat /\ (n + 1) \div 2 <= n /\ (n + 2) \div 2 <= n
    BY <1>1, <1>3
  <2>2. Nth(values, (n + 1) \div 2) \in Int /\ Nth(values, (n + 2) \div 2) \in Int
    BY <1>1, <1>3, <2>1, PlacesAreFilled DEF n
  <2>3. DoubleMedian(values) = Nth(values, (n + 1) \div 2) + Nth(values, (n + 2) \div 2)
    BY <1>3 DEF DoubleMedian, n
  <2> QED BY <2>2, <2>3
<1> QED BY <1>2, <1>3

\* A scale is never zero, flat as a baseline may be (robust_scale).
LEMMA ScalesArePositive ==
  ASSUME NEW values, Numbers(values), NEW reference \in Int
  PROVE  RobustScale(values, reference) \in Positive
<1>. DEFINE double == DoubleMedian(values)
            off == [k \in DOMAIN values |-> Abs(2 * values[k] - double)]
            spread == DoubleMedian(off)
<1>1. double \in Int
  BY MediansAreInts
<1>. HIDE DEF double
<1>2. Numbers(off)
  <2>1. \A k \in DOMAIN values : off[k] \in Int
    BY <1>1 DEF Numbers, Abs
  <2>2. DOMAIN off = DOMAIN values
    OBVIOUS
  <2>. HIDE DEF off
  <2> QED BY <2>1, <2>2 DEF Numbers
<1>. HIDE DEF off
<1>3. spread \in Int
  BY <1>2, MediansAreInts
<1>. HIDE DEF spread
<1>4. \A d \in Int : ZeroBaselineScale(d, reference) \in Positive
  BY TelemetryAssumption DEF ZeroBaselineScale, Abs, Positive
<1>5. Cardinality(DOMAIN values) < 2 => RobustScale(values, reference) = ZeroBaselineScale(0, reference)
  BY DEF RobustScale
<1>6. ~(Cardinality(DOMAIN values) < 2) =>
        RobustScale(values, reference)
          = MaxOf(7413 * spread, MaxOf(500 * Abs(double), ZeroBaselineScale(double, reference)))
  BY DEF RobustScale, spread, off, double
<1>7. \A a, b \in Int, c \in Positive : MaxOf(a, MaxOf(b, c)) \in Positive
  BY DEF MaxOf, Positive
<1>8. 7413 * spread \in Int /\ 500 * Abs(double) \in Int
  BY <1>1, <1>3 DEF Abs
<1> QED BY <1>1, <1>4, <1>5, <1>6, <1>7, <1>8

\* A score is a number, and never below zero (score_series).
LEMMA ScoresAreNats ==
  ASSUME NEW baseline, Numbers(baseline), NEW incident, Numbers(incident), NEW direction
  PROVE  ScoreSeries(baseline, incident, direction).score \in Nat
<1>. DEFINE signed == RobustZ(baseline, incident)
            d == DoubleMedian(incident) - DoubleMedian(baseline)
            scale == RobustScale(baseline, DoubleMedian(incident))
<1>1. DoubleMedian(incident) \in Int /\ DoubleMedian(baseline) \in Int
  BY MediansAreInts
<1>2. d \in Int /\ scale \in Positive
  BY <1>1, ScalesArePositive
<1>3. signed = 0 \/ signed = Deviations(d, scale)
  BY DEF RobustZ
<1>. HIDE DEF d, scale
<1>4. Deviations(d, scale) \in Int
  <2>. DEFINE e == Abs(d) * 1000000
  <2>1. e \in Nat
    BY <1>2 DEF Abs
  <2>. HIDE DEF e
  <2>2. e \div scale \in Int
    BY <1>2, <2>1 DEF Positive
  <2> QED BY <2>2 DEF Deviations, e
<1>5. signed \in Int
  BY <1>3, <1>4
<1>. HIDE DEF signed
<1>6. ScoreSeries(baseline, incident, direction).score \in {MaxOf(signed, 0), MaxOf(-signed, 0), Abs(signed)}
  BY DEF ScoreSeries, signed
<1> QED BY <1>5, <1>6 DEF MaxOf, Abs

\* A metric that is fetched is rows of the file (fetch_metric).
LEMMA FetchedRows ==
  ASSUME NEW samples \in Seq(Sample), NEW metric, NEW window
  PROVE  /\ FetchMetric(samples, metric, window, {}) \subseteq DOMAIN samples
         /\ \A k \in FetchMetric(samples, metric, window, {}) : samples[k].metric = metric
<1>1. MetricSeries(samples, metric, window, {}) \subseteq RowsIn(samples, metric, window, {})
  BY DEF MetricSeries, FirstOf
<1>2. FetchMetric(samples, metric, window, {}) \subseteq RowsIn(samples, metric, window, {})
  BY <1>1 DEF FetchMetric, ErrorOnly
<1> QED BY <1>2 DEF RowsIn

\* Some rows of the file have finitely many values.
LEMMA RowsAreNumbers ==
  ASSUME NEW samples \in Seq(Sample), NEW rows, rows \subseteq DOMAIN samples, NEW service
  PROVE  /\ PointsOf(samples, rows, service) \subseteq rows
         /\ Numbers(Values(samples, PointsOf(samples, rows, service)))
<1>. DEFINE points == PointsOf(samples, rows, service)
<1>1. points \subseteq rows
  BY DEF PointsOf
<1>2. IsFiniteSet(points)
  BY <1>1, PlacesAreFinite
<1>3. \A k \in points : samples[k] \in Sample
  BY <1>1
<1>. HIDE DEF points
<1>4. Values(samples, points) = [k \in points |-> samples[k].value]
  BY DEF Values
<1>5. \A k \in points : samples[k].value \in Int
  BY <1>3 DEF Sample
<1> QED BY <1>1, <1>2, <1>4, <1>5 DEF Numbers, points

\* Scores of finitely many metrics and services.
ScoresOf(sc) ==
  /\ IsFiniteSet(DOMAIN sc)
  /\ \A pair \in DOMAIN sc : pair[2] \in Services /\ sc[pair].score \in Nat

\* The scores of any two windows are finitely many, of services, and none
\* below zero (score_services).
LEMMA ScoresStand ==
  ASSUME NEW samples \in Seq(Sample), NEW baseline, NEW incident
  PROVE  ScoresOf(ScoreServices(samples, baseline, incident))
<1>. DEFINE before == [m \in Metrics |-> FetchMetric(samples, m, baseline, {})]
            during == [m \in Metrics |-> FetchMetric(samples, m, incident, {})]
            Found(m) == ServicesOf(samples, before[m] \cup during[m])
            Of(pair, rows) == Values(samples, PointsOf(samples, rows[pair[1]], pair[2]))
            pairs == UNION {{m} \X Found(m) : m \in Metrics}
            sc == ScoreServices(samples, baseline, incident)
            f == [k \in DOMAIN samples |-> <<samples[k].metric, samples[k].service>>]
            all == {f[k] : k \in DOMAIN samples}
<1>1. sc = [pair \in pairs |-> ScoreSeries(Of(pair, before), Of(pair, during), Directions[pair[1]])]
  BY Zenon DEF ScoreServices
<1>2. \A m \in Metrics : /\ before[m] \subseteq DOMAIN samples /\ during[m] \subseteq DOMAIN samples
                         /\ \A k \in before[m] \cup during[m] : samples[k].metric = m
  BY FetchedRows
<1>. HIDE DEF before, during
<1>3. ASSUME NEW pair \in pairs
      PROVE  pair[1] \in Metrics /\ pair[2] \in Services /\ pair \in all
  <2>1. PICK m \in Metrics : pair \in {m} \X Found(m)
    OBVIOUS
  <2>2. PICK k \in before[m] \cup during[m] : pair = <<m, samples[k].service>>
    BY <2>1 DEF ServicesOf
  <2>3. k \in DOMAIN samples /\ samples[k].metric = m
    BY <1>2, <2>2
  <2>4. samples[k].service \in Services
    <3>1. samples[k] \in Sample
      BY <2>3
    <3> QED BY <3>1 DEF Sample, Services
  <2>5. pair = f[k]
    BY <2>2, <2>3
  <2>. HIDE DEF f, pairs, Found
  <2>6. pair \in all
    BY <2>3, <2>5
  <2> QED BY <2>2, <2>4, <2>6
<1>4. IsFiniteSet(all)
  <2>1. f \in Surjection(DOMAIN samples, all)
    BY DEF Surjection
  <2>2. IsFiniteSet(DOMAIN samples)
    BY PlacesAreFinite
  <2> QED BY <2>1, <2>2, FS_Surjection
<1>. HIDE DEF pairs, all, f
<1>5. IsFiniteSet(pairs)
  <2>1. pairs \subseteq all
    BY <1>3
  <2> QED BY <1>4, <2>1, FS_Subset
<1>6. ASSUME NEW pair \in pairs
      PROVE  ScoreSeries(Of(pair, before), Of(pair, during), Directions[pair[1]]).score \in Nat
  <2>1. before[pair[1]] \subseteq DOMAIN samples /\ during[pair[1]] \subseteq DOMAIN samples
    BY <1>2, <1>3
  <2>2. Numbers(Of(pair, before)) /\ Numbers(Of(pair, during))
    BY <2>1, RowsAreNumbers
  <2>. HIDE DEF Of
  <2> QED BY <2>2, ScoresAreNats
<1>. HIDE DEF Of
<1>7. DOMAIN sc = pairs /\ \A pair \in pairs : sc[pair] = ScoreSeries(Of(pair, before), Of(pair, during), Directions[pair[1]])
  BY <1>1
<1>. HIDE DEF sc
<1>8. ScoresOf(sc)
  BY <1>3, <1>5, <1>6, <1>7 DEF ScoresOf
<1> QED BY <1>8 DEF sc

\* Onsets of services, in whole seconds.
OnsetsOf(on) == DOMAIN on \subseteq Services /\ \A s \in DOMAIN on : on[s] \in Int

\* Whoever went abnormal did so at some time (onset_seconds).
LEMMA OnsetsStand ==
  ASSUME NEW samples \in Seq(Sample), NEW baseline, NEW incident, incident.start \in Int
  PROVE  OnsetsOf(OnsetSeconds(samples, baseline, incident))
<1>. DEFINE before == [m \in Metrics |-> FetchMetric(samples, m, baseline, {})]
            during == [m \in Metrics |-> FetchMetric(samples, m, incident, {})]
            able(s) == {n \in Metrics : Cardinality(PointsOf(samples, before[n], s)) >= MinBaselinePoints}
            Met(m, s) == Crossings(samples, PointsOf(samples, before[m], s), PointsOf(samples, during[m], s))
            Crossed(s) == UNION {Met(m, s) : m \in able(s)}
            abnormal == {s \in ToSet(ServiceOrder) : Crossed(s) # {}}
            on == OnsetSeconds(samples, baseline, incident)
            times == {samples[k].at : k \in DOMAIN samples}
<1>1. on = [s \in abnormal |-> Min(Crossed(s)) - incident.start]
  BY Zenon DEF OnsetSeconds
<1>2. IsFiniteSet(times) /\ times \subseteq Int
  <2>. DEFINE at_ == [k \in DOMAIN samples |-> samples[k].at]
              S == {at_[k] : k \in DOMAIN samples}
  <2>1. \A k \in DOMAIN samples : at_[k] \in Int
    <3>1. \A k \in DOMAIN samples : samples[k] \in Sample
      OBVIOUS
    <3> QED BY <3>1 DEF Sample
  <2>2. IsFiniteSet(DOMAIN samples)
    BY PlacesAreFinite
  <2>3. S = times
    OBVIOUS
  <2>. HIDE DEF at_
  <2>4. IsFiniteSet(S) /\ S \subseteq Int
    BY <2>1, <2>2, ValuesAreFinite
  <2> QED BY <2>3, <2>4
<1>3. ASSUME NEW s PROVE Crossed(s) \subseteq times
  <2>1. ASSUME NEW m \in able(s) PROVE Met(m, s) \subseteq times
    <3>1. during[m] \subseteq DOMAIN samples
      BY FetchedRows
    <3>. HIDE DEF before, during
    <3>2. PointsOf(samples, during[m], s) \subseteq DOMAIN samples
      BY <3>1 DEF PointsOf
    <3> QED BY <3>2 DEF Crossings
  <2>. HIDE DEF Met, able, times
  <2> QED BY <2>1
<1>. HIDE DEF Crossed, times
<1>4. ASSUME NEW s \in abnormal PROVE Min(Crossed(s)) \in Int
  <2>1. Crossed(s) # {} /\ Crossed(s) \subseteq Int /\ IsFiniteSet(Crossed(s))
    BY <1>2, <1>3, FS_Subset
  <2> QED BY <2>1, MinIsSmallest
<1>5. abnormal \subseteq Services
  BY DEF Services
<1>. HIDE DEF abnormal
<1>6. DOMAIN on = abnormal /\ \A s \in abnormal : on[s] = Min(Crossed(s)) - incident.start
  BY <1>1
<1>. HIDE DEF on
<1>7. OnsetsOf(on)
  BY <1>4, <1>5, <1>6 DEF OnsetsOf
<1> QED BY <1>7 DEF on

\* The largest of some scores is one of them, or nothing where there is
\* none.
LEMMA LargestStands ==
  ASSUME NEW sc, ScoresOf(sc), NEW pairs, pairs \subseteq DOMAIN sc
  PROVE  /\ Largest(sc, pairs) \in Nat
         /\ pairs = {} => Largest(sc, pairs) = 0
         /\ pairs # {} => \E pair \in pairs : Largest(sc, pairs) = sc[pair].score
         /\ \A pair \in pairs : sc[pair].score <= Largest(sc, pairs)
<1>1. IsFiniteSet(pairs)
  BY FS_Subset DEF ScoresOf
<1>. DEFINE f == [pair \in pairs |-> sc[pair].score]
            S == {sc[pair].score : pair \in pairs}
            T == {f[pair] : pair \in pairs}
<1>2. \A pair \in pairs : f[pair] \in Nat /\ f[pair] = sc[pair].score
  BY DEF ScoresOf
<1>3. S = T
  OBVIOUS
<1>4. \A pair \in pairs : sc[pair].score \in S
  OBVIOUS
<1>. HIDE DEF f
<1>5. IsFiniteSet(S) /\ S \subseteq Int
  <2>1. IsFiniteSet(T) /\ T \subseteq Int
    BY <1>1, <1>2, ValuesAreFinite
  <2>. HIDE DEF S, T
  <2> QED BY <1>3, <2>1
<1>6. CASE pairs = {}
  BY <1>6 DEF Largest
<1>7. CASE pairs # {}
  <2>1. Largest(sc, pairs) = Max(S)
    BY <1>7 DEF Largest
  <2>2. S # {}
    BY <1>7
  <2>3. Max(S) \in S /\ \A y \in S : y <= Max(S)
    <3>. HIDE DEF S
    <3> QED BY <1>5, <2>2, MaxIsLargest
  <2>4. PICK pair \in pairs : Max(S) = sc[pair].score
    BY <2>3
  <2>5. Max(S) \in Nat
    BY <1>2, <2>4
  <2>6. \A p \in pairs : sc[p].score <= Max(S)
    BY <1>4, <2>3
  <2>. HIDE DEF S
  <2> QED BY <1>7, <2>1, <2>4, <2>5, <2>6
<1> QED BY <1>6, <1>7

\* Anomalies of finitely many services.
AnomaliesOf(an) == IsFiniteSet(DOMAIN an) /\ \A s \in DOMAIN an : an[s] \in Nat

\* The worst scores of services are finitely many and none below zero, and
\* of services that have a score (collapse_scores).
LEMMA CollapsedStand ==
  ASSUME NEW sc, ScoresOf(sc)
  PROVE  /\ AnomaliesOf(CollapseScores(sc))
         /\ \A s \in DOMAIN CollapseScores(sc) : \E pair \in DOMAIN sc : s = pair[2]
<1>. DEFINE T == Trusted(sc, 0)
            mine(s) == {pair \in T : pair[2] = s}
            D == {pair[2] : pair \in T}
            an == CollapseScores(sc)
<1>1. T \subseteq DOMAIN sc
  BY DEF Trusted
<1>2. IsFiniteSet(T)
  BY <1>1, FS_Subset DEF ScoresOf
<1>3. an = [s \in D |-> Largest(sc, mine(s))]
  BY DEF CollapseScores
<1>4. \A s \in D : \E pair \in DOMAIN sc : s = pair[2]
  BY <1>1
<1>5. IsFiniteSet(D)
  <2>. DEFINE f == [pair \in T |-> pair[2]]
  <2>1. f \in Surjection(T, D)
    BY DEF Surjection
  <2> QED BY <1>2, <2>1, FS_Surjection
<1>6. \A s : Largest(sc, mine(s)) \in Nat
  <2>1. \A s : mine(s) \subseteq DOMAIN sc
    BY <1>1
  <2>. HIDE DEF mine
  <2> QED BY <2>1, LargestStands
<1>. HIDE DEF D, mine
<1>7. DOMAIN an = D /\ \A s \in D : an[s] \in Nat
  BY <1>3, <1>6
<1>. HIDE DEF an
<1> QED BY <1>4, <1>5, <1>7 DEF AnomaliesOf, an

\* What an endpoint weighs is a number.
LEMMA EndpointsAreNats ==
  ASSUME NEW h \in Nat
  PROVE  Endpoint(h) \in Nat
<1>. DEFINE n == 1 + h \div 100
            S == {r \in 1 .. n : r * r <= n}
<1>1. n \in Nat /\ n >= 1
  <2>1. h \div 100 \in Nat
    OBVIOUS
  <2> QED BY <2>1
<1>2. Endpoint(h) = Max(S)
  BY DEF Endpoint
<1>. HIDE DEF n
<1>3. 1 \in S
  BY <1>1
<1>4. S \subseteq 1 .. n /\ S \subseteq Nat
  BY <1>1
<1>5. IsFiniteSet(S)
  <2>. HIDE DEF S
  <2>1. IsFiniteSet(1 .. n)
    BY <1>1, FS_Interval
  <2> QED BY <1>4, <2>1, FS_Subset
<1>. HIDE DEF S
<1>6. Max(S) \in S
  <2>1. S \subseteq Int /\ S # {}
    BY <1>3, <1>4
  <2> QED BY <1>5, <2>1, MaxIsLargest
<1> QED BY <1>2, <1>4, <1>6

-----------------------------------------------------------------------------
(* The graph that is walked *)

\* A graph of some nodes, with a weight for each pair.
GraphOf(graph, nodes) ==
  /\ graph = [nodes |-> nodes, weight |-> graph.weight]
  /\ DOMAIN graph.weight = nodes \X nodes
  /\ \A c, n \in nodes : graph.weight[<<c, n>>] \in Nat

\* Nothing is handed on but along a call, or kept.
Along(graph, edges) ==
  \A c, n \in graph.nodes :
    graph.weight[<<c, n>>] # 0 => c = n \/ \E k \in DOMAIN edges : edges[k].client = c /\ edges[k].server = n

\* Who calls or is called.
EndsOf(edges) == UNION {{edges[k].client, edges[k].server} : k \in DOMAIN edges}

\* The graph of calls has a node for each of their ends and each anomaly,
\* and weights along the calls (build_call_graph).
LEMMA CallGraphStands ==
  ASSUME NEW edges, CallsOf(edges), IsFiniteSet(DOMAIN edges), NEW anomalous
  PROVE  /\ GraphOf(CallGraph(edges, anomalous), EndsOf(edges) \cup anomalous)
         /\ Along(CallGraph(edges, anomalous), edges)
<1>. DEFINE nodes == EndsOf(edges) \cup anomalous
            rps == [k \in DOMAIN edges |-> edges[k].rps]
            between(c, s) == {k \in DOMAIN edges : edges[k].client = c /\ edges[k].server = s}
            Weights(all) == [pair \in all \X all |-> SumFunctionOnSet(rps, between(pair[1], pair[2]))]
            weight == Weights(nodes)
            ends == (UNION {{edges[k].client, edges[k].server} : k \in DOMAIN edges}) \cup anomalous
            graph == CallGraph(edges, anomalous)
<1>1. graph = [nodes |-> nodes, weight |-> weight]
  <2>1. graph = [nodes |-> ends, weight |-> Weights(ends)]
    BY Zenon DEF CallGraph
  <2>2. ends = nodes
    <3>1. EndsOf(edges) = UNION {{edges[k].client, edges[k].server} : k \in DOMAIN edges}
      BY Zenon DEF EndsOf
    <3>. HIDE DEF Weights, rps, between
    <3> QED BY <3>1, Zenon
  <2>. HIDE DEF ends, graph, Weights
  <2> QED BY <2>1, <2>2
<1>2. \A k \in DOMAIN edges : rps[k] \in Nat
  <2>1. \A k \in DOMAIN edges : edges[k] \in CallEdge
    BY DEF CallsOf
  <2> QED BY <2>1 DEF CallEdge
<1>. HIDE DEF nodes, rps
<1>3. ASSUME NEW c \in nodes, NEW n \in nodes
      PROVE  /\ weight[<<c, n>>] \in Nat
             /\ weight[<<c, n>>] # 0 => \E k \in DOMAIN edges : edges[k].client = c /\ edges[k].server = n
  <2>1. weight[<<c, n>>] = SumFunctionOnSet(rps, between(c, n))
    OBVIOUS
  <2>2. between(c, n) \subseteq DOMAIN edges
    OBVIOUS
  <2>3. between(c, n) # {} => \E k \in DOMAIN edges : edges[k].client = c /\ edges[k].server = n
    OBVIOUS
  <2>. HIDE DEF between, weight
  <2>4. IsFiniteSet(between(c, n))
    BY <2>2, FS_Subset
  <2>5. SumFunctionOnSet(rps, between(c, n)) \in Nat
    BY <1>2, <2>2, <2>4, SumsAreNats
  <2>6. between(c, n) = {} => SumFunctionOnSet(rps, between(c, n)) = 0
    BY SumOfNothing
  <2> QED BY <2>1, <2>3, <2>5, <2>6
<1>4. DOMAIN weight = nodes \X nodes
  OBVIOUS
<1>. HIDE DEF weight, graph
<1>5. graph.nodes = nodes /\ graph.weight = weight
  BY <1>1
<1>6. GraphOf(graph, nodes)
  BY <1>1, <1>3, <1>4, <1>5 DEF GraphOf
<1>7. Along(graph, edges)
  BY <1>3, <1>5 DEF Along
<1> QED BY <1>6, <1>7 DEF graph, nodes

\* g weighs something only where graph does, or where it stays.
Inside(g, graph) ==
  \A c, n \in graph.nodes : g.weight[<<c, n>>] # 0 => c = n \/ graph.weight[<<c, n>>] # 0

\* Weights change, and nodes do not (add_backward_edges,
\* _scale_by_endpoint_anomaly, add_self_loops).
LEMMA BackwardStands ==
  ASSUME NEW graph, NEW nodes, GraphOf(graph, nodes)
  PROVE  /\ GraphOf(AddBackwardEdges(graph), nodes)
         /\ BackwardRatio[1] = 0 => Inside(AddBackwardEdges(graph), graph)
<1>. DEFINE g == AddBackwardEdges(graph)
            w == [pair \in nodes \X nodes |->
                    graph.weight[pair[1], pair[2]] * BackwardRatio[2] + graph.weight[pair[2], pair[1]] * BackwardRatio[1]]
<1>0. graph.nodes = nodes /\ DOMAIN graph.weight = nodes \X nodes
  BY DEF GraphOf
<1>1. g = [nodes |-> nodes, weight |-> w]
  <2>1. g = [graph EXCEPT !.weight = w]
    BY <1>0 DEF AddBackwardEdges, Reweighted
  <2>2. graph = [nodes |-> nodes, weight |-> graph.weight]
    BY DEF GraphOf
  <2>. HIDE DEF w, g
  <2> QED BY <2>1, <2>2
<1>2. BackwardRatio[1] \in Nat /\ BackwardRatio[2] \in Nat
  <2>1. BackwardRatio \in Nat \X (Nat \ {0})
    BY TriageAssumption DEF TriageAssumption
  <2> QED BY <2>1
<1>3. ASSUME NEW c \in nodes, NEW n \in nodes
      PROVE  w[<<c, n>>] \in Nat /\ (BackwardRatio[1] = 0 /\ w[<<c, n>>] # 0 => graph.weight[<<c, n>>] # 0)
  <2>. DEFINE x == graph.weight[<<c, n>>]
              y == graph.weight[<<n, c>>]
              a == BackwardRatio[1]
              b == BackwardRatio[2]
  <2>1. x \in Nat /\ y \in Nat
    BY DEF GraphOf
  <2>2. w[<<c, n>>] = x * b + y * a
    OBVIOUS
  <2>. HIDE DEF x, y, w, a, b
  <2>3. x * b + y * a \in Nat
    BY <1>2, <2>1 DEF a, b
  <2>4. a = 0 /\ x = 0 => x * b + y * a = 0
    BY <1>2, <2>1 DEF a, b
  <2> QED BY <2>2, <2>3, <2>4 DEF x, a
<1>4. DOMAIN w = nodes \X nodes
  OBVIOUS
<1>. HIDE DEF w, g
<1>5. g.nodes = nodes /\ g.weight = w
  BY <1>1
<1> QED BY <1>0, <1>1, <1>3, <1>4, <1>5 DEF GraphOf, Inside, g

\* What a service weighs as an end of a call.
FactorOf(anomalies, s) == IF s \in DOMAIN anomalies THEN Endpoint(anomalies[s]) ELSE 1

\* A call weighs more the more its ends deviate
\* (_scale_by_endpoint_anomaly).
LEMMA ScalingStands ==
  ASSUME NEW graph, NEW nodes, GraphOf(graph, nodes), NEW anomalies, AnomaliesOf(anomalies)
  PROVE  /\ GraphOf(ScaleByEndpointAnomaly(graph, anomalies), nodes)
         /\ Inside(ScaleByEndpointAnomaly(graph, anomalies), graph)
<1>. DEFINE g == ScaleByEndpointAnomaly(graph, anomalies)
            F(s) == FactorOf(anomalies, s)
            w == [pair \in nodes \X nodes |-> graph.weight[pair[1], pair[2]] * F(pair[1]) * F(pair[2])]
<1>0. graph.nodes = nodes /\ DOMAIN graph.weight = nodes \X nodes
  BY DEF GraphOf
<1>1. g = [nodes |-> nodes, weight |-> w]
  <2>1. g = [graph EXCEPT !.weight = w]
    BY <1>0 DEF ScaleByEndpointAnomaly, Reweighted, FactorOf
  <2>2. graph = [nodes |-> nodes, weight |-> graph.weight]
    BY DEF GraphOf
  <2>. HIDE DEF w, g
  <2> QED BY <2>1, <2>2
<1>2. \A s : F(s) \in Nat
  BY EndpointsAreNats DEF AnomaliesOf, FactorOf
<1>. HIDE DEF F
<1>3. ASSUME NEW c \in nodes, NEW n \in nodes
      PROVE  w[<<c, n>>] \in Nat /\ (w[<<c, n>>] # 0 => graph.weight[<<c, n>>] # 0)
  <2>. DEFINE x == graph.weight[<<c, n>>]
              a == F(c)
              b == F(n)
  <2>1. x \in Nat
    BY DEF GraphOf
  <2>2. w[<<c, n>>] = x * a * b
    OBVIOUS
  <2>3. a \in Nat /\ b \in Nat
    BY <1>2
  <2>. HIDE DEF x, w, a, b
  <2>4. x * a \in Nat /\ (x = 0 => x * a = 0)
    BY <2>1, <2>3
  <2>5. x * a * b \in Nat /\ (x = 0 => x * a * b = 0)
    <3>. DEFINE y == x * a
    <3>1. y \in Nat /\ (x = 0 => y = 0)
      BY <2>4
    <3>. HIDE DEF y
    <3>2. y * b \in Nat /\ (y = 0 => y * b = 0)
      BY <2>3, <3>1
    <3> QED BY <3>1, <3>2 DEF y
  <2> QED BY <2>2, <2>5 DEF x
<1>4. DOMAIN w = nodes \X nodes
  OBVIOUS
<1>. HIDE DEF w, g
<1>5. g.nodes = nodes /\ g.weight = w
  BY <1>1
<1> QED BY <1>0, <1>1, <1>3, <1>4, <1>5 DEF GraphOf, Inside, g

\* A self loop is where a call stays (add_self_loops).
LEMMA LoopsStand ==
  ASSUME NEW graph, NEW nodes, IsFiniteSet(nodes), GraphOf(graph, nodes)
  PROVE  /\ GraphOf(AddSelfLoops(graph), nodes)
         /\ Inside(AddSelfLoops(graph), graph)
<1>. DEFINE g == AddSelfLoops(graph)
            loop(c) == IF OutWeight(graph, c) > 0 THEN OutWeight(graph, c) * SelfLoopRatio[1] ELSE SelfLoopRatio[2]
            w == [pair \in nodes \X nodes |->
                    graph.weight[pair[1], pair[2]] * SelfLoopRatio[2] + (IF pair[1] # pair[2] THEN 0 ELSE loop(pair[1]))]
<1>0. /\ graph.nodes = nodes /\ DOMAIN graph.weight = nodes \X nodes
      /\ \A c, n \in nodes : graph.weight[<<c, n>>] \in Nat
  <2>1. \A c, n \in nodes : graph.weight[<<c, n>>] \in Nat
    BY Zenon DEF GraphOf
  <2>2. graph = [nodes |-> nodes, weight |-> graph.weight] /\ DOMAIN graph.weight = nodes \X nodes
    BY DEF GraphOf
  <2> QED BY <2>1, <2>2
<1>1. SelfLoopRatio[1] \in Nat /\ SelfLoopRatio[2] \in Nat
  <2>1. SelfLoopRatio \in Nat \X (Nat \ {0})
    BY TriageAssumption DEF TriageAssumption
  <2> QED BY <2>1
<1>2. CASE SelfLoopRatio[1] = 0
  <2>1. g = graph
    BY <1>2 DEF AddSelfLoops
  <2> QED BY <1>0, <2>1 DEF Inside
<1>3. CASE SelfLoopRatio[1] # 0
  <2>1. g = [nodes |-> nodes, weight |-> w]
    <3>1. g = [graph EXCEPT !.weight = w]
      BY <1>0, <1>3 DEF AddSelfLoops, Reweighted
    <3>2. graph = [nodes |-> nodes, weight |-> graph.weight]
      BY DEF GraphOf
    <3>. HIDE DEF w, g
    <3> QED BY <3>1, <3>2
  <2>2. ASSUME NEW c \in nodes PROVE loop(c) \in Nat
    <3>. DEFINE f == [s \in nodes |-> graph.weight[<<c, s>>]]
                o == OutWeight(graph, c)
    <3>1. o = SumFunctionOnSet(f, nodes)
      BY <1>0 DEF OutWeight
    <3>2. \A s \in nodes : f[s] \in Nat
      BY <1>0
    <3>. HIDE DEF f
    <3>3. o \in Nat
      BY <3>1, <3>2, SumsAreNats
    <3>. HIDE DEF o
    <3>4. o * SelfLoopRatio[1] \in Nat
      BY <1>1, <3>3
    <3> QED BY <1>1, <3>4 DEF o
  <2>. HIDE DEF loop
  <2>3. ASSUME NEW c \in nodes, NEW n \in nodes
        PROVE  w[<<c, n>>] \in Nat /\ (w[<<c, n>>] # 0 => c = n \/ graph.weight[<<c, n>>] # 0)
    <3>. DEFINE x == graph.weight[<<c, n>>]
                b == SelfLoopRatio[2]
                l == IF c # n THEN 0 ELSE loop(c)
    <3>1. x \in Nat /\ l \in Nat /\ b \in Nat
      BY <1>0, <1>1, <2>2
    <3>2. w[<<c, n>>] = x * b + l
      OBVIOUS
    <3>3. c # n => l = 0
      OBVIOUS
    <3>. HIDE DEF x, w, l, b
    <3>4. x * b + l \in Nat /\ (x = 0 /\ l = 0 => x * b + l = 0)
      BY <3>1
    <3> QED BY <3>2, <3>3, <3>4 DEF x
  <2>4. DOMAIN w = nodes \X nodes
    OBVIOUS
  <2>. HIDE DEF w, g
  <2>5. g.nodes = nodes /\ g.weight = w
    BY <2>1
  <2> QED BY <1>0, <2>1, <2>3, <2>4, <2>5 DEF GraphOf, Inside, g
<1> QED BY <1>2, <1>3

\* What is walked has a node for each end of a call and each anomaly, and
\* hands nothing on but along a call, unless something flows back
\* (triage_bundle).
LEMMA WalkedStands ==
  ASSUME NEW edges, CallsOf(edges), IsFiniteSet(DOMAIN edges), NEW anomalies, AnomaliesOf(anomalies)
  PROVE  /\ Weighted(Walked(edges, anomalies))
         /\ Walked(edges, anomalies).nodes = EndsOf(edges) \cup DOMAIN anomalies
         /\ BackwardRatio[1] = 0 => Along(Walked(edges, anomalies), edges)
<1>. DEFINE nodes == EndsOf(edges) \cup DOMAIN anomalies
            a == CallGraph(edges, DOMAIN anomalies)
            b == AddBackwardEdges(a)
            c == ScaleByEndpointAnomaly(b, anomalies)
            d == Walked(edges, anomalies)
<1>1. IsFiniteSet(nodes)
  <2>. DEFINE clients == [k \in DOMAIN edges |-> edges[k].client]
              servers == [k \in DOMAIN edges |-> edges[k].server]
              A == {clients[k] : k \in DOMAIN edges}
              B == {servers[k] : k \in DOMAIN edges}
  <2>1. IsFiniteSet(A) /\ IsFiniteSet(B)
    <3>1. clients \in Surjection(DOMAIN edges, A) /\ servers \in Surjection(DOMAIN edges, B)
      BY DEF Surjection
    <3> QED BY <3>1, FS_Surjection
  <2>2. EndsOf(edges) = A \cup B
    BY DEF EndsOf
  <2>. HIDE DEF A, B
  <2> QED BY <2>1, <2>2, FS_Union DEF AnomaliesOf
<1>2. GraphOf(a, nodes) /\ Along(a, edges)
  BY CallGraphStands
<1>. HIDE DEF nodes, a
<1>3. GraphOf(b, nodes) /\ (BackwardRatio[1] = 0 => Inside(b, a))
  BY <1>2, BackwardStands
<1>. HIDE DEF b
<1>4. GraphOf(c, nodes) /\ Inside(c, b)
  BY <1>3, ScalingStands
<1>. HIDE DEF c
<1>5. d = AddSelfLoops(c)
  BY DEF Walked, a, b, c
<1>. HIDE DEF d
<1>6. GraphOf(d, nodes) /\ Inside(d, c)
  BY <1>1, <1>4, <1>5, LoopsStand
<1>7. a.nodes = nodes /\ b.nodes = nodes /\ c.nodes = nodes /\ d.nodes = nodes
  BY <1>2, <1>3, <1>4, <1>6 DEF GraphOf
<1>8. BackwardRatio[1] = 0 => Along(d, edges)
  <2>1. SUFFICES ASSUME BackwardRatio[1] = 0, NEW x \in nodes, NEW y \in nodes, d.weight[<<x, y>>] # 0
                 PROVE  x = y \/ \E k \in DOMAIN edges : edges[k].client = x /\ edges[k].server = y
    BY <1>7 DEF Along
  <2>2. x = y \/ c.weight[<<x, y>>] # 0
    BY <1>6, <1>7, <2>1 DEF Inside
  <2>3. x = y \/ b.weight[<<x, y>>] # 0
    BY <1>4, <1>7, <2>2 DEF Inside
  <2>4. x = y \/ a.weight[<<x, y>>] # 0
    BY <1>3, <1>7, <2>1, <2>3 DEF Inside
  <2> QED BY <1>2, <1>7, <2>4 DEF Along
<1>9. Weighted(d)
  BY <1>1, <1>6, <1>7, Zenon DEF Weighted, GraphOf
<1> QED BY <1>7, <1>8, <1>9 DEF d, nodes

\* A sum of numbers of which one is not zero is not zero.
LEMMA SomethingAddsUp ==
  ASSUME NEW S, IsFiniteSet(S), NEW f, \A x \in S : f[x] \in Nat, NEW x \in S, f[x] # 0
  PROVE  SumFunctionOnSet(f, S) # 0
<1>1. SumFunctionOnSet(f, S) = f[x] + SumFunctionOnSet(f, S \ {x})
  BY SumsAreInts
<1>2. IsFiniteSet(S \ {x}) /\ \A y \in S \ {x} : f[y] \in Nat
  BY FS_Subset
<1>3. SumFunctionOnSet(f, S \ {x}) \in Nat
  BY <1>2, SumsAreNats
<1>4. f[x] \in Nat
  OBVIOUS
<1> QED BY <1>1, <1>3, <1>4

\* Those that moved.
MovedOf(anomalies) == {s \in DOMAIN anomalies : anomalies[s] > 0}

\* A walk starts again at all nodes, as one whole, and if anything moved,
\* at what moved only (_restart_vector).
LEMMA RestartStands ==
  ASSUME NEW nodes, IsFiniteSet(nodes), NEW anomalies, AnomaliesOf(anomalies)
  PROVE  LET back == RestartVector(nodes, anomalies) IN
           /\ DOMAIN back.parts = nodes
           /\ nodes # {} => Spread(back, nodes)
           /\ nodes = {} => back.of = 0
           /\ MovedOf(anomalies) \cap nodes # {} => \A n \in nodes : back.parts[n] > 0 => n \in MovedOf(anomalies)
<1>. DEFINE raw == [n \in nodes |-> IF n \in DOMAIN anomalies THEN anomalies[n] ELSE 0]
            total == SumFunctionOnSet(raw, nodes)
            ones == [n \in nodes |-> 1]
            back == RestartVector(nodes, anomalies)
<1>1. raw \in [nodes -> Nat] /\ \A n \in nodes : raw[n] > 0 => n \in MovedOf(anomalies)
  BY DEF AnomaliesOf, MovedOf
<1>2. \A n \in MovedOf(anomalies) \cap nodes : raw[n] # 0
  BY DEF MovedOf, AnomaliesOf
<1>3. back = IF total = 0 THEN [parts |-> ones, of |-> Cardinality(nodes)] ELSE Shares(raw, total)
  BY Zenon DEF RestartVector
<1>. HIDE DEF raw, back
<1>4. total \in Nat /\ (MovedOf(anomalies) \cap nodes # {} => total # 0) /\ (nodes = {} => total = 0)
  <2>1. total \in Nat
    BY <1>1, SumsAreNats
  <2>2. ASSUME MovedOf(anomalies) \cap nodes # {} PROVE total # 0
    <3>1. PICK x \in MovedOf(anomalies) \cap nodes : raw[x] # 0
      BY <1>2, <2>2
    <3> QED BY <1>1, <3>1, SomethingAddsUp
  <2> QED BY <2>1, <2>2, SumOfNothing
<1>. HIDE DEF total
<1>5. CASE total = 0
  <2>1. back.parts = ones /\ back.of = Cardinality(nodes)
    BY <1>3, <1>5
  <2>2. Cardinality(nodes) \in Nat /\ (Cardinality(nodes) = 0 <=> nodes = {})
    BY FS_CardinalityType, FS_EmptySet
  <2>3. SumFunctionOnSet(ones, nodes) = Cardinality(nodes)
    <3>1. \A n \in nodes : ones[n] = 1
      OBVIOUS
    <3>. HIDE DEF ones
    <3> QED BY <3>1, SumOfOnes
  <2>4. ones \in [nodes -> Nat] /\ DOMAIN ones = nodes
    OBVIOUS
  <2>. HIDE DEF ones
  <2> QED BY <1>4, <1>5, <2>1, <2>2, <2>3, <2>4 DEF Spread, Positive, back
<1>6. CASE total # 0
  <2>1. back = Shares(raw, total)
    BY <1>3, <1>6
  <2>2. total \in Positive
    BY <1>4, <1>6 DEF Positive
  <2>3. Scaled(back, raw, total, nodes)
    BY <1>1, <2>1, <2>2, SharesAreScaled
  <2>4. Spread(back, nodes)
    BY <2>3, ScaledAddUp DEF total
  <2>5. ASSUME NEW n \in nodes, back.parts[n] > 0 PROVE n \in MovedOf(anomalies)
    <3>1. PICK g \in Positive : raw[n] = g * back.parts[n]
      BY <2>3 DEF Scaled
    <3>2. back.parts[n] \in Nat
      BY <2>4 DEF Spread
    <3>3. raw[n] > 0
      BY <2>5, <3>1, <3>2 DEF Positive
    <3> QED BY <1>1, <3>3
  <2>6. DOMAIN back.parts = nodes
    BY <2>4 DEF Spread
  <2> QED BY <1>4, <1>6, <2>4, <2>5, <2>6 DEF back
<1> QED BY <1>5, <1>6

\* Somebody leads, and nobody is suspected more (rank_candidates).
LEMMA LeadingLeads ==
  ASSUME NEW nodes, IsFiniteSet(nodes), nodes # {}, nodes \subseteq Services, NEW p, NEW on,
         \A n \in nodes : Suspicion(p, on, n) \in Int
  PROVE  /\ Leading(p, on, nodes) \in nodes
         /\ \A n \in nodes : Suspicion(p, on, n) <= Suspicion(p, on, Leading(p, on, nodes))
<1>. DEFINE s(n) == Suspicion(p, on, n)
            B(n, m) == s(n) > s(m) \/ (s(n) = s(m) /\ SortPlace(n) < SortPlace(m))
            R == {pair \in nodes \X nodes : B(pair[1], pair[2])}
<1>1. \A n \in nodes : SortPlace(n) \in Nat
  BY PlacesOfServices DEF Services
<1>2. \A n, m \in nodes : SortPlace(n) = SortPlace(m) => n = m
  BY PlacesOfServices DEF Services
<1>3. \A n \in nodes : s(n) \in Int
  OBVIOUS
<1>. HIDE DEF s
<1>4. StrictOn(R, nodes)
  <2>1. \A n \in nodes : ~B(n, n)
    BY <1>1, <1>3
  <2>2. \A n, m, k \in nodes : B(n, m) /\ B(m, k) => B(n, k)
    BY <1>1, <1>3
  <2>. HIDE DEF B
  <2> QED BY <2>1, <2>2 DEF StrictOn
<1>5. \A n, m \in nodes : n # m => B(n, m) \/ B(m, n)
  BY <1>1, <1>2, <1>3
<1>6. PICK x \in nodes : Ahead(R, nodes, x) = {}
  BY <1>4, SomebodyLeads
<1>7. \A m \in nodes \ {x} : B(x, m)
  <2>1. SUFFICES ASSUME NEW m \in nodes \ {x} PROVE B(x, m)
    OBVIOUS
  <2>2. <<m, x>> \notin R
    BY <1>6 DEF Ahead
  <2>. HIDE DEF B
  <2> QED BY <1>5, <2>2
<1>. DEFINE lead == Leading(p, on, nodes)
<1>8. lead = CHOOSE n \in nodes : \A m \in nodes \ {n} : B(n, m)
  BY Zenon DEF Leading, s
<1>9. lead \in nodes /\ \A m \in nodes \ {lead} : B(lead, m)
  <2>. HIDE DEF B, lead
  <2> QED BY <1>7, <1>8
<1>. HIDE DEF lead
<1>10. \A n \in nodes : s(n) <= s(lead)
  BY <1>3, <1>9
<1> QED BY <1>9, <1>10 DEF s, lead

-----------------------------------------------------------------------------
(* A walk of suspicion *)

\* A walk in the middle of a graph: the shares of its nodes add up, and if
\* anything moved and nothing flows back, it starts again at what moved, and
\* whoever has a share is called by something that moved.
WalkStands(graph, back, p, edges, movers) ==
  /\ Weighted(graph) /\ graph.nodes \subseteq Services \ Excluded
  /\ DOMAIN back.parts = graph.nodes /\ DOMAIN p.parts = graph.nodes
  /\ graph.nodes # {} => Walking(graph, back, p)
  /\ graph.nodes = {} => p.of = 0
  /\ BackwardRatio[1] = 0 => Along(graph, edges)
  /\ movers # {} /\ BackwardRatio[1] = 0 =>
       \A n \in graph.nodes :
         /\ back.parts[n] > 0 => n \in movers
         /\ p.parts[n] > 0 => movers \cap Callers(edges, n) # {}

\* There are finitely many services.
LEMMA ServicesAreFinite == IsFiniteSet(Services)
<1>1. IsFiniteSet(DOMAIN ServiceOrder)
  BY TelemetryAssumption, PlacesAreFinite
<1>2. ServiceOrder \in Surjection(DOMAIN ServiceOrder, Services)
  BY TelemetryAssumption DEF Surjection, Services, ToSet
<1> QED BY <1>1, <1>2, FS_Surjection

\* A walk begins so, with the graph or without (triage_bundle).
LEMMA WalkBegins ==
  ASSUME NEW edges, CallsOf(edges), IsFiniteSet(DOMAIN edges), EndsOf(edges) \subseteq Services \ Excluded,
         NEW used, used = edges \/ used = <<>>,
         NEW anomalies, AnomaliesOf(anomalies), DOMAIN anomalies \subseteq Services \ Excluded
  PROVE  LET graph == Walked(used, anomalies)
             back == RestartVector(graph.nodes, anomalies)
         IN /\ WalkStands(graph, back, back, edges, MovedOf(anomalies))
            /\ graph.nodes # {} => Settles(graph, back, back, 0)
<1>. DEFINE graph == Walked(used, anomalies)
            back == RestartVector(graph.nodes, anomalies)
            movers == MovedOf(anomalies)
<1>1. CallsOf(used) /\ IsFiniteSet(DOMAIN used) /\ EndsOf(used) \subseteq Services \ Excluded
  <2>1. CASE used = edges
    BY <2>1
  <2>2. CASE used = <<>>
    <3>1. DOMAIN used = {}
      BY <2>2
    <3> QED BY <3>1, FS_EmptySet DEF CallsOf, EndsOf
  <2> QED BY <2>1, <2>2
<1>2. /\ Weighted(graph)
      /\ graph.nodes = EndsOf(used) \cup DOMAIN anomalies
      /\ BackwardRatio[1] = 0 => Along(graph, used)
  BY <1>1, WalkedStands
<1>3. BackwardRatio[1] = 0 => Along(graph, edges)
  <2>1. CASE used = edges
    BY <1>2, <2>1
  <2>2. CASE used = <<>>
    <3>1. DOMAIN used = {}
      BY <2>2
    <3> QED BY <1>2, <3>1 DEF Along
  <2> QED BY <2>1, <2>2
<1>. HIDE DEF graph
<1>4. IsFiniteSet(graph.nodes)
  BY <1>2 DEF Weighted
<1>5. /\ DOMAIN back.parts = graph.nodes
      /\ graph.nodes # {} => Spread(back, graph.nodes)
      /\ graph.nodes = {} => back.of = 0
      /\ MovedOf(anomalies) \cap graph.nodes # {} =>
           \A n \in graph.nodes : back.parts[n] > 0 => n \in MovedOf(anomalies)
  BY <1>4, RestartStands
<1>. HIDE DEF back
<1>6. graph.nodes # {} => Walking(graph, back, back)
  BY <1>2, <1>5 DEF Walking
<1>7. graph.nodes # {} => Settles(graph, back, back, 0)
  BY <1>6, WalksSettle
<1>8. movers # {} => \A n \in graph.nodes : back.parts[n] > 0 => n \in movers
  BY <1>2, <1>5 DEF MovedOf
<1>9. \A n : n \in movers => movers \cap Callers(edges, n) # {}
  BY DEF Callers
<1>10. graph.nodes \subseteq Services \ Excluded
  BY <1>1, <1>2
<1>. HIDE DEF movers
<1>11. WalkStands(graph, back, back, edges, movers)
  BY <1>2, <1>3, <1>5, <1>6, <1>8, <1>9, <1>10 DEF WalkStands
<1> QED BY <1>7, <1>11 DEF graph, back, movers

\* Every pass leaves it so: what a node is handed comes from its callers.
LEMMA WalkGoesOn ==
  ASSUME NEW graph, NEW back, NEW p, NEW edges, CallsOf(edges), NEW movers,
         WalkStands(graph, back, p, edges, movers), graph.nodes # {}
  PROVE  WalkStands(graph, back, NextRank(graph, back, p), edges, movers)
<1>. DEFINE q == NextRank(graph, back, p)
<1>1. Walking(graph, back, p)
  BY DEF WalkStands
<1>2. Spread(q, graph.nodes) /\ Walking(graph, back, q)
  BY <1>1, NextIsSpread
<1>3. DOMAIN q.parts = graph.nodes
  BY <1>2 DEF Spread
<1>4. ASSUME movers # {}, BackwardRatio[1] = 0, NEW n \in graph.nodes, q.parts[n] > 0
      PROVE  movers \cap Callers(edges, n) # {}
  <2>0. /\ Along(graph, edges)
        /\ \A m \in graph.nodes :
             /\ back.parts[m] > 0 => m \in movers
             /\ p.parts[m] > 0 => movers \cap Callers(edges, m) # {}
    BY <1>4 DEF WalkStands
  <2>1. CASE back.parts[n] > 0
    BY <2>0, <2>1 DEF Callers
  <2>2. CASE ~(back.parts[n] > 0)
    <3>1. PICK c \in graph.nodes : p.parts[c] > 0 /\ graph.weight[<<c, n>>] > 0
      BY <1>1, <1>4, <2>2, SuspicionIsHandedOn
    <3>2. graph.weight[<<c, n>>] # 0
      BY <3>1
    <3>3. c = n \/ \E k \in DOMAIN edges : edges[k].client = c /\ edges[k].server = n
      BY <2>0, <3>2 DEF Along
    <3>4. movers \cap Callers(edges, c) # {}
      BY <2>0, <3>1
    <3>5. CASE c = n
      BY <3>4, <3>5
    <3>6. ASSUME NEW k \in DOMAIN edges, edges[k].client = c, edges[k].server = n
          PROVE  Callers(edges, c) \subseteq Callers(edges, n)
      <4>1. Callers(edges, edges[k].client) \subseteq Callers(edges, edges[k].server)
        BY ServicesAreFinite, CallersOfCallers
      <4> QED BY <3>6, <4>1
    <3> QED BY <3>3, <3>4, <3>5, <3>6
  <2> QED BY <2>1, <2>2
<1>. HIDE DEF q
<1>5. WalkStands(graph, back, q, edges, movers)
  BY <1>2, <1>3, <1>4 DEF WalkStands
<1> QED BY <1>5 DEF q

-----------------------------------------------------------------------------
(* Triage, step by step *)

Stages == {"opened", "windowed", "scored", "walking", "ranked", "reported", "raised", "unreported"}

WalkStages == {"walking", "ranked", "reported", "unreported"}

\* The services that moved.
Moved == MovedOf(CollapseScores(Suspected))

\* What each stage knows of the data: the windows are those of the
\* recording once they are chosen, scores and onsets are those of the
\* windows once there are any, and only a window too broad is refused.
DataInv ==
  /\ input \in Inputs /\ stage \in Stages
  /\ windows = IF stage = "opened"
                  THEN [baseline |-> Window(0, 0), incident |-> Window(0, 0)]
                  ELSE ChooseWindows(input)
  /\ stage \in {"scored", "walking", "ranked", "reported"} =>
       /\ scores = ScoreServices(Samples, windows.baseline, windows.incident)
       /\ onsets = OnsetSeconds(Samples, windows.baseline, windows.incident)
  /\ stage = "raised" => Broad(windows.baseline) \/ Broad(windows.incident)

\* What each stage knows of the walk: no pass is made before it starts,
\* what is walked stands, and as many passes leave no more to change than
\* the damping does.
WalkInv ==
  /\ passes \in 0 .. MaxIterations
  /\ stage \in {"opened", "windowed", "scored"} => passes = 0
  /\ stage \in {"opened", "windowed", "scored", "raised"} => rank = NoShares /\ restart = NoShares
  /\ stage \in WalkStages => WalkStands(network, restart, rank, ServiceEdges, Moved)
  /\ stage = "walking" =>
       /\ passes < MaxIterations /\ network.nodes # {}
       /\ Settles(network, restart, rank, passes)

\* The report says what was found when it was written, and is lost only
\* for the changes it asks for.
SaidInv ==
  /\ stage = "reported" =>
       /\ report.named = TopService /\ report.largest = TopAnomaly
       /\ report.movedFirst = IF SaysNothingIsWrong THEN Never ELSE SaidToMoveFirst
       /\ report.listed = Trusted(scores, 0)
       /\ ~ChangesRefused
  /\ stage = "unreported" => ChangesRefused

\* What each stage of triage knows.
TriageInv == DataInv /\ WalkInv /\ SaidInv

\* A recording has finitely many calls that are not of what watches the
\* system (service_edges).
LEMMA RecordedCalls ==
  ASSUME input \in Inputs
  PROVE  /\ CallsOf(ServiceEdges) /\ IsFiniteSet(DOMAIN ServiceEdges)
         /\ EndsOf(ServiceEdges) \subseteq Services \ Excluded
<1>. DEFINE edges == input.edges
            kept == {j \in DOMAIN edges : {edges[j].client, edges[j].server} \cap Excluded = {}}
            service == [k \in kept |-> edges[k]]
<1>0. ServiceEdges = service
  BY DEF ServiceEdges
<1>1. edges \in Seq(CallEdge)
  BY InputAssumption
<1>. HIDE DEF edges
<1>2. kept \subseteq DOMAIN edges /\ DOMAIN service = kept
  OBVIOUS
<1>3. IsFiniteSet(kept)
  BY <1>1, <1>2, PlacesAreFinite
<1>4. ASSUME NEW k \in kept
      PROVE  /\ service[k] \in CallEdge
             /\ service[k].client \in Services \ Excluded /\ service[k].server \in Services \ Excluded
  <2>1. edges[k] \in CallEdge
    BY <1>1, <1>2
  <2> QED BY <2>1 DEF CallEdge
<1>. HIDE DEF kept
<1>5. DOMAIN service = kept
  OBVIOUS
<1>. HIDE DEF service
<1>6. CallsOf(service) /\ EndsOf(service) \subseteq Services \ Excluded
  BY <1>4, <1>5 DEF CallsOf, EndsOf
<1> QED BY <1>0, <1>3, <1>5, <1>6

\* The scores of suspects are scores, and none is of what watches the
\* system (triage_bundle).
LEMMA SuspectsStand ==
  ASSUME ScoresOf(scores)
  PROVE  /\ ScoresOf(Suspected)
         /\ AnomaliesOf(CollapseScores(Suspected))
         /\ DOMAIN CollapseScores(Suspected) \subseteq Services \ Excluded
<1>. DEFINE kept == {p \in DOMAIN scores : p[2] \notin Excluded}
<1>0. Suspected = [pair \in kept |-> scores[pair]]
  BY DEF Suspected
<1>1. kept \subseteq DOMAIN scores /\ \A pair \in kept : pair[2] \notin Excluded
  OBVIOUS
<1>. HIDE DEF kept
<1>2. DOMAIN Suspected = kept /\ \A pair \in kept : Suspected[pair] = scores[pair]
  BY <1>0
<1>3. ScoresOf(Suspected)
  BY <1>1, <1>2, FS_Subset DEF ScoresOf
<1>4. \A s \in DOMAIN CollapseScores(Suspected) : s \in Services \ Excluded
  <2>1. \A s \in DOMAIN CollapseScores(Suspected) : \E pair \in DOMAIN Suspected : s = pair[2]
    BY <1>3, CollapsedStand
  <2> QED BY <1>1, <1>2, <1>3, <2>1 DEF ScoresOf
<1> QED BY <1>3, <1>4, CollapsedStand

\* Once there are scores, they are numbers, and so are onsets.
LEMMA DataStand ==
  ASSUME DataInv, stage \in {"scored", "walking", "ranked", "reported"}
  PROVE  ScoresOf(scores) /\ OnsetsOf(onsets)
<1>1. Samples \in Seq(Sample)
  BY InputAssumption DEF DataInv, Samples
<1>2. windows.incident.start \in Int
  <2>1. windows = ChooseWindows(input) /\ input \in Inputs
    BY DEF DataInv
  <2> QED BY <2>1, WindowsOfRecording
<1>3. /\ scores = ScoreServices(Samples, windows.baseline, windows.incident)
      /\ onsets = OnsetSeconds(Samples, windows.baseline, windows.incident)
  BY DEF DataInv
<1> QED BY <1>1, <1>2, <1>3, ScoresStand, OnsetsStand

-----------------------------------------------------------------------------
\* A recording is opened in this state.
LEMMA TriageInvInit == TriageInit => TriageInv
BY InputAssumption DEF TriageInit, TriageInv, DataInv, WalkInv, SaidInv, Stages, WalkStages

\* What is read of a recording, of scores and of the walk does not change by itself.
StayedPut ==
  /\ UNCHANGED <<input, scores>> =>
       Suspected' = Suspected /\ ServiceEdges' = ServiceEdges /\ Samples' = Samples /\ Moved' = Moved
  /\ UNCHANGED <<input, scores, onsets, rank>> =>
       /\ TopService' = TopService /\ TopAnomaly' = TopAnomaly
       /\ SaysNothingIsWrong' = SaysNothingIsWrong /\ SaidToMoveFirst' = SaidToMoveFirst

\* What is derived from the state changes only with it.
LEMMA PutStays == StayedPut
<1>1. ASSUME input' = input, scores' = scores
      PROVE  Suspected' = Suspected /\ ServiceEdges' = ServiceEdges /\ Samples' = Samples /\ Moved' = Moved
  <2>1. Suspected' = Suspected
    BY <1>1 DEF Suspected
  <2>2. ServiceEdges' = ServiceEdges
    BY <1>1 DEF ServiceEdges
  <2>3. Samples' = Samples
    BY <1>1 DEF Samples
  <2>4. Moved' = Moved
    BY <2>1 DEF Moved
  <2> QED BY <2>1, <2>2, <2>3, <2>4
<1>2. ASSUME input' = input, scores' = scores, onsets' = onsets, rank' = rank
      PROVE  /\ TopService' = TopService /\ TopAnomaly' = TopAnomaly
             /\ SaysNothingIsWrong' = SaysNothingIsWrong /\ SaidToMoveFirst' = SaidToMoveFirst
  <2>1. TopAnomaly' = TopAnomaly
    BY <1>1, <1>2 DEF TopAnomaly
  <2>2. SaysNothingIsWrong' = SaysNothingIsWrong
    BY <2>1 DEF SaysNothingIsWrong
  <2>3. SaidToMoveFirst' = SaidToMoveFirst
    BY <1>2 DEF SaidToMoveFirst
  <2>4. Candidates' = Candidates
    BY <1>2 DEF Candidates
  <2>5. Foremost' = Foremost
    BY <1>2, <2>4 DEF Foremost
  <2>6. TopService' = TopService
    BY <2>2, <2>4, <2>5 DEF TopService
  <2> QED BY <2>1, <2>2, <2>3, <2>6
<1> QED BY <1>1, <1>2 DEF StayedPut

\* Opening windows and scoring keep what each stage knows.
LEMMA ScoringKeeps ==
  ASSUME TriageInv, OpenWindows \/ Score
  PROVE  TriageInv'
<1>1. CASE OpenWindows
  <2>1. /\ stage = "opened" /\ stage' = "windowed" /\ windows' = ChooseWindows(input)
        /\ UNCHANGED <<input, passes, rank, restart>>
    BY <1>1 DEF OpenWindows, walkVars
  <2> QED BY <2>1 DEF TriageInv, DataInv, WalkInv, SaidInv, Stages, WalkStages
<1>2. CASE Score
  <2>1. /\ stage = "windowed" /\ stage' \in {"raised", "scored"}
        /\ UNCHANGED <<input, windows, passes, rank, restart>>
        /\ stage' = "raised" => Broad(windows.baseline) \/ Broad(windows.incident)
        /\ stage' = "scored" => /\ scores' = ScoreServices(Samples, windows.baseline, windows.incident)
                                /\ onsets' = OnsetSeconds(Samples, windows.baseline, windows.incident)
    BY <1>2 DEF Score, walkVars
  <2>2. Samples' = Samples /\ windows = ChooseWindows(input)
    BY <2>1 DEF Samples, TriageInv, DataInv
  <2>3. DataInv'
    BY <2>1, <2>2 DEF TriageInv, DataInv, Stages, Broad
  <2> QED BY <2>1, <2>3 DEF TriageInv, WalkInv, SaidInv, WalkStages
<1> QED BY <1>1, <1>2

\* A walk begins as it should, with the graph and without.
LEMMA StartKeeps ==
  ASSUME TriageInv, NEW useGraph \in BOOLEAN, StartWalk(useGraph)
  PROVE  TriageInv'
<1>. DEFINE used == IF useGraph THEN ServiceEdges ELSE <<>>
            anomalies == CollapseScores(Suspected)
<1>1. /\ stage = "scored" /\ stage' = (IF network'.nodes = {} THEN "ranked" ELSE "walking")
      /\ network' = Walked(used, anomalies)
      /\ restart' = RestartVector(network'.nodes, anomalies) /\ rank' = restart'
      /\ UNCHANGED <<input, windows, scores, onsets, passes>>
  BY DEF StartWalk, scoreVars
<1>2. ScoresOf(scores) /\ input \in Inputs
  BY <1>1, DataStand DEF TriageInv, DataInv
<1>3. /\ CallsOf(ServiceEdges) /\ IsFiniteSet(DOMAIN ServiceEdges) /\ EndsOf(ServiceEdges) \subseteq Services \ Excluded
      /\ AnomaliesOf(anomalies) /\ DOMAIN anomalies \subseteq Services \ Excluded
  BY <1>2, RecordedCalls, SuspectsStand
<1>4. used = ServiceEdges \/ used = <<>>
  OBVIOUS
<1>. HIDE DEF used, anomalies
<1>5. /\ WalkStands(network', restart', rank', ServiceEdges, MovedOf(anomalies))
      /\ network'.nodes # {} => Settles(network', restart', rank', 0)
  BY <1>1, <1>3, <1>4, WalkBegins
<1>6. Samples' = Samples /\ ServiceEdges' = ServiceEdges /\ Moved' = MovedOf(anomalies)
  BY <1>1, PutStays DEF StayedPut, Moved, anomalies
<1>7. passes = 0 /\ passes' = 0 /\ 0 < MaxIterations
  BY <1>1, InputAssumption DEF TriageInv, WalkInv
<1>8. DataInv'
  BY <1>1, <1>6 DEF TriageInv, DataInv, Stages
<1>9. WalkInv'
  BY <1>1, <1>5, <1>6, <1>7, InputAssumption DEF WalkInv, WalkStages
<1> QED BY <1>1, <1>8, <1>9 DEF TriageInv, SaidInv

\* One pass keeps the walk as it was, and settles or leaves some to make:
\* the last that is allowed settles.
LEMMA PassKeeps ==
  ASSUME TriageInv, Pass
  PROVE  TriageInv'
<1>. DEFINE next == NextRank(network, restart, rank)
            change == Change(rank, next)
<1>1. /\ stage = "walking" /\ passes' = passes + 1 /\ rank' = next
      /\ stage' = IF change[1] * Tolerance[2] < Tolerance[1] * change[2] THEN "ranked"
                  ELSE IF passes' = MaxIterations THEN "raised"
                  ELSE "walking"
      /\ UNCHANGED <<input, windows, scores, onsets, restart, network>>
  BY DEF Pass, scoreVars
<1>2. /\ WalkStands(network, restart, rank, ServiceEdges, Moved) /\ network.nodes # {}
      /\ Settles(network, restart, rank, passes) /\ passes \in Nat /\ passes < MaxIterations
      /\ input \in Inputs
  BY <1>1 DEF TriageInv, DataInv, WalkInv, WalkStages
<1>3. CallsOf(ServiceEdges)
  BY <1>2, RecordedCalls
<1>4. WalkStands(network, restart, next, ServiceEdges, Moved)
  BY <1>2, <1>3, WalkGoesOn
<1>5. Walking(network, restart, rank)
  BY <1>2 DEF WalkStands
<1>6. Settles(network, restart, next, passes + 1)
  BY <1>2, <1>5, WalksSettle
<1>7. passes + 1 = MaxIterations => change[1] * Tolerance[2] < Tolerance[1] * change[2]
  BY <1>2, <1>5, LastPassSettles
<1>. HIDE DEF next, change
<1>8. stage' \in {"ranked", "walking"} /\ (stage' = "walking" => passes' # MaxIterations)
  BY <1>1, <1>7
<1>9. passes' \in 0 .. MaxIterations /\ (stage' = "walking" => passes' < MaxIterations)
  BY <1>1, <1>2, <1>8, InputAssumption
<1>10. Samples' = Samples /\ ServiceEdges' = ServiceEdges /\ Moved' = Moved
  BY <1>1, PutStays DEF StayedPut
<1>11. DataInv'
  BY <1>1, <1>8, <1>10 DEF TriageInv, DataInv, Stages
<1>12. WalkInv'
  BY <1>1, <1>2, <1>4, <1>6, <1>8, <1>9, <1>10 DEF WalkInv, WalkStages
<1> QED BY <1>8, <1>11, <1>12 DEF TriageInv, SaidInv

\* A report says what was found, or is lost.
LEMMA ReportKeeps ==
  ASSUME TriageInv, BuildReport \/ LoseReport
  PROVE  TriageInv'
<1>. DEFINE told == /\ stage' = "reported" /\ ~ChangesRefused
                    /\ report'.named = TopService /\ report'.largest = TopAnomaly
                    /\ report'.movedFirst = IF SaysNothingIsWrong THEN Never ELSE SaidToMoveFirst
                    /\ report'.listed = Trusted(scores, 0)
<1>1. /\ stage = "ranked"
      /\ UNCHANGED <<input, windows, scores, onsets, network, restart, rank, passes>>
      /\ told \/ (stage' = "unreported" /\ ChangesRefused)
  <2>1. CASE BuildReport
    <3>1. told /\ stage = "ranked" /\ UNCHANGED <<input, scoreVars, walkVars>>
      BY <2>1 DEF BuildReport
    <3> QED BY <3>1 DEF scoreVars, walkVars
  <2>2. CASE LoseReport
    BY <2>2 DEF LoseReport, scoreVars, walkVars
  <2> QED BY <2>1, <2>2
<1>2. /\ Samples' = Samples /\ ServiceEdges' = ServiceEdges /\ Moved' = Moved
      /\ TopService' = TopService /\ TopAnomaly' = TopAnomaly
      /\ SaysNothingIsWrong' = SaysNothingIsWrong /\ SaidToMoveFirst' = SaidToMoveFirst
      /\ ChangesRefused' = ChangesRefused
  BY <1>1, PutStays DEF StayedPut, ChangesRefused, Broad
<1>3. DataInv'
  BY <1>1, <1>2 DEF TriageInv, DataInv, Stages
<1>4. WalkInv'
  BY <1>1, <1>2 DEF TriageInv, WalkInv, WalkStages
<1>5. SaidInv'
  BY <1>1, <1>2 DEF SaidInv
<1> QED BY <1>3, <1>4, <1>5 DEF TriageInv

\* Every step of triage keeps what each stage knows.
LEMMA TriageInvStep == TriageInv /\ [TriageNext]_triageVars => TriageInv'
<1>. SUFFICES ASSUME TriageInv, [TriageNext]_triageVars PROVE TriageInv'
  OBVIOUS
<1>1. CASE UNCHANGED triageVars
  <2>1. UNCHANGED <<input, stage, windows, scores, onsets, network, restart, rank, passes, report>>
    BY <1>1 DEF triageVars, scoreVars, walkVars
  <2>2. /\ Samples' = Samples /\ ServiceEdges' = ServiceEdges /\ Moved' = Moved
        /\ TopService' = TopService /\ TopAnomaly' = TopAnomaly
        /\ SaysNothingIsWrong' = SaysNothingIsWrong /\ SaidToMoveFirst' = SaidToMoveFirst
        /\ ChangesRefused' = ChangesRefused
    BY <2>1, PutStays DEF StayedPut, ChangesRefused, Broad
  <2>3. DataInv'
    BY <2>1, <2>2 DEF TriageInv, DataInv, Broad
  <2>4. WalkInv'
    BY <2>1, <2>2 DEF TriageInv, WalkInv, WalkStages
  <2>5. SaidInv'
    BY <2>1, <2>2 DEF TriageInv, SaidInv
  <2> QED BY <2>3, <2>4, <2>5 DEF TriageInv
<1> QED BY <1>1, ScoringKeeps, StartKeeps, PassKeeps, ReportKeeps DEF TriageNext

\* What each stage knows, always.
LEMMA TriageInvHolds == TriageSpec => []TriageInv
BY TriageInvInit, TriageInvStep, PTL DEF TriageSpec

\* Of finitely many with numbers somebody has the least.
LEMMA SomebodyIsLeast ==
  ASSUME NEW S, IsFiniteSet(S), S # {}, NEW f, \A x \in S : f[x] \in Int
  PROVE  \E x \in S : \A y \in S : f[x] <= f[y]
<1>. DEFINE T == {f[x] : x \in S}
<1>1. IsFiniteSet(T) /\ T \subseteq Int
  BY ValuesAreFinite
<1>2. T # {} /\ \A y \in S : f[y] \in T
  OBVIOUS
<1>3. \A t \in T : \E x \in S : t = f[x]
  OBVIOUS
<1>. HIDE DEF T
<1>4. Min(T) \in T /\ \A y \in T : Min(T) <= y
  BY <1>1, <1>2, MinIsSmallest
<1>5. PICK x \in S : Min(T) = f[x]
  BY <1>3, <1>4
<1> QED BY <1>2, <1>4, <1>5

\* Whoever leads has a share, as the onset bonus takes nothing away
\* (rank_candidates).
LEMMA LeaderHasAShare ==
  ASSUME NEW nodes, IsFiniteSet(nodes), nodes # {}, nodes \subseteq Services, NEW p, Spread(p, nodes),
         NEW on
  PROVE  Leading(p, on, nodes) \in nodes /\ p.parts[Leading(p, on, nodes)] > 0
<1>. DEFINE lead == Leading(p, on, nodes)
            bonus(n) == IF StartedFirst(on, n) THEN OnsetBonus[1] ELSE OnsetBonus[2]
            s(n) == Suspicion(p, on, n)
<1>1. \A n : bonus(n) \in Nat /\ bonus(n) > 0
  <2>1. OnsetBonus \in Nat \X (Nat \ {0}) /\ OnsetBonus[1] >= OnsetBonus[2]
    BY TriageAssumption DEF TriageAssumption
  <2>2. OnsetBonus[1] \in Nat /\ OnsetBonus[2] \in Nat /\ OnsetBonus[2] > 0 /\ OnsetBonus[1] > 0
    BY <2>1
  <2> QED BY <2>2
<1>2. \A n \in nodes : p.parts[n] \in Nat
  BY DEF Spread
<1>3. \A n \in nodes : s(n) = p.parts[n] * bonus(n)
  BY DEF Suspicion
<1>. HIDE DEF bonus, s
<1>4. \A n \in nodes : s(n) \in Int /\ (s(n) > 0 <=> p.parts[n] > 0)
  <2>1. \A a, b \in Nat : b > 0 => a * b \in Int /\ (a * b > 0 <=> a > 0)
    <3>1. ASSUME NEW a \in Nat, NEW b \in Nat, b > 0 PROVE a * b \in Int /\ (a * b > 0 <=> a > 0)
      <4>1. CASE a = 0
        BY <3>1, <4>1
      <4>2. CASE a > 0
        <5>1. a * b \in Int
          OBVIOUS
        <5>2. a * b > 0
          BY <3>1, <4>2
        <5> QED BY <4>2, <5>1, <5>2
      <4> QED BY <4>1, <4>2
    <3> QED BY <3>1
  <2> QED BY <1>1, <1>2, <1>3, <2>1
<1>5. lead \in nodes /\ \A n \in nodes : s(n) <= s(lead)
  <2>1. \A n \in nodes : Suspicion(p, on, n) \in Int
    BY <1>4 DEF s
  <2> QED BY <2>1, LeadingLeads DEF s
<1>6. PICK n \in nodes : p.parts[n] > 0
  <2>1. SUFFICES ASSUME \A n \in nodes : p.parts[n] = 0 PROVE FALSE
    BY <1>2
  <2>2. SumFunctionOnSet(p.parts, nodes) = 0
    BY <2>1, SumOfZeros
  <2> QED BY <2>2 DEF Spread, Positive
<1>. HIDE DEF lead
<1>7. s(n) > 0 /\ s(n) <= s(lead) /\ s(n) \in Int /\ s(lead) \in Int
  BY <1>4, <1>5, <1>6
<1>8. p.parts[lead] > 0
  BY <1>4, <1>5, <1>7
<1> QED BY <1>5, <1>8 DEF lead

-----------------------------------------------------------------------------
(* What triage owes, from what each stage knows *)

\* The state is well formed.
LEMMA TriageIsTyped == TriageInv => TriageTypeOK
<1>. SUFFICES ASSUME TriageInv PROVE TriageTypeOK
  OBVIOUS
<1>1. \A w \in {windows.baseline, windows.incident} : w.start <= w.end
  <2>1. CASE stage = "opened"
    BY <2>1 DEF TriageInv, DataInv, Window
  <2>2. CASE stage # "opened"
    BY <2>2, WindowsOfRecording DEF TriageInv, DataInv
  <2> QED BY <2>1, <2>2
<1>2. /\ DOMAIN rank.parts = DOMAIN restart.parts
      /\ stage \in {"walking", "ranked"} => DOMAIN rank.parts = network.nodes
  <2>1. CASE stage \in WalkStages
    BY <2>1 DEF TriageInv, WalkInv, WalkStands, WalkStages
  <2>2. CASE stage \notin WalkStages
    BY <2>2 DEF TriageInv, DataInv, WalkInv, Stages, WalkStages
  <2> QED BY <2>1, <2>2
<1> QED BY <1>1, <1>2 DEF TriageInv, DataInv, WalkInv, TriageTypeOK, Stages, WalkStages

\* The baseline ends a guard before the incident begins, unless the
\* recording is too short for it: the share is rounded down, and an alert
\* anchors the incident only where there is room before it
\* (choose_windows).
LEMMA WindowsAreApart == TriageInv => WindowsApart
<1>. SUFFICES ASSUME TriageInv, stage # "opened"
             PROVE  /\ windows.baseline.start = input.start /\ windows.incident.end = input.end
                    /\ \/ windows.baseline.end + GuardSeconds = windows.incident.start
                       \/ /\ windows.baseline.end = input.start
                          /\ (input.end - input.start) * BaselineThirds[1] < (GuardSeconds + 1) * BaselineThirds[2]
  BY DEF WindowsApart
<1> QED BY WindowsOfRecording DEF TriageInv, DataInv

\* The shares of suspicion add up (personalised_pagerank).
LEMMA RankIsSpread == TriageInv => RankIsADistribution
<1>. SUFFICES ASSUME TriageInv PROVE RankIsADistribution
  OBVIOUS
<1>1. CASE DOMAIN rank.parts = {} /\ rank.of = 0
  BY <1>1, SumOfNothing DEF RankIsADistribution, Candidates
<1>2. CASE stage \notin WalkStages
  <2>1. rank = NoShares
    BY <1>2 DEF TriageInv, DataInv, WalkInv, Stages, WalkStages
  <2>2. DOMAIN rank.parts = {} /\ rank.of = 0
    BY <2>1 DEF NoShares
  <2> QED BY <1>1, <2>2
<1>3. CASE stage \in WalkStages
  <2>1. WalkStands(network, restart, rank, ServiceEdges, Moved)
    BY <1>3 DEF TriageInv, WalkInv, WalkStages
  <2>2. CASE network.nodes = {}
    BY <1>1, <2>1, <2>2 DEF WalkStands
  <2>3. CASE network.nodes # {}
    <3>1. Spread(rank, network.nodes) /\ DOMAIN rank.parts = network.nodes
      BY <2>1, <2>3 DEF WalkStands, Walking
    <3>2. \A n \in DOMAIN rank.parts : rank.parts[n] \in Nat
      BY <3>1 DEF Spread
    <3> QED BY <3>1, <3>2 DEF RankIsADistribution, Spread, Positive
  <2> QED BY <2>2, <2>3
<1> QED BY <1>2, <1>3

\* Who is named moved, or is called by somebody that did.
LEMMA NamedExplains == TriageInv => NamedIsImplicated
<1>. SUFFICES ASSUME TriageInv, stage = "reported", report.named # Never
             PROVE  /\ report.named \notin Excluded
                    /\ report.largest >= MinimumTopAnomaly
                    /\ Moved # {} /\ BackwardRatio[1] = 0 =>
                         Moved \cap Callers(ServiceEdges, report.named) # {}
  BY DEF NamedIsImplicated, Moved, MovedOf, Callers
<1>1. /\ report.named = TopService /\ report.largest = TopAnomaly
      /\ WalkStands(network, restart, rank, ServiceEdges, Moved)
  BY DEF TriageInv, SaidInv, WalkInv, WalkStages
<1>2. ~SaysNothingIsWrong /\ Candidates # {} /\ report.named = Foremost
  BY <1>1 DEF TopService
<1>3. report.largest >= MinimumTopAnomaly
  <2>1. TopAnomaly \in Nat
    <3>1. ScoresOf(Suspected)
      BY DataStand, SuspectsStand DEF TriageInv
    <3>2. Trusted(Suspected, 0) \subseteq DOMAIN Suspected
      BY DEF Trusted
    <3> QED BY <3>1, <3>2, LargestStands DEF TopAnomaly
  <2>2. ~(TopAnomaly < MinimumTopAnomaly) /\ MinimumTopAnomaly \in Nat
    BY <1>2, TriageAssumption DEF SaysNothingIsWrong, TriageAssumption
  <2> QED BY <1>1, <2>1, <2>2
<1>4. Candidates = network.nodes /\ network.nodes # {} /\ network.nodes \subseteq Services \ Excluded
  BY <1>1, <1>2 DEF Candidates, WalkStands
<1>5. Spread(rank, network.nodes) /\ IsFiniteSet(network.nodes)
  BY <1>1, <1>4 DEF WalkStands, Walking, Weighted
<1>6. Foremost \in network.nodes /\ rank.parts[Foremost] > 0
  <2>1. Foremost = Leading(rank, onsets, network.nodes)
    BY <1>4 DEF Foremost
  <2>2. network.nodes \subseteq Services
    BY <1>4
  <2> QED BY <1>4, <1>5, <2>1, <2>2, LeaderHasAShare
<1>7. Moved # {} /\ BackwardRatio[1] = 0 => Moved \cap Callers(ServiceEdges, Foremost) # {}
  BY <1>1, <1>6 DEF WalkStands
<1> QED BY <1>2, <1>3, <1>4, <1>6, <1>7

\* Somebody moved first, if not everybody moved at once, and is who the
\* report says did (_onset_sentence).
LEMMA FirstMovers ==
  ASSUME OnsetsOf(onsets), SaidToMoveFirst # Never
  PROVE  StartedFirst(onsets, SaidToMoveFirst)
<1>. DEFINE D == DOMAIN onsets
            first == {s \in D : \A t \in D : onsets[s] <= onsets[t]}
            place == [s \in first |-> SortPlace(s)]
<1>1. first # D /\ SaidToMoveFirst = CHOOSE s \in first : \A t \in first : SortPlace(s) <= SortPlace(t)
  BY DEF SaidToMoveFirst
<1>2. IsFiniteSet(D) /\ D # {} /\ \A s \in D : onsets[s] \in Int
  BY <1>1, ServicesAreFinite, FS_Subset DEF OnsetsOf
<1>3. first # {}
  <2>1. \E s \in D : \A t \in D : onsets[s] <= onsets[t]
    BY <1>2, SomebodyIsLeast
  <2> QED BY <2>1
<1>4. \A s \in first : place[s] \in Int /\ place[s] = SortPlace(s)
  <2>1. \A s \in first : s \in ToSet(ServiceOrder)
    BY DEF OnsetsOf, Services
  <2> QED BY <2>1, PlacesOfServices
<1>5. IsFiniteSet(first)
  BY <1>2, FS_Subset
<1>6. \A s \in first : StartedFirst(onsets, s)
  BY DEF StartedFirst
<1>. HIDE DEF first, place
<1>7. \E s \in first : \A t \in first : place[s] <= place[t]
  BY <1>3, <1>4, <1>5, SomebodyIsLeast
<1>8. \E s \in first : \A t \in first : SortPlace(s) <= SortPlace(t)
  BY <1>4, <1>7
<1> QED BY <1>1, <1>6, <1>8

\* The first suspect to move is helped, unless something that is none
\* moved before it.
LEMMA FirstAreHelped == TriageInv => FirstToMoveIsHelped
<1>. SUFFICES ASSUME TriageInv PROVE FirstToMoveIsHelped
  OBVIOUS
<1>1. ASSUME stage = "ranked", NEW s \in DOMAIN onsets \cap Candidates,
             \A t \in DOMAIN onsets \cap Candidates : onsets[s] <= onsets[t]
      PROVE  StartedFirst(onsets, s) \/ \E x \in DOMAIN onsets \ Candidates : onsets[x] < onsets[s]
  <2>1. \A t \in DOMAIN onsets : onsets[t] \in Int
    BY <1>1, DataStand DEF TriageInv, OnsetsOf
  <2> QED BY <1>1, <2>1 DEF StartedFirst
<1>2. ASSUME stage = "reported", report.movedFirst \in Candidates
      PROVE  StartedFirst(onsets, report.movedFirst)
  <2>1. OnsetsOf(onsets)
    BY <1>2, DataStand DEF TriageInv
  <2>2. /\ report.movedFirst = IF SaysNothingIsWrong THEN Never ELSE SaidToMoveFirst
        /\ WalkStands(network, restart, rank, ServiceEdges, Moved)
    BY <1>2 DEF TriageInv, SaidInv, WalkInv, WalkStages
  <2>3. Candidates \subseteq Services
    BY <2>2 DEF Candidates, WalkStands
  <2>4. report.movedFirst # Never
    BY <1>2, <2>3, TelemetryAssumption DEF Services
  <2> QED BY <2>1, <2>2, <2>4, FirstMovers
<1> QED BY <1>1, <1>2 DEF FirstToMoveIsHelped

\* The largest anomaly of suspects is the largest of all that is cited, or
\* a larger one is of no suspect (build_b0_report).
LEMMA FindingsMatch == TriageInv => FindingMatchesEvidence
<1>. SUFFICES ASSUME TriageInv, stage = "reported", report.largest # Largest(scores, report.listed)
             PROVE  \E pair \in report.listed : pair[2] \in Excluded /\ scores[pair].score > report.largest
  BY DEF FindingMatchesEvidence
<1>. DEFINE mine == Trusted(Suspected, 0)
            all == Trusted(scores, 0)
<1>1. report.largest = Largest(Suspected, mine) /\ report.listed = all
  BY DEF TriageInv, SaidInv, TopAnomaly
<1>2. ScoresOf(scores) /\ ScoresOf(Suspected)
  BY DataStand, SuspectsStand DEF TriageInv
<1>3. mine \subseteq DOMAIN Suspected /\ all \subseteq DOMAIN scores
  BY DEF Trusted
<1>4. /\ \A pair \in mine : pair \in all /\ Suspected[pair].score = scores[pair].score
      /\ \A pair \in all : pair[2] \notin Excluded => pair \in mine /\ Suspected[pair].score = scores[pair].score
  BY DEF Trusted, Suspected
<1>. HIDE DEF mine, all
<1>. DEFINE a == Largest(Suspected, mine)
            b == Largest(scores, all)
<1>5. /\ a \in Nat
      /\ mine # {} => \E pair \in mine : a = Suspected[pair].score
      /\ mine = {} => a = 0
      /\ \A pair \in mine : Suspected[pair].score <= a
  BY <1>2, <1>3, LargestStands
<1>6. /\ b \in Nat
      /\ all # {} => \E pair \in all : b = scores[pair].score
      /\ all = {} => b = 0
      /\ \A pair \in all : scores[pair].score <= b
  BY <1>2, <1>3, LargestStands
<1>. HIDE DEF a, b
<1>7. a <= b /\ a # b
  <2>1. a # b
    BY <1>1 DEF a, b
  <2>2. CASE mine = {}
    BY <1>5, <1>6, <2>1, <2>2
  <2>3. CASE mine # {}
    BY <1>4, <1>5, <1>6, <2>1, <2>3
  <2> QED BY <2>2, <2>3
<1>8. all # {}
  BY <1>5, <1>6, <1>7
<1>9. PICK pair \in all : b = scores[pair].score
  BY <1>6, <1>8
<1>10. scores[pair].score > a
  BY <1>5, <1>6, <1>7, <1>9
<1>11. pair[2] \in Excluded
  BY <1>4, <1>5, <1>6, <1>9, <1>10
<1> QED BY <1>1, <1>10, <1>11 DEF a

\* For every recording, what triage answers is earned.  Its windows do not
\* overlap; it raises, or loses its report, only for a window too broad for
\* a query, and never for a walk that does not settle; the walk is a
\* distribution after every pass, whatever the graph has of dangling
\* nodes, self loops and backward edges; who is named moved, or is called,
\* directly or through others, by a service that did; the onset bonus goes
\* to whoever the report says moved first; and the largest anomaly it
\* speaks of is the largest it cites, unless a larger one is of no suspect
\* (triage_bundle, personalised_pagerank, rank_candidates,
\* build_b0_report).
THEOREM AnswersAreEarned == TriageSpec => []AnswerIsEarned
<1>1. TriageInv => OnlyBroadWindowsRaise
  BY DEF TriageInv, DataInv, SaidInv, OnlyBroadWindowsRaise, ChangesRefused
<1>2. TriageInv => AnswerIsEarned
  BY <1>1, TriageIsTyped, WindowsAreApart, RankIsSpread, NamedExplains, FirstAreHelped, FindingsMatch
     DEF AnswerIsEarned
<1> QED BY <1>2, TriageInvHolds, PTL

\* For every recording, what the tools make of its samples, calls and
\* spans is what its definition says.  A cap on series takes whole ones
\* from the end and at most one in part; compare_windows gives the score
\* the ranking used unless a cap cut rows off; a walk over calls meets
\* each service at its distance, and upstream everyone with a path to it;
\* a critical path takes the longest child at every span, none twice, down
\* to a leaf; and self times add up to what the roots took
\* (metric_series, compare_windows, _walk, critical_path, self_times_ms).
THEOREM ReadingsStand == TriageSpec => []ReadingsAreExact
<1>1. TriageInv => ReadingsAreExact
  <2>. SUFFICES ASSUME TriageInv PROVE ReadingsAreExact
    OBVIOUS
  <2>1. /\ Samples \in Seq(Sample) /\ input.edges \in Seq(CallEdge)
        /\ OwnIds(input.spans)
    BY InputAssumption DEF TriageInv, DataInv, Samples, OwnIds
  <2>2. TruncationLosesTheLast
    <3>. SUFFICES ASSUME NEW metric \in Metrics, NEW window \in {windows.baseline, windows.incident}
        PROVE  LET rows == RowsIn(Samples, metric, window, {})
                   read == MetricSeries(Samples, metric, window, {})
               IN /\ read = rows \/ Cardinality(read) = MaxSeriesPoints
                  /\ \A k \in read, l \in rows \ read :
                       IF Samples[k].service = Samples[l].service THEN Samples[k].at <= Samples[l].at
                       ELSE SortPlace(Samples[k].service) < SortPlace(Samples[l].service)
      BY DEF TruncationLosesTheLast
    <3>. DEFINE rows == RowsIn(Samples, metric, window, {})
               read == MetricSeries(Samples, metric, window, {})
    <3>1. /\ read \subseteq rows
          /\ read = rows \/ Cardinality(read) = MaxSeriesPoints
          /\ \A k \in read, l \in rows \ read : ServiceFirst(Samples, k, l)
      BY <2>1, SeriesKept
    <3>2. ASSUME NEW k \in read, NEW l \in rows \ read
          PROVE  IF Samples[k].service = Samples[l].service THEN Samples[k].at <= Samples[l].at
                 ELSE SortPlace(Samples[k].service) < SortPlace(Samples[l].service)
      <4>1. ServiceFirst(Samples, k, l)
        BY <3>1
      <4>2. k \in DOMAIN Samples /\ l \in DOMAIN Samples
        BY <3>1 DEF RowsIn
      <4>3. Samples[k] \in Sample /\ Samples[l] \in Sample
        BY <2>1, <4>2
      <4>4. /\ Samples[k].at \in Int /\ Samples[l].at \in Int
            /\ Samples[k].service \in ToSet(ServiceOrder) /\ Samples[l].service \in ToSet(ServiceOrder)
        BY <4>3 DEF Sample
      <4>5. SortPlace(Samples[k].service) \in Nat /\ SortPlace(Samples[l].service) \in Nat
        BY <4>4, PlacesOfServices
      <4> QED BY <4>1, <4>4, <4>5 DEF ServiceFirst
    <3> QED BY <3>1, <3>2
  <2>3. ComparisonAgrees
    <3>. SUFFICES ASSUME stage = "scored", NEW pair \in DOMAIN scores,
                        ~ \E w \in {windows.baseline, windows.incident} :
                            \/ Cardinality(RowsIn(Samples, pair[1], w, {pair[2]})) > MaxRows
                            \/ Cardinality(RowsIn(Samples, pair[1], w, {})) > MaxSeriesPoints
        PROVE  CompareWindows(Samples, pair[1], pair[2], windows.baseline, windows.incident) = scores[pair]
      BY DEF ComparisonAgrees
    <3>1. scores = ScoreServices(Samples, windows.baseline, windows.incident)
      BY DEF TriageInv, DataInv
    <3>2. ASSUME NEW w \in {windows.baseline, windows.incident}
          PROVE  /\ Cardinality(RowsIn(Samples, pair[1], w, {pair[2]})) <= MaxRows
                 /\ Cardinality(RowsIn(Samples, pair[1], w, {})) <= MaxSeriesPoints
      <4>1. /\ Cardinality(RowsIn(Samples, pair[1], w, {pair[2]})) \in Nat
            /\ Cardinality(RowsIn(Samples, pair[1], w, {})) \in Nat
        <5>1. \A services : RowsIn(Samples, pair[1], w, services) \subseteq DOMAIN Samples
          BY DEF RowsIn
        <5> QED BY <2>1, <5>1, PlacesAreFinite, FS_CardinalityType
      <4> QED BY <4>1, SearchAssumption, TelemetryAssumption
    <3>3. CompareWindows(Samples, pair[1], pair[2], windows.baseline, windows.incident)
            = ScoreServices(Samples, windows.baseline, windows.incident)[pair]
      <4>1. pair \in DOMAIN ScoreServices(Samples, windows.baseline, windows.incident)
        BY <3>1
      <4> QED BY <2>1, <3>2, <4>1, ComparisonsStand, Zenon
    <3> QED BY <3>1, <3>3
  <2>4. WalksReachTheirBall
    <3>. SUFFICES ASSUME NEW s \in Services
        PROVE  /\ TransitiveUpstream(input.edges, s) =
                    {t \in Services \ {s} : \E k \in 1 .. Cardinality(Services) : Connects(input.edges, k, t, s)}
               /\ \A depth \in Nat :
                    {<<row[2], row[3]>> : row \in Walk(input.edges, s, "downstream", depth)} =
                      {met \in (Services \ {s}) \X (1 .. depth) :
                         /\ Connects(input.edges, met[2], s, met[1])
                         /\ \A k \in 1 .. met[2] - 1 : ~Connects(input.edges, k, s, met[1])}
      <4>1. \A depth \in 1 .. 3 : depth \in Nat
        OBVIOUS
      <4> QED BY <4>1 DEF WalksReachTheirBall
    <3>1. CallsOf(input.edges)
      BY <2>1 DEF CallsOf
    <3> QED BY <3>1, WalksStand
  <2>5. TimeIsAccountedFor
    <3>. DEFINE path == CriticalPath(input.spans)
    <3>1. /\ (path = <<>>) <=> (Roots(input.spans) = {})
          /\ path # <<>> => /\ Follows(input.spans, path)
                            /\ Len(path) > MaxPathSpans \/ ChildrenOf(input.spans, Last(path)) = {}
      BY <2>1, PathsStand
    <3>2. Fits(input.spans) =>
            SumFunction([s \in input.spans |-> SelfTime(input.spans, s)])
              = SumFunctionOnSet(Took(input.spans), Roots(input.spans))
      BY <2>1, SelfTimesStand
    <3>3. path # <<>> => IsInjective(path)
      BY <3>1 DEF Follows, IsInjective
    <3>4. path # <<>> =>
            /\ path[1] \in Roots(input.spans)
            /\ \A k \in 2 .. Len(path) :
                 /\ path[k] \in ChildrenOf(input.spans, path[k - 1])
                 /\ \A s \in ChildrenOf(input.spans, path[k - 1]) : s.ms <= path[k].ms
      BY <3>1 DEF Follows
    <3>. HIDE DEF path
    <3> QED BY <3>1, <3>2, <3>3, <3>4 DEF TimeIsAccountedFor, Fits, path
  <2> QED BY <2>2, <2>3, <2>4, <2>5 DEF ReadingsAreExact
<1> QED BY <1>1, TriageInvHolds, PTL

\* For every recording, service, severity and limit, what a search of its
\* lines or traces answers is what was recorded, but for what its limit
\* hid and the ties its order leaves: an error that top_error_signatures
\* does not count is behind as many newer lines as a search may return,
\* two answers differ in lines of one moment only, and a trace that
\* find_traces leaves out has no slower span than one it gives.
THEOREM SearchesStand == TriageSpec => []SearchesAreExact
<1>1. TriageInv => SearchesAreExact
  <2>. SUFFICES ASSUME TriageInv PROVE SearchesAreExact
    OBVIOUS
  <2>1. input.logs \in Seq(LogLine) /\ input.calls \in Seq(CallSpan)
    BY InputAssumption DEF TriageInv, DataInv
  <2>2. SignaturesMissOnlyTheHidden
    <3>. SUFFICES ASSUME NEW service \in Asked, NEW found \in TopErrorSignatures(input.logs, Whole(input), service)
        PROVE  LET lines  == LinesIn(input.logs, Whole(input), service, Anything)
                   errors == ErrorsIn(input.logs, lines)
                   hidden == HiddenIn(input.logs, lines)
               IN /\ \A t \in DOMAIN found :
                       /\ found[t].count <= Cardinality(TemplateOf(input.logs, errors, t))
                       /\ found[t].count + Cardinality(TemplateOf(input.logs, hidden, t)) >= Cardinality(TemplateOf(input.logs, errors, t))
                       /\ TemplateOf(input.logs, hidden, t) = {} =>
                            \A k \in TemplateOf(input.logs, errors, t) : found[t].first <= input.logs[k].at
                  /\ found = <<>> => errors = hidden
      BY DEF SignaturesMissOnlyTheHidden, ErrorsIn, HiddenIn, TemplateOf
    <3>1. PICK kept \in SearchLogs(input.logs, Whole(input), service, Anything, MaxRows) :
            found = Clusters(input.logs, ErrorsIn(input.logs, kept))
      BY DEF TopErrorSignatures, ErrorsIn
    <3>2. found = <<>> => DOMAIN found = {}
      OBVIOUS
    <3> QED BY <2>1, <3>1, <3>2, SignaturesStand
  <2>3. SearchesDifferInTiesOnly
    BY <2>1, TiesOnly DEF SearchesDifferInTiesOnly
  <2>4. OmittedTracesAreFaster
    <3>. SUFFICES ASSUME NEW limit \in 1 .. MaxRows, NEW traces \in FindTraces(input.calls, Anything, limit)
        PROVE  LET all == TracesIn(input.calls, DOMAIN input.calls)
               IN /\ \A t \in traces, u \in all \ traces : SlowestIn(input.calls, u) <= SlowestIn(input.calls, t)
                  /\ traces # {} \/ all = {}
                  /\ Len(input.calls) <= limit =>
                       Cardinality(traces) = IF Cardinality(all) < TopTraces THEN Cardinality(all) ELSE TopTraces
      BY DEF OmittedTracesAreFaster, TracesIn, SlowestIn
    <3>1. PICK kept \in FindSpans(input.calls, Anything, limit) : traces = Representative(input.calls, kept)
      BY DEF FindTraces
    <3> QED BY <2>1, <3>1, TracesStand
  <2> QED BY <2>2, <2>3, <2>4 DEF SearchesAreExact
<1> QED BY <1>1, TriageInvHolds, PTL


-----------------------------------------------------------------------------
(* The label store and the evaluation commands: what is invariant *)

Paths == {Recorder(s) : s \in Scenarios} \cup {Promoted(i) : i \in Incidents}

ScenarioNames == Scenarios \cup Named \cup {Promoted(i) : i \in Incidents}

\* A label file is about the incident its path names, and the recorder's
\* says what the library says.
LabelsInv ==
  \A p \in DOMAIN labels :
    /\ p \in Paths
    /\ labels[p].state \in {"open", "torn", "whole"}
    /\ labels[p].label.bundle = p[2]
    /\ labels[p].label.split \in Splits
    /\ labels[p].label.scenario \in ScenarioNames
    /\ \A s \in Scenarios : p = Recorder(s) => labels[p].label = RecorderLabel(s)

StoreInv ==
  /\ feedback \in Seq(Answers \cup {Torn})
  /\ bundles \subseteq Incidents
  /\ LabelsInv

-----------------------------------------------------------------------------
Learned(i) == (i \in Scenarios => Library[i].split = "train") \/ Promoted(i) \in DOMAIN labels

Copies(i) == {k \in DOMAIN memory : memory[k].incident = i}

Racing(i) == {l \in Learners : admitting[l] # Nothing /\ admitting[l].incident = i}

\* What is in memory or on its way there was admitted from a train label;
\* an incident is there as often as processes took it for absent, less
\* those that have still to append.
MemoryInv ==
  /\ memory \in Seq(Entry)
  /\ admitting \in [Learners -> Entry \cup {Nothing}]
  /\ \A k \in DOMAIN memory : Learned(memory[k].incident)
  /\ \A l \in Learners : admitting[l] # Nothing => Learned(admitting[l].incident)
  /\ \A i \in Incidents :
       /\ IsFiniteSet(Copies(i))
       /\ Cardinality(Copies(i)) + Cardinality(Racing(i)) <= Cardinality(Learners)

-----------------------------------------------------------------------------
SoundJobs == {j \in Jobs : j.configs # << >> /\ (j.kind = "optimize" => j.split = AllowedSplit)}

\* A job measures one side for each of its configurations, then finishes;
\* a comparison only finishes.
JobInv ==
  /\ todo \in [jobs: Seq(SoundJobs), stores: Nat, trees: Nat]
  /\ job \in SoundJobs \/ (job = NoJob /\ at = "idle" /\ sides = << >> /\ trials = << >>)
  /\ at \in {"idle", "collect", "grade", "cover", "finish"}
  /\ sides \in Seq(Range(sides))
  /\ Len(sides) <= Len(job.configs)
  /\ at \in {"collect", "grade", "cover"} => Len(sides) < Len(job.configs) /\ job.kind # "compare"
  /\ at = "finish" /\ job.kind # "compare" => Len(sides) = Len(job.configs)
  /\ tree \in [commit: Int, dirty: BOOLEAN]
  /\ moved \subseteq {"store", "tree"}
  /\ at # "idle" /\ "tree" \notin moved => code = tree

-----------------------------------------------------------------------------
\* A bundle is measured against the answer it has: a recording against its
\* scenario's unless it was promoted, a fixture against its scenario's.
Truthful(b, label) ==
  \/ b \in Incidents /\ Promoted(b) \in DOMAIN labels
  \/ b \in Scenarios /\ label = RecorderLabel(b)
  \/ \E s \in Scenarios : b = Fixture(s) /\ label = SyntheticLabel(s)

Measured(t, split, isReal) ==
  /\ t.bundle \in Incidents <=> isReal
  /\ t.label.split = split
  /\ Truthful(t.bundle, t.label)

OneLabelEach(ts) == \A j, k \in DOMAIN ts : ts[j].bundle = ts[k].bundle => ts[j].label = ts[k].label

Sound(ts, split, isReal) ==
  /\ ts \in Seq(Range(ts))
  /\ \A k \in DOMAIN ts : Measured(ts[k], split, isReal)
  /\ OneLabelEach(ts)

SidesInv ==
  \A n \in DOMAIN sides :
    /\ sides[n].split = job.split
    /\ sides[n].real \in BOOLEAN
    /\ sides[n].total = Total(job.split)
    /\ Sound(sides[n].trials, sides[n].split, sides[n].real)

\* What is still to try is on the shelf, each place its own bundle; what
\* was tried already was tried against the same answer.
TasksInv ==
  /\ real \in BOOLEAN
  /\ DOMAIN tasks \subseteq DOMAIN Shelf
  /\ at = "grade" => DOMAIN tasks # {}
  /\ at = "cover" => DOMAIN tasks = {}
  /\ at \in {"grade", "cover"} =>
       /\ Sound(trials, job.split, real)
       /\ \A k \in DOMAIN tasks :
            /\ Measured(tasks[k], job.split, real)
            /\ tasks[k].bundle = IF real THEN Shelf[k] ELSE Fixture(Shelf[k])
            /\ \A n \in DOMAIN trials : trials[n].bundle = tasks[k].bundle => trials[n].label = tasks[k].label

OptimisedInv == job.kind = "optimize" => \A k \in DOMAIN trials : Learned(trials[k].bundle)

MeasureInv == SidesInv /\ TasksInv /\ OptimisedInv

-----------------------------------------------------------------------------
ReportWhole(r) ==
  LET wanted == {s \in Scenarios : Library[s].split = r.split}
      evaluated == {r.truth[b].scenario : b \in DOMAIN r.truth}
  IN r.quotable => /\ DOMAIN r.truth \subseteq Incidents
                   /\ wanted \subseteq evaluated \/ ~(evaluated \subseteq wanted)

StampedAt(p, r) ==
  /\ <<p[3], p[4]>> = <<r.stamp.commit, r.stamp.dirty>>
  /\ "tree" \notin r.during => <<p[3], p[4]>> = <<r.code.commit, r.code.dirty>>

SoundReport(r) ==
  /\ DOMAIN r.graded = DOMAIN r.truth
  /\ \A b \in DOMAIN r.truth : r.truth[b].split = r.split /\ Truthful(b, r.truth[b])

\* A report says what the side it was made of says, and a comparison is of
\* two reports on disk.
ReportsInv ==
  /\ \A p \in DOMAIN reports : ReportWhole(reports[p]) /\ StampedAt(p, reports[p]) /\ SoundReport(reports[p])
  /\ \A f \in DOMAIN newest : newest[f] \in DOMAIN reports
  /\ verdict.said = "compared" => \A g \in Graders : \A b \in verdict.paired[g] :
       Truthful(b, verdict.treatment.truth[b]) /\ Truthful(b, verdict.control.truth[b])

-----------------------------------------------------------------------------
Tried(t, ts) == \E n \in DOMAIN ts : ts[n].bundle = t.bundle /\ ts[n].label = t.label

OnlyFrom(ts, found) ==
  \A n \in DOMAIN ts : \E k \in DOMAIN found : ts[n].bundle = found[k].bundle /\ ts[n].label = found[k].label

\* While the store stands still every side tries what the first one found:
\* nothing else, and nothing is left out.
Alike(found) ==
  /\ \A n \in DOMAIN sides :
       /\ OnlyFrom(sides[n].trials, found)
       /\ \A k \in DOMAIN found : Tried(found[k], sides[n].trials)
  /\ at \in {"grade", "cover"} =>
       /\ OnlyFrom(trials, found)
       /\ \A k \in DOMAIN tasks : k \in DOMAIN found /\ tasks[k] = found[k]
       /\ \A k \in DOMAIN found : k \in DOMAIN tasks \/ Tried(found[k], trials)

AlikeInv == "store" \notin moved => Alike(CollectTasks(job.split, job.limit))

EvaluationInv == StoreInv /\ MemoryInv /\ JobInv /\ MeasureInv /\ ReportsInv /\ AlikeInv

-----------------------------------------------------------------------------
(* Paths, fixtures and sequences *)

\* A path tells whose file it is, and about which incident.
LEMMA PathsAreApart ==
  /\ \A s, i : Recorder(s) # Promoted(i)
  /\ \A s, t : Recorder(s) = Recorder(t) => s = t
  /\ \A i, j : Promoted(i) = Promoted(j) => i = j
  /\ \A s : Recorder(s)[2] = s
  /\ \A i : Promoted(i)[2] = i
  BY DEF Recorder, Promoted

\* A fixture tells whose it is, and is no recording.
LEMMA FixturesAreApart ==
  /\ \A s, t : Fixture(s) = Fixture(t) => s = t
  /\ \A s \in Scenarios : Fixture(s) \notin Incidents
  BY EvaluationAssumption DEF Fixture

\* A sequence of anything is one of what it holds.
LEMMA SeqOfItsRange ==
  ASSUME NEW S, NEW s \in Seq(S)
  PROVE  s \in Seq(Range(s))
  BY DEF Range

\* What appending does, whatever is appended.
LEMMA Appended ==
  ASSUME NEW s, s \in Seq(Range(s)), NEW e
  PROVE  /\ Append(s, e) \in Seq(Range(Append(s, e)))
         /\ Len(Append(s, e)) = Len(s) + 1
         /\ DOMAIN Append(s, e) = DOMAIN s \cup {Len(s) + 1}
         /\ \A k \in DOMAIN s : Append(s, e)[k] = s[k]
         /\ Append(s, e)[Len(s) + 1] = e
         /\ Len(s) + 1 \notin DOMAIN s
<1>. DEFINE S == Range(s) \cup {e}
<1>1. s \in Seq(S)
  OBVIOUS
<1>2. e \in S
  OBVIOUS
<1>. HIDE DEF S
<1>3. Append(s, e) \in Seq(S)
  BY <1>1, <1>2
<1>4. Append(s, e) \in Seq(Range(Append(s, e)))
  BY <1>3, SeqOfItsRange, Zenon
<1> QED BY <1>1, <1>2, <1>4

-----------------------------------------------------------------------------
(* The label files *)

\* Only the steps the store takes of its own change what it holds.
LEMMA CommandsReadOnly ==
  ASSUME Step \/ Start \/ Edit \/ Commit \/ Revert
  PROVE  UNCHANGED learningVars
<1>1. CASE Step
  BY <1>1, Zenon DEF Step, Collect, Grade, Raise, Cover, WriteReport, Gate, Compare, Regression, Optimize
<1> QED BY <1>1 DEF Start, Edit, Commit, Revert, TreeMoves

\* Making a file leaves the others as they are.
LEMMA FileOpened ==
  ASSUME NEW path, NEW label, OpenFile(path, label)
  PROVE  /\ path \notin DOMAIN labels
         /\ DOMAIN labels' = DOMAIN labels \cup {path}
         /\ labels'[path] = [label |-> label, state |-> "open"]
         /\ \A p \in DOMAIN labels : labels'[p] = labels[p]
  BY DEF OpenFile

\* Ending a write changes the state of one file and no label.
LEMMA FileClosed ==
  ASSUME LabelsInv, NEW path, NEW state, CloseLabel(path, state)
  PROVE  /\ DOMAIN labels' = DOMAIN labels
         /\ \A p \in DOMAIN labels :
              /\ labels'[p].label = labels[p].label
              /\ labels'[p].state \in {labels[p].state, state}
  BY DEF CloseLabel, LabelsInv

\* The files a step may make.
MadeBy(path, label) ==
  \/ \E s \in Scenarios : path = Recorder(s) /\ label = RecorderLabel(s)
  \/ \E i \in Incidents :
       /\ path = Promoted(i)
       /\ label.bundle = i /\ label.split \in Splits /\ label.scenario \in ScenarioNames

\* A promoted label is about the incident of the answer.
LEMMA PromotionMakes ==
  ASSUME NEW answer \in Answers, NEW decision \in Decisions, Promote(answer, decision)
  PROVE  \E path, label : MadeBy(path, label) /\ OpenFile(path, label)
<1>. DEFINE i == answer.incident
           named == IF decision.scenario = Unbound THEN [decision EXCEPT !.scenario = Promoted(i)] ELSE decision
           label == PromotedLabel(answer, named)
<1>1. i \in Incidents
  BY LearningAssumption
<1>2. decision \in [split: Splits, scenario: Named, healthy: BOOLEAN]
  BY LearningAssumption
<1>3. named.split \in Splits
  BY <1>2
<1>4. named.scenario \in ScenarioNames
  BY <1>1, <1>2 DEF ScenarioNames
<1>5. label.bundle = i /\ label.split = named.split /\ label.scenario = named.scenario
  BY DEF PromotedLabel
<1>6. OpenFile(Promoted(i), label)
  BY DEF Promote
<1> QED BY <1>1, <1>3, <1>4, <1>5, <1>6 DEF MadeBy

\* What any step does to the label files: nothing, one new, or one closed.
LEMMA LabelSteps ==
  ASSUME LabelsInv, [Next]_vars
  PROVE  \/ UNCHANGED labels
         \/ \E path, label : MadeBy(path, label) /\ OpenFile(path, label)
         \/ \E path \in DOMAIN labels, state \in {"whole", "torn"} : CloseLabel(path, state)
<1>1. CASE StoreStep
  <2>1. CASE \E i \in Incidents : PublishBundle(i)
    BY <2>1 DEF PublishBundle
  <2>2. CASE \E s \in Scenarios : OpenLabel(s)
    BY <2>2 DEF OpenLabel, MadeBy
  <2>3. CASE \E answer \in Answers, decision \in Decisions : Promote(answer, decision)
    BY <2>3, PromotionMakes
  <2>4. CASE \E path \in DOMAIN labels : LabelWritten(path) \/ LabelTorn(path)
    BY <2>4 DEF LabelWritten, LabelTorn
  <2> QED BY <1>1, <2>1, <2>2, <2>3, <2>4 DEF StoreStep
<1>2. CASE QuietStep
  BY <1>2 DEF QuietStep, SubmitFeedback, FeedbackTorn, Remember, Admit
<1>3. CASE Step \/ Start \/ Edit \/ Commit \/ Revert
  BY <1>3, CommandsReadOnly DEF learningVars
<1>4. CASE UNCHANGED vars
  BY <1>4 DEF vars, learningVars
<1> QED BY <1>1, <1>2, <1>3, <1>4 DEF Next, Stored

\* Files stay, with the labels they were made with.
LEMMA LabelsStay ==
  ASSUME LabelsInv, [Next]_vars
  PROVE  \A p \in DOMAIN labels : p \in DOMAIN labels' /\ labels'[p].label = labels[p].label
<1>1. CASE UNCHANGED labels
  BY <1>1
<1>2. CASE \E path, label : MadeBy(path, label) /\ OpenFile(path, label)
  BY <1>2, FileOpened
<1>3. CASE \E path \in DOMAIN labels, state \in {"whole", "torn"} : CloseLabel(path, state)
  BY <1>3, FileClosed
<1> QED BY <1>1, <1>2, <1>3, LabelSteps

\* What the recorder writes is what the library says.
LEMMA RecorderSays ==
  ASSUME NEW s \in Scenarios
  PROVE  /\ RecorderLabel(s).bundle = s
         /\ RecorderLabel(s).split = Library[s].split /\ Library[s].split \in Splits
         /\ RecorderLabel(s).scenario = s
  BY LearningAssumption DEF RecorderLabel

LEMMA LabelsInvKept ==
  ASSUME LabelsInv, [Next]_vars
  PROVE  LabelsInv'
<1>. DEFINE Fine(p, file) ==
      /\ p \in Paths
      /\ file.state \in {"open", "torn", "whole"}
      /\ file.label.bundle = p[2]
      /\ file.label.split \in Splits
      /\ file.label.scenario \in ScenarioNames
      /\ \A s \in Scenarios : p = Recorder(s) => file.label = RecorderLabel(s)
<1>0. \A p \in DOMAIN labels : Fine(p, labels[p])
  BY DEF LabelsInv
<1>1. SUFFICES \A p \in DOMAIN labels' : Fine(p, labels'[p])
  BY DEF LabelsInv
<1>2. CASE UNCHANGED labels
  BY <1>0, <1>2
<1>3. ASSUME NEW path, NEW label, MadeBy(path, label), OpenFile(path, label)
      PROVE  \A p \in DOMAIN labels' : Fine(p, labels'[p])
  <2>. DEFINE file == [label |-> label, state |-> "open"]
  <2>1. Fine(path, file)
    <3>1. CASE \E s \in Scenarios : path = Recorder(s) /\ label = RecorderLabel(s)
      <4>1. PICK s \in Scenarios : path = Recorder(s) /\ label = RecorderLabel(s)
        BY <3>1
      <4>2. \A t \in Scenarios : path = Recorder(t) => t = s
        BY <4>1, PathsAreApart
      <4>3. path \in Paths /\ path[2] = s
        BY <4>1, PathsAreApart DEF Paths
      <4> QED BY <4>1, <4>2, <4>3, RecorderSays DEF ScenarioNames
    <3>2. CASE \E i \in Incidents : /\ path = Promoted(i)
                                     /\ label.bundle = i /\ label.split \in Splits
                                     /\ label.scenario \in ScenarioNames
      BY <3>2, PathsAreApart DEF Paths
    <3> QED BY <1>3, <3>1, <3>2 DEF MadeBy
  <2>2. DOMAIN labels' = DOMAIN labels \cup {path} /\ labels'[path] = file
    BY <1>3, FileOpened
  <2>3. \A p \in DOMAIN labels : labels'[p] = labels[p]
    BY <1>3, FileOpened
  <2>. HIDE DEF Fine, file
  <2> QED BY <1>0, <2>1, <2>2, <2>3
<1>4. ASSUME NEW path \in DOMAIN labels, NEW state \in {"whole", "torn"}, CloseLabel(path, state)
      PROVE  \A p \in DOMAIN labels' : Fine(p, labels'[p])
  BY <1>0, <1>4, FileClosed
<1> QED BY <1>2, <1>3, <1>4, LabelSteps

LEMMA StoreInitInv ==
  ASSUME Init
  PROVE  StoreInv
<1>1. feedback \in Seq(Answers \cup {Torn}) /\ bundles \subseteq Incidents
  BY LearningAssumption DEF Init, LearningInit
<1>2. labels = [path \in {Recorder(s) : s \in bundles \cap Scenarios} |->
                  [label |-> RecorderLabel(path[2]), state |-> "whole"]]
  BY DEF Init, LearningInit
<1>3. ASSUME NEW s \in Scenarios, Recorder(s) \in DOMAIN labels
      PROVE  labels[Recorder(s)] = [label |-> RecorderLabel(s), state |-> "whole"]
  BY <1>2, <1>3, PathsAreApart
<1>4. \A p \in DOMAIN labels : \E s \in Scenarios : p = Recorder(s)
  BY <1>2
<1>5. LabelsInv
  <2>1. SUFFICES ASSUME NEW s \in Scenarios, Recorder(s) \in DOMAIN labels
                 PROVE  /\ Recorder(s) \in Paths
                        /\ labels[Recorder(s)].state \in {"open", "torn", "whole"}
                        /\ labels[Recorder(s)].label.bundle = Recorder(s)[2]
                        /\ labels[Recorder(s)].label.split \in Splits
                        /\ labels[Recorder(s)].label.scenario \in ScenarioNames
                        /\ \A t \in Scenarios : Recorder(s) = Recorder(t) => labels[Recorder(s)].label = RecorderLabel(t)
    BY <1>4 DEF LabelsInv
  <2> QED BY <1>3, <2>1, PathsAreApart, RecorderSays DEF Paths, ScenarioNames
<1> QED BY <1>1, <1>5 DEF StoreInv

\* The feedback file only grows, by what it may hold; bundles are only added.
LEMMA StoreInvKept ==
  ASSUME StoreInv, [Next]_vars
  PROVE  StoreInv'
<1>1. LabelsInv'
  BY LabelsInvKept DEF StoreInv
<1>. DEFINE Rest == feedback \in Seq(Answers \cup {Torn}) /\ bundles \subseteq Incidents
<1>2. ASSUME StoreStep
      PROVE  Rest'
  BY <1>2 DEF StoreStep, PublishBundle, OpenLabel, Promote, LabelWritten, LabelTorn, CloseLabel, StoreInv
<1>3. ASSUME QuietStep
      PROVE  Rest'
  <2>1. bundles' = bundles
    BY <1>3 DEF QuietStep, SubmitFeedback, FeedbackTorn, Remember, Admit
  <2>2. \/ feedback' = feedback
        \/ \E line \in Answers \cup {Torn} : feedback' = Append(feedback, line)
    BY <1>3 DEF QuietStep, SubmitFeedback, AppendLine, FeedbackTorn, Remember, Admit
  <2>3. feedback \in Seq(Answers \cup {Torn})
    BY DEF StoreInv
  <2> QED BY <2>1, <2>2, <2>3 DEF StoreInv
<1>4. ASSUME UNCHANGED learningVars
      PROVE  Rest'
  BY <1>4 DEF StoreInv, learningVars
<1>5. StoreStep \/ QuietStep \/ UNCHANGED learningVars
  BY CommandsReadOnly DEF Next, Stored, vars
<1>6. Rest'
  BY <1>2, <1>3, <1>4, <1>5 DEF StoreInv
<1> QED BY <1>1, <1>6 DEF StoreInv

\* What has been promoted stays so, hence what may be learned from does.
LEMMA LearnedStays ==
  ASSUME StoreInv, [Next]_vars, NEW i, Learned(i)
  PROVE  Learned(i)'
  BY LabelsStay DEF StoreInv, Learned

-----------------------------------------------------------------------------
(* The incident memory *)

LEMMA MemoryInitInv ==
  ASSUME Init
  PROVE  MemoryInv
<1>1. memory = << >> /\ admitting = [l \in Learners |-> Nothing]
  BY DEF Init, LearningInit
<1>2. \A i : Copies(i) = {} /\ Racing(i) = {}
  BY <1>1 DEF Copies, Racing
<1>3. Cardinality({}) = 0 /\ IsFiniteSet({}) /\ Cardinality(Learners) \in Nat
  BY FS_EmptySet, FS_CardinalityType, LearningAssumption
<1>4. DOMAIN memory = {} /\ memory \in Seq(Entry)
  BY <1>1
<1>5. \A i \in Incidents :
        /\ IsFiniteSet(Copies(i))
        /\ Cardinality(Copies(i)) + Cardinality(Racing(i)) <= Cardinality(Learners)
  BY <1>2, <1>3
<1> QED BY <1>1, <1>4, <1>5 DEF MemoryInv

\* A label that memory admits is an entry, of an incident to learn from.
LEMMA EntryIsSound ==
  ASSUME LabelsInv, NEW path \in DOMAIN labels, labels[path].label.split = "train"
  PROVE  /\ EntryFromLabel(labels[path].label) \in Entry
         /\ Learned(EntryFromLabel(labels[path].label).incident)
<1>. DEFINE label == labels[path].label
<1>1. /\ path \in Paths /\ label.bundle = path[2]
      /\ label.split \in Splits /\ label.scenario \in ScenarioNames
      /\ \A s \in Scenarios : path = Recorder(s) => label = RecorderLabel(s)
  BY DEF LabelsInv
<1>2. EntryFromLabel(label) = [incident |-> label.bundle, scenario |-> label.scenario, split |-> label.split]
  BY DEF EntryFromLabel
<1>3. CASE \E s \in Scenarios : path = Recorder(s)
  <2>1. PICK s \in Scenarios : path = Recorder(s)
    BY <1>3
  <2>2. label.bundle = s /\ Library[s].split = "train"
    BY <1>1, <2>1, RecorderSays
  <2> QED BY <1>1, <1>2, <2>2 DEF Learned, Entry, Incidents, ScenarioNames
<1>4. CASE \E i \in Incidents : path = Promoted(i)
  BY <1>1, <1>2, <1>4, PathsAreApart DEF Learned, Entry, ScenarioNames
<1> QED BY <1>1, <1>3, <1>4 DEF Paths

\* The learners who race for an incident are some of the learners.
LEMMA RacersAreCounted ==
  ASSUME NEW i
  PROVE  /\ IsFiniteSet(Racing(i)) /\ Cardinality(Racing(i)) \in Nat
         /\ Cardinality(Learners) \in Nat
         /\ Cardinality(Racing(i)) <= Cardinality(Learners)
  BY FS_Subset, FS_CardinalityType, LearningAssumption DEF Racing

\* One more process found the incident absent: it is in memory zero times, and
\* there cannot be more racing for it than there are.
LEMMA AdmittingRaces ==
  ASSUME StoreInv, MemoryInv, [Next]_vars, NEW l \in Learners, NEW path \in DOMAIN labels, Admit(l, path)
  PROVE  MemoryInv'
<1>. DEFINE entry == EntryFromLabel(labels[path].label)
<1>1. /\ memory' = memory /\ labels' = labels
      /\ admitting' = [admitting EXCEPT ![l] = entry]
      /\ \A k \in DOMAIN memory : memory[k].incident # entry.incident
  BY DEF Admit, EntryFromLabel
<1>2. entry \in Entry /\ Learned(entry.incident)
  BY EntryIsSound DEF Admit, StoreInv
<1>3. admitting \in [Learners -> Entry \cup {Nothing}]
  BY DEF MemoryInv
<1>. HIDE DEF entry
<1>4. admitting' \in [Learners -> Entry \cup {Nothing}] /\ admitting'[l] = entry
  BY <1>1, <1>2, <1>3
<1>5. \A m \in Learners \ {l} : admitting'[m] = admitting[m]
  BY <1>1, <1>3
<1>6. \A i : Copies(i)' = Copies(i)
  BY <1>1 DEF Copies
<1>7. Copies(entry.incident) = {}
  BY <1>1 DEF Copies
<1>8. ASSUME NEW i \in Incidents
      PROVE  /\ IsFiniteSet(Copies(i)')
             /\ Cardinality(Copies(i)') + Cardinality(Racing(i)') <= Cardinality(Learners)
  <2>1. CASE i = entry.incident
    <3>1. Racing(i)' \subseteq Learners
      BY DEF Racing
    <3>2. Cardinality(Racing(i)') <= Cardinality(Learners) /\ Cardinality(Racing(i)') \in Nat
      BY <3>1, FS_Subset, FS_CardinalityType, LearningAssumption
    <3>3. Copies(i)' = {}
      BY <1>6, <1>7, <2>1
    <3> QED BY <3>2, <3>3, FS_EmptySet, RacersAreCounted
  <2>2. CASE i # entry.incident
    <3>1. Racing(i)' \subseteq Racing(i)
      BY <1>4, <1>5, <2>2 DEF Racing
    <3>2. Cardinality(Racing(i)') <= Cardinality(Racing(i)) /\ Cardinality(Racing(i)') \in Nat
      BY <3>1, RacersAreCounted, FS_Subset, FS_CardinalityType
    <3>3. IsFiniteSet(Copies(i)) /\ Cardinality(Copies(i)) + Cardinality(Racing(i)) <= Cardinality(Learners)
      BY DEF MemoryInv
    <3>4. Cardinality(Copies(i)) \in Nat
      BY <3>3, FS_CardinalityType
    <3> QED BY <1>6, <3>2, <3>3, <3>4, RacersAreCounted
  <2> QED BY <2>1, <2>2
<1>9. (\A m \in Learners : admitting[m] # Nothing => Learned(admitting[m].incident))'
  BY <1>1, <1>2, <1>4, <1>5 DEF MemoryInv, Learned
<1>10. memory' \in Seq(Entry) /\ (\A k \in DOMAIN memory : Learned(memory[k].incident))'
  BY <1>1 DEF MemoryInv, Learned
<1> QED BY <1>4, <1>8, <1>9, <1>10 DEF MemoryInv

\* An append makes one copy of a racer.
LEMMA RememberingAppends ==
  ASSUME StoreInv, MemoryInv, [Next]_vars, NEW l \in Learners, Remember(l)
  PROVE  MemoryInv'
<1>. DEFINE entry == admitting[l]
           last == Len(memory) + 1
<1>1. /\ admitting[l] # Nothing
      /\ memory' = Append(memory, entry) /\ labels' = labels
      /\ admitting' = [admitting EXCEPT ![l] = Nothing]
  BY DEF Remember
<1>2. entry \in Entry /\ memory \in Seq(Entry) /\ admitting \in [Learners -> Entry \cup {Nothing}]
  BY <1>1 DEF MemoryInv
<1>3. /\ memory' \in Seq(Entry)
      /\ DOMAIN memory' = DOMAIN memory \cup {last} /\ last \notin DOMAIN memory
      /\ memory'[last] = entry
      /\ \A k \in DOMAIN memory : memory'[k] = memory[k]
  BY <1>1, <1>2
<1>4. admitting' \in [Learners -> Entry \cup {Nothing}] /\ admitting'[l] = Nothing
  BY <1>1, <1>2
<1>5. \A m \in Learners \ {l} : admitting'[m] = admitting[m]
  BY <1>1, <1>2
<1>. HIDE DEF last
<1>6. ASSUME NEW i \in Incidents
      PROVE  /\ IsFiniteSet(Copies(i)')
             /\ Cardinality(Copies(i)') + Cardinality(Racing(i)') <= Cardinality(Learners)
  <2>1. IsFiniteSet(Copies(i)) /\ Cardinality(Copies(i)) + Cardinality(Racing(i)) <= Cardinality(Learners)
    BY DEF MemoryInv
  <2>2. Cardinality(Copies(i)) \in Nat
    BY <2>1, FS_CardinalityType
  <2>3. CASE i = entry.incident
    <3>1. Copies(i)' = Copies(i) \cup {last} /\ last \notin Copies(i)
      BY <1>3, <2>3 DEF Copies
    <3>2. IsFiniteSet(Copies(i)') /\ Cardinality(Copies(i)') = Cardinality(Copies(i)) + 1
      BY <2>1, <3>1, FS_AddElement
    <3>3. Racing(i)' = Racing(i) \ {l} /\ l \in Racing(i)
      BY <1>1, <1>4, <1>5, <2>3 DEF Racing
    <3>4. Cardinality(Racing(i)') = Cardinality(Racing(i)) - 1
      BY <3>3, RacersAreCounted, FS_RemoveElement
    <3> QED BY <2>1, <2>2, <3>2, <3>4, RacersAreCounted
  <2>4. CASE i # entry.incident
    <3>1. Copies(i)' = Copies(i)
      BY <1>3, <2>4 DEF Copies
    <3>2. Racing(i)' = Racing(i)
      BY <1>4, <1>5, <2>4 DEF Racing
    <3> QED BY <2>1, <3>1, <3>2
  <2> QED BY <2>3, <2>4
<1>7. (\A k \in DOMAIN memory : Learned(memory[k].incident))'
  BY <1>1, <1>3 DEF MemoryInv, Learned
<1>8. (\A m \in Learners : admitting[m] # Nothing => Learned(admitting[m].incident))'
  BY <1>1, <1>4, <1>5 DEF MemoryInv, Learned
<1> QED BY <1>3, <1>4, <1>6, <1>7, <1>8 DEF MemoryInv

LEMMA MemoryInvKept ==
  ASSUME StoreInv, MemoryInv, [Next]_vars
  PROVE  MemoryInv'
<1>1. CASE UNCHANGED <<memory, admitting>>
  <2>1. \A i : Copies(i)' = Copies(i) /\ Racing(i)' = Racing(i)
    BY <1>1 DEF Copies, Racing
  <2>2. \A i : Learned(i) => Learned(i)'
    BY LearnedStays
  <2> QED BY <1>1, <2>1, <2>2 DEF MemoryInv
<1>2. CASE \E l \in Learners : \E path \in DOMAIN labels : Admit(l, path)
  BY <1>2, AdmittingRaces
<1>3. CASE \E l \in Learners : Remember(l)
  BY <1>3, RememberingAppends
<1>4. CASE StoreStep
  BY <1>1, <1>4 DEF StoreStep, PublishBundle, OpenLabel, Promote, LabelWritten, LabelTorn, CloseLabel
<1>5. CASE QuietStep
  BY <1>1, <1>2, <1>3, <1>5 DEF QuietStep, SubmitFeedback, FeedbackTorn
<1>6. CASE UNCHANGED learningVars
  BY <1>1, <1>6 DEF learningVars
<1> QED BY <1>4, <1>5, <1>6, CommandsReadOnly DEF Next, Stored, vars

-----------------------------------------------------------------------------
(* Where a job stands *)

Finishes == WriteReport \/ Gate \/ Compare \/ Regression \/ (\E reflection \in BOOLEAN : Optimize(reflection))

Around == Edit \/ Commit \/ Revert

measureVars == <<job, code, tasks, real, trials, sides>>

\* The last step of a job measures nothing more.
LEMMA FinishingOnlySays ==
  ASSUME Finishes
  PROVE  /\ at = "finish" /\ at' = "idle"
         /\ UNCHANGED <<measureVars, learningVars, tree, moved, todo>>
  BY DEF Finishes, WriteReport, Gate, Compare, Regression, Optimize, Say, measureVars

\* Nor does an error.
LEMMA FailingOnlySays ==
  ASSUME NEW why, Fail(why)
  PROVE  at' = "idle" /\ verdict' = [said |-> why] /\ UNCHANGED <<tasks, real, trials, sides>>
  BY DEF Fail, Say

\* The steps of a job, by what they do to what it measured.
LEMMA StepsOfJobs ==
  ASSUME [Next]_vars
  PROVE  Start \/ Collect \/ Grade \/ Raise \/ Cover \/ Finishes \/ Stored \/ Around \/ UNCHANGED vars
  BY DEF Next, Step, Finishes, Around

\* What happens around a job leaves the job where it is.
LEMMA AroundLeavesJobs ==
  ASSUME Stored \/ Around
  PROVE  /\ UNCHANGED <<jobVars, reports, newest>>
         /\ todo' \in {[todo EXCEPT !.stores = @ - 1], [todo EXCEPT !.trees = @ - 1]}
         /\ moved \subseteq moved' /\ moved' \subseteq moved \cup {"store", "tree"}
         /\ "store" \notin moved' => UNCHANGED <<bundles, labels>>
         /\ "tree" \notin moved' => UNCHANGED tree
         /\ UNCHANGED tree \/ UNCHANGED <<bundles, labels>>
<1>1. CASE Stored
  BY <1>1 DEF Stored, QuietStep, SubmitFeedback, FeedbackTorn, Remember, Admit
<1>2. CASE Around
  BY <1>2 DEF Around, Edit, Commit, Revert, TreeMoves, learningVars
<1> QED BY <1>1, <1>2

LEMMA JobInitInv ==
  ASSUME Init
  PROVE  JobInv
<1>1. todo \in Scripts
  BY DEF Init
<1>2. /\ todo \in [jobs: Seq(Jobs), stores: Nat, trees: Nat]
      /\ \A k \in DOMAIN todo.jobs :
           /\ todo.jobs[k].configs # << >>
           /\ todo.jobs[k].kind = "optimize" => todo.jobs[k].split = AllowedSplit
  BY <1>1, EvaluationAssumption
<1>3. todo.jobs \in Seq(SoundJobs)
  <2>1. todo.jobs \in Seq(Jobs)
    BY <1>2
  <2>2. \A k \in DOMAIN todo.jobs : todo.jobs[k] \in SoundJobs
    BY <1>2, <2>1 DEF SoundJobs
  <2>. HIDE DEF SoundJobs
  <2> QED BY <2>1, <2>2
<1>4. todo \in [jobs: Seq(SoundJobs), stores: Nat, trees: Nat]
  BY <1>2, <1>3
<1>5. sides \in Seq(Range(sides)) /\ Len(sides) = 0 /\ Len(job.configs) = 0
  BY DEF Init, NoJob
<1> QED BY <1>4, <1>5 DEF Init, JobInv

LEMMA JobInvKept ==
  ASSUME JobInv, [Next]_vars
  PROVE  JobInv'
<1>0. /\ \A j \in SoundJobs : Len(j.configs) \in Nat /\ Len(j.configs) > 0
      /\ Len(sides) \in Nat
  BY DEF JobInv, SoundJobs, Jobs
<1>1. CASE Start
  <2>1. /\ todo.jobs # << >> /\ job' = Head(todo.jobs) /\ todo' = [todo EXCEPT !.jobs = Tail(@)]
        /\ at' = IF job'.kind = "compare" THEN "finish" ELSE "collect"
        /\ sides' = << >> /\ moved' = {} /\ code' = tree /\ tree' = tree
    BY <1>1 DEF Start
  <2>2. todo \in [jobs: Seq(SoundJobs), stores: Nat, trees: Nat] /\ tree \in [commit: Int, dirty: BOOLEAN]
    BY DEF JobInv
  <2>. HIDE DEF SoundJobs
  <2>3. job' \in SoundJobs /\ todo' \in [jobs: Seq(SoundJobs), stores: Nat, trees: Nat]
    <3>1. todo.jobs \in Seq(SoundJobs) /\ todo.jobs # << >>
      BY <2>1, <2>2
    <3>2. Head(todo.jobs) \in SoundJobs /\ Tail(todo.jobs) \in Seq(SoundJobs)
      BY <3>1
    <3> QED BY <2>1, <2>2, <3>2
  <2>4. sides' \in Seq(Range(sides')) /\ Len(sides') = 0
    BY <2>1
  <2> QED BY <1>0, <2>1, <2>2, <2>3, <2>4 DEF JobInv
<1>2. CASE Collect
  <2>1. at = "collect" /\ UNCHANGED <<job, code, tree, moved, todo>>
    BY <1>2 DEF Collect
  <2>2. UNCHANGED sides /\ at' \in {"idle", "grade"}
    BY <1>2, FailingOnlySays DEF Collect
  <2> QED BY <1>0, <2>1, <2>2 DEF JobInv
<1>3. CASE Grade
  BY <1>3 DEF Grade, JobInv
<1>4. CASE Raise
  <2>1. /\ at = "grade" /\ at' = "idle" /\ UNCHANGED <<job, code, tree, moved, todo, sides>>
    BY <1>4, FailingOnlySays DEF Raise
  <2> QED BY <1>0, <2>1 DEF JobInv
<1>5. CASE Cover
  <2>1. at = "cover" /\ UNCHANGED <<job, code, tree, moved, todo>>
    BY <1>5 DEF Cover
  <2>2. CASE at' = "idle" /\ UNCHANGED sides
    BY <1>0, <2>1, <2>2 DEF JobInv
  <2>3. ASSUME NEW side, sides' = Append(sides, side),
               at' = IF Len(sides') = Len(job.configs) THEN "finish" ELSE "collect"
        PROVE  JobInv'
    <3>1. sides' \in Seq(Range(sides')) /\ Len(sides') = Len(sides) + 1
      BY <2>3, Appended DEF JobInv
    <3>2. job \in SoundJobs /\ Len(sides) < Len(job.configs) /\ job.kind # "compare"
      BY <2>1 DEF JobInv
    <3> QED BY <1>0, <2>1, <2>3, <3>1, <3>2 DEF JobInv
  <2> QED BY <1>5, <2>2, <2>3, FailingOnlySays DEF Cover
<1>6. CASE Finishes
  BY <1>6, <1>0, FinishingOnlySays DEF measureVars, JobInv
<1>7. CASE Stored \/ Around
  <2>1. /\ UNCHANGED <<job, at, sides, trials, code>> /\ moved \subseteq moved' /\ moved' \subseteq moved \cup {"store", "tree"}
        /\ "tree" \notin moved' => UNCHANGED tree
    BY <1>7, AroundLeavesJobs DEF jobVars
  <2>2. todo' \in [jobs: Seq(SoundJobs), stores: Nat, trees: Nat]
    <3>1. todo \in [jobs: Seq(SoundJobs), stores: Nat, trees: Nat]
      BY DEF JobInv
    <3>2. \/ todo.stores > 0 /\ todo' = [todo EXCEPT !.stores = @ - 1]
          \/ todo.trees > 0 /\ todo' = [todo EXCEPT !.trees = @ - 1]
      BY <1>7 DEF Stored, Around, Edit, Commit, Revert, TreeMoves
    <3>. HIDE DEF SoundJobs
    <3> QED BY <3>1, <3>2
  <2>3. tree' \in [commit: Int, dirty: BOOLEAN]
    <3>1. tree \in [commit: Int, dirty: BOOLEAN]
      BY DEF JobInv
    <3>2. \/ tree' = tree \/ tree' = [tree EXCEPT !.dirty = TRUE] \/ tree' = [tree EXCEPT !.dirty = FALSE]
          \/ tree' = [tree EXCEPT !.commit = @ + 1, !.dirty = FALSE]
      BY <1>7 DEF Stored, Around, Edit, Commit, Revert, TreeMoves
    <3>3. [tree EXCEPT !.commit = @ + 1, !.dirty = FALSE] = [[tree EXCEPT !.commit = @ + 1] EXCEPT !.dirty = FALSE]
      BY <3>1
    <3>4. [tree EXCEPT !.commit = @ + 1] \in [commit: Int, dirty: BOOLEAN]
      BY <3>1
    <3> QED BY <3>1, <3>2, <3>3, <3>4
  <2> QED BY <2>1, <2>2, <2>3 DEF JobInv
<1>8. CASE UNCHANGED vars
  BY <1>8 DEF vars, jobVars, JobInv
<1> QED BY <1>1, <1>2, <1>3, <1>4, <1>5, <1>6, <1>7, <1>8, StepsOfJobs

-----------------------------------------------------------------------------
(* What a job measures *)

\* Some task is the next one.
LEMMA SomeTaskIsNext ==
  ASSUME NEW S, S \subseteq Nat, S # {}
  PROVE  Min(S) \in S
<1>1. \E x \in S : \A y \in S : ~(<<y, x>> \in OpToRel(<, Nat))
  BY NatLessThanWellFounded, WFMin
<1>2. PICK x \in S : \A y \in S : ~(<<y, x>> \in OpToRel(<, Nat))
  BY <1>1
<1>3. ASSUME NEW y \in S
      PROVE  x <= y
  <2>1. x \in Nat /\ y \in Nat
    OBVIOUS
  <2>2. ~(y < x)
    BY <1>2, <2>1 DEF OpToRel
  <2> QED BY <2>1, <2>2
<1> QED BY <1>3 DEF Min

\* A bundle that is labelled has the label of its scenario or was promoted.
LEMMA LabelsAreTruthful ==
  ASSUME LabelsInv, NEW i \in Labelled
  PROVE  i \in Incidents /\ Truthful(i, LabelOf(i))
<1>1. i \in Incidents /\ (Recorder(i) \in DOMAIN labels \/ Promoted(i) \in DOMAIN labels)
  BY DEF Labelled
<1>2. CASE Promoted(i) \notin DOMAIN labels
  <2>1. Recorder(i) \in DOMAIN labels /\ Recorder(i) \in Paths
    BY <1>1, <1>2 DEF LabelsInv
  <2>2. i \in Scenarios
    BY <2>1, PathsAreApart DEF Paths
  <2>3. LabelOf(i) = RecorderLabel(i)
    BY <1>2, <2>1, <2>2 DEF LabelOf, LabelsInv
  <2> QED BY <1>1, <2>2, <2>3 DEF Truthful
<1> QED BY <1>1, <1>2 DEF Truthful

LEMMA RecordingsAreMeasured ==
  ASSUME LabelsInv, NEW split, NEW k \in DOMAIN RecordedTasks(split)
  PROVE  /\ k \in DOMAIN Shelf
         /\ RecordedTasks(split)[k].bundle = Shelf[k]
         /\ Measured(RecordedTasks(split)[k], split, TRUE)
<1>1. /\ k \in DOMAIN Shelf /\ Shelf[k] \in bundles \cap Labelled /\ LabelOf(Shelf[k]).split = split
      /\ RecordedTasks(split)[k] = Task(Shelf[k], LabelOf(Shelf[k]))
  BY DEF RecordedTasks
<1>2. /\ RecordedTasks(split)[k].bundle = Shelf[k]
      /\ RecordedTasks(split)[k].label = LabelOf(Shelf[k])
  BY <1>1 DEF Task
<1> QED BY <1>1, <1>2, LabelsAreTruthful DEF Measured

LEMMA FixturesAreMeasured ==
  ASSUME NEW split, NEW k \in DOMAIN SyntheticTasks(split)
  PROVE  /\ k \in DOMAIN Shelf
         /\ SyntheticTasks(split)[k].bundle = Fixture(Shelf[k])
         /\ Measured(SyntheticTasks(split)[k], split, FALSE)
<1>1. /\ k \in DOMAIN Shelf /\ Shelf[k] \in Scenarios /\ Library[Shelf[k]].split = split
      /\ SyntheticTasks(split)[k] = Task(Fixture(Shelf[k]), SyntheticLabel(Shelf[k]))
  BY DEF SyntheticTasks
<1>2. /\ SyntheticTasks(split)[k].bundle = Fixture(Shelf[k])
      /\ SyntheticTasks(split)[k].label = SyntheticLabel(Shelf[k])
  BY <1>1 DEF Task
<1>3. SyntheticLabel(Shelf[k]).split = split
  BY <1>1 DEF SyntheticLabel, RecorderLabel
<1> QED BY <1>1, <1>2, <1>3, FixturesAreApart DEF Measured, Truthful

\* What is collected are recordings alone or fixtures alone.
LEMMA CollectedIsMeasured ==
  ASSUME LabelsInv, NEW split, NEW limit, NEW k \in DOMAIN CollectTasks(split, limit)
  PROVE  /\ k \in DOMAIN Shelf
         /\ CollectTasks(split, limit)[k].bundle = IF Recorded(split) THEN Shelf[k] ELSE Fixture(Shelf[k])
         /\ Measured(CollectTasks(split, limit)[k], split, Recorded(split))
<1>. DEFINE chosen == IF Recorded(split) THEN RecordedTasks(split) ELSE SyntheticTasks(split)
<1>1. k \in DOMAIN chosen /\ CollectTasks(split, limit)[k] = chosen[k]
  BY DEF CollectTasks, Restrict
<1>2. CASE Recorded(split)
  <2>1. k \in DOMAIN RecordedTasks(split) /\ CollectTasks(split, limit)[k] = RecordedTasks(split)[k]
    BY <1>1, <1>2
  <2> QED BY <1>2, <2>1, RecordingsAreMeasured
<1>3. CASE ~Recorded(split)
  <2>1. k \in DOMAIN SyntheticTasks(split) /\ CollectTasks(split, limit)[k] = SyntheticTasks(split)[k]
    BY <1>1, <1>3
  <2>2. Recorded(split) = FALSE
    BY <1>3 DEF Recorded
  <2> QED BY <2>1, <2>2, FixturesAreMeasured
<1> QED BY <1>2, <1>3

\* What a bundle was truthfully measured against stays so.
LEMMA TruthStays ==
  ASSUME StoreInv, [Next]_vars
  PROVE  \A b, label : Truthful(b, label) => Truthful(b, label)'
  BY LabelsStay DEF StoreInv, Truthful

LEMMA SoundStays ==
  ASSUME StoreInv, [Next]_vars
  PROVE  \A ts, split, isReal : Sound(ts, split, isReal) => Sound(ts, split, isReal)'
<1>1. \A b, label : Truthful(b, label) => Truthful(b, label)'
  BY TruthStays
<1>2. \A t, split, isReal : Measured(t, split, isReal) => Measured(t, split, isReal)'
  BY <1>1 DEF Measured
<1> QED BY <1>2 DEF Sound, OneLabelEach

\* An incident measured against a train label may be learned from.
LEMMA TrainIsLearned ==
  ASSUME NEW b, NEW label, Truthful(b, label), label.split = "train"
  PROVE  Learned(b)
<1>1. CASE b \in Incidents /\ Promoted(b) \in DOMAIN labels
  BY <1>1 DEF Learned
<1>2. CASE b \in Scenarios /\ label = RecorderLabel(b)
  BY <1>2, RecorderSays DEF Learned
<1>3. CASE \E s \in Scenarios : b = Fixture(s)
  BY <1>3, FixturesAreApart DEF Learned, Incidents
<1> QED BY <1>1, <1>2, <1>3 DEF Truthful

LEMMA MeasureInitInv ==
  ASSUME Init
  PROVE  MeasureInv
<1>1. sides = << >> /\ trials = << >> /\ tasks = << >> /\ real = FALSE /\ at = "idle" /\ job.kind = "none"
  BY DEF Init, NoJob
<1>2. DOMAIN sides = {} /\ DOMAIN trials = {} /\ DOMAIN tasks = {}
  BY <1>1
<1> QED BY <1>1, <1>2 DEF MeasureInv, SidesInv, TasksInv, OptimisedInv

\* A step that measures nothing leaves what was measured sound.
LEMMA MeasureStays ==
  ASSUME StoreInv, MeasureInv, [Next]_vars, UNCHANGED measureVars, at' \in {at, "idle"}
  PROVE  MeasureInv'
<1>1. \A ts, split, isReal : Sound(ts, split, isReal) => Sound(ts, split, isReal)'
  BY SoundStays
<1>2. UNCHANGED <<job, tasks, real, trials, sides>>
  BY DEF measureVars
<1>3. SidesInv'
  BY <1>1, <1>2 DEF MeasureInv, SidesInv
<1>4. \A b, label : Truthful(b, label) => Truthful(b, label)'
  BY TruthStays
<1>5. TasksInv'
  BY <1>1, <1>2, <1>4 DEF MeasureInv, TasksInv, Measured
<1>6. \A b : Learned(b) => Learned(b)'
  BY LearnedStays
<1>7. OptimisedInv'
  BY <1>2, <1>6 DEF MeasureInv, OptimisedInv
<1> QED BY <1>3, <1>5, <1>7 DEF MeasureInv

LEMMA StartMeasuresNothing ==
  ASSUME Start
  PROVE  MeasureInv'
<1>1. sides' = << >> /\ trials' = << >> /\ tasks' = << >> /\ real' = FALSE /\ at' \in {"collect", "finish"}
  BY DEF Start
<1>2. DOMAIN sides' = {} /\ DOMAIN trials' = {} /\ DOMAIN tasks' = {}
  BY <1>1
<1> QED BY <1>1, <1>2 DEF MeasureInv, SidesInv, TasksInv, OptimisedInv

LEMMA CollectingIsSound ==
  ASSUME StoreInv, MeasureInv, [Next]_vars, Collect, at' # "idle"
  PROVE  MeasureInv'
<1>. DEFINE found == CollectTasks(job.split, job.limit)
<1>1. /\ DOMAIN found # {}
      /\ tasks' = found /\ real' = Recorded(job.split) /\ trials' = << >> /\ at' = "grade"
      /\ UNCHANGED <<sides, job, labels>>
  BY FailingOnlySays DEF Collect, learningVars
<1>2. \A k \in DOMAIN found :
        /\ k \in DOMAIN Shelf
        /\ found[k].bundle = IF Recorded(job.split) THEN Shelf[k] ELSE Fixture(Shelf[k])
        /\ Measured(found[k], job.split, Recorded(job.split))
  BY CollectedIsMeasured DEF StoreInv
<1>. HIDE DEF found
<1>3. Recorded(job.split) \in BOOLEAN
  BY DEF Recorded
<1>4. DOMAIN trials' = {} /\ trials' \in Seq(Range(trials'))
  BY <1>1
<1>5. \A ts, split, isReal : Sound(ts, split, isReal) => Sound(ts, split, isReal)'
  BY SoundStays
<1>6. SidesInv'
  BY <1>1, <1>5 DEF MeasureInv, SidesInv
<1>7. \A b, label : Truthful(b, label) => Truthful(b, label)'
  BY TruthStays
<1>8. \A k \in DOMAIN tasks' :
        Measured(tasks'[k], job'.split, real') /\ tasks'[k].bundle = IF real' THEN Shelf[k] ELSE Fixture(Shelf[k])
  BY <1>1, <1>2
<1>9. Sound(trials, job.split, real)'
  BY <1>4 DEF Sound, OneLabelEach
<1>10. (\A k \in DOMAIN tasks : Measured(tasks[k], job.split, real))'
  BY <1>7, <1>8 DEF Measured
<1>11. TasksInv'
  BY <1>1, <1>2, <1>3, <1>4, <1>8, <1>9, <1>10 DEF TasksInv
<1>12. OptimisedInv'
  BY <1>4 DEF OptimisedInv
<1> QED BY <1>6, <1>11, <1>12 DEF MeasureInv

\* Distinct places of the shelf hold distinct bundles.
LEMMA PlacesAreApart ==
  ASSUME TasksInv, at = "grade", NEW j \in DOMAIN tasks, NEW k \in DOMAIN tasks, tasks[j].bundle = tasks[k].bundle
  PROVE  j = k
<1>1. j \in DOMAIN Shelf /\ k \in DOMAIN Shelf
  BY DEF TasksInv
<1>2. /\ tasks[j].bundle = IF real THEN Shelf[j] ELSE Fixture(Shelf[j])
      /\ tasks[k].bundle = IF real THEN Shelf[k] ELSE Fixture(Shelf[k])
  BY DEF TasksInv
<1> QED BY <1>1, <1>2, FixturesAreApart, EvaluationAssumption

\* What grading a task adds and takes away.
LEMMA GradingAdds ==
  ASSUME MeasureInv, Grade
  PROVE  \E trial :
           /\ Turn \in DOMAIN tasks
           /\ trial.bundle = tasks[Turn].bundle /\ trial.label = tasks[Turn].label
           /\ trials' = Append(trials, trial)
           /\ trials' \in Seq(Range(trials'))
           /\ DOMAIN trials' = DOMAIN trials \cup {Len(trials) + 1}
           /\ \A n \in DOMAIN trials : trials'[n] = trials[n]
           /\ trials'[Len(trials) + 1] = trial
           /\ DOMAIN tasks' \in {DOMAIN tasks, DOMAIN tasks \ {Turn}}
           /\ \A k \in DOMAIN tasks' : tasks'[k] = tasks[k]
           /\ at = "grade" /\ at' = IF DOMAIN tasks' = {} THEN "cover" ELSE "grade"
           /\ UNCHANGED <<learningVars, job, real, sides, moved>>
<1>1. PICK outcome \in Outcomes(Config) :
        trials' = Append(trials, [bundle |-> Current.bundle, label |-> Current.label,
                                  outcome |-> outcome, allowed |-> Allowed])
  BY DEF Grade
<1>. DEFINE trial == [bundle |-> Current.bundle, label |-> Current.label, outcome |-> outcome, allowed |-> Allowed]
<1>2. trial.bundle = tasks[Turn].bundle /\ trial.label = tasks[Turn].label
  BY DEF Current
<1>3. Turn \in DOMAIN tasks
  <2>1. at = "grade"
    BY DEF Grade
  <2>2. DOMAIN tasks # {} /\ DOMAIN tasks \subseteq DOMAIN Shelf
    BY <2>1 DEF MeasureInv, TasksInv
  <2>3. DOMAIN Shelf \subseteq Nat
    BY EvaluationAssumption
  <2> QED BY <2>2, <2>3, SomeTaskIsNext DEF Turn
<1>4. trials \in Seq(Range(trials))
  BY DEF MeasureInv, TasksInv, Sound, Grade
<1>5. /\ at = "grade" /\ at' = IF DOMAIN tasks' = {} THEN "cover" ELSE "grade"
      /\ UNCHANGED <<learningVars, job, real, sides, moved>>
  BY DEF Grade
<1>6. \/ tasks' = tasks
      \/ tasks' = [k \in DOMAIN tasks \ {Turn} |-> tasks[k]]
  BY DEF Grade, Restrict
<1>7. trials' = Append(trials, trial)
  BY <1>1
<1>. HIDE DEF trial
<1>8. /\ trials' \in Seq(Range(trials'))
      /\ DOMAIN trials' = DOMAIN trials \cup {Len(trials) + 1}
      /\ \A n \in DOMAIN trials : trials'[n] = trials[n]
      /\ trials'[Len(trials) + 1] = trial
  BY <1>4, <1>7, Appended
<1>9. DOMAIN tasks' \in {DOMAIN tasks, DOMAIN tasks \ {Turn}} /\ \A k \in DOMAIN tasks' : tasks'[k] = tasks[k]
  BY <1>6
<1> QED BY <1>2, <1>3, <1>5, <1>7, <1>8, <1>9

LEMMA GradingIsSound ==
  ASSUME StoreInv, JobInv, MeasureInv, [Next]_vars, Grade
  PROVE  MeasureInv'
<1>1. PICK trial :
        /\ Turn \in DOMAIN tasks
        /\ trial.bundle = tasks[Turn].bundle /\ trial.label = tasks[Turn].label
        /\ trials' \in Seq(Range(trials'))
        /\ DOMAIN trials' = DOMAIN trials \cup {Len(trials) + 1}
        /\ \A n \in DOMAIN trials : trials'[n] = trials[n]
        /\ trials'[Len(trials) + 1] = trial
        /\ DOMAIN tasks' \in {DOMAIN tasks, DOMAIN tasks \ {Turn}}
        /\ \A k \in DOMAIN tasks' : tasks'[k] = tasks[k]
        /\ at = "grade" /\ at' = IF DOMAIN tasks' = {} THEN "cover" ELSE "grade"
        /\ UNCHANGED <<learningVars, job, real, sides, moved>>
  BY GradingAdds
<1>2. /\ real \in BOOLEAN /\ DOMAIN tasks \subseteq DOMAIN Shelf
      /\ Sound(trials, job.split, real)
      /\ \A k \in DOMAIN tasks :
           /\ Measured(tasks[k], job.split, real)
           /\ tasks[k].bundle = IF real THEN Shelf[k] ELSE Fixture(Shelf[k])
           /\ \A n \in DOMAIN trials : trials[n].bundle = tasks[k].bundle => trials[n].label = tasks[k].label
  BY <1>1 DEF MeasureInv, TasksInv
<1>3. \A n \in DOMAIN trials : Measured(trials[n], job.split, real)
  BY <1>2 DEF Sound
<1>4. Measured(trial, job.split, real)
  BY <1>1, <1>2 DEF Measured
<1>5. \A n \in DOMAIN trials' : Measured(trials'[n], job.split, real)
  BY <1>1, <1>3, <1>4
<1>6. OneLabelEach(trials')
  <2>1. OneLabelEach(trials)
    BY <1>2 DEF Sound
  <2>2. \A n \in DOMAIN trials : trials[n].bundle = trial.bundle => trials[n].label = trial.label
    BY <1>1, <1>2
  <2> QED BY <1>1, <2>1, <2>2 DEF OneLabelEach
<1>7. Sound(trials', job.split, real)
  BY <1>1, <1>5, <1>6 DEF Sound
<1>8. \A ts, split, isReal : Sound(ts, split, isReal) => Sound(ts, split, isReal)'
  BY SoundStays
<1>9. Sound(trials, job.split, real)'
  BY <1>1, <1>7, <1>8
<1>10. ASSUME NEW k \in DOMAIN tasks', NEW n \in DOMAIN trials', trials'[n].bundle = tasks'[k].bundle
       PROVE  trials'[n].label = tasks'[k].label
  <2>1. k \in DOMAIN tasks /\ tasks'[k] = tasks[k]
    BY <1>1
  <2>2. CASE n \in DOMAIN trials
    BY <1>1, <1>2, <1>10, <2>1, <2>2
  <2>3. CASE n = Len(trials) + 1
    <3>1. tasks[Turn].bundle = tasks[k].bundle
      BY <1>1, <1>10, <2>1, <2>3
    <3>2. Turn = k
      BY <1>1, <2>1, <3>1, PlacesAreApart DEF MeasureInv
    <3> QED BY <1>1, <2>1, <2>3, <3>2
  <2> QED BY <1>1, <2>2, <2>3
<1>11. \A b, label : Truthful(b, label) => Truthful(b, label)'
  BY TruthStays
<1>12. (\A k \in DOMAIN tasks : Measured(tasks[k], job.split, real))'
  BY <1>1, <1>2, <1>11 DEF Measured
<1>13. TasksInv'
  <2>1. \A k \in DOMAIN tasks' : tasks'[k].bundle = IF real' THEN Shelf[k] ELSE Fixture(Shelf[k])
    BY <1>1, <1>2
  <2>2. real' \in BOOLEAN /\ DOMAIN tasks' \subseteq DOMAIN Shelf /\ (at' = "grade" => DOMAIN tasks' # {})
    BY <1>1, <1>2
  <2>3. at' = "cover" => DOMAIN tasks' = {}
    BY <1>1
  <2> QED BY <1>9, <1>10, <1>12, <2>1, <2>2, <2>3 DEF TasksInv
<1>14. SidesInv'
  BY <1>1, <1>8 DEF MeasureInv, SidesInv
<1>15. OptimisedInv'
  <2>1. SUFFICES ASSUME job.kind = "optimize", NEW n \in DOMAIN trials'
                 PROVE  Learned(trials'[n].bundle)
    BY <1>1 DEF OptimisedInv, Learned, learningVars
  <2>2. job.split = "train"
    BY <1>1, <2>1 DEF JobInv, SoundJobs, AllowedSplit
  <2> QED BY <1>5, <2>1, <2>2, TrainIsLearned DEF Measured
<1> QED BY <1>13, <1>14, <1>15 DEF MeasureInv

LEMMA CoveringIsSound ==
  ASSUME StoreInv, JobInv, MeasureInv, [Next]_vars, Cover, at' # "idle"
  PROVE  MeasureInv'
<1>. DEFINE side == [config |-> Config, split |-> job.split, real |-> real, trials |-> trials,
                    covered |-> Covered(job.split), total |-> Total(job.split)]
<1>1. /\ at = "cover" /\ at' \in {"finish", "collect"}
      /\ sides' = Append(sides, side)
      /\ UNCHANGED <<job, tasks, real, trials>>
  BY FailingOnlySays DEF Cover
<1>2. /\ side.split = job.split /\ side.real = real /\ side.trials = trials /\ side.total = Total(job.split)
  OBVIOUS
<1>. HIDE DEF side
<1>3. /\ DOMAIN sides' = DOMAIN sides \cup {Len(sides) + 1}
      /\ \A n \in DOMAIN sides : sides'[n] = sides[n]
      /\ sides'[Len(sides) + 1] = side
  BY <1>1, Appended DEF JobInv
<1>4. Sound(trials, job.split, real) /\ real \in BOOLEAN
  BY <1>1 DEF MeasureInv, TasksInv
<1>5. \A ts, split, isReal : Sound(ts, split, isReal) => Sound(ts, split, isReal)'
  BY SoundStays
<1>6. \A s : Total(s)' = Total(s)
  BY DEF Total
<1>7. SidesInv'
  <2>1. \A n \in DOMAIN sides' :
          /\ sides'[n].split = job.split /\ sides'[n].real \in BOOLEAN /\ sides'[n].total = Total(job.split)
          /\ Sound(sides'[n].trials, sides'[n].split, sides'[n].real)
    BY <1>2, <1>3, <1>4 DEF MeasureInv, SidesInv
  <2> QED BY <1>1, <1>5, <1>6, <2>1 DEF SidesInv
<1>8. TasksInv'
  BY <1>1 DEF MeasureInv, TasksInv
<1>9. \A b : Learned(b) => Learned(b)'
  BY LearnedStays
<1>10. OptimisedInv'
  BY <1>1, <1>9 DEF MeasureInv, OptimisedInv
<1> QED BY <1>7, <1>8, <1>10 DEF MeasureInv

LEMMA MeasureInvKept ==
  ASSUME StoreInv, JobInv, MeasureInv, [Next]_vars
  PROVE  MeasureInv'
<1>1. CASE Start
  BY <1>1, StartMeasuresNothing
<1>2. CASE Collect
  <2>1. at' = "idle" => UNCHANGED measureVars
    BY <1>2, FailingOnlySays DEF Collect, measureVars
  <2> QED BY <1>2, <2>1, CollectingIsSound, MeasureStays
<1>3. CASE Grade
  BY <1>3, GradingIsSound
<1>4. CASE Raise
  BY <1>4, FailingOnlySays, MeasureStays DEF Raise, measureVars
<1>5. CASE Cover
  <2>1. at' = "idle" => UNCHANGED measureVars
    BY <1>5, FailingOnlySays DEF Cover, measureVars
  <2> QED BY <1>5, <2>1, CoveringIsSound, MeasureStays
<1>6. CASE Finishes
  BY <1>6, FinishingOnlySays, MeasureStays
<1>7. CASE Stored \/ Around
  BY <1>7, AroundLeavesJobs, MeasureStays DEF jobVars, measureVars
<1>8. CASE UNCHANGED vars
  BY <1>8, MeasureStays DEF vars, jobVars, measureVars
<1> QED BY <1>1, <1>2, <1>3, <1>4, <1>5, <1>6, <1>7, <1>8, StepsOfJobs

-----------------------------------------------------------------------------
(* What is reported *)

LEMMA ReportsInitInv ==
  ASSUME Init
  PROVE  ReportsInv
<1>1. DOMAIN reports = {} /\ DOMAIN newest = {} /\ verdict.said = "nothing"
  BY DEF Init
<1> QED BY <1>1 DEF ReportsInv

\* A step that neither writes nor compares leaves what was reported true.
LEMMA ReportsStay ==
  ASSUME StoreInv, ReportsInv, [Next]_vars, UNCHANGED <<reports, newest>>,
         verdict' = verdict \/ verdict'.said # "compared"
  PROVE  ReportsInv'
<1>1. \A b, label : Truthful(b, label) => Truthful(b, label)'
  BY TruthStays
<1>2. \A r : SoundReport(r) => SoundReport(r)'
  BY <1>1 DEF SoundReport
<1>3. /\ \A p \in DOMAIN reports' : ReportWhole(reports'[p]) /\ StampedAt(p, reports'[p])
      /\ \A f \in DOMAIN newest' : newest'[f] \in DOMAIN reports'
  BY DEF ReportsInv
<1>4. (\A p \in DOMAIN reports : ReportWhole(reports[p]) /\ StampedAt(p, reports[p]) /\ SoundReport(reports[p]))'
  BY <1>2, <1>3 DEF ReportsInv, SoundReport, ReportWhole, StampedAt
<1>5. (verdict.said = "compared" => \A g \in Graders : \A b \in verdict.paired[g] :
        Truthful(b, verdict.treatment.truth[b]) /\ Truthful(b, verdict.control.truth[b]))'
  BY <1>1 DEF ReportsInv
<1> QED BY <1>3, <1>4, <1>5 DEF ReportsInv

\* The truth a report is about is that of the trials, bundle by bundle.
LEMMA TruthOfTheTrials ==
  ASSUME NEW side, Sound(side.trials, side.split, side.real)
  PROVE  LET truth == ReportOf(side).truth IN
           /\ DOMAIN truth = Bundles(side.trials)
           /\ \A b \in DOMAIN truth : \E n \in DOMAIN side.trials :
                side.trials[n].bundle = b /\ truth[b] = side.trials[n].label
           /\ \A n \in DOMAIN side.trials : truth[side.trials[n].bundle] = side.trials[n].label
<1>. DEFINE truth == ReportOf(side).truth
           ts == side.trials
<1>1. truth = [b \in Bundles(ts) |-> (CHOOSE t \in Range(ts) : t.bundle = b).label]
  BY DEF ReportOf
<1>2. DOMAIN truth = Bundles(ts)
  BY <1>1
<1>3. ASSUME NEW b \in Bundles(ts)
      PROVE  \E n \in DOMAIN ts : ts[n].bundle = b /\ truth[b] = ts[n].label
  <2>1. \E t \in Range(ts) : t.bundle = b
    BY <1>3 DEF Bundles, Range
  <2>2. PICK n \in DOMAIN ts : ts[n] = CHOOSE t \in Range(ts) : t.bundle = b
    BY <2>1 DEF Range
  <2> QED BY <1>1, <2>1, <2>2
<1>. HIDE DEF truth
<1>4. \A n \in DOMAIN ts : ts[n].bundle \in Bundles(ts)
  BY DEF Bundles
<1>5. \A n \in DOMAIN ts : truth[ts[n].bundle] = ts[n].label
  BY <1>3, <1>4 DEF Sound, OneLabelEach
<1> QED BY <1>2, <1>3, <1>5 DEF truth

\* As many scenarios as wanted were evaluated: all that were wanted, or some
\* that were not.
LEMMA QuotableCounts ==
  ASSUME NEW side, Sound(side.trials, side.split, side.real), side.total = Total(side.split), Quotable(side)
  PROVE  LET wanted == {s \in Scenarios : Library[s].split = side.split} IN
           wanted \subseteq Evaluated(side) \/ ~(Evaluated(side) \subseteq wanted)
<1>. DEFINE wanted == {s \in Scenarios : Library[s].split = side.split}
<1>1. IsFiniteSet(wanted)
  BY LearningAssumption, FS_Subset
<1>2. Cardinality(Evaluated(side)) = Cardinality(wanted)
  BY DEF Quotable, Total
<1>. HIDE DEF wanted
<1>3. Evaluated(side) \subseteq wanted => wanted \subseteq Evaluated(side)
  BY <1>1, <1>2, FS_Subset
<1> QED BY <1>3 DEF wanted

LEMMA ReportIsSound ==
  ASSUME NEW side, Sound(side.trials, side.split, side.real), side.total = Total(side.split),
         "tree" \notin moved => code = tree
  PROVE  LET made == ReportOf(side) IN
           ReportWhole(made) /\ StampedAt(made.path, made) /\ SoundReport(made)
<1>. DEFINE made == ReportOf(side)
           ts == side.trials
<1>1. /\ made.split = side.split /\ made.quotable = Quotable(side)
      /\ made.path = <<side.config, side.split, tree.commit, tree.dirty>>
      /\ made.stamp = tree /\ made.code = code /\ made.during = moved
      /\ DOMAIN made.graded = Bundles(ts)
  BY DEF ReportOf, ReportPath, PerTaskTable
<1>2. /\ DOMAIN made.truth = Bundles(ts)
      /\ \A b \in DOMAIN made.truth : \E n \in DOMAIN ts : ts[n].bundle = b /\ made.truth[b] = ts[n].label
      /\ \A n \in DOMAIN ts : made.truth[ts[n].bundle] = ts[n].label
  BY TruthOfTheTrials
<1>. HIDE DEF made
<1>3. \A n \in DOMAIN ts : Measured(ts[n], side.split, side.real)
  BY DEF Sound
<1>4. SoundReport(made)
  BY <1>1, <1>2, <1>3 DEF SoundReport, Measured
<1>5. StampedAt(made.path, made)
  BY <1>1 DEF StampedAt
<1>6. ASSUME made.quotable
      PROVE  /\ DOMAIN made.truth \subseteq Incidents
             /\ LET wanted == {s \in Scenarios : Library[s].split = made.split}
                    evaluated == {made.truth[b].scenario : b \in DOMAIN made.truth}
                IN wanted \subseteq evaluated \/ ~(evaluated \subseteq wanted)
  <2>1. Quotable(side) /\ side.real
    BY <1>1, <1>6 DEF Quotable
  <2>2. DOMAIN made.truth \subseteq Incidents
    BY <1>2, <1>3, <2>1 DEF Measured
  <2>3. {made.truth[b].scenario : b \in DOMAIN made.truth} = Evaluated(side)
    <3>1. \A b \in DOMAIN made.truth : made.truth[b].scenario \in Evaluated(side)
      BY <1>2 DEF Evaluated
    <3>2. \A n \in DOMAIN ts : ts[n].bundle \in DOMAIN made.truth
      BY <1>2 DEF Bundles
    <3>3. \A n \in DOMAIN ts : ts[n].label.scenario = made.truth[ts[n].bundle].scenario
      BY <1>2
    <3> QED BY <3>1, <3>2, <3>3 DEF Evaluated
  <2> QED BY <1>1, <2>1, <2>2, <2>3, QuotableCounts
<1>7. ReportWhole(made)
  BY <1>6 DEF ReportWhole
<1> QED BY <1>4, <1>5, <1>7 DEF made

LEMMA WritingIsSound ==
  ASSUME StoreInv, JobInv, MeasureInv, ReportsInv, [Next]_vars, WriteReport
  PROVE  ReportsInv'
<1>. DEFINE made == ReportOf(sides[1])
           folder == <<made.config, made.split>>
<1>1. /\ at = "finish" /\ job.kind = "run"
      /\ reports' = [p \in DOMAIN reports \cup {made.path} |-> IF p = made.path THEN made ELSE reports[p]]
      /\ newest' = [f \in DOMAIN newest \cup {folder} |-> IF f = folder THEN made.path ELSE newest[f]]
      /\ verdict'.said = "written" /\ labels' = labels
  BY DEF WriteReport, Say, learningVars
<1>2. 1 \in DOMAIN sides
  <2>1. sides \in Seq(Range(sides)) /\ Len(sides) = Len(job.configs) /\ job.configs \in Seq(STRING) /\ job.configs # << >>
    BY <1>1 DEF JobInv, SoundJobs, Jobs
  <2> QED BY <2>1
<1>3. /\ Sound(sides[1].trials, sides[1].split, sides[1].real)
      /\ sides[1].total = Total(sides[1].split)
  BY <1>2 DEF MeasureInv, SidesInv
<1>4. "tree" \notin moved => code = tree
  BY <1>1 DEF JobInv
<1>5. ReportWhole(made) /\ StampedAt(made.path, made) /\ SoundReport(made)
  BY <1>3, <1>4, ReportIsSound
<1>. HIDE DEF made
<1>6. \A p \in DOMAIN reports : ReportWhole(reports[p]) /\ StampedAt(p, reports[p]) /\ SoundReport(reports[p])
  BY DEF ReportsInv
<1>7. \A p \in DOMAIN reports' : ReportWhole(reports'[p]) /\ StampedAt(p, reports'[p]) /\ SoundReport(reports'[p])
  BY <1>1, <1>5, <1>6
<1>8. (\A p \in DOMAIN reports : ReportWhole(reports[p]) /\ StampedAt(p, reports[p]) /\ SoundReport(reports[p]))'
  <2>1. \A r : SoundReport(r) => SoundReport(r)'
    BY <1>1 DEF SoundReport, Truthful
  <2>2. (\A p \in DOMAIN reports : SoundReport(reports[p]))'
    BY <1>7, <2>1 DEF SoundReport
  <2>3. (\A p \in DOMAIN reports : ReportWhole(reports[p]))'
    BY <1>7 DEF ReportWhole
  <2>4. (\A p \in DOMAIN reports : StampedAt(p, reports[p]))'
    BY <1>7 DEF StampedAt
  <2> QED BY <2>2, <2>3, <2>4
<1>9. \A f \in DOMAIN newest' : newest'[f] \in DOMAIN reports'
  BY <1>1 DEF ReportsInv
<1> QED BY <1>1, <1>8, <1>9 DEF ReportsInv

LEMMA ComparingIsSound ==
  ASSUME StoreInv, ReportsInv, [Next]_vars, Compare
  PROVE  ReportsInv'
<1>1. UNCHANGED <<reports, newest>> /\ labels' = labels
  BY DEF Compare, learningVars
<1>. DEFINE treatment == LatestReport(job.configs[1], job.split)
           control == LatestReport(job.configs[2], job.split)
           shared == DOMAIN treatment.graded \cap DOMAIN control.graded
           paired == [g \in Graders |-> {b \in shared : g \in treatment.graded[b] \cap control.graded[b]}]
<1>2. CASE verdict'.said # "compared"
  BY <1>1, <1>2, ReportsStay
<1>3. CASE /\ \A n \in {1, 2} : <<job.configs[n], job.split>> \in DOMAIN newest
           /\ verdict' = [said |-> "compared", treatment |-> treatment, control |-> control, paired |-> paired]
  <2>1. SoundReport(treatment) /\ SoundReport(control)
    BY <1>3 DEF LatestReport, ReportsInv
  <2>. HIDE DEF treatment, control
  <2>2. \A g \in Graders : \A b \in paired[g] : Truthful(b, treatment.truth[b]) /\ Truthful(b, control.truth[b])
    BY <2>1 DEF SoundReport
  <2>3. (\A g \in Graders : \A b \in verdict.paired[g] :
          Truthful(b, verdict.treatment.truth[b]) /\ Truthful(b, verdict.control.truth[b]))'
    BY <1>1, <1>3, <2>2 DEF Truthful
  <2>4. (\A p \in DOMAIN reports : ReportWhole(reports[p]) /\ StampedAt(p, reports[p]) /\ SoundReport(reports[p]))'
    BY <1>1 DEF ReportsInv, ReportWhole, StampedAt, SoundReport, Truthful
  <2> QED BY <1>1, <2>3, <2>4 DEF ReportsInv
<1> QED BY <1>2, <1>3 DEF Compare, Say

LEMMA ReportsInvKept ==
  ASSUME StoreInv, JobInv, MeasureInv, ReportsInv, [Next]_vars
  PROVE  ReportsInv'
<1>1. CASE Start
  BY <1>1, ReportsStay DEF Start
<1>2. CASE Collect \/ Cover \/ Raise
  <2>1. UNCHANGED <<reports, newest>>
    BY <1>2 DEF Collect, Cover, Raise
  <2>2. verdict' = verdict \/ verdict' \in {[said |-> "validation_error"], [said |-> "no_tasks"], [said |-> "raised"]}
    BY <1>2, FailingOnlySays DEF Collect, Cover, Raise
  <2>3. verdict' = verdict \/ verdict'.said # "compared"
    BY <2>2
  <2> QED BY <2>1, <2>3, ReportsStay
<1>3. CASE Grade
  BY <1>3, ReportsStay DEF Grade
<1>4. CASE Finishes
  <2>1. CASE Gate
    <3>1. verdict'.said \in {"INCONCLUSIVE", "FAIL_QUALITY", "FAIL_CALIBRATION", "FAIL_COST", "PASS"}
      BY <2>1 DEF Gate, Say, EvaluateGate
    <3> QED BY <2>1, <3>1, ReportsStay DEF Gate
  <2>2. CASE Regression
    BY <2>2, ReportsStay DEF Regression, Say
  <2>3. CASE \E reflection \in BOOLEAN : Optimize(reflection)
    <3>1. verdict'.said \in {"leakage", "optimized"} /\ UNCHANGED <<reports, newest>>
      BY <2>3 DEF Optimize, Say
    <3> QED BY <3>1, ReportsStay
  <2> QED BY <1>4, <2>1, <2>2, <2>3, WritingIsSound, ComparingIsSound DEF Finishes
<1>5. CASE Stored \/ Around
  BY <1>5, AroundLeavesJobs, ReportsStay DEF jobVars
<1>6. CASE UNCHANGED vars
  BY <1>6, ReportsStay DEF vars, jobVars
<1> QED BY <1>1, <1>2, <1>3, <1>4, <1>5, <1>6, StepsOfJobs

-----------------------------------------------------------------------------
(* What two sides have in common *)

LEMMA AlikeInitInv ==
  ASSUME Init
  PROVE  AlikeInv
<1>1. DOMAIN sides = {} /\ at = "idle"
  BY DEF Init
<1> QED BY <1>1 DEF AlikeInv, Alike

\* While the store stands still, the same is found again.
LEMMA FoundAgain ==
  ASSUME UNCHANGED <<bundles, labels>>
  PROVE  \A split, limit : CollectTasks(split, limit)' = CollectTasks(split, limit)
<1>1. \A i : LabelOf(i)' = LabelOf(i)
  BY DEF LabelOf
<1>2. Labelled' = Labelled
  BY DEF Labelled
<1>3. \A split : RecordedTasks(split)' = RecordedTasks(split)
  BY <1>1, <1>2 DEF RecordedTasks
<1>4. \A split : SyntheticTasks(split)' = SyntheticTasks(split)
  BY DEF SyntheticTasks
<1>5. \A split : Recorded(split)' = Recorded(split)
  BY <1>3 DEF Recorded
<1> QED BY <1>3, <1>4, <1>5 DEF CollectTasks

LEMMA AlikeStays ==
  ASSUME AlikeInv, UNCHANGED measureVars, at' \in {at, "idle"},
         "store" \notin moved' => "store" \notin moved /\ UNCHANGED <<bundles, labels>>
  PROVE  AlikeInv'
<1>1. SUFFICES ASSUME "store" \notin moved'
               PROVE  Alike(CollectTasks(job.split, job.limit))'
  BY DEF AlikeInv
<1>. DEFINE found == CollectTasks(job.split, job.limit)
<1>2. UNCHANGED <<job, tasks, trials, sides>> /\ found' = found
  BY <1>1, FoundAgain DEF measureVars
<1>3. Alike(found)
  BY <1>1 DEF AlikeInv
<1>. HIDE DEF found
<1>4. Alike(found)'
  BY <1>2, <1>3 DEF Alike, OnlyFrom, Tried
<1> QED BY <1>4 DEF found

LEMMA CollectingFinds ==
  ASSUME AlikeInv, Collect, at' # "idle"
  PROVE  AlikeInv'
<1>. DEFINE found == CollectTasks(job.split, job.limit)
<1>1. /\ tasks' = found /\ trials' = << >> /\ at' = "grade"
      /\ UNCHANGED <<sides, job, moved, bundles, labels>>
  BY FailingOnlySays DEF Collect, learningVars
<1>2. found' = found
  BY <1>1, FoundAgain
<1>3. SUFFICES ASSUME "store" \notin moved
               PROVE  Alike(found)'
  BY <1>1 DEF AlikeInv
<1>4. Alike(found)
  BY <1>3 DEF AlikeInv
<1>. HIDE DEF found
<1>5. DOMAIN trials' = {}
  BY <1>1
<1> QED BY <1>1, <1>2, <1>4, <1>5 DEF Alike, OnlyFrom, Tried

LEMMA GradingTries ==
  ASSUME MeasureInv, AlikeInv, Grade
  PROVE  AlikeInv'
<1>. DEFINE found == CollectTasks(job.split, job.limit)
<1>1. PICK trial :
        /\ Turn \in DOMAIN tasks
        /\ trial.bundle = tasks[Turn].bundle /\ trial.label = tasks[Turn].label
        /\ DOMAIN trials' = DOMAIN trials \cup {Len(trials) + 1}
        /\ \A n \in DOMAIN trials : trials'[n] = trials[n]
        /\ trials'[Len(trials) + 1] = trial
        /\ DOMAIN tasks' \in {DOMAIN tasks, DOMAIN tasks \ {Turn}}
        /\ \A k \in DOMAIN tasks' : tasks'[k] = tasks[k]
        /\ at = "grade"
        /\ UNCHANGED <<learningVars, job, real, sides, moved>>
  BY GradingAdds
<1>2. found' = found
  BY <1>1, FoundAgain DEF learningVars
<1>3. SUFFICES ASSUME "store" \notin moved
               PROVE  Alike(found)'
  BY <1>1 DEF AlikeInv
<1>4. Alike(found)
  BY <1>3 DEF AlikeInv
<1>. HIDE DEF found
<1>5. \A k \in DOMAIN tasks : k \in DOMAIN found /\ tasks[k] = found[k]
  BY <1>1, <1>4 DEF Alike
<1>6. OnlyFrom(trials', found)
  <2>1. OnlyFrom(trials, found)
    BY <1>1, <1>4 DEF Alike
  <2>2. trial.bundle = found[Turn].bundle /\ trial.label = found[Turn].label /\ Turn \in DOMAIN found
    BY <1>1, <1>5
  <2> QED BY <1>1, <2>1, <2>2 DEF OnlyFrom
<1>7. \A k \in DOMAIN tasks' : k \in DOMAIN found /\ tasks'[k] = found[k]
  BY <1>1, <1>5
<1>8. ASSUME NEW k \in DOMAIN found, k \notin DOMAIN tasks'
      PROVE  Tried(found[k], trials')
  <2>1. CASE k = Turn
    BY <1>1, <1>5, <2>1 DEF Tried
  <2>2. CASE k # Turn
    <3>1. k \notin DOMAIN tasks
      BY <1>1, <1>8, <2>2
    <3>2. Tried(found[k], trials)
      BY <1>1, <1>4, <3>1 DEF Alike
    <3> QED BY <1>1, <3>2 DEF Tried
  <2> QED BY <2>1, <2>2
<1>9. \A n \in DOMAIN sides :
        OnlyFrom(sides[n].trials, found) /\ \A k \in DOMAIN found : Tried(found[k], sides[n].trials)
  BY <1>4 DEF Alike
<1> QED BY <1>1, <1>2, <1>6, <1>7, <1>8, <1>9 DEF Alike, OnlyFrom, Tried

LEMMA CoveringKeeps ==
  ASSUME JobInv, MeasureInv, AlikeInv, Cover, at' # "idle"
  PROVE  AlikeInv'
<1>. DEFINE found == CollectTasks(job.split, job.limit)
           side == [config |-> Config, split |-> job.split, real |-> real, trials |-> trials,
                    covered |-> Covered(job.split), total |-> Total(job.split)]
<1>1. /\ at = "cover" /\ at' \in {"finish", "collect"}
      /\ sides' = Append(sides, side)
      /\ UNCHANGED <<job, tasks, real, trials, moved, bundles, labels>>
  BY FailingOnlySays DEF Cover, learningVars
<1>2. found' = found
  BY <1>1, FoundAgain
<1>3. SUFFICES ASSUME "store" \notin moved
               PROVE  Alike(found)'
  BY <1>1 DEF AlikeInv
<1>4. Alike(found)
  BY <1>3 DEF AlikeInv
<1>5. side.trials = trials
  OBVIOUS
<1>. HIDE DEF found, side
<1>6. DOMAIN tasks = {}
  BY <1>1 DEF MeasureInv, TasksInv
<1>7. OnlyFrom(trials, found) /\ \A k \in DOMAIN found : Tried(found[k], trials)
  BY <1>1, <1>4, <1>6 DEF Alike
<1>8. /\ DOMAIN sides' = DOMAIN sides \cup {Len(sides) + 1}
      /\ \A n \in DOMAIN sides : sides'[n] = sides[n]
      /\ sides'[Len(sides) + 1] = side
  BY <1>1, Appended DEF JobInv
<1>9. \A n \in DOMAIN sides' :
        OnlyFrom(sides'[n].trials, found) /\ \A k \in DOMAIN found : Tried(found[k], sides'[n].trials)
  BY <1>4, <1>5, <1>7, <1>8 DEF Alike
<1> QED BY <1>1, <1>2, <1>9 DEF Alike, OnlyFrom, Tried

LEMMA AlikeInvKept ==
  ASSUME JobInv, MeasureInv, AlikeInv, [Next]_vars
  PROVE  AlikeInv'
<1>1. CASE Start
  <2>1. DOMAIN sides' = {} /\ at' \in {"collect", "finish"}
    BY <1>1 DEF Start
  <2> QED BY <2>1 DEF AlikeInv, Alike
<1>2. CASE Collect
  <2>1. UNCHANGED <<moved, bundles, labels>> /\ (at' = "idle" => UNCHANGED measureVars)
    BY <1>2, FailingOnlySays DEF Collect, measureVars, learningVars
  <2> QED BY <1>2, <2>1, CollectingFinds, AlikeStays
<1>3. CASE Grade
  BY <1>3, GradingTries
<1>4. CASE Raise
  BY <1>4, FailingOnlySays, AlikeStays DEF Raise, measureVars, learningVars
<1>5. CASE Cover
  <2>1. UNCHANGED <<moved, bundles, labels>> /\ (at' = "idle" => UNCHANGED measureVars)
    BY <1>5, FailingOnlySays DEF Cover, measureVars, learningVars
  <2> QED BY <1>5, <2>1, CoveringKeeps, AlikeStays
<1>6. CASE Finishes
  BY <1>6, FinishingOnlySays, AlikeStays DEF learningVars
<1>7. CASE Stored \/ Around
  <2>1. /\ UNCHANGED <<measureVars, at>> /\ moved \subseteq moved'
        /\ "store" \notin moved' => UNCHANGED <<bundles, labels>>
    BY <1>7, AroundLeavesJobs DEF jobVars, measureVars
  <2> QED BY <2>1, AlikeStays
<1>8. CASE UNCHANGED vars
  BY <1>8, AlikeStays DEF vars, jobVars, measureVars, learningVars
<1> QED BY <1>1, <1>2, <1>3, <1>4, <1>5, <1>6, <1>7, <1>8, StepsOfJobs

-----------------------------------------------------------------------------
(* Choices *)

LEMMA ChoicesAreFinite ==
  ASSUME NEW S, IsFiniteSet(S), NEW k
  PROVE  IsFiniteSet(kSubset(k, S)) /\ Cardinality(kSubset(k, S)) \in Nat
<1>1. kSubset(k, S) \in SUBSET (SUBSET S)
  BY DEF kSubset
<1> QED BY <1>1, FS_SUBSET, FS_Subset, FS_CardinalityType

\* What is renamed one to one is as many as before.
LEMMA ImageHasAsMany ==
  ASSUME NEW S, NEW T, NEW f \in Bijection(S, T), NEW c \in SUBSET S, IsFiniteSet(c)
  PROVE  LET d == {f[i] : i \in c}
         IN d \in SUBSET T /\ IsFiniteSet(d) /\ Cardinality(d) = Cardinality(c)
<1>. DEFINE d == {f[i] : i \in c}
            g == [i \in c |-> f[i]]
<1>1. g \in Bijection(c, d)
  BY DEF Bijection, Injection, IsInjective, Surjection
<1>2. ExistsBijection(c, d)
  BY <1>1 DEF ExistsBijection
<1>3. d \in SUBSET T
  BY DEF Bijection, Injection, IsInjective, Surjection
<1>. HIDE DEF d
<1> QED BY <1>2, <1>3, FS_Bijection DEF d

\* Sets that are as large have as many choices.
LEMMA ChoicesCarryOver ==
  ASSUME NEW S, NEW T, IsFiniteSet(S), NEW f \in Bijection(S, T), NEW k
  PROVE  Cardinality(kSubset(k, T)) = Cardinality(kSubset(k, S))
<1>. DEFINE Image(c) == {f[i] : i \in c}
            F == [c \in kSubset(k, S) |-> Image(c)]
<1>1. \A c \in SUBSET S : IsFiniteSet(c)
  BY FS_Subset
<1>2. \A c \in SUBSET S : Image(c) \in SUBSET T /\ Cardinality(Image(c)) = Cardinality(c)
  BY <1>1, ImageHasAsMany
<1>3. F \in [kSubset(k, S) -> kSubset(k, T)]
  <2>. HIDE DEF Image
  <2> QED BY <1>2 DEF kSubset
<1>4. ASSUME NEW a \in SUBSET S, NEW b \in SUBSET S, Image(a) = Image(b) PROVE a = b
  <2>1. \A i, j \in S : f[i] = f[j] => i = j
    BY DEF Bijection, Injection, IsInjective
  <2>2. \A i \in a : f[i] \in Image(b)
    BY <1>4
  <2>3. \A i \in b : f[i] \in Image(a)
    BY <1>4
  <2>4. \A i \in a : i \in b
    BY <2>1, <2>2
  <2>5. \A i \in b : i \in a
    BY <2>1, <2>3
  <2> QED BY <2>4, <2>5
<1>5. ASSUME NEW d \in kSubset(k, T) PROVE \E c \in kSubset(k, S) : Image(c) = d
  <2>. DEFINE c == {i \in S : f[i] \in d}
  <2>1. \A t \in T : \E i \in S : f[i] = t
    BY DEF Bijection, Surjection
  <2>2. Image(c) = d
    BY <2>1 DEF kSubset
  <2>3. c \in SUBSET S
    OBVIOUS
  <2>4. Cardinality(c) = Cardinality(d)
    <3>. HIDE DEF Image, c
    <3> QED BY <1>2, <2>2, <2>3
  <2>5. c \in kSubset(k, S)
    BY <2>3, <2>4 DEF kSubset
  <2>. HIDE DEF c, Image
  <2> QED BY <2>2, <2>5
<1>6. F \in Bijection(kSubset(k, S), kSubset(k, T))
  <2>1. \A a \in kSubset(k, S) : a \in SUBSET S /\ F[a] = Image(a)
    BY DEF kSubset
  <2>. HIDE DEF Image, F
  <2>2. F \in Injection(kSubset(k, S), kSubset(k, T))
    BY <1>3, <1>4, <2>1 DEF Injection, IsInjective
  <2>3. F \in Surjection(kSubset(k, S), kSubset(k, T))
    BY <1>3, <1>5, <2>1 DEF Surjection
  <2> QED BY <2>2, <2>3 DEF Bijection
<1>7. ExistsBijection(kSubset(k, S), kSubset(k, T))
  BY <1>6 DEF ExistsBijection
<1> QED BY <1>7, ChoicesAreFinite, FS_Bijection

\* comb(n, k) counts the k-element choices of any n things.
LEMMA CombCounts ==
  ASSUME NEW S, IsFiniteSet(S), NEW k
  PROVE  Cardinality(kSubset(k, S)) = Comb(Cardinality(S), k)
<1>1. PICK f : f \in Bijection(1 .. Cardinality(S), S)
  BY FS_CardinalityType DEF ExistsBijection
<1>2. Cardinality(S) \in Nat
  BY FS_CardinalityType
<1>3. IsFiniteSet(1 .. Cardinality(S))
  BY <1>2, FS_Interval
<1> QED BY <1>1, <1>3, ChoicesCarryOver DEF Comb

\* A number of choices is a natural number.
LEMMA CombIsNat ==
  ASSUME NEW n \in Nat, NEW k
  PROVE  Comb(n, k) \in Nat
BY FS_Interval, ChoicesAreFinite DEF Comb

\* Nobody chooses more than there are.
LEMMA CombOfTooMany ==
  ASSUME NEW S, IsFiniteSet(S), NEW k \in Nat, Cardinality(S) < k
  PROVE  kSubset(k, S) = {} /\ Cardinality(kSubset(k, S)) = 0
<1>1. \A c \in SUBSET S : Cardinality(c) <= Cardinality(S) /\ Cardinality(c) \in Nat
  BY FS_Subset, FS_CardinalityType
<1>2. Cardinality(S) \in Nat
  BY FS_CardinalityType
<1>3. kSubset(k, S) = {}
  BY <1>1, <1>2 DEF kSubset
<1> QED BY <1>3, FS_EmptySet

\* There are as many choices of one as things to choose from.
LEMMA CombOfOne ==
  ASSUME NEW n \in Nat
  PROVE  Comb(n, 1) = n
<1>. DEFINE S == 1 .. n
            F == [i \in S |-> {i}]
<1>1. IsFiniteSet(S) /\ Cardinality(S) = n
  BY FS_Interval
<1>2. \A i \in S : {i} \in kSubset(1, S)
  BY FS_Singleton DEF kSubset
<1>3. \A c \in kSubset(1, S) : \E i \in S : c = {i}
  <2>1. ASSUME NEW c \in kSubset(1, S) PROVE \E i \in S : c = {i}
    <3>1. c \in SUBSET S /\ Cardinality(c) = 1 /\ IsFiniteSet(c)
      BY <1>1, FS_Subset DEF kSubset
    <3>2. PICK i : c = {i}
      BY <3>1, FS_Singleton
    <3> QED BY <3>1, <3>2
  <2> QED BY <2>1
<1>. HIDE DEF S
<1>4. F \in Bijection(S, kSubset(1, S))
  BY <1>2, <1>3 DEF Bijection, Injection, IsInjective, Surjection
<1>5. ExistsBijection(S, kSubset(1, S))
  BY <1>4 DEF ExistsBijection
<1> QED BY <1>1, <1>5, FS_Bijection DEF Comb, S

\* Choosing one and then the others chooses k in at least one way.
LEMMA ChooseOneFirst ==
  ASSUME NEW m \in Nat, NEW k \in Nat \ {0}
  PROVE  Comb(m, k) <= m * Comb(m, k - 1)
<1>. DEFINE M == 1 .. m
            First(c) == CHOOSE i \in c : TRUE
            F == [c \in kSubset(k, M) |-> <<First(c), c \ {First(c)}>>]
<1>1. IsFiniteSet(M) /\ Cardinality(M) = m
  BY FS_Interval
<1>2. ASSUME NEW c \in kSubset(k, M) PROVE First(c) \in c /\ First(c) \in M /\ c \ {First(c)} \in kSubset(k - 1, M)
  <2>1. c \in SUBSET M /\ Cardinality(c) = k /\ IsFiniteSet(c)
    BY <1>1, FS_Subset DEF kSubset
  <2>2. c # {}
    BY <2>1, FS_EmptySet
  <2>3. First(c) \in c
    BY <2>2
  <2>. HIDE DEF First, M
  <2>4. Cardinality(c \ {First(c)}) = k - 1
    BY <2>1, <2>3, FS_RemoveElement
  <2> QED BY <2>1, <2>3, <2>4 DEF kSubset
<1>3. F \in Injection(kSubset(k, M), M \X kSubset(k - 1, M))
  <2>. HIDE DEF First, M
  <2>1. F \in [kSubset(k, M) -> M \X kSubset(k - 1, M)]
    BY <1>2
  <2>2. ASSUME NEW a \in kSubset(k, M), NEW b \in kSubset(k, M), F[a] = F[b] PROVE a = b
    <3>1. First(a) = First(b) /\ a \ {First(a)} = b \ {First(b)}
      BY <2>2
    <3>2. a = (a \ {First(a)}) \cup {First(a)} /\ b = (b \ {First(b)}) \cup {First(b)}
      BY <1>2
    <3> QED BY <3>1, <3>2
  <2> QED BY <2>1, <2>2 DEF Injection, IsInjective
<1>. HIDE DEF F, M
<1>4. IsFiniteSet(M \X kSubset(k - 1, M)) /\ Cardinality(M \X kSubset(k - 1, M)) = Cardinality(M) * Cardinality(kSubset(k - 1, M))
  BY <1>1, ChoicesAreFinite, FS_Product
<1>5. Cardinality(kSubset(k, M)) <= Cardinality(M \X kSubset(k - 1, M))
  BY <1>3, <1>4, FS_Injection
<1> QED BY <1>1, <1>4, <1>5 DEF Comb, M

\* One thing more may be left out or chosen.
LEMMA OneMoreToChoose ==
  ASSUME NEW m \in Nat, NEW k \in Nat \ {0}
  PROVE  Comb(m, k) + Comb(m, k - 1) <= Comb(m + 1, k)
<1>. DEFINE M == 1 .. m
            N == 1 .. m + 1
            Without == kSubset(k, M)
            With == {c \cup {m + 1} : c \in kSubset(k - 1, M)}
            F == [c \in kSubset(k - 1, M) |-> c \cup {m + 1}]
<1>1. IsFiniteSet(M) /\ IsFiniteSet(N) /\ M \subseteq N /\ m + 1 \in N /\ m + 1 \notin M
  BY FS_Interval
<1>. HIDE DEF M, N
<1>2. F \in Bijection(kSubset(k - 1, M), With)
  <2>1. ASSUME NEW a \in kSubset(k - 1, M), NEW b \in kSubset(k - 1, M), a \cup {m + 1} = b \cup {m + 1} PROVE a = b
    <3>1. m + 1 \notin a /\ m + 1 \notin b
      BY <1>1 DEF kSubset
    <3> QED BY <2>1, <3>1
  <2>2. F \in [kSubset(k - 1, M) -> With] /\ \A c \in kSubset(k - 1, M) : F[c] = c \cup {m + 1}
    OBVIOUS
  <2>3. \A d \in With : \E c \in kSubset(k - 1, M) : d = c \cup {m + 1}
    OBVIOUS
  <2>. HIDE DEF F, With
  <2>4. F \in Injection(kSubset(k - 1, M), With)
    BY <2>1, <2>2 DEF Injection, IsInjective
  <2>5. F \in Surjection(kSubset(k - 1, M), With)
    BY <2>2, <2>3 DEF Surjection
  <2> QED BY <2>4, <2>5 DEF Bijection
<1>3. ExistsBijection(kSubset(k - 1, M), With)
  BY <1>2 DEF ExistsBijection
<1>4. IsFiniteSet(With) /\ Cardinality(With) = Comb(m, k - 1)
  <2>. HIDE DEF With
  <2> QED BY <1>1, <1>3, ChoicesAreFinite, FS_Bijection DEF Comb, M
<1>5. IsFiniteSet(Without) /\ Cardinality(Without) = Comb(m, k)
  BY <1>1, ChoicesAreFinite DEF Comb, M
<1>6. Without \cap With = {}
  BY <1>1 DEF kSubset
<1>7. Without \cup With \in SUBSET kSubset(k, N)
  <2>1. Without \subseteq kSubset(k, N)
    BY <1>1 DEF kSubset
  <2>2. ASSUME NEW c \in kSubset(k - 1, M) PROVE c \cup {m + 1} \in kSubset(k, N)
    <3>1. c \in SUBSET M /\ IsFiniteSet(c) /\ Cardinality(c) = k - 1
      BY <1>1, FS_Subset DEF kSubset
    <3>2. m + 1 \notin c /\ c \cup {m + 1} \in SUBSET N
      BY <1>1, <3>1
    <3>3. Cardinality(c \cup {m + 1}) = k
      BY <3>1, <3>2, FS_AddElement
    <3> QED BY <3>2, <3>3 DEF kSubset
  <2>3. With \subseteq kSubset(k, N)
    BY <2>2
  <2> QED BY <2>1, <2>3
<1>. HIDE DEF Without, With
<1>8. Cardinality(Without \cup With) = Cardinality(Without) + Cardinality(With)
  <2>1. Cardinality({}) = 0 /\ Cardinality(Without) \in Nat /\ Cardinality(With) \in Nat
    BY <1>4, <1>5, FS_EmptySet, FS_CardinalityType
  <2>2. Cardinality(Without \cup With) = Cardinality(Without) + Cardinality(With) - Cardinality(Without \cap With)
    BY <1>4, <1>5, FS_Union
  <2>3. Cardinality(Without \cap With) = 0
    BY <1>6, <2>1
  <2> QED BY <2>1, <2>2, <2>3
<1>9. Cardinality(Without \cup With) <= Cardinality(kSubset(k, N))
  BY <1>1, <1>7, ChoicesAreFinite, FS_Subset
<1> QED BY <1>4, <1>5, <1>8, <1>9 DEF Comb, N

\* The share of the choices of k that are all right is at most the share
\* of the things that are right.
LEMMA AllRightIsRarer ==
  ASSUME NEW r \in Nat, NEW k \in Nat \ {0}, NEW n \in Nat, r <= n
  PROVE  Comb(r, k) * n <= r * Comb(n, k)
<1>. DEFINE Good == {i \in Nat : Comb(r, k) * (r + i) <= r * Comb(r + i, k)}
<1>1. 0 \in Good
  <2>1. Comb(r, k) \in Nat
    BY CombIsNat
  <2>2. Comb(r, k) * r <= r * Comb(r, k)
    BY <2>1
  <2>3. r + 0 = r
    OBVIOUS
  <2>4. Comb(r, k) * (r + 0) <= r * Comb(r + 0, k)
    BY <2>2, <2>3
  <2> QED BY <2>4
<1>2. ASSUME NEW i \in Good PROVE i + 1 \in Good
  <2>. DEFINE m == r + i
              a == Comb(r, k)
              b == Comb(m, k)
              c == Comb(m, k - 1)
              d == Comb(m + 1, k)
  <2>1. i \in Nat /\ m \in Nat /\ a * m <= r * b /\ k - 1 \in Nat
    OBVIOUS
  <2>2. a \in Nat /\ b \in Nat /\ c \in Nat /\ d \in Nat
    BY <2>1, CombIsNat
  <2>3. b <= m * c
    BY <2>1, ChooseOneFirst
  <2>4. b + c <= d
    BY <2>1, OneMoreToChoose
  <2>5. r + (i + 1) = m + 1
    BY <2>1
  <2>6. a * (m + 1) <= r * d
    <3>1. CASE m = 0
      <4>1. r = 0 /\ i = 0
        BY <2>1, <3>1
      <4>2. IsFiniteSet({}) /\ Cardinality({}) = 0
        BY FS_EmptySet
      <4>3. 1 .. r = {}
        BY <4>1
      <4>4. a = 0
        BY <4>2, <4>3, CombOfTooMany DEF Comb
      <4>. HIDE DEF a, b, c, d
      <4> QED BY <2>2, <3>1, <4>1, <4>4
    <3>2. CASE m # 0
      <4>. HIDE DEF a, b, c, d, m
      <4>1. b * (m + 1) <= m * d
        <5>1. m * (b + c) <= m * d
          BY <2>1, <2>2, <2>4
        <5>2. m * (b + c) = m * b + m * c
          BY <2>1, <2>2
        <5>3. b * (m + 1) = m * b + b
          BY <2>1, <2>2
        <5>4. m * b \in Nat /\ m * c \in Nat /\ m * d \in Nat
          BY <2>1, <2>2
        <5> QED BY <2>2, <2>3, <5>1, <5>2, <5>3, <5>4
      <4>2. (a * m) * (m + 1) <= (r * b) * (m + 1)
        <5>1. a * m \in Int /\ r * b \in Int /\ m + 1 \in Nat
          BY <2>1, <2>2
        <5>2. \A p, q \in Int : \A s \in Nat : p <= q => p * s <= q * s
          OBVIOUS
        <5> QED BY <2>1, <5>1, <5>2
      <4>3. (r * b) * (m + 1) <= r * (m * d)
        <5>1. b * (m + 1) \in Int /\ m * d \in Int
          BY <2>1, <2>2
        <5>2. \A p, q \in Int : \A s \in Nat : p <= q => s * p <= s * q
          OBVIOUS
        <5>3. r * (b * (m + 1)) <= r * (m * d)
          BY <4>1, <5>1, <5>2
        <5>4. (r * b) * (m + 1) = r * (b * (m + 1))
          BY <2>1, <2>2
        <5> QED BY <5>3, <5>4
      <4>4. (a * m) * (m + 1) = m * (a * (m + 1)) /\ r * (m * d) = m * (r * d)
        BY <2>1, <2>2
      <4>5. m * (a * (m + 1)) <= m * (r * d)
        <5>1. (a * m) * (m + 1) \in Int /\ (r * b) * (m + 1) \in Int /\ r * (m * d) \in Int
          BY <2>1, <2>2
        <5>2. \A p, q, s \in Int : p <= q /\ q <= s => p <= s
          OBVIOUS
        <5>3. (a * m) * (m + 1) <= r * (m * d)
          BY <4>2, <4>3, <5>1, <5>2
        <5> QED BY <4>4, <5>3
      <4>6. a * (m + 1) \in Int /\ r * d \in Int
        BY <2>1, <2>2
      <4>7. \A p, q \in Int : m * p <= m * q => p <= q
        <5>1. m \in Int /\ m >= 1
          BY <2>1, <3>2
        <5>2. TAKE p, q \in Int
        <5>3. SUFFICES ASSUME q < p PROVE m * q < m * p
          BY <5>1
        <5>4. m * (p - q) >= 1
          BY <5>1, <5>3
        <5>5. m * (p - q) = m * p - m * q
          BY <5>1
        <5> QED BY <5>1, <5>4, <5>5
      <4> QED BY <4>5, <4>6, <4>7
    <3> QED BY <3>1, <3>2
  <2>7. a * (r + (i + 1)) <= r * Comb(r + (i + 1), k)
    <3>. HIDE DEF a, m
    <3> QED BY <2>5, <2>6
  <2> QED BY <2>1, <2>7
<1>3. Good = Nat
  <2>1. Good \in SUBSET Nat
    OBVIOUS
  <2>. HIDE DEF Good
  <2> QED BY <1>1, <1>2, <2>1, EveryNat
<1>4. n - r \in Good
  <2>. HIDE DEF Good
  <2> QED BY <1>3
<1>5. r + (n - r) = n
  OBVIOUS
<1> QED BY <1>4, <1>5

-----------------------------------------------------------------------------
(* Statistics *)

\* A task's scores are counted over its trials that a grader applied to:
\* gathered by grader first or by task first, it is the same trials.
LEMMA TablesAgree ==
  ASSUME IsFiniteSet(DOMAIN trials)
  PROVE  TableIsTheScores
<1>1. SUFFICES ASSUME NEW grader \in Graders
               PROVE  LET given == PerTaskScores(trials, grader)
                          table == PerTaskTable(trials)
                          summary == SummariseGraders(trials)
                      IN /\ DOMAIN given = {b \in DOMAIN table : grader \in DOMAIN table[b]}
                         /\ \A b \in DOMAIN given : given[b] = table[b][grader]
                         /\ grader \in DOMAIN summary <=> DOMAIN given # {}
                         /\ grader \in DOMAIN summary =>
                              summary[grader].applicable = SumFunction([b \in DOMAIN given |-> given[b][2]])
  BY DEF TableIsTheScores
<1>. DEFINE D == DOMAIN trials
            Graded == {n \in D : Applies(Sheet(trials[n]), grader)}
            Correct == {n \in D : Sheet(trials[n])[grader] = "correct"}
            Of(b) == {n \in D : trials[n].bundle = b}
            given == PerTaskScores(trials, grader)
            table == PerTaskTable(trials)
            summary == SummariseGraders(trials)
            Owners == {trials[n].bundle : n \in Graded}
<1>2. Correct \subseteq Graded
  BY DEF Applies
<1>3. \A S \in SUBSET D : IsFiniteSet(S) /\ Cardinality(S) \in Nat /\ (Cardinality(S) > 0 <=> S # {})
  <2>1. TAKE S \in SUBSET D
  <2>2. IsFiniteSet(S)
    BY FS_Subset
  <2>3. Cardinality(S) \in Nat /\ (Cardinality(S) = 0 <=> S = {})
    BY <2>2, FS_CardinalityType, FS_EmptySet
  <2> QED BY <2>2, <2>3
<1>4. given = [b \in Owners |-> <<Cardinality(Of(b) \cap Correct), Cardinality(Of(b) \cap Graded)>>]
  <2>. DEFINE graded == Those(trials, LAMBDA t : Applies(Sheet(t), grader))
  <2>1. graded = [n \in Graded |-> trials[n]]
    BY DEF Those, Restrict
  <2>2. ASSUME NEW b PROVE TrialsOf(graded, b) = [n \in Of(b) \cap Graded |-> trials[n]]
    <3>1. {n \in DOMAIN graded : graded[n].bundle = b} = Of(b) \cap Graded
      BY <2>1
    <3>. HIDE DEF graded
    <3> QED BY <2>1, <3>1 DEF TrialsOf, Those, Restrict
  <2>3. ASSUME NEW b
        PROVE  /\ Size(TrialsOf(graded, b)) = Cardinality(Of(b) \cap Graded)
               /\ CountTrials(TrialsOf(graded, b), LAMBDA t : Sheet(t)[grader] = "correct") = Cardinality(Of(b) \cap Correct)
    <3>. DEFINE mine == TrialsOf(graded, b)
    <3>. HIDE DEF mine, graded
    <3>1. mine = [n \in Of(b) \cap Graded |-> trials[n]]
      BY <2>2 DEF mine
    <3>2. {n \in DOMAIN mine : Sheet(mine[n])[grader] = "correct"} = Of(b) \cap Correct
      BY <1>2, <3>1
    <3>3. DOMAIN mine = Of(b) \cap Graded
      BY <3>1
    <3>4. Size(mine) = Cardinality(Of(b) \cap Graded)
      BY <3>3 DEF Size
    <3>5. CountTrials(mine, LAMBDA t : Sheet(t)[grader] = "correct") = Cardinality(Of(b) \cap Correct)
      BY <3>2 DEF CountTrials, Those, Restrict, Size
    <3> QED BY <3>4, <3>5 DEF mine
  <2>4. Bundles(graded) = Owners
    BY <2>1 DEF Bundles
  <2>5. given = [b \in Bundles(graded) |-> <<CountTrials(TrialsOf(graded, b), LAMBDA t : Sheet(t)[grader] = "correct"),
                                              Size(TrialsOf(graded, b))>>]
    BY DEF PerTaskScores
  <2>. HIDE DEF graded, given
  <2> QED BY <2>3, <2>4, <2>5
<1>5. /\ DOMAIN table = {trials[n].bundle : n \in D}
      /\ \A b \in DOMAIN table :
           /\ grader \in DOMAIN table[b] <=> Cardinality(Of(b) \cap Graded) > 0
           /\ grader \in DOMAIN table[b] =>
                table[b][grader] = <<Cardinality(Of(b) \cap Correct), Cardinality(Of(b) \cap Graded)>>
  <2>1. DOMAIN table = {trials[n].bundle : n \in D}
    BY DEF PerTaskTable, Bundles
  <2>2. ASSUME NEW b
        PROVE  /\ CountTrials(TrialsOf(trials, b), LAMBDA t : Applies(Sheet(t), grader)) = Cardinality(Of(b) \cap Graded)
               /\ CountTrials(TrialsOf(trials, b), LAMBDA t : Sheet(t)[grader] = "correct") = Cardinality(Of(b) \cap Correct)
    <3>. DEFINE mine == TrialsOf(trials, b)
    <3>1. mine = [n \in Of(b) |-> trials[n]]
      BY DEF TrialsOf, Those, Restrict
    <3>. HIDE DEF mine
    <3>2. /\ {n \in DOMAIN mine : Sheet(mine[n])[grader] = "correct"} = Of(b) \cap Correct
          /\ {n \in DOMAIN mine : Applies(Sheet(mine[n]), grader)} = Of(b) \cap Graded
      BY <3>1
    <3>3. CountTrials(mine, LAMBDA t : Sheet(t)[grader] = "correct") = Cardinality(Of(b) \cap Correct)
      BY <3>2 DEF CountTrials, Those, Restrict, Size
    <3>4. CountTrials(mine, LAMBDA t : Applies(Sheet(t), grader)) = Cardinality(Of(b) \cap Graded)
      BY <3>2 DEF CountTrials, Those, Restrict, Size
    <3> QED BY <3>3, <3>4 DEF mine
  <2>3. ASSUME NEW b \in DOMAIN table
        PROVE  /\ grader \in DOMAIN table[b] <=> Cardinality(Of(b) \cap Graded) > 0
               /\ grader \in DOMAIN table[b] =>
                    table[b][grader] = <<Cardinality(Of(b) \cap Correct), Cardinality(Of(b) \cap Graded)>>
    BY <2>2 DEF PerTaskTable
  <2> QED BY <2>1, <2>3
<1>6. /\ grader \in DOMAIN summary <=> Cardinality(Graded) > 0
      /\ grader \in DOMAIN summary => summary[grader].applicable = Cardinality(Graded)
  <2>1. CountTrials(trials, LAMBDA t : Applies(Sheet(t), grader)) = Cardinality(Graded)
    BY DEF CountTrials, Those, Restrict, Size
  <2> QED BY <2>1 DEF SummariseGraders
<1>7. SumFunction([b \in Owners |-> Cardinality(Of(b) \cap Graded)]) = Cardinality(Graded)
  <2>. DEFINE h == [n \in Graded |-> trials[n].bundle]
              one == [n \in Graded |-> 1]
              Heap(b) == {n \in Graded : h[n] = b}
              counts == [b \in Owners |-> SumFunctionOnSet(one, Heap(b))]
  <2>1. IsFiniteSet(Graded) /\ IsFiniteSet(Owners)
    <3>1. IsFiniteSet(Graded)
      BY <1>3
    <3>2. h \in Surjection(Graded, Owners)
      BY DEF Surjection
    <3>. HIDE DEF h, Graded, Owners
    <3> QED BY <3>1, <3>2, FS_Surjection
  <2>2. SumFunctionOnSet(counts, Owners) = SumFunctionOnSet(one, Graded)
    <3>1. h \in [Graded -> Owners] /\ \A n \in Graded : one[n] \in Int
      OBVIOUS
    <3>. HIDE DEF h, one, Graded, Owners
    <3> QED BY <2>1, <3>1, SumOfHeaps
  <2>3. SumFunctionOnSet(one, Graded) = Cardinality(Graded)
    <3>1. \A n \in Graded : one[n] = 1
      OBVIOUS
    <3>. HIDE DEF one, Graded
    <3> QED BY <2>1, <3>1, SumOfOnes
  <2>4. ASSUME NEW b \in Owners PROVE SumFunctionOnSet(one, Heap(b)) = Cardinality(Of(b) \cap Graded)
    <3>1. Heap(b) = Of(b) \cap Graded
      OBVIOUS
    <3>2. \A n \in Heap(b) : one[n] = 1
      OBVIOUS
    <3>3. IsFiniteSet(Heap(b))
      BY <1>3, <3>1
    <3>. HIDE DEF one, Heap, Of, Graded
    <3> QED BY <3>1, <3>2, <3>3, SumOfOnes
  <2>5. counts = [b \in Owners |-> Cardinality(Of(b) \cap Graded)]
    <3>. HIDE DEF one, Heap, Of, Graded, Owners
    <3> QED BY <2>4
  <2>. HIDE DEF counts, Graded, Of, one, Owners
  <2>6. DOMAIN [b \in Owners |-> Cardinality(Of(b) \cap Graded)] = Owners
    OBVIOUS
  <2> QED BY <2>2, <2>3, <2>5, <2>6 DEF SumFunction
<1>. HIDE DEF given, table, summary
<1>8. DOMAIN given = {b \in DOMAIN table : grader \in DOMAIN table[b]}
  <2>1. DOMAIN given = Owners
    BY <1>4
  <2>2. \A b : b \in Owners <=> Of(b) \cap Graded # {}
    OBVIOUS
  <2>3. Owners \subseteq DOMAIN table
    BY <1>5
  <2>4. \A b \in DOMAIN table : grader \in DOMAIN table[b] <=> Of(b) \cap Graded # {}
    <3>1. \A b : Of(b) \cap Graded \in SUBSET D
      OBVIOUS
    <3>. HIDE DEF Of, Graded, D
    <3> QED BY <1>3, <1>5, <3>1
  <2>. HIDE DEF Of, Graded, Owners
  <2> QED BY <2>1, <2>2, <2>3, <2>4
<1>9. \A b \in DOMAIN given : given[b] = table[b][grader]
  <2>. HIDE DEF Of, Graded, Correct, Owners, D
  <2> QED BY <1>4, <1>5, <1>8
<1>10. grader \in DOMAIN summary <=> DOMAIN given # {}
  <2>1. DOMAIN given = Owners
    BY <1>4
  <2>2. Owners # {} <=> Graded # {}
    OBVIOUS
  <2>3. Cardinality(Graded) > 0 <=> Graded # {}
    BY <1>3
  <2>. HIDE DEF Graded, Owners
  <2> QED BY <1>6, <2>1, <2>2, <2>3
<1>11. grader \in DOMAIN summary => summary[grader].applicable = SumFunction([b \in DOMAIN given |-> given[b][2]])
  <2>1. [b \in DOMAIN given |-> given[b][2]] = [b \in Owners |-> Cardinality(Of(b) \cap Graded)]
    <3>. HIDE DEF Of, Graded, Correct, Owners
    <3> QED BY <1>4
  <2>. HIDE DEF Graded, Owners, Of
  <2> QED BY <1>6, <1>7, <2>1
<1> QED BY <1>8, <1>9, <1>10, <1>11 DEF given, table, summary

\* Every stated percent has one of the ten bins.
LEMMA BinsAreTen ==
  ASSUME NEW percent \in 0 .. 100
  PROVE  BinOf(percent) \in 0 .. 9
BY DEF BinOf

\* A bin's gap is the sum of how far its members are off, which is no more
\* than their distances together; all the distances squared are no more
\* than as many times the sum of their squares.
LEMMA BinsAddUp ==
  ASSUME IsFiniteSet(DOMAIN trials),
         \A n \in DOMAIN trials : trials[n].outcome.confidence \in (0 .. 100) \cup {Nothing}
  PROVE  BinsNeverExceedBrier
<1>. DEFINE C == {n \in DOMAIN trials : trials[n].outcome.confidence # Nothing}
            R == {n \in DOMAIN trials : CorrectRootCause(Sheet(trials[n]))}
            conf == [n \in C |-> trials[n].outcome.confidence]
            off == [n \in C |-> conf[n] - IF n \in R THEN 100 ELSE 0]
            far == [n \in C |-> Magnitude(off[n])]
            squared == [n \in C |-> far[n] * far[n]]
            bin == [n \in C |-> BinOf(conf[n])]
            K == 0 .. 9
            In(k) == {n \in C : bin[n] = k}
            gap == [k \in K |-> BinGap(trials, k)]
<1>1. IsFiniteSet(C) /\ IsFiniteSet(K) /\ \A k : In(k) \in SUBSET C /\ IsFiniteSet(In(k))
  <2>1. IsFiniteSet(C)
    BY FS_Subset
  <2>2. ASSUME NEW k PROVE In(k) \in SUBSET C /\ IsFiniteSet(In(k))
    <3>1. In(k) \in SUBSET C
      OBVIOUS
    <3>. HIDE DEF C, In
    <3> QED BY <2>1, <3>1, FS_Subset
  <2>3. IsFiniteSet(K)
    <3>1. PICK b \in Int : b = 9
      OBVIOUS
    <3>2. IsFiniteSet(0 .. b)
      BY FS_Interval
    <3> QED BY <3>1, <3>2
  <2>. HIDE DEF C, In, K
  <2> QED BY <2>1, <2>2, <2>3
<1>2. \A n \in C : /\ conf[n] \in 0 .. 100 /\ bin[n] \in K
                   /\ off[n] \in Int /\ far[n] \in Nat /\ squared[n] \in Int
  <2>1. ASSUME NEW n \in C PROVE conf[n] \in 0 .. 100
    OBVIOUS
  <2>2. ASSUME NEW n \in C PROVE off[n] \in Int
    <3>1. off[n] = conf[n] - IF n \in R THEN 100 ELSE 0
      OBVIOUS
    <3>. HIDE DEF off, conf, R, C
    <3> QED BY <2>1, <3>1
  <2>3. ASSUME NEW n \in C PROVE far[n] \in Nat
    <3>1. far[n] = Magnitude(off[n])
      OBVIOUS
    <3>. HIDE DEF far, off, C
    <3> QED BY <2>2, <3>1 DEF Magnitude
  <2>4. ASSUME NEW n \in C PROVE squared[n] \in Int
    <3>1. squared[n] = far[n] * far[n]
      OBVIOUS
    <3>. HIDE DEF far, squared, C
    <3> QED BY <2>3, <3>1
  <2>5. ASSUME NEW n \in C PROVE bin[n] \in K
    <3>1. bin[n] = BinOf(conf[n])
      OBVIOUS
    <3>. HIDE DEF bin, conf, C
    <3> QED BY <2>1, <3>1, BinsAreTen
  <2>. HIDE DEF C, conf, off, far, squared, bin, K
  <2> QED BY <2>1, <2>2, <2>3, <2>4, <2>5
<1>0. bin \in [C -> K]
  <2>1. bin = [n \in C |-> bin[n]]
    OBVIOUS
  <2>. HIDE DEF bin, C, K
  <2> QED BY <1>2, <2>1
<1>3. Confident(trials) = [n \in C |-> trials[n]]
  BY DEF Confident, Those, Restrict
<1>4. ASSUME NEW k PROVE InBin(trials, k) = [n \in In(k) |-> trials[n]]
  <2>. DEFINE stated == Confident(trials)
  <2>1. {n \in DOMAIN stated : BinOf(stated[n].outcome.confidence) = k} = In(k)
    BY <1>3
  <2>2. \A n \in In(k) : stated[n] = trials[n]
    BY <1>3
  <2>. HIDE DEF stated, In
  <2> QED BY <2>1, <2>2 DEF InBin, Those, Restrict, stated
<1>5. SumFunction([k \in K |-> Size(InBin(trials, k))]) = Size(Confident(trials))
  <2>. DEFINE one == [n \in C |-> 1]
              counts == [k \in K |-> SumFunctionOnSet(one, {n \in C : bin[n] = k})]
  <2>1. SumFunctionOnSet(counts, K) = SumFunctionOnSet(one, C)
    <3>1. \A n \in C : one[n] \in Int
      OBVIOUS
    <3>. HIDE DEF bin, one, C, K
    <3> QED BY <1>0, <1>1, <3>1, SumOfHeaps
  <2>2. SumFunctionOnSet(one, C) = Cardinality(C)
    <3>1. \A n \in C : one[n] = 1
      OBVIOUS
    <3>. HIDE DEF one, C
    <3> QED BY <1>1, <3>1, SumOfOnes
  <2>3. ASSUME NEW k \in K PROVE SumFunctionOnSet(one, In(k)) = Size(InBin(trials, k))
    <3>1. \A n \in In(k) : one[n] = 1
      OBVIOUS
    <3>2. DOMAIN InBin(trials, k) = In(k)
      BY <1>4
    <3>. HIDE DEF one, In
    <3> QED BY <1>1, <3>1, <3>2, SumOfOnes DEF Size
  <2>4. counts = [k \in K |-> Size(InBin(trials, k))]
    <3>1. counts = [k \in K |-> SumFunctionOnSet(one, In(k))]
      OBVIOUS
    <3>. HIDE DEF one, In, C, counts
    <3> QED BY <2>3, <3>1
  <2>5. Size(Confident(trials)) = Cardinality(C)
    BY <1>3 DEF Size
  <2>6. DOMAIN counts = K
    OBVIOUS
  <2>. HIDE DEF counts, one, C, K
  <2> QED BY <2>1, <2>2, <2>4, <2>5, <2>6 DEF SumFunction
<1>6. ASSUME NEW k \in K
      PROVE  /\ gap[k] \in Nat
             /\ gap[k] <= SumFunctionOnSet(far, In(k))
             /\ SumFunctionOnSet(far, In(k)) \in Int
  <2>. DEFINE members == InBin(trials, k)
              said == [n \in DOMAIN members |-> members[n].outcome.confidence]
  <2>1. members = [n \in In(k) |-> trials[n]]
    BY <1>4, Zenon
  <2>2. DOMAIN said = In(k) /\ \A n \in In(k) : said[n] = conf[n]
    BY <2>1, Zenon
  <2>3. Stated(members) = SumFunctionOnSet(said, In(k))
    <3>. HIDE DEF members, In
    <3> QED BY <2>2 DEF Stated, SumFunction
  <2>4. \A n \in In(k) : conf[n] \in Int /\ off[n] \in Int /\ far[n] \in Int
    <3>. HIDE DEF C, conf, off, far, In
    <3> QED BY <1>1, <1>2
  <2>5. SumFunctionOnSet(said, In(k)) = SumFunctionOnSet(conf, In(k))
    <3>. HIDE DEF said, conf, In
    <3> QED BY <1>1, <2>2, <2>4, SumOfTheSame
  <2>6. RightIn(members) = Cardinality(In(k) \cap R)
    <3>1. {n \in DOMAIN members : CorrectRootCause(Sheet(members[n]))} = In(k) \cap R
      BY <2>1
    <3>. HIDE DEF members, In, R
    <3> QED BY <3>1 DEF RightIn, CountTrials, Those, Restrict, Size
  <2>7. SumFunctionOnSet(conf, In(k)) - 100 * Cardinality(In(k) \cap R) = SumFunctionOnSet(off, In(k))
    <3>1. \A n \in In(k) : off[n] = conf[n] - IF n \in R THEN 100 ELSE 0
      OBVIOUS
    <3>. HIDE DEF C, conf, off, far, bin, In, R
    <3>2. OffBy(conf, off, R, In(k))
      BY <2>4, <3>1 DEF OffBy
    <3> QED BY <1>1, <3>2, SumOfOffs
  <2>8. gap[k] = Magnitude(Stated(members) - 100 * RightIn(members))
    BY DEF BinGap
  <2>9. gap[k] = Magnitude(SumFunctionOnSet(off, In(k)))
    <3>. HIDE DEF gap, members, said, conf, off, In, R
    <3> QED BY <2>3, <2>5, <2>6, <2>7, <2>8
  <2>10. \A n \in In(k) : far[n] = Magnitude(off[n])
    OBVIOUS
  <2>. HIDE DEF gap, off, far, In
  <2>11. SumFunctionOnSet(off, In(k)) \in Int /\ SumFunctionOnSet(far, In(k)) \in Int
    BY <1>1, <2>4, SumsAreInts
  <2>12. Magnitude(SumFunctionOnSet(off, In(k))) <= SumFunctionOnSet(far, In(k))
    BY <1>1, <2>4, <2>10, SumOfDistances
  <2>13. Magnitude(SumFunctionOnSet(off, In(k))) \in Nat
    BY <2>11 DEF Magnitude
  <2> QED BY <2>9, <2>11, <2>12, <2>13
<1>7. SumFunctionOnSet(gap, K) \in Nat /\ SumFunctionOnSet(gap, K) <= SumFunctionOnSet(far, C)
  <2>. DEFINE heaps == [k \in K |-> SumFunctionOnSet(far, In(k))]
              zero == [k \in K |-> 0]
  <2>1. \A k \in K : gap[k] \in Int /\ heaps[k] \in Int /\ gap[k] <= heaps[k] /\ zero[k] \in Int /\ zero[k] <= gap[k]
    <3>. HIDE DEF gap, far, In, K
    <3> QED BY <1>6
  <2>2. SumFunctionOnSet(gap, K) <= SumFunctionOnSet(heaps, K)
    <3>. HIDE DEF gap, heaps, K, zero
    <3> QED BY <1>1, <2>1, SumOfSmaller
  <2>3. SumFunctionOnSet(zero, K) <= SumFunctionOnSet(gap, K)
    <3>. HIDE DEF gap, heaps, K, zero
    <3> QED BY <1>1, <2>1, SumOfSmaller
  <2>4. SumFunctionOnSet(zero, K) = 0
    <3>1. \A k \in K : zero[k] = 0
      OBVIOUS
    <3>. HIDE DEF zero, K
    <3> QED BY <1>1, <3>1, SumOfZeros
  <2>5. SumFunctionOnSet(gap, K) \in Int
    <3>. HIDE DEF gap, heaps, K, zero
    <3> QED BY <1>1, <2>1, SumsAreInts
  <2>6. SumFunctionOnSet(heaps, K) = SumFunctionOnSet(far, C)
    <3>1. \A n \in C : far[n] \in Int
      <4>. HIDE DEF far, C
      <4> QED BY <1>2
    <3>2. heaps = [k \in K |-> SumFunctionOnSet(far, {n \in C : bin[n] = k})]
      OBVIOUS
    <3>. HIDE DEF bin, far, C, K, heaps
    <3> QED BY <1>0, <1>1, <3>1, <3>2, SumOfHeaps
  <2>. HIDE DEF gap, heaps, K, zero, far, C
  <2> QED BY <2>2, <2>3, <2>4, <2>5, <2>6
<1>8. SumFunctionOnSet(far, C) * SumFunctionOnSet(far, C) <= Cardinality(C) * SumFunctionOnSet(squared, C)
  <2>1. \A n \in C : far[n] \in Int /\ squared[n] = far[n] * far[n]
    <3>1. \A n \in C : squared[n] = far[n] * far[n]
      OBVIOUS
    <3>. HIDE DEF far, squared, C
    <3> QED BY <1>2, <3>1
  <2>. HIDE DEF far, squared, C
  <2> QED BY <1>1, <2>1, SquareOfSum
<1>9. BrierScore(trials)[1] = SumFunctionOnSet(squared, C)
  <2>. DEFINE stated == Confident(trials)
              gone == [n \in DOMAIN stated |-> SquaredGap(stated[n])]
  <2>1. BrierScore(trials)[1] = SumFunctionOnSet(gone, C)
    BY <1>3 DEF BrierScore, SumFunction
  <2>2. ASSUME NEW n \in C PROVE squared[n] \in Int /\ squared[n] = gone[n]
    <3>1. gone[n] = SquaredGap(trials[n])
      BY <1>3
    <3>2. SquaredGap(trials[n]) = off[n] * off[n]
      BY DEF SquaredGap
    <3>3. squared[n] = Magnitude(off[n]) * Magnitude(off[n])
      OBVIOUS
    <3>. HIDE DEF gone, off, squared, C
    <3>4. Magnitude(off[n]) * Magnitude(off[n]) = off[n] * off[n]
      BY <1>2, Distances
    <3> QED BY <1>2, <3>1, <3>2, <3>3, <3>4
  <2>. HIDE DEF gone, squared, C
  <2> QED BY <1>1, <2>1, <2>2, SumOfTheSame
<1>10. ExpectedCalibrationError(trials)[1] = SumFunctionOnSet(gap, K)
  <2>1. DOMAIN gap = K
    OBVIOUS
  <2>2. ExpectedCalibrationError(trials)[1] = SumFunction(gap)
    BY DEF ExpectedCalibrationError
  <2>. HIDE DEF gap, K
  <2> QED BY <2>1, <2>2 DEF SumFunction
<1>11. SumFunctionOnSet(gap, K) * SumFunctionOnSet(gap, K) <= SumFunctionOnSet(squared, C) * Cardinality(C)
  <2>1. SumFunctionOnSet(far, C) \in Int /\ SumFunctionOnSet(squared, C) \in Int
    <3>1. \A n \in C : far[n] \in Int /\ squared[n] \in Int
      <4>. HIDE DEF far, squared, C
      <4> QED BY <1>2
    <3>. HIDE DEF far, squared, C
    <3> QED BY <1>1, <3>1, SumsAreInts
  <2>2. Cardinality(C) \in Nat
    <3>. HIDE DEF C
    <3> QED BY <1>1, FS_CardinalityType
  <2>. HIDE DEF gap, K, far, squared, C
  <2>3. SumFunctionOnSet(gap, K) * SumFunctionOnSet(gap, K) <= SumFunctionOnSet(far, C) * SumFunctionOnSet(far, C)
    <3>1. \A p \in Nat : \A q \in Int : p <= q => p * p <= q * q
      OBVIOUS
    <3> QED BY <1>7, <2>1, <3>1
  <2>4. Cardinality(C) * SumFunctionOnSet(squared, C) = SumFunctionOnSet(squared, C) * Cardinality(C)
    BY <2>1, <2>2
  <2>5. \A p, q, r \in Int : p <= q /\ q <= r => p <= r
    OBVIOUS
  <2>6. /\ SumFunctionOnSet(gap, K) * SumFunctionOnSet(gap, K) \in Int
        /\ SumFunctionOnSet(far, C) * SumFunctionOnSet(far, C) \in Int
        /\ SumFunctionOnSet(squared, C) * Cardinality(C) \in Int
    BY <1>7, <2>1, <2>2
  <2> QED BY <1>8, <2>3, <2>4, <2>5, <2>6
<1>12. Size(Confident(trials)) = Cardinality(C)
  BY <1>3 DEF Size
<1>. HIDE DEF C, gap, squared
<1> QED BY <1>5, <1>9, <1>10, <1>11, <1>12 DEF BinsNeverExceedBrier

\* Who answers with more confidence than is asked for answers with less.
LEMMA CurveFalls ==
  ASSUME IsFiniteSet(DOMAIN trials),
         \A n \in DOMAIN trials : trials[n].outcome.confidence \in (0 .. 100) \cup {Nothing}
  PROVE  CoverageFalls
<1>. DEFINE D == DOMAIN trials
            A == {n \in D : ~trials[n].outcome.abstained}
            Sure(c) == {n \in A : trials[n].outcome.confidence >= c}
            stated == {trials[i].outcome.confidence : i \in D}
            answered == Answered(trials)
            Kept(c) == Those(answered, LAMBDA t : t.outcome.confidence >= c)
            curve == RiskCoverageCurve(trials)
<1>1. answered = [n \in A |-> trials[n]] /\ Size(answered) = Cardinality(A)
  BY DEF Answered, Those, Restrict, Size
<1>2. ASSUME NEW c PROVE Size(Kept(c)) = Cardinality(Sure(c))
  <2>1. {n \in DOMAIN answered : answered[n].outcome.confidence >= c} = Sure(c)
    BY <1>1
  <2>. HIDE DEF answered, Sure
  <2> QED BY <2>1 DEF Those, Restrict, Size
<1>3. Cardinality(D) \in Nat /\ Cardinality(A) \in Nat
  BY FS_Subset, FS_CardinalityType
<1>4. ASSUME NEW c, NEW d, Sure(d) \subseteq Sure(c)
      PROVE  Cardinality(Sure(d)) <= Cardinality(Sure(c)) /\ Cardinality(Sure(c)) \in Nat /\ Cardinality(Sure(d)) \in Nat
  <2>1. Sure(c) \in SUBSET D /\ Sure(d) \in SUBSET D
    OBVIOUS
  <2>. HIDE DEF Sure, D
  <2> QED BY <1>4, <2>1, FS_Subset, FS_CardinalityType DEF D
<1>5. CASE Nothing \in stated
  <2>1. curve = {PointAt(trials, answered, 0)}
    BY <1>5 DEF RiskCoverageCurve
  <2>2. \A p \in curve : p.threshold = 0 /\ p.coverage = <<Cardinality(A), Size(trials)>>
    <3>. HIDE DEF curve, answered, A
    <3> QED BY <1>1, <2>1 DEF PointAt
  <2>3. LeqRatio(<<Cardinality(A), Size(trials)>>, <<Cardinality(A), Size(trials)>>)
    BY <1>3 DEF LeqRatio, Size
  <2>4. \E p \in curve : TRUE
    BY <2>1
  <2>. HIDE DEF curve, answered, A
  <2>5. \E p \in curve : p.threshold = 0 /\ p.coverage[1] = Size(answered)
    BY <1>1, <2>2, <2>4
  <2> QED BY <2>2, <2>3, <2>5 DEF CoverageFalls, curve, answered
<1>6. CASE Nothing \notin stated
  <2>1. curve = {PointAt(trials, Kept(c), c) : c \in stated \cup {0}}
    BY <1>6 DEF RiskCoverageCurve
  <2>2. \A n \in D : trials[n].outcome.confidence \in 0 .. 100
    BY <1>6
  <2>3. \A c \in stated \cup {0} : c \in Nat
    BY <2>2
  <2>4. Sure(0) = A
    BY <2>2
  <2>5. ASSUME NEW c \in stated \cup {0}, NEW d \in stated \cup {0}, c <= d PROVE Sure(d) \subseteq Sure(c)
    <3>1. c \in Nat /\ d \in Nat
      BY <2>3
    <3>2. \A n \in Sure(d) : n \in D /\ n \in A /\ trials[n].outcome.confidence >= d
      OBVIOUS
    <3>3. ASSUME NEW n \in Sure(d) PROVE trials[n].outcome.confidence >= c
      <4>1. trials[n].outcome.confidence \in Int /\ trials[n].outcome.confidence >= d
        BY <2>2, <3>2
      <4>. HIDE DEF stated, Sure
      <4> QED BY <2>5, <3>1, <4>1
    <3> QED BY <3>2, <3>3
  <2>6. \A c : PointAt(trials, Kept(c), c).threshold = c /\ PointAt(trials, Kept(c), c).coverage = <<Cardinality(Sure(c)), Cardinality(D)>>
    <3>. HIDE DEF Kept, Sure
    <3> QED BY <1>2 DEF PointAt, Size
  <2>7. \E p \in curve : p.threshold = 0 /\ p.coverage[1] = Size(answered)
    <3>1. PointAt(trials, Kept(0), 0) \in curve
      BY <2>1
    <3>. HIDE DEF curve, Kept, answered, A, Sure
    <3> QED BY <1>1, <2>4, <2>6, <3>1
  <2>8. ASSUME NEW p \in curve, NEW q \in curve, p.threshold <= q.threshold
        PROVE  LeqRatio(q.coverage, p.coverage)
    <3>1. PICK c \in stated \cup {0} : p = PointAt(trials, Kept(c), c)
      BY <2>1
    <3>2. PICK d \in stated \cup {0} : q = PointAt(trials, Kept(d), d)
      BY <2>1
    <3>. HIDE DEF curve, Kept, Sure, stated, D
    <3>3. /\ p.threshold = c /\ p.coverage = <<Cardinality(Sure(c)), Cardinality(D)>>
          /\ q.threshold = d /\ q.coverage = <<Cardinality(Sure(d)), Cardinality(D)>>
      BY <2>6, <3>1, <3>2
    <3>4. c <= d
      BY <2>8, <3>3
    <3>5. /\ Cardinality(Sure(d)) <= Cardinality(Sure(c))
          /\ Cardinality(Sure(c)) \in Nat /\ Cardinality(Sure(d)) \in Nat /\ Cardinality(D) \in Nat
      BY <1>3, <1>4, <2>5, <3>4
    <3>6. Cardinality(Sure(d)) * Cardinality(D) <= Cardinality(Sure(c)) * Cardinality(D)
      <4>1. \A i, j, m \in Nat : i <= j => i * m <= j * m
        OBVIOUS
      <4> QED BY <3>5, <4>1
    <3> QED BY <3>3, <3>6 DEF LeqRatio
  <2>. HIDE DEF curve, answered
  <2> QED BY <2>7, <2>8 DEF CoverageFalls, curve, answered
<1> QED BY <1>5, <1>6

\* The mean of one value is that value.
LEMMA MeanOfOne ==
  ASSUME NEW b, NEW values, DOMAIN values = {b}, NEW p \in Int, NEW q \in Int, values[b] = <<p, q>>
  PROVE  Mean(values) = <<p, q>>
<1>. DEFINE Body(it) == [s \in SUBSET {b} |-> IF s = {} THEN <<0, 1>>
                                               ELSE SumRatio(values[CHOOSE x \in s : TRUE], it[s \ {CHOOSE x \in s : TRUE}])]
            iter == CHOOSE it : it = Body(it)
            once == [s \in SUBSET {b} |-> IF s = {} THEN <<0, 1>> ELSE SumRatio(values[b], <<0, 1>>)]
<1>1. FoldFunction(SumRatio, <<0, 1>>, values) = iter[{b}]
  BY DEF FoldFunction, FoldFunctionOnSet, MapThenFoldSet
<1>2. once = Body(once)
  <2>1. ASSUME NEW s \in SUBSET {b} PROVE once[s] = Body(once)[s]
    <3>1. CASE s = {}
      BY <3>1
    <3>2. CASE s = {b}
      <4>1. (CHOOSE x \in s : TRUE) = b
        BY <3>2
      <4>2. s \ {b} = {} /\ s # {}
        BY <3>2
      <4>3. Body(once)[s] = SumRatio(values[b], once[{}])
        <5>. HIDE DEF once
        <5> QED BY <4>1, <4>2
      <4>4. once[{}] = <<0, 1>> /\ once[s] = SumRatio(values[b], <<0, 1>>)
        BY <4>2
      <4> QED BY <4>3, <4>4
    <3> QED BY <3>1, <3>2
  <2>. HIDE DEF Body
  <2>2. DOMAIN Body(once) = SUBSET {b}
    BY DEF Body
  <2>3. Body(once) = [s \in SUBSET {b} |-> Body(once)[s]]
    BY DEF Body
  <2> QED BY <2>1, <2>2, <2>3
<1>3. iter = Body(iter)
  <2>. HIDE DEF Body, once
  <2> QED BY <1>2
<1>. HIDE DEF iter
<1>4. iter[{}] = <<0, 1>>
  BY <1>3
<1>5. iter[{b}] = SumRatio(values[b], <<0, 1>>)
  <2>1. (CHOOSE x \in {b} : TRUE) = b /\ {b} \ {b} = {} /\ {b} # {}
    OBVIOUS
  <2> QED BY <1>3, <1>4, <2>1
<1>6. SumRatio(values[b], <<0, 1>>) = <<p, q>>
  BY DEF SumRatio
<1>7. Cardinality(DOMAIN values) = 1
  BY FS_Singleton
<1>8. FoldFunction(SumRatio, <<0, 1>>, values) = <<p, q>>
  BY <1>1, <1>5, <1>6
<1> QED BY <1>7, <1>8 DEF Mean

\* The choices of k tries that are all right, and those with one that is.
AllOf(k, M, right) == {c \in kSubset(k, M) : c \subseteq right}

SomeOf(k, M, right) == {c \in kSubset(k, M) : c \cap right # {}}

\* Of the choices of k things, those all right are the choices of k right
\* ones, and those with a right one are all but the choices of wrong ones.
LEMMA RightChoices ==
  ASSUME NEW M, IsFiniteSet(M), NEW right \in SUBSET M, NEW k \in Nat
  PROVE  /\ Cardinality(AllOf(k, M, right)) = Comb(Cardinality(right), k)
         /\ Cardinality(SomeOf(k, M, right))
              = Comb(Cardinality(M), k) - Comb(Cardinality(M) - Cardinality(right), k)
<1>1. IsFiniteSet(right) /\ IsFiniteSet(M \ right) /\ Cardinality(M \ right) = Cardinality(M) - Cardinality(right)
  <2>1. IsFiniteSet(right) /\ M \cap right = right
    BY FS_Subset
  <2> QED BY <2>1, FS_Difference
<1>2. AllOf(k, M, right) = kSubset(k, right)
  BY DEF AllOf, kSubset
<1>3. SomeOf(k, M, right) = kSubset(k, M) \ kSubset(k, M \ right)
  BY DEF SomeOf, kSubset
<1>4. kSubset(k, M) \cap kSubset(k, M \ right) = kSubset(k, M \ right)
  BY DEF kSubset
<1>5. Cardinality(kSubset(k, M) \ kSubset(k, M \ right)) = Cardinality(kSubset(k, M)) - Cardinality(kSubset(k, M \ right))
  BY <1>4, ChoicesAreFinite, FS_Difference
<1> QED BY <1>1, <1>2, <1>3, <1>5, CombCounts

\* pass^k and pass@k of r right among n are the shares of those choices,
\* and pass^k is no more than pass@1.
LEMMA PassesAreShares ==
  ASSUME NEW n \in Nat, NEW r \in Nat, r <= n, NEW k \in Nat \ {0}
  PROVE  /\ LeqRatio(PassHatK(r, n, k), <<Comb(r, k), Comb(n, k)>>)
         /\ LeqRatio(<<Comb(r, k), Comb(n, k)>>, PassHatK(r, n, k))
         /\ LeqRatio(PassAtK(r, n, k), <<Comb(n, k) - Comb(n - r, k), Comb(n, k)>>)
         /\ LeqRatio(<<Comb(n, k) - Comb(n - r, k), Comb(n, k)>>, PassAtK(r, n, k))
         /\ LeqRatio(PassHatK(r, n, k), PassAtK(r, n, 1))
         /\ PassHatK(r, n, k) \in Int \X Int
         /\ PassAtK(r, n, 1) \in Int \X Int
<1>1. Comb(n, k) \in Nat /\ Comb(r, k) \in Nat /\ n - r \in Nat /\ Comb(n - r, k) \in Nat
  BY CombIsNat
<1>2. \A i \in Nat : i < k => Comb(i, k) = 0
  <2>1. ASSUME NEW i \in Nat, i < k PROVE Comb(i, k) = 0
    <3>1. IsFiniteSet(1 .. i) /\ Cardinality(1 .. i) = i
      BY FS_Interval
    <3> QED BY <2>1, <3>1, CombOfTooMany DEF Comb
  <2> QED BY <2>1
<1>3. LeqRatio(PassHatK(r, n, k), <<Comb(r, k), Comb(n, k)>>) /\ LeqRatio(<<Comb(r, k), Comb(n, k)>>, PassHatK(r, n, k))
  <2>1. CASE r < k
    <3>1. PassHatK(r, n, k) = <<0, 1>> /\ Comb(r, k) = 0
      BY <1>2, <2>1 DEF PassHatK
    <3> QED BY <1>1, <3>1 DEF LeqRatio
  <2>2. CASE ~(r < k)
    <3>1. PassHatK(r, n, k) = <<Comb(r, k), Comb(n, k)>>
      BY <2>2 DEF PassHatK
    <3>2. Comb(r, k) * Comb(n, k) \in Int
      BY <1>1
    <3> QED BY <3>1, <3>2 DEF LeqRatio
  <2> QED BY <2>1, <2>2
<1>4. /\ LeqRatio(PassAtK(r, n, k), <<Comb(n, k) - Comb(n - r, k), Comb(n, k)>>)
      /\ LeqRatio(<<Comb(n, k) - Comb(n - r, k), Comb(n, k)>>, PassAtK(r, n, k))
  <2>1. CASE n - r < k
    <3>1. PassAtK(r, n, k) = <<1, 1>> /\ Comb(n - r, k) = 0
      BY <1>1, <1>2, <2>1 DEF PassAtK
    <3> QED BY <1>1, <3>1 DEF LeqRatio
  <2>2. CASE ~(n - r < k)
    <3>1. PassAtK(r, n, k) = <<Comb(n, k) - Comb(n - r, k), Comb(n, k)>>
      BY <2>2 DEF PassAtK
    <3>2. (Comb(n, k) - Comb(n - r, k)) * Comb(n, k) \in Int
      BY <1>1
    <3> QED BY <3>1, <3>2 DEF LeqRatio
  <2> QED BY <2>1, <2>2
<1>5. PassHatK(r, n, k) \in Int \X Int
  <2>1. <<Comb(r, k), Comb(n, k)>> \in Int \X Int /\ <<0, 1>> \in Int \X Int
    BY <1>1
  <2> QED BY <2>1 DEF PassHatK
<1>6. PassAtK(r, n, 1) = IF n = r THEN <<1, 1>> ELSE <<r, n>>
  <2>1. Comb(n, 1) = n /\ Comb(n - r, 1) = n - r
    BY <1>1, CombOfOne
  <2>2. n - (n - r) = r
    OBVIOUS
  <2>3. CASE n = r
    BY <2>3 DEF PassAtK
  <2>4. CASE n # r
    <3>1. ~(n - r < 1)
      BY <2>4
    <3> QED BY <2>1, <2>2, <2>4, <3>1 DEF PassAtK
  <2> QED BY <2>3, <2>4
<1>7. PassAtK(r, n, 1) \in Int \X Int
  <2>1. <<r, n>> \in Int \X Int /\ <<1, 1>> \in Int \X Int
    OBVIOUS
  <2> QED BY <1>6, <2>1
<1>8. LeqRatio(PassHatK(r, n, k), PassAtK(r, n, 1))
  <2>1. Comb(r, k) * n <= r * Comb(n, k)
    BY AllRightIsRarer
  <2>2. CASE r < k
    <3>1. PassHatK(r, n, k) = <<0, 1>>
      BY <2>2 DEF PassHatK
    <3> QED BY <1>6, <3>1 DEF LeqRatio
  <2>3. CASE ~(r < k)
    <3>1. PassHatK(r, n, k) = <<Comb(r, k), Comb(n, k)>>
      BY <2>3 DEF PassHatK
    <3>2. CASE n = r
      BY <1>1, <1>6, <3>1, <3>2 DEF LeqRatio
    <3>3. CASE n # r
      BY <1>1, <1>6, <2>1, <3>1, <3>3 DEF LeqRatio
    <3> QED BY <3>2, <3>3
  <2> QED BY <2>2, <2>3
<1> QED BY <1>3, <1>4, <1>5, <1>7, <1>8

\* So are those of a task's trials, and of the report made of them alone.
LEMMA PassesCount ==
  ASSUME IsFiniteSet(DOMAIN trials)
  PROVE  PassHatCountsChoices
<1>1. SUFFICES ASSUME NEW b \in Bundles(trials), NEW k \in 1 .. 3
      PROVE  LET mine == TrialsOf(trials, b)
                 right == {n \in DOMAIN mine : CorrectRootCause(Sheet(mine[n]))}
                 choices == kSubset(k, DOMAIN mine)
                 Share(Test(_)) == <<Cardinality({c \in choices : Test(c)}), Cardinality(choices)>>
                 Same(x, y) == LeqRatio(x, y) /\ LeqRatio(y, x)
             IN k <= Size(mine) =>
                  /\ Same(PassHatK(Cardinality(right), Size(mine), k), Share(LAMBDA c : c \subseteq right))
                  /\ Same(PassAtK(Cardinality(right), Size(mine), k), Share(LAMBDA c : c \cap right # {}))
                  /\ LeqRatio(Reliability(mine, k).pass_hat_k, Reliability(mine, k).pass_at_1)
  BY DEF PassHatCountsChoices
<1>. DEFINE M == {n \in DOMAIN trials : trials[n].bundle = b}
            mine == TrialsOf(trials, b)
            right == {n \in DOMAIN mine : CorrectRootCause(Sheet(mine[n]))}
            n == Cardinality(M)
            r == Cardinality(right)
            choices == kSubset(k, DOMAIN mine)
            given == HeadlineScores(mine)
<1>2. mine = [i \in M |-> trials[i]]
  BY DEF TrialsOf, Those, Restrict
<1>3. DOMAIN mine = M /\ Size(mine) = n /\ right \in SUBSET M /\ IsFiniteSet(M)
  <2>1. DOMAIN mine = M
    BY <1>2
  <2>2. IsFiniteSet(M)
    BY FS_Subset
  <2>3. right \in SUBSET DOMAIN mine
    OBVIOUS
  <2>. HIDE DEF M, mine, right
  <2> QED BY <2>1, <2>2, <2>3 DEF Size
<1>4. n \in Nat /\ r \in Nat /\ r <= n /\ k \in Nat \ {0}
  <2>. HIDE DEF M, right
  <2> QED BY <1>3, FS_Subset, FS_CardinalityType
<1>5. /\ Cardinality(choices) = Comb(n, k)
      /\ Cardinality({c \in choices : c \subseteq right}) = Comb(r, k)
      /\ Cardinality({c \in choices : c \cap right # {}}) = Comb(n, k) - Comb(n - r, k)
  <2>1. choices = kSubset(k, M)
    BY <1>3
  <2>. HIDE DEF choices, M, right
  <2>2. Cardinality(kSubset(k, M)) = Comb(n, k)
    BY <1>3, CombCounts
  <2>3. Cardinality(AllOf(k, M, right)) = Comb(r, k) /\ Cardinality(SomeOf(k, M, right)) = Comb(n, k) - Comb(n - r, k)
    BY <1>3, <1>4, RightChoices
  <2>4. {c \in choices : c \subseteq right} = AllOf(k, M, right) /\ {c \in choices : c \cap right # {}} = SomeOf(k, M, right)
    BY <2>1 DEF AllOf, SomeOf
  <2> QED BY <2>1, <2>2, <2>3, <2>4
<1>6. Bundles(mine) = {b}
  <2>1. \A i \in M : mine[i].bundle = b
    BY <1>2
  <2>2. M # {}
    BY DEF Bundles
  <2>. HIDE DEF M, mine
  <2> QED BY <1>3, <2>1, <2>2 DEF Bundles
<1>7. given = [c \in {b} |-> <<r, n>>]
  <2>1. TrialsOf(mine, b) = mine
    <3>1. {i \in DOMAIN mine : mine[i].bundle = b} = DOMAIN mine /\ mine = [i \in DOMAIN mine |-> mine[i]]
      BY <1>2
    <3>. HIDE DEF mine
    <3> QED BY <3>1 DEF TrialsOf, Those, Restrict
  <2>2. CountTrials(mine, LAMBDA t : CorrectRootCause(Sheet(t))) = r
    <3>. HIDE DEF mine
    <3> QED BY DEF CountTrials, Those, Restrict, Size
  <2>. HIDE DEF mine, r, n
  <2> QED BY <1>3, <1>6, <2>1, <2>2 DEF HeadlineScores
<1>8. /\ Reliability(mine, k).pass_hat_k = PassHatK(r, n, k)
      /\ Reliability(mine, k).pass_at_1 = PassAtK(r, n, 1)
  <2>. DEFINE hats == [c \in DOMAIN given |-> PassHatK(given[c][1], given[c][2], k)]
              ats == [c \in DOMAIN given |-> PassAtK(given[c][1], given[c][2], 1)]
  <2>1. DOMAIN hats = {b} /\ hats[b] = PassHatK(r, n, k) /\ DOMAIN ats = {b} /\ ats[b] = PassAtK(r, n, 1)
    <3>. HIDE DEF given, r, n
    <3> QED BY <1>7
  <2>2. PassHatK(r, n, k) \in Int \X Int /\ PassAtK(r, n, 1) \in Int \X Int
    <3>. HIDE DEF r, n
    <3> QED BY <1>4, PassesAreShares
  <2>3. Reliability(mine, k).pass_hat_k = Mean(hats) /\ Reliability(mine, k).pass_at_1 = Mean(ats)
    BY DEF Reliability
  <2>. HIDE DEF hats, ats, r, n, mine, given
  <2>4. ASSUME NEW v \in Int \X Int, NEW values, DOMAIN values = {b}, values[b] = v PROVE Mean(values) = v
    <3>1. v[1] \in Int /\ v[2] \in Int /\ v = <<v[1], v[2]>>
      BY <2>4
    <3> QED BY <2>4, <3>1, MeanOfOne
  <2> QED BY <2>1, <2>2, <2>3, <2>4
<1>9. /\ LeqRatio(PassHatK(r, n, k), <<Comb(r, k), Comb(n, k)>>)
      /\ LeqRatio(<<Comb(r, k), Comb(n, k)>>, PassHatK(r, n, k))
      /\ LeqRatio(PassAtK(r, n, k), <<Comb(n, k) - Comb(n - r, k), Comb(n, k)>>)
      /\ LeqRatio(<<Comb(n, k) - Comb(n - r, k), Comb(n, k)>>, PassAtK(r, n, k))
      /\ LeqRatio(PassHatK(r, n, k), PassAtK(r, n, 1))
  <2>. HIDE DEF r, n
  <2> QED BY <1>4, PassesAreShares
<1>10. Size(mine) = n
  BY <1>3
<1>. HIDE DEF r, n, mine, choices, right
<1>11. /\ LeqRatio(PassHatK(r, Size(mine), k), <<Cardinality({c \in choices : c \subseteq right}), Cardinality(choices)>>)
       /\ LeqRatio(<<Cardinality({c \in choices : c \subseteq right}), Cardinality(choices)>>, PassHatK(r, Size(mine), k))
  BY <1>5, <1>9, <1>10
<1>12. /\ LeqRatio(PassAtK(r, Size(mine), k), <<Cardinality({c \in choices : c \cap right # {}}), Cardinality(choices)>>)
       /\ LeqRatio(<<Cardinality({c \in choices : c \cap right # {}}), Cardinality(choices)>>, PassAtK(r, Size(mine), k))
  BY <1>5, <1>9, <1>10
<1>13. LeqRatio(Reliability(mine, k).pass_hat_k, Reliability(mine, k).pass_at_1)
  BY <1>8, <1>9
<1> QED BY <1>11, <1>12, <1>13 DEF mine, right, choices, r

-----------------------------------------------------------------------------
(* What is stated *)

\* Every agent of a job states a share or nothing.
Stating(j) ==
  \A n \in DOMAIN j.configs : \A outcome \in Outcomes(j.configs[n]) : outcome.confidence \in (0 .. 100) \cup {Nothing}

\* Every configuration a script still names answers with shares, so every
\* trial of a side states a share or nothing.
StatedInv ==
  /\ Stating(job)
  /\ \A k \in DOMAIN todo.jobs : Stating(todo.jobs[k])
  /\ at \in {"grade", "cover"} =>
       \A n \in DOMAIN trials : trials[n].outcome.confidence \in (0 .. 100) \cup {Nothing}

\* Nobody has been told anything at the start.
LEMMA StatedInitInv ==
  ASSUME Init
  PROVE  StatedInv
<1>1. todo \in Scripts /\ job = NoJob /\ at = "idle"
  BY DEF Init
<1>2. \A k \in DOMAIN todo.jobs : Stating(todo.jobs[k])
  BY <1>1, OutcomeAssumption DEF Stating
<1>3. Stating(job)
  BY <1>1 DEF NoJob, Stating
<1> QED BY <1>1, <1>2, <1>3 DEF StatedInv

\* No step makes an agent state more than its configuration lets it.
LEMMA StatedInvKept ==
  ASSUME JobInv, MeasureInv, StatedInv, [Next]_vars
  PROVE  StatedInv'
<1>1. CASE Start
  <2>1. /\ todo.jobs # << >> /\ job' = Head(todo.jobs) /\ todo' = [todo EXCEPT !.jobs = Tail(@)]
        /\ at' \in {"finish", "collect"}
    BY <1>1 DEF Start
  <2>2. todo \in [jobs: Seq(SoundJobs), stores: Nat, trees: Nat]
    BY DEF JobInv
  <2>. HIDE DEF SoundJobs
  <2>3. todo.jobs \in Seq(SoundJobs) /\ todo'.jobs = Tail(todo.jobs)
    BY <2>1, <2>2
  <2>4. job' = todo.jobs[1] /\ 1 \in DOMAIN todo.jobs
    BY <2>1, <2>3
  <2>5. \A k \in DOMAIN todo'.jobs : k + 1 \in DOMAIN todo.jobs /\ todo'.jobs[k] = todo.jobs[k + 1]
    BY <2>1, <2>3
  <2>6. \A k \in DOMAIN todo.jobs : Stating(todo.jobs[k])
    BY DEF StatedInv
  <2>7. Stating(job)'
    BY <2>4, <2>6 DEF Stating
  <2>8. \A k \in DOMAIN todo'.jobs : Stating(todo.jobs[k + 1])
    BY <2>5, <2>6
  <2>9. (\A k \in DOMAIN todo.jobs : Stating(todo.jobs[k]))'
    BY <2>5, <2>8 DEF Stating
  <2>10. at' \notin {"grade", "cover"}
    BY <2>1
  <2> QED BY <2>7, <2>9, <2>10 DEF StatedInv
<1>2. CASE Collect
  <2>1. UNCHANGED <<job, todo>> /\ (at' = "idle" \/ (at' = "grade" /\ trials' = << >>))
    BY <1>2, FailingOnlySays DEF Collect
  <2>2. at' \in {"grade", "cover"} => DOMAIN trials' = {}
    BY <2>1
  <2> QED BY <2>1, <2>2 DEF StatedInv, Stating
<1>3. CASE Grade
  <2>1. PICK outcome \in Outcomes(Config) :
          trials' = Append(trials, [bundle |-> Current.bundle, label |-> Current.label,
                                    outcome |-> outcome, allowed |-> Allowed])
    BY <1>3 DEF Grade
  <2>. DEFINE trial == [bundle |-> Current.bundle, label |-> Current.label, outcome |-> outcome, allowed |-> Allowed]
  <2>2. at = "grade" /\ UNCHANGED <<job, todo>>
    BY <1>3 DEF Grade
  <2>3. trials \in Seq(Range(trials))
    BY <2>2 DEF MeasureInv, TasksInv, Sound
  <2>4. trials' = Append(trials, trial) /\ trial.outcome = outcome
    BY <2>1
  <2>. HIDE DEF trial
  <2>5. /\ DOMAIN trials' = DOMAIN trials \cup {Len(trials) + 1}
        /\ \A n \in DOMAIN trials : trials'[n] = trials[n]
        /\ trials'[Len(trials) + 1] = trial
    BY <2>3, <2>4, Appended
  <2>6. Len(sides) + 1 \in DOMAIN job.configs
    <3>1. job \in SoundJobs /\ Len(sides) < Len(job.configs) /\ Len(sides) \in Nat
      BY <2>2 DEF JobInv
    <3>2. job.configs \in Seq(STRING)
      BY <3>1 DEF SoundJobs, Jobs
    <3>. HIDE DEF SoundJobs
    <3> QED BY <3>1, <3>2
  <2>7. outcome.confidence \in (0 .. 100) \cup {Nothing}
    BY <2>1, <2>6 DEF StatedInv, Stating, Config
  <2>8. \A n \in DOMAIN trials' : trials'[n].outcome.confidence \in (0 .. 100) \cup {Nothing}
    BY <2>2, <2>4, <2>5, <2>7 DEF StatedInv
  <2> QED BY <2>2, <2>8 DEF StatedInv, Stating
<1>4. CASE Raise
  BY <1>4, FailingOnlySays DEF Raise, StatedInv, Stating
<1>5. CASE Cover
  <2>1. UNCHANGED <<job, todo>> /\ at' \in {"idle", "finish", "collect"}
    BY <1>5, FailingOnlySays DEF Cover
  <2> QED BY <2>1 DEF StatedInv, Stating
<1>6. CASE Finishes
  BY <1>6, FinishingOnlySays DEF measureVars, StatedInv, Stating
<1>7. CASE Stored \/ Around
  <2>1. /\ UNCHANGED <<job, at, trials>>
        /\ todo' \in {[todo EXCEPT !.stores = @ - 1], [todo EXCEPT !.trees = @ - 1]}
    BY <1>7, AroundLeavesJobs DEF jobVars
  <2>2. todo'.jobs = todo.jobs
    <3>1. todo \in [jobs: Seq(SoundJobs), stores: Nat, trees: Nat]
      BY DEF JobInv
    <3>. HIDE DEF SoundJobs
    <3> QED BY <2>1, <3>1
  <2> QED BY <2>1, <2>2 DEF StatedInv, Stating
<1>8. CASE UNCHANGED vars
  BY <1>8 DEF vars, jobVars, StatedInv, Stating
<1> QED BY <1>1, <1>2, <1>3, <1>4, <1>5, <1>6, <1>7, <1>8, StepsOfJobs

-----------------------------------------------------------------------------
(* The theorems *)

\* The parts of the invariant hold together: each is kept by a step from a
\* state where those before it hold.
THEOREM EvaluationInvHolds == Spec => []EvaluationInv
<1>1. Init => EvaluationInv
  BY StoreInitInv, MemoryInitInv, JobInitInv, MeasureInitInv, ReportsInitInv, AlikeInitInv DEF EvaluationInv
<1>2. EvaluationInv /\ [Next]_vars => EvaluationInv'
  BY StoreInvKept, MemoryInvKept, JobInvKept, MeasureInvKept, ReportsInvKept, AlikeInvKept DEF EvaluationInv
<1> QED BY <1>1, <1>2, PTL DEF Spec

\* Every variable holds what the code could hold in it, whatever the library,
\* the answers and the commands.
THEOREM EvaluationTypes == Spec => []TypeOK
<1>1. ASSUME EvaluationInv
      PROVE  TypeOK
  <2>1. StoreInv /\ MemoryInv /\ JobInv /\ TasksInv
    BY <1>1 DEF EvaluationInv, MeasureInv
  <2>2. \A k \in DOMAIN feedback : feedback[k] \in Answers \cup {Torn}
    BY <2>1 DEF StoreInv
  <2>3. \A k \in DOMAIN memory : memory[k] \in Entry
    BY <2>1 DEF MemoryInv
  <2>4. \A path \in DOMAIN labels :
          /\ path \in {Recorder(s) : s \in Scenarios} \cup {Promoted(i) : i \in Incidents}
          /\ labels[path].label.bundle = path[2]
          /\ labels[path].state \in {"open", "torn", "whole"}
    BY <2>1 DEF StoreInv, LabelsInv, Paths
  <2>5. \A l \in Learners : admitting[l] \in Entry \cup {Nothing}
    BY <2>1 DEF MemoryInv
  <2>6. /\ at \in {"idle", "collect", "grade", "cover", "finish"}
        /\ Len(sides) <= Len(job.configs)
        /\ tree \in [commit: Int, dirty: BOOLEAN] /\ moved \subseteq {"store", "tree"}
    BY <2>1 DEF JobInv
  <2>7. real \in BOOLEAN /\ DOMAIN tasks \subseteq DOMAIN Shelf /\ (at = "grade" => DOMAIN tasks # {})
    BY <2>1 DEF TasksInv
  <2>8. tree.dirty \in BOOLEAN
    BY <2>6
  <2> QED BY <2>1, <2>2, <2>3, <2>4, <2>5, <2>6, <2>7, <2>8 DEF TypeOK, StoreInv
<1> QED BY <1>1, EvaluationInvHolds, PTL

\* Whatever a report, a gate or a comparison says, it measured one kind of data
\* on the tree it names, the whole split if it may be quoted, and the same
\* tasks under the same answers on both sides, although bundles, labels and
\* the tree change while it runs.
THEOREM FiguresStand == Spec => []FiguresCanBeQuoted
<1>1. ASSUME EvaluationInv
      PROVE  FiguresCanBeQuoted
  <2>1. JobInv /\ SidesInv /\ ReportsInv /\ AlikeInv
    BY <1>1 DEF EvaluationInv, MeasureInv
  <2>2. OneKindOfData
    <3>1. SUFFICES ASSUME NEW n \in DOMAIN sides, NEW k \in DOMAIN sides[n].trials
                   PROVE  (sides[n].trials[k].bundle \in Incidents) = sides[n].real
      BY DEF OneKindOfData
    <3>2. Measured(sides[n].trials[k], sides[n].split, sides[n].real) /\ sides[n].real \in BOOLEAN
      BY <2>1 DEF SidesInv, Sound
    <3>3. PICK isReal \in BOOLEAN : sides[n].real = isReal
      BY <3>2
    <3>4. sides[n].trials[k].bundle \in Incidents <=> isReal
      BY <3>2, <3>3 DEF Measured
    <3> QED BY <3>3, <3>4
  <2>3. QuotableIsWhole
    BY <2>1 DEF ReportsInv, ReportWhole, QuotableIsWhole
  <2>4. StampIsTheCode
    BY <2>1 DEF ReportsInv, StampedAt, StampIsTheCode
  <2>5. LikeWithLike
    <3>1. SUFFICES ASSUME Len(sides) = 2, "store" \notin moved, NEW a \in DOMAIN sides[1].trials
                   PROVE  \E b \in DOMAIN sides[2].trials :
                            /\ sides[1].trials[a].bundle = sides[2].trials[b].bundle
                            /\ sides[1].trials[a].label = sides[2].trials[b].label
      BY DEF LikeWithLike
    <3>2. 1 \in DOMAIN sides /\ 2 \in DOMAIN sides
      BY <2>1, <3>1 DEF JobInv
    <3>. DEFINE found == CollectTasks(job.split, job.limit)
    <3>3. OnlyFrom(sides[1].trials, found) /\ \A k \in DOMAIN found : Tried(found[k], sides[2].trials)
      BY <2>1, <3>1, <3>2 DEF AlikeInv, Alike
    <3>. HIDE DEF found
    <3> QED BY <3>1, <3>3 DEF OnlyFrom, Tried
  <2>6. ComparedOnOneTruth
    <3>1. SUFFICES ASSUME verdict.said = "compared", NEW g \in Graders, NEW b \in verdict.paired[g],
                          Promoted(b) \notin DOMAIN labels
                   PROVE  verdict.treatment.truth[b] = verdict.control.truth[b]
      BY DEF ComparedOnOneTruth
    <3>2. Truthful(b, verdict.treatment.truth[b]) /\ Truthful(b, verdict.control.truth[b])
      BY <2>1, <3>1 DEF ReportsInv
    <3> QED BY <3>1, <3>2, FixturesAreApart DEF Truthful, Incidents
  <2> QED BY <2>2, <2>3, <2>4, <2>5, <2>6 DEF FiguresCanBeQuoted
<1> QED BY <1>1, EvaluationInvHolds, PTL

\* Nothing the library holds out is learned from before a person promoted that
\* incident, and no incident is remembered oftener than processes could race
\* for it.
THEOREM LearningStaysClean == Spec => []LearningIsClean
<1>1. ASSUME EvaluationInv
      PROVE  LearningIsClean
  <2>1. MemoryInv /\ OptimisedInv /\ ReportsInv
    BY <1>1 DEF EvaluationInv, MeasureInv
  <2>2. \A p \in DOMAIN reports : reports[p].split = "train" => \A b \in DOMAIN reports[p].truth : Learned(b)
    BY <2>1, TrainIsLearned DEF ReportsInv, SoundReport
  <2>3. HeldOutOnlyByPromotion
    BY <2>1, <2>2 DEF HeldOutOnlyByPromotion, MemoryInv, OptimisedInv, Learned
  <2>4. ASSUME NEW i \in Incidents
        PROVE  Cardinality({k \in DOMAIN memory : memory[k].incident = i}) <= Cardinality(Learners)
    <3>1. IsFiniteSet(Copies(i)) /\ Cardinality(Copies(i)) + Cardinality(Racing(i)) <= Cardinality(Learners)
      BY <2>1 DEF MemoryInv
    <3>2. Cardinality(Copies(i)) \in Nat
      BY <3>1, FS_CardinalityType
    <3>3. Cardinality(Copies(i)) <= Cardinality(Learners)
      BY <3>1, <3>2, RacersAreCounted
    <3> QED BY <3>3 DEF Copies
  <2> QED BY <2>3, <2>4 DEF LearningIsClean, RepeatsAreRaces
<1> QED BY <1>1, EvaluationInvHolds, PTL

\* Whatever is promoted, written or cut short, a label once made is neither
\* replaced nor repaired, and one cut short stops every side.
THEOREM LabelsStand == Spec => LabelsAreFinal
<1>. DEFINE Stands == \A i \in Incidents :
             Promoted(i) \in DOMAIN labels =>
               /\ Promoted(i) \in DOMAIN labels'
               /\ labels'[Promoted(i)].label = labels[Promoted(i)].label
           Stops == (\E path \in DOMAIN labels : labels[path].state = "torn") =>
                      /\ ~(at = "collect" /\ at' = "grade")
                      /\ Len(sides') <= Len(sides)
<1>1. EvaluationInv /\ [Next]_vars => Stands
  BY LabelsStay DEF EvaluationInv, StoreInv
<1>2. ASSUME EvaluationInv, [Next]_vars, NEW path \in DOMAIN labels, labels[path].state = "torn"
      PROVE  ~(at = "collect" /\ at' = "grade") /\ Len(sides') <= Len(sides)
  <2>1. ~LabelsReadable
    BY <1>2 DEF LabelsReadable
  <2>2. Len(sides) \in Nat
    BY <1>2 DEF EvaluationInv, JobInv
  <2>3. CASE Start
    <3>1. Len(sides') = 0 /\ at' \in {"finish", "collect"}
      BY <2>3 DEF Start
    <3> QED BY <2>2, <3>1
  <2>4. CASE Collect \/ Raise \/ Cover
    <3>1. at' = "idle" /\ UNCHANGED sides
      BY <2>1, <2>4, FailingOnlySays DEF Collect, Raise, Cover
    <3> QED BY <2>2, <3>1
  <2>5. CASE Grade
    BY <2>2, <2>5 DEF Grade
  <2>6. CASE Finishes
    BY <2>2, <2>6, FinishingOnlySays DEF measureVars
  <2>7. CASE Stored \/ Around
    BY <2>2, <2>7, AroundLeavesJobs DEF jobVars
  <2>8. CASE UNCHANGED vars
    BY <2>2, <2>8 DEF vars, jobVars
  <2> QED BY <1>2, <2>3, <2>4, <2>5, <2>6, <2>7, <2>8, StepsOfJobs
<1>3. EvaluationInv /\ [Next]_vars => [Stands]_vars /\ [Stops]_vars
  BY <1>1, <1>2
<1> QED
  BY <1>3, EvaluationInvHolds, PTL DEF Spec, LabelsAreFinal, PromotionStands, TornLabelStopsRuns

\* Whatever a configuration answers, and whatever is tried of which split, the
\* statistics of a side are what they are defined to be: the table that is
\* stored has the scores the intervals resample, pass^k and pass@k are shares
\* of choices, no binning hides more error than the Brier score has, and asking
\* for more confidence never answers more.
THEOREM StatisticsStand == Spec => []StatisticsAreRight
<1>1. EvaluationInv /\ StatedInv => StatisticsAreRight
  <2>. SUFFICES ASSUME EvaluationInv, StatedInv PROVE StatisticsAreRight
    OBVIOUS
  <2>1. CASE at = "cover"
    <3>1. trials \in Seq(Range(trials))
      BY <2>1 DEF EvaluationInv, MeasureInv, TasksInv, Sound
    <3>2. DOMAIN trials = 1 .. Len(trials) /\ Len(trials) \in Nat
      BY <3>1
    <3>3. IsFiniteSet(DOMAIN trials)
      BY <3>2, FS_Interval
    <3>4. \A n \in DOMAIN trials : trials[n].outcome.confidence \in (0 .. 100) \cup {Nothing}
      BY <2>1 DEF StatedInv
    <3> QED BY <3>3, <3>4, TablesAgree, PassesCount, BinsAddUp, CurveFalls DEF StatisticsAreRight
  <2>2. CASE at # "cover"
    BY <2>2 DEF StatisticsAreRight, TableIsTheScores, PassHatCountsChoices, BinsNeverExceedBrier, CoverageFalls
  <2> QED BY <2>1, <2>2
<1>2. EvaluationInv /\ StatedInv /\ [Next]_vars => StatedInv'
  BY StatedInvKept DEF EvaluationInv
<1>3. Init => StatedInv
  BY StatedInitInv
<1> QED BY <1>1, <1>2, <1>3, EvaluationInvHolds, PTL DEF Spec
=============================================================================
