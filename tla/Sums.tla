-------------------------------- MODULE Sums --------------------------------
(***************************************************************************)
(* What proofs about the other modules need and no library module says in  *)
(* a form that can be cited: induction over the natural numbers stated for *)
(* a set of them, the larger of two numbers, and what SumFunctionOnSet     *)
(* computes, for any function and finite set: nothing of nothing, and over *)
(* one element more, in whatever order its definition takes them, that     *)
(* element's value more.                                                   *)
(***************************************************************************)
EXTENDS FiniteSetsExt, FiniteSetTheorems, WellFoundedInduction, TLAPS

-----------------------------------------------------------------------------
(* Induction, over a set of numbers *)

\* A set of numbers has a least one: the intervals below its elements are
\* finite sets, which inclusion orders well.
LEMMA LeastNat ==
  ASSUME NEW T \in SUBSET Nat, T # {}
  PROVE  \E m \in T : \A k \in T : m <= k
<1>1. PICK n \in T : TRUE
  OBVIOUS
<1> DEFINE F == {0 .. i : i \in T \cap (0 .. n)}
<1>2. F \subseteq FiniteSubsetsOf(Nat) /\ F # {}
  <2>1. \A i \in Nat : IsFiniteSet(0 .. i)
    BY FS_Interval
  <2>2. n \in T \cap (0 .. n)
    BY <1>1
  <2> QED
    BY <2>1, <2>2 DEF FiniteSubsetsOf
<1>3. PICK x \in F : \A y \in F : <<y, x>> \notin StrictSubsetOrdering(Nat)
  <2>1. IsWellFoundedOn(StrictSubsetOrdering(Nat), FiniteSubsetsOf(Nat))
    BY FS_StrictSubsetOrderingWellFounded
  <2> HIDE DEF F
  <2> QED
    BY <1>2, <2>1, WFMin
<1>4. PICK m \in T \cap (0 .. n) : x = 0 .. m
  OBVIOUS
<1>5. ASSUME NEW k \in T, k < m PROVE FALSE
  <2>1. 0 .. k \in F
    BY <1>5
  <2>2. 0 .. k \subseteq 0 .. m /\ 0 .. k # 0 .. m
    BY <1>5
  <2>3. <<0 .. k, 0 .. m>> \in StrictSubsetOrdering(Nat)
    BY <2>2, <1>5 DEF StrictSubsetOrdering
  <2> QED
    BY <1>3, <1>4, <2>1, <2>3
<1> QED
  BY <1>4, <1>5

\* A set with 0 that has the successor of each of its numbers is all of Nat.
LEMMA Induction ==
  ASSUME NEW T \in SUBSET Nat, 0 \in T, \A n \in T : n + 1 \in T
  PROVE  T = Nat
<1> SUFFICES ASSUME Nat \ T # {} PROVE FALSE
  OBVIOUS
<1>1. PICK m \in Nat \ T : \A k \in Nat \ T : m <= k
  BY LeastNat
<1>2. m # 0 /\ m - 1 \in Nat /\ m = (m - 1) + 1
  BY <1>1
<1>3. m - 1 \in T
  BY <1>1, <1>2
<1> QED
  BY <1>1, <1>2, <1>3

\* The larger of two integers is what CHOOSE finds.
LEMMA MaxPair ==
  ASSUME NEW a \in Int, NEW b \in Int
  PROVE  Max({a, b}) = IF a >= b THEN a ELSE b
<1> DEFINE m == IF a >= b THEN a ELSE b
<1>1. m \in {a, b} /\ \A y \in {a, b} : m >= y
  OBVIOUS
<1>2. \A x \in {a, b} : (\A y \in {a, b} : x >= y) => x = m
  OBVIOUS
<1>3. Max({a, b}) \in {a, b} /\ \A y \in {a, b} : Max({a, b}) >= y
  BY <1>1, Zenon DEF Max
<1> QED
  BY <1>2, <1>3

-----------------------------------------------------------------------------
(* Sums *)

\* The sum of f over s, when it has been summed over the smaller sets.
Added(f, it, s) ==
  IF s = {} THEN 0
  ELSE LET x == CHOOSE x \in s : TRUE IN f[x] + it[s \ {x}]

\* it sums f over every subset of S of at most n elements.
Small(S, n) == {s \in SUBSET S : Cardinality(s) <= n}
SumsUpTo(f, it, S, n) == \A s \in Small(S, n) : it[s] = Added(f, it, s)

Numbers(f, S) == \A x \in S : f[x] \in Int

\* What is left of a finite set without one of its elements.
LEMMA Without ==
  ASSUME NEW S, IsFiniteSet(S), NEW s \in SUBSET S, NEW x \in s
  PROVE  /\ s \ {x} \in SUBSET S /\ x \in S
         /\ IsFiniteSet(s) /\ IsFiniteSet(s \ {x})
         /\ Cardinality(s) \in Nat \ {0}
         /\ Cardinality(s \ {x}) \in Nat
         /\ Cardinality(s \ {x}) = Cardinality(s) - 1
<1>1. IsFiniteSet(s)
  BY FS_Subset
<1>2. IsFiniteSet(s \ {x}) /\ Cardinality(s \ {x}) = Cardinality(s) - 1
  BY <1>1, FS_RemoveElement
<1>3. Cardinality(s) \in Nat /\ Cardinality(s \ {x}) \in Nat
  BY <1>1, <1>2, FS_CardinalityType
<1>4. Cardinality(s) # 0
  BY <1>2, <1>3
<1> QED
  BY <1>1, <1>2, <1>3, <1>4

\* The element that a sum takes first.
LEMMA FirstOf == ASSUME NEW s, s # {} PROVE (CHOOSE x \in s : TRUE) \in s
  OBVIOUS

\* There are such sums up to every size.
LEMMA SumsExist ==
  ASSUME NEW S, IsFiniteSet(S), NEW f, Numbers(f, S), NEW n \in Nat
  PROVE  \E it \in [Small(S, n) -> Int] : SumsUpTo(f, it, S, n)
<1> DEFINE Good(k) == \E it \in [Small(S, k) -> Int] : SumsUpTo(f, it, S, k)
           T == {k \in Nat : Good(k)}
<1>1. 0 \in T
  <2>1. \A s \in Small(S, 0) : s = {}
    <3> SUFFICES ASSUME NEW s \in Small(S, 0), NEW x \in s PROVE FALSE
      OBVIOUS
    <3>1. Cardinality(s) \in Nat \ {0} /\ Cardinality(s) <= 0
      BY Without DEF Small
    <3> QED
      BY <3>1
  <2> DEFINE it == [s \in Small(S, 0) |-> 0]
  <2>2. SumsUpTo(f, it, S, 0)
    BY <2>1 DEF SumsUpTo, Added
  <2>3. it \in [Small(S, 0) -> Int]
    OBVIOUS
  <2> QED
    BY <2>2, <2>3
<1>2. ASSUME NEW k \in T PROVE k + 1 \in T
  <2>1. k \in Nat
    OBVIOUS
  <2>2. PICK old \in [Small(S, k) -> Int] : SumsUpTo(f, old, S, k)
    OBVIOUS
  <2> DEFINE new == [s \in Small(S, k + 1) |->
                       IF s \in Small(S, k) THEN old[s] ELSE Added(f, old, s)]
  <2>3. ASSUME NEW s \in Small(S, k + 1), s # {}
        PROVE  LET x == CHOOSE x \in s : TRUE
               IN  x \in s /\ f[x] \in Int /\ s \ {x} \in Small(S, k)
    <3> DEFINE x == CHOOSE x \in s : TRUE
    <3>1. x \in s
      BY <2>3
    <3> HIDE DEF x
    <3>2. s \in SUBSET S /\ Cardinality(s) <= k + 1
      BY DEF Small
    <3>3. /\ s \ {x} \in SUBSET S /\ x \in S
          /\ Cardinality(s) \in Nat \ {0}
          /\ Cardinality(s \ {x}) = Cardinality(s) - 1
      BY <3>1, <3>2, Without
    <3>4. s \ {x} \in Small(S, k)
      BY <2>1, <3>2, <3>3 DEF Small
    <3>5. f[x] \in Int
      BY <3>3 DEF Numbers
    <3> QED
      BY <3>1, <3>4, <3>5 DEF x
  <2>4. ASSUME NEW s \in Small(S, k + 1) PROVE Added(f, old, s) \in Int
    <3>1. CASE s = {}
      BY <3>1 DEF Added
    <3>2. CASE s # {}
      <4> DEFINE x == CHOOSE x \in s : TRUE
      <4>1. f[x] \in Int /\ s \ {x} \in Small(S, k)
        BY <2>3, <3>2
      <4>2. Added(f, old, s) = f[x] + old[s \ {x}]
        BY <3>2 DEF Added
      <4> HIDE DEF x
      <4>3. old[s \ {x}] \in Int
        BY <2>2, <4>1
      <4> QED
        BY <4>1, <4>2, <4>3
    <3> QED
      BY <3>1, <3>2
  <2>5. new \in [Small(S, k + 1) -> Int]
    BY <2>2, <2>4
  <2>6. \A s \in Small(S, k) : s \in Small(S, k + 1)
    <3> SUFFICES ASSUME NEW s \in Small(S, k) PROVE s \in Small(S, k + 1)
      OBVIOUS
    <3>1. s \in SUBSET S /\ Cardinality(s) <= k
      BY DEF Small
    <3>2. Cardinality(s) \in Nat
      BY <3>1, FS_Subset, FS_CardinalityType
    <3> QED
      BY <2>1, <3>1, <3>2 DEF Small
  <2>7. \A s \in Small(S, k + 1) : new[s] = Added(f, old, s)
    BY <2>2 DEF SumsUpTo
  <2>8. ASSUME NEW s \in Small(S, k + 1) PROVE Added(f, new, s) = Added(f, old, s)
    <3>1. CASE s = {}
      BY <3>1 DEF Added
    <3>2. CASE s # {}
      <4> DEFINE x == CHOOSE x \in s : TRUE
      <4>1. s \ {x} \in Small(S, k)
        BY <2>3, <3>2
      <4>2. new[s \ {x}] = old[s \ {x}]
        BY <2>6, <4>1
      <4>3. /\ Added(f, old, s) = f[x] + old[s \ {x}]
            /\ Added(f, new, s) = f[x] + new[s \ {x}]
        <5> HIDE DEF new
        <5> QED
          BY <3>2 DEF Added
      <4> QED
        BY <4>2, <4>3
    <3> QED
      BY <3>1, <3>2
  <2>9. SumsUpTo(f, new, S, k + 1)
    <3> HIDE DEF new
    <3> QED
      BY <2>7, <2>8 DEF SumsUpTo
  <2> HIDE DEF new
  <2>10. Good(k + 1)
    BY <2>5, <2>9
  <2> QED
    BY <2>1, <2>10
<1>3. T = Nat
  <2> HIDE DEF T
  <2>1. T \subseteq Nat
    BY DEF T
  <2> QED
    BY <1>1, <1>2, <2>1, Induction
<1>4. n \in T
  <2> HIDE DEF T
  <2> QED
    BY <1>3
<1>5. Good(n)
  <2> HIDE DEF Good
  <2> QED
    BY <1>4
<1> QED
  BY <1>5

\* it sums f over every subset of S.
SumsIn(f, it, S) == \A s \in SUBSET S : it[s] = Added(f, it, s)

\* Functions that agree have sums that agree.
LEMMA SumsAgree ==
  ASSUME NEW S, IsFiniteSet(S), NEW R, IsFiniteSet(R), NEW f, NEW g,
         NEW it, SumsIn(f, it, S), NEW jt, SumsIn(g, jt, R)
  PROVE  \A s \in SUBSET (S \cap R) : (\A x \in s : f[x] = g[x]) => it[s] = jt[s]
<1> DEFINE Same(s) == (\A x \in s : f[x] = g[x]) => it[s] = jt[s]
           T == {k \in Nat : \A s \in SUBSET (S \cap R) : Cardinality(s) = k => Same(s)}
<1>1. \A s \in SUBSET (S \cap R) :
        it[s] = Added(f, it, s) /\ jt[s] = Added(g, jt, s)
  BY DEF SumsIn
<1>2. 0 \in T
  <2> SUFFICES ASSUME NEW s \in SUBSET (S \cap R), Cardinality(s) = 0 PROVE Same(s)
    OBVIOUS
  <2>1. IsFiniteSet(s)
    BY FS_Subset
  <2>2. s = {}
    BY <2>1, FS_EmptySet
  <2> QED
    BY <1>1, <2>2 DEF Added
<1>3. ASSUME NEW k \in T PROVE k + 1 \in T
  <2>1. k \in Nat /\ k + 1 \in Nat
    OBVIOUS
  <2>2. ASSUME NEW s \in SUBSET (S \cap R), Cardinality(s) = k + 1,
               \A x \in s : f[x] = g[x]
        PROVE  it[s] = jt[s]
    <3> DEFINE x == CHOOSE x \in s : TRUE
    <3>1. s # {}
      BY <2>1, <2>2, FS_EmptySet
    <3>2. x \in s
      BY <3>1
    <3>3. /\ it[s] = f[x] + it[s \ {x}]
          /\ jt[s] = g[x] + jt[s \ {x}]
      BY <1>1, <3>1 DEF Added
    <3> HIDE DEF x
    <3>4. /\ s \ {x} \in SUBSET (S \cap R)
          /\ Cardinality(s \ {x}) = Cardinality(s) - 1
      BY <3>2, Without
    <3>5. Cardinality(s \ {x}) = k
      BY <2>1, <2>2, <3>4
    <3>6. Same(s \ {x})
      BY <3>4, <3>5
    <3>7. it[s \ {x}] = jt[s \ {x}]
      BY <2>2, <3>6
    <3>8. f[x] = g[x]
      BY <2>2, <3>2
    <3> QED
      BY <3>3, <3>7, <3>8
  <2> HIDE DEF T
  <2> QED
    BY <2>1, <2>2 DEF T
<1>4. T = Nat
  <2> HIDE DEF T
  <2>1. T \subseteq Nat
    BY DEF T
  <2> QED
    BY <1>2, <1>3, <2>1, Induction
<1>5. ASSUME NEW s \in SUBSET (S \cap R) PROVE Same(s)
  <2> HIDE DEF Same
  <2>1. Cardinality(s) \in Nat
    BY FS_Subset, FS_CardinalityType
  <2>2. Cardinality(s) \in T
    <3> HIDE DEF T
    <3> QED
      BY <1>4, <2>1
  <2> QED
    BY <2>2
<1> QED
  BY <1>5

\* Any element may be taken first.
TakesAny(f, it, S) ==
  \A s \in SUBSET S : \A x \in s : it[s] = f[x] + it[s \ {x}]

\* Whichever element the definition takes first, the sum is the same.
LEMMA SumsAny ==
  ASSUME NEW S, IsFiniteSet(S), NEW f, Numbers(f, S),
         NEW it, Numbers(it, SUBSET S), SumsIn(f, it, S)
  PROVE  TakesAny(f, it, S)
<1> DEFINE Any(s) == \A x \in s : it[s] = f[x] + it[s \ {x}]
           T == {k \in Nat : \A s \in SUBSET S : Cardinality(s) = k => Any(s)}
<1>1. \A s \in SUBSET S : it[s] = Added(f, it, s)
  BY DEF SumsIn
<1>2. 0 \in T
  <2> SUFFICES ASSUME NEW s \in SUBSET S, Cardinality(s) = 0, NEW x \in s PROVE FALSE
    OBVIOUS
  <2> QED
    BY Without
<1>3. ASSUME NEW k \in T PROVE k + 1 \in T
  <2>1. k \in Nat /\ k + 1 \in Nat
    OBVIOUS
  <2>2. ASSUME NEW s \in SUBSET S, Cardinality(s) = k + 1, NEW x \in s
        PROVE  it[s] = f[x] + it[s \ {x}]
    <3> DEFINE y == CHOOSE y \in s : TRUE
    <3>1. y \in s
      OBVIOUS
    <3>2. it[s] = f[y] + it[s \ {y}]
      BY <1>1 DEF Added
    <3> HIDE DEF y
    <3>3. /\ s \ {x} \in SUBSET S /\ s \ {y} \in SUBSET S
          /\ Cardinality(s) \in Nat
          /\ Cardinality(s \ {x}) = Cardinality(s) - 1
          /\ Cardinality(s \ {y}) = Cardinality(s) - 1
      BY <3>1, Without
    <3>4. Cardinality(s \ {x}) = k /\ Cardinality(s \ {y}) = k
      BY <2>1, <2>2, <3>3
    <3>5. Any(s \ {x}) /\ Any(s \ {y})
      BY <3>3, <3>4
    <3>6. CASE x = y
      BY <3>2, <3>6
    <3>7. CASE x # y
      <4>1. x \in s \ {y} /\ y \in s \ {x}
        BY <3>1, <3>7
      <4>2. /\ it[s \ {x}] = f[y] + it[(s \ {x}) \ {y}]
            /\ it[s \ {y}] = f[x] + it[(s \ {y}) \ {x}]
        BY <3>5, <4>1
      <4>3. (s \ {x}) \ {y} = (s \ {y}) \ {x}
        OBVIOUS
      <4>4. /\ f[x] \in Int /\ f[y] \in Int
            /\ it[(s \ {x}) \ {y}] \in Int
        <5>1. (s \ {x}) \ {y} \in SUBSET S
          OBVIOUS
        <5>2. it[(s \ {x}) \ {y}] \in Int
          BY <5>1 DEF Numbers
        <5> QED
          BY <3>1, <5>2 DEF Numbers
      <4>5. ASSUME NEW rest \in Int, NEW a \in Int, NEW b \in Int
            PROVE  b + (a + rest) = a + (b + rest)
        OBVIOUS
      <4>6. f[y] + (f[x] + it[(s \ {x}) \ {y}]) = f[x] + (f[y] + it[(s \ {x}) \ {y}])
        BY ONLY <4>4, <4>5
      <4>7. /\ it[s] = f[y] + (f[x] + it[(s \ {x}) \ {y}])
            /\ it[s \ {x}] = f[y] + it[(s \ {x}) \ {y}]
        BY ONLY <3>2, <4>2, <4>3
      <4> QED
        BY ONLY <4>6, <4>7
    <3> QED
      BY <3>6, <3>7
  <2> HIDE DEF T
  <2> QED
    BY <2>1, <2>2 DEF T
<1>4. T = Nat
  <2> HIDE DEF T
  <2>1. T \subseteq Nat
    BY DEF T
  <2> QED
    BY <1>2, <1>3, <2>1, Induction
<1>5. ASSUME NEW s \in SUBSET S PROVE Any(s)
  <2> HIDE DEF Any
  <2>1. Cardinality(s) \in Nat
    BY FS_Subset, FS_CardinalityType
  <2>2. Cardinality(s) \in T
    <3> HIDE DEF T
    <3> QED
      BY <1>4, <2>1
  <2> QED
    BY <2>2
<1> QED
  BY <1>5 DEF TakesAny

\* SumFunctionOnSet is defined by such sums.
LEMMA SumDefined ==
  ASSUME NEW S, IsFiniteSet(S), NEW f, Numbers(f, S)
  PROVE  \E it \in [SUBSET S -> Int] :
           SumsIn(f, it, S) /\ SumFunctionOnSet(f, S) = it[S]
<1> DEFINE Next(k) == [s \in SUBSET S |-> 
                        IF s = {} THEN 0
                        ELSE LET x == CHOOSE x \in s : TRUE IN f[x] + k[s \ {x}]]
           iter == CHOOSE k : k = Next(k)
<1>1. Cardinality(S) \in Nat /\ \A s \in SUBSET S : s \in Small(S, Cardinality(S))
  BY FS_CardinalityType, FS_Subset DEF Small
<1>2. Small(S, Cardinality(S)) = SUBSET S
  BY <1>1 DEF Small
<1>3. PICK it \in [SUBSET S -> Int] : SumsIn(f, it, S)
  <2> DEFINE n == Cardinality(S)
  <2>1. PICK it \in [Small(S, n) -> Int] : SumsUpTo(f, it, S, n)
    BY <1>1, SumsExist
  <2>2. SumsIn(f, it, S)
    BY <1>2, <2>1 DEF SumsUpTo, SumsIn
  <2> QED
    BY <1>2, <2>1, <2>2
<1>4. it = Next(it)
  BY <1>3 DEF SumsIn, Added
<1>5. SumFunctionOnSet(f, S) = iter[S]
  BY DEF SumFunctionOnSet, FoldFunctionOnSet, MapThenFoldSet
<1>6. iter = Next(iter)
  <2> HIDE DEF Next
  <2> QED
    BY <1>4
<1>7. SumsIn(f, iter, S)
  BY <1>6 DEF SumsIn, Added
<1>8. iter[S] = it[S]
  <2> HIDE DEF iter
  <2> QED
    BY <1>3, <1>7, SumsAgree
<1> QED
  BY <1>3, <1>5, <1>8

\* The sum over nothing.
LEMMA SumEmpty == ASSUME NEW f PROVE SumFunctionOnSet(f, {}) = 0
<1>1. PICK it \in [SUBSET {} -> Int] :
        SumsIn(f, it, {}) /\ SumFunctionOnSet(f, {}) = it[{}]
  BY SumDefined, FS_EmptySet DEF Numbers
<1> QED
  BY <1>1 DEF SumsIn, Added

\* A sum of integers is one.
LEMMA SumType ==
  ASSUME NEW S, IsFiniteSet(S), NEW f, Numbers(f, S)
  PROVE  SumFunctionOnSet(f, S) \in Int
<1>1. PICK it \in [SUBSET S -> Int] :
        SumsIn(f, it, S) /\ SumFunctionOnSet(f, S) = it[S]
  BY SumDefined
<1> QED
  BY <1>1

\* The sums of functions that agree are the same.
LEMMA SumAlike ==
  ASSUME NEW S, IsFiniteSet(S), NEW f, Numbers(f, S),
         NEW g, \A x \in S : g[x] = f[x]
  PROVE  SumFunctionOnSet(g, S) = SumFunctionOnSet(f, S)
<1>1. PICK it \in [SUBSET S -> Int] :
        SumsIn(f, it, S) /\ SumFunctionOnSet(f, S) = it[S]
  BY SumDefined
<1>2. PICK jt \in [SUBSET S -> Int] :
        SumsIn(g, jt, S) /\ SumFunctionOnSet(g, S) = jt[S]
  <2>1. Numbers(g, S)
    BY DEF Numbers
  <2> QED
    BY <2>1, SumDefined
<1>3. jt[S] = it[S]
  BY <1>1, <1>2, SumsAgree
<1> QED
  BY <1>1, <1>2, <1>3

\* The sum over S, of an element and of the others.
LEMMA SumRemove ==
  ASSUME NEW S, IsFiniteSet(S), NEW f, Numbers(f, S), NEW x \in S
  PROVE  SumFunctionOnSet(f, S) = f[x] + SumFunctionOnSet(f, S \ {x})
<1>1. PICK it \in [SUBSET S -> Int] :
        SumsIn(f, it, S) /\ SumFunctionOnSet(f, S) = it[S]
  BY SumDefined
<1>2. IsFiniteSet(S \ {x}) /\ Numbers(f, S \ {x})
  BY FS_RemoveElement DEF Numbers
<1>3. PICK jt \in [SUBSET (S \ {x}) -> Int] :
        SumsIn(f, jt, S \ {x}) /\ SumFunctionOnSet(f, S \ {x}) = jt[S \ {x}]
  BY <1>2, SumDefined
<1>4. it[S] = f[x] + it[S \ {x}]
  <2>1. Numbers(it, SUBSET S)
    BY DEF Numbers
  <2>2. TakesAny(f, it, S)
    BY <1>1, <2>1, SumsAny
  <2> QED
    BY <2>2 DEF TakesAny
<1>5. it[S \ {x}] = jt[S \ {x}]
  BY <1>1, <1>2, <1>3, SumsAgree
<1> QED
  BY <1>1, <1>3, <1>4, <1>5

\* One element more.
LEMMA SumAdd ==
  ASSUME NEW S, IsFiniteSet(S), NEW x, x \notin S, NEW f, Numbers(f, S \cup {x})
  PROVE  SumFunctionOnSet(f, S \cup {x}) = f[x] + SumFunctionOnSet(f, S)
<1>1. IsFiniteSet(S \cup {x}) /\ (S \cup {x}) \ {x} = S
  BY FS_AddElement
<1> QED
  BY <1>1, SumRemove

\* A function that changes at one place changes its sum by as much.
LEMMA SumChange ==
  ASSUME NEW S, IsFiniteSet(S), NEW f, Numbers(f, S), NEW x \in S,
         NEW g, \A y \in S \ {x} : g[y] = f[y], NEW d \in Int, g[x] = f[x] + d
  PROVE  SumFunctionOnSet(g, S) = SumFunctionOnSet(f, S) + d
<1> DEFINE rest == SumFunctionOnSet(f, S \ {x})
<1>1. IsFiniteSet(S \ {x}) /\ Numbers(f, S \ {x}) /\ Numbers(g, S) /\ f[x] \in Int
  BY FS_RemoveElement DEF Numbers
<1>2. SumFunctionOnSet(g, S \ {x}) = rest /\ rest \in Int
  BY <1>1, SumAlike, SumType
<1>3. /\ SumFunctionOnSet(f, S) = f[x] + rest
      /\ SumFunctionOnSet(g, S) = g[x] + rest
  BY <1>1, <1>2, SumRemove
<1> HIDE DEF rest
<1> QED
  BY <1>1, <1>2, <1>3

\* A sum of zeros.
LEMMA SumZero ==
  ASSUME NEW S, IsFiniteSet(S), NEW f, \A x \in S : f[x] = 0
  PROVE  SumFunctionOnSet(f, S) = 0
<1>1. Numbers(f, S)
  BY DEF Numbers
<1>2. PICK it \in [SUBSET S -> Int] :
        SumsIn(f, it, S) /\ SumFunctionOnSet(f, S) = it[S]
  BY <1>1, SumDefined
<1> DEFINE zero == [s \in SUBSET S |-> 0]
<1>3. SumsIn(f, zero, S)
  <2> SUFFICES ASSUME NEW s \in SUBSET S PROVE zero[s] = Added(f, zero, s)
    BY DEF SumsIn
  <2>1. CASE s = {}
    BY <2>1 DEF Added
  <2>2. CASE s # {}
    <3> DEFINE x == CHOOSE x \in s : TRUE
    <3>1. f[x] = 0 /\ zero[s \ {x}] = 0
      BY <2>2
    <3>2. Added(f, zero, s) = f[x] + zero[s \ {x}]
      BY <2>2 DEF Added
    <3> QED
      BY <3>1, <3>2
  <2> QED
    BY <2>1, <2>2
<1>4. it[S] = zero[S]
  <2> HIDE DEF zero
  <2> QED
    BY <1>2, <1>3, SumsAgree
<1> QED
  BY <1>2, <1>4
=============================================================================
