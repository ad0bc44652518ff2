-------------------------- MODULE RunBudget_proofs --------------------------
EXTENDS RunBudget, FiniteSetTheorems, WellFoundedInduction, TLAPS

----------------------------------------------------------------------------
(* Sums over finite sets: what the prover has to know of a fold. *)

\* Induction over the naturals for a property given as a set: the prover cannot
\* instantiate the library's theorem, whose property is an operator.
LEMMA SetInduction ==
    ASSUME NEW S, 0 \in S, \A n \in Nat : n \in S => n + 1 \in S
    PROVE  \A n \in Nat : n \in S
<1> SUFFICES ASSUME Nat \ S # {} PROVE FALSE
  OBVIOUS
<1> DEFINE R == OpToRel(<, Nat)
<1>1. PICK n \in Nat \ S : \A m \in Nat \ S : ~(<<m, n>> \in R)
  <2>1. IsWellFoundedOn(R, Nat)
    BY NatLessThanWellFounded
  <2> HIDE DEF R
  <2> QED BY <2>1, WFMin
<1>2. n # 0 /\ n - 1 \in Nat /\ n - 1 < n
  OBVIOUS
<1>3. <<n - 1, n>> \in R
  BY <1>2 DEF OpToRel
<1>4. n - 1 \in S
  BY <1>1, <1>2, <1>3
<1> QED BY <1>2, <1>4

\* The library's recursion, and what it is to be a solution of it.
Chosen(s) == CHOOSE x \in s : TRUE
Rest(s) == s \ {Chosen(s)}
Folded(f, h, s) == IF s = {} THEN 0 ELSE f[Chosen(s)] + h[Rest(s)]
Folds(f, S, h) == h = [s \in SUBSET S |-> Folded(f, h, s)]
Total(f, S) == MapThenSumSet(LAMBDA x : f[x], S)

LEMMA RestIsSmaller ==
    ASSUME NEW S, IsFiniteSet(S), NEW s \in SUBSET S, s # {}
    PROVE  /\ Chosen(s) \in s
           /\ Rest(s) \in SUBSET S
           /\ IsFiniteSet(s)
           /\ Cardinality(s) \in Nat /\ Cardinality(Rest(s)) = Cardinality(s) - 1
           /\ Cardinality(s) > 0
<1>1. Chosen(s) \in s
  BY DEF Chosen
<1>2. IsFiniteSet(s) /\ Cardinality(s) \in Nat
  BY FS_Subset, FS_CardinalityType
<1>3. Cardinality(Rest(s)) = Cardinality(s) - 1
  BY <1>1, <1>2, FS_RemoveElement DEF Rest
<1>4. Cardinality(s) # 0
  BY <1>2, FS_EmptySet
<1> QED BY <1>1, <1>2, <1>3, <1>4 DEF Rest

\* A solution exists: stage by stage, over sets of at most n elements.
LEMMA FoldExists ==
    ASSUME NEW f, NEW S, IsFiniteSet(S)
    PROVE  \E h : Folds(f, S, h)
<1> DEFINE Small(n) == {s \in SUBSET S : Cardinality(s) <= n}
           Staged == {n \in Nat : \E h : h = [s \in Small(n) |-> Folded(f, h, s)]}
<1>1. 0 \in Staged
  <2> DEFINE h == [s \in Small(0) |-> 0]
  <2>1. ASSUME NEW s \in Small(0) PROVE Folded(f, h, s) = 0
    <3>1. IsFiniteSet(s) /\ Cardinality(s) \in Nat /\ Cardinality(s) <= 0
      BY FS_Subset, FS_CardinalityType
    <3>2. s = {}
      BY <3>1, FS_EmptySet
    <3> QED BY <3>2 DEF Folded
  <2>2. h = [s \in Small(0) |-> Folded(f, h, s)]
    BY <2>1
  <2> QED BY <2>2
<1>2. ASSUME NEW n \in Nat, n \in Staged PROVE n + 1 \in Staged
  <2>1. PICK h : h = [s \in Small(n) |-> Folded(f, h, s)]
    BY <1>2
  <2> DEFINE k == [s \in Small(n + 1) |-> Folded(f, h, s)]
  <2>2. ASSUME NEW s \in Small(n) PROVE s \in Small(n + 1) /\ k[s] = h[s]
    <3>1. Cardinality(s) \in Nat
      BY FS_Subset, FS_CardinalityType
    <3>2. s \in Small(n + 1)
      BY <3>1
    <3>3. h[s] = Folded(f, h, s)
      BY <2>1
    <3> QED BY <3>2, <3>3
  <2>3. ASSUME NEW s \in Small(n + 1) PROVE Folded(f, h, s) = Folded(f, k, s)
    <3>1. CASE s = {}
      BY <3>1 DEF Folded
    <3>2. CASE s # {}
      <4>1. Rest(s) \in Small(n)
        BY <3>2, RestIsSmaller
      <4>2. k[Rest(s)] = h[Rest(s)]
        BY <2>2, <4>1
      <4> HIDE DEF k
      <4> QED BY <3>2, <4>2 DEF Folded
    <3> QED BY <3>1, <3>2
  <2>4. k = [s \in Small(n + 1) |-> Folded(f, k, s)]
    BY <2>3
  <2>5. \E g : g = [s \in Small(n + 1) |-> Folded(f, g, s)]
    <3> HIDE DEF k, Small
    <3> QED BY <2>4
  <2> HIDE DEF k, Small
  <2> QED BY <2>5
<1>3. Cardinality(S) \in Nat
  BY FS_CardinalityType
<1> HIDE DEF Staged
<1>4. Cardinality(S) \in Staged
  BY <1>1, <1>2, <1>3, SetInduction
<1> USE DEF Staged
<1>5. PICK h : h = [s \in Small(Cardinality(S)) |-> Folded(f, h, s)]
  BY <1>4
<1>6. Small(Cardinality(S)) = SUBSET S
  BY FS_Subset
<1> QED BY <1>5, <1>6 DEF Folds

\* A solution is told by its values, which are numbers when what is summed are.
LEMMA FoldStep ==
    ASSUME NEW f, NEW S, IsFiniteSet(S), NEW h, Folds(f, S, h)
    PROVE  /\ h[{}] = 0
           /\ \A s \in SUBSET S : s # {} => h[s] = f[Chosen(s)] + h[Rest(s)]
BY DEF Folds, Folded

LEMMA FoldIsNatural ==
    ASSUME NEW f, NEW S, IsFiniteSet(S), NEW h, Folds(f, S, h), \A x \in S : f[x] \in Nat
    PROVE  \A s \in SUBSET S : h[s] \in Nat
<1> DEFINE Good == {n \in Nat : \A s \in SUBSET S : Cardinality(s) = n => h[s] \in Nat}
<1>1. 0 \in Good
  BY FoldStep, FS_EmptySet, FS_Subset
<1>2. ASSUME NEW n \in Nat, n \in Good PROVE n + 1 \in Good
  <2> SUFFICES ASSUME NEW s \in SUBSET S, Cardinality(s) = n + 1 PROVE h[s] \in Nat
    OBVIOUS
  <2>1. s # {}
    BY FS_EmptySet
  <2>2. Cardinality(Rest(s)) = n /\ Rest(s) \in SUBSET S /\ Chosen(s) \in S
    BY <2>1, RestIsSmaller
  <2>3. h[Rest(s)] \in Nat /\ f[Chosen(s)] \in Nat
    BY <1>2, <2>2
  <2> QED BY <2>1, <2>3, FoldStep
<1>3. \A s \in SUBSET S : Cardinality(s) \in Nat
  BY FS_Subset, FS_CardinalityType
<1> HIDE DEF Good
<1>4. \A n \in Nat : n \in Good
  BY <1>1, <1>2, SetInduction
<1> USE DEF Good
<1> QED BY <1>3, <1>4

\* Two solutions agree where both are defined.
LEMMA FoldsAgree ==
    ASSUME NEW f, NEW g, NEW S, IsFiniteSet(S), NEW T \in SUBSET S, \A x \in T : f[x] = g[x],
           NEW h, Folds(f, S, h), NEW k, Folds(g, T, k)
    PROVE  \A s \in SUBSET T : h[s] = k[s]
<1> DEFINE Good == {n \in Nat : \A s \in SUBSET T : Cardinality(s) = n => h[s] = k[s]}
<1>0. IsFiniteSet(T)
  BY FS_Subset
<1>1. 0 \in Good
  BY <1>0, FoldStep, FS_EmptySet, FS_Subset
<1>2. ASSUME NEW n \in Nat, n \in Good PROVE n + 1 \in Good
  <2> SUFFICES ASSUME NEW s \in SUBSET T, Cardinality(s) = n + 1 PROVE h[s] = k[s]
    OBVIOUS
  <2>1. s # {}
    BY FS_EmptySet
  <2>2. Cardinality(Rest(s)) = n /\ Rest(s) \in SUBSET T /\ Chosen(s) \in T
    BY <1>0, <2>1, RestIsSmaller
  <2>3. h[Rest(s)] = k[Rest(s)] /\ f[Chosen(s)] = g[Chosen(s)]
    BY <1>2, <2>2
  <2>4. h[s] = f[Chosen(s)] + h[Rest(s)] /\ k[s] = g[Chosen(s)] + k[Rest(s)]
    BY <1>0, <2>1, FoldStep
  <2> QED BY <2>3, <2>4
<1>3. \A s \in SUBSET T : Cardinality(s) \in Nat
  BY <1>0, FS_Subset, FS_CardinalityType
<1> HIDE DEF Good
<1>4. \A n \in Nat : n \in Good
  BY <1>1, <1>2, SetInduction
<1> USE DEF Good
<1> QED BY <1>3, <1>4

\* The order does not matter: any element can be taken out first.
LEMMA AnyOrder ==
    ASSUME NEW f, NEW S, IsFiniteSet(S), NEW h, Folds(f, S, h), \A x \in S : f[x] \in Nat
    PROVE  \A s \in SUBSET S : \A y \in s : h[s] = f[y] + h[s \ {y}]
<1> DEFINE Good == {n \in Nat : \A s \in SUBSET S : Cardinality(s) = n => \A y \in s : h[s] = f[y] + h[s \ {y}]}
<1>1. 0 \in Good
  BY FS_EmptySet, FS_Subset
<1>2. ASSUME NEW n \in Nat, n \in Good PROVE n + 1 \in Good
  <2> SUFFICES ASSUME NEW s \in SUBSET S, Cardinality(s) = n + 1, NEW y \in s
               PROVE  h[s] = f[y] + h[s \ {y}]
    OBVIOUS
  <2> DEFINE c == Chosen(s)
  <2>1. c \in s /\ Rest(s) \in SUBSET S /\ Cardinality(Rest(s)) = n /\ IsFiniteSet(s)
    BY RestIsSmaller
  <2>2. h[s] = f[c] + h[s \ {c}]
    <3>1. s # {}
      OBVIOUS
    <3>2. h[s] = f[Chosen(s)] + h[Rest(s)]
      BY <3>1, FoldStep
    <3> QED BY <3>2 DEF Rest
  <2>0. ASSUME NEW x \in s PROVE s \ {x} \in SUBSET S /\ Cardinality(s \ {x}) = n
    <3>1. Cardinality(s \ {x}) = Cardinality(s) - 1
      BY <2>1, FS_RemoveElement
    <3> QED BY <3>1
  <2> HIDE DEF c
  <2>3. CASE y = c
    BY <2>2, <2>3
  <2>4. CASE y # c
    <3>1. s \ {y} \in SUBSET S /\ Cardinality(s \ {y}) = n /\ c \in s \ {y}
      BY <2>0, <2>1, <2>4
    <3>2. s \ {c} \in SUBSET S /\ Cardinality(s \ {c}) = n /\ y \in s \ {c}
      BY <2>0, <2>1, <2>4
    <3>3. h[s \ {c}] = f[y] + h[(s \ {c}) \ {y}]
      BY <1>2, <3>2
    <3>4. h[s \ {y}] = f[c] + h[(s \ {y}) \ {c}]
      BY <1>2, <3>1
    <3>5. (s \ {c}) \ {y} = (s \ {y}) \ {c} /\ (s \ {c}) \ {y} \in SUBSET S
      OBVIOUS
    <3>6. f[c] \in Nat /\ f[y] \in Nat /\ h[(s \ {c}) \ {y}] \in Nat
      BY <2>1, <3>5, FoldIsNatural
    <3> QED BY <2>2, <3>3, <3>4, <3>5, <3>6
  <2> QED BY <2>3, <2>4
<1>3. \A s \in SUBSET S : Cardinality(s) \in Nat
  BY FS_Subset, FS_CardinalityType
<1> HIDE DEF Good
<1>4. \A n \in Nat : n \in Good
  BY <1>1, <1>2, SetInduction
<1> USE DEF Good
<1> QED BY <1>3, <1>4

\* What the library computes is the value of a solution.
LEMMA TotalFolds ==
    ASSUME NEW f, NEW S, IsFiniteSet(S)
    PROVE  \E h : Folds(f, S, h) /\ Total(f, S) = h[S]
<1>1. PICK g : Folds(f, S, g)
  BY FoldExists
<1> DEFINE h == CHOOSE k : Folds(f, S, k)
<1>2. Folds(f, S, h)
  BY <1>1
<1>3. Total(f, S) = h[S]
  BY DEF Total, MapThenSumSet, MapThenFoldSet, Folds, Folded, Chosen, Rest
<1> HIDE DEF h
<1> QED BY <1>2, <1>3

LEMMA TotalIsNatural ==
    ASSUME NEW f, NEW S, IsFiniteSet(S), \A x \in S : f[x] \in Nat
    PROVE  Total(f, S) \in Nat
BY TotalFolds, FoldIsNatural

LEMMA TotalOfNothing ==
    ASSUME NEW f
    PROVE  Total(f, {}) = 0
<1>1. IsFiniteSet({})
  BY FS_EmptySet
<1> QED BY <1>1, TotalFolds, FoldStep

LEMMA TotalAgrees ==
    ASSUME NEW f, NEW g, NEW S, IsFiniteSet(S), \A x \in S : f[x] = g[x]
    PROVE  Total(f, S) = Total(g, S)
<1>1. PICK h : Folds(f, S, h) /\ Total(f, S) = h[S]
  BY TotalFolds
<1>2. PICK k : Folds(g, S, k) /\ Total(g, S) = k[S]
  BY TotalFolds
<1>3. h[S] = k[S]
  <2>1. S \in SUBSET S
    OBVIOUS
  <2> QED BY <1>1, <1>2, <2>1, FoldsAgree
<1> QED BY <1>1, <1>2, <1>3

\* An element more, or one less.
LEMMA TotalWithout ==
    ASSUME NEW f, NEW S, IsFiniteSet(S), NEW x \in S, \A y \in S : f[y] \in Nat
    PROVE  Total(f, S) = f[x] + Total(f, S \ {x})
<1>1. PICK h : Folds(f, S, h) /\ Total(f, S) = h[S]
  BY TotalFolds
<1> DEFINE T == S \ {x}
<1>2. T \in SUBSET S /\ IsFiniteSet(T)
  BY FS_RemoveElement
<1> HIDE DEF T
<1>3. PICK k : Folds(f, T, k) /\ Total(f, T) = k[T]
  BY <1>2, TotalFolds
<1>4. h[T] = k[T]
  <2>1. T \in SUBSET T /\ \A y \in T : f[y] = f[y]
    OBVIOUS
  <2> QED BY <1>1, <1>2, <1>3, <2>1, FoldsAgree
<1>5. h[S] = f[x] + h[S \ {x}]
  <2>1. S \in SUBSET S
    OBVIOUS
  <2> QED BY <1>1, <2>1, AnyOrder
<1> QED BY <1>1, <1>3, <1>4, <1>5 DEF T

LEMMA TotalWith ==
    ASSUME NEW f, NEW S, IsFiniteSet(S), NEW x, x \notin S, \A y \in S \cup {x} : f[y] \in Nat
    PROVE  Total(f, S \cup {x}) = Total(f, S) + f[x]
<1> DEFINE T == S \cup {x}
<1>1. IsFiniteSet(T) /\ x \in T /\ T \ {x} = S
  BY FS_AddElement
<1>2. \A y \in T : f[y] \in Nat
  OBVIOUS
<1>3. Total(f, S) \in Nat /\ f[x] \in Nat
  BY TotalIsNatural
<1>4. Total(f, T) = Total(f, S) + f[x]
  <2> HIDE DEF T
  <2>1. Total(f, T) = f[x] + Total(f, T \ {x})
    BY <1>1, <1>2, TotalWithout
  <2>2. Total(f, T) = f[x] + Total(f, S)
    BY <1>1, <2>1
  <2> QED BY <1>3, <2>2
<1> QED BY <1>4

\* What is summed changes at one place.
LEMMA TotalChanges ==
    ASSUME NEW f, NEW g, NEW S, IsFiniteSet(S), NEW x \in S, \A y \in S : f[y] \in Nat /\ g[y] \in Nat,
           \A y \in S \ {x} : f[y] = g[y]
    PROVE  Total(g, S) = Total(f, S) - f[x] + g[x]
<1>1. IsFiniteSet(S \ {x})
  BY FS_RemoveElement
<1>2. Total(f, S \ {x}) = Total(g, S \ {x}) /\ Total(f, S \ {x}) \in Nat
  BY <1>1, TotalAgrees, TotalIsNatural
<1>3. Total(f, S) = f[x] + Total(f, S \ {x}) /\ Total(g, S) = g[x] + Total(g, S \ {x})
  BY TotalWithout
<1> QED BY <1>2, <1>3

\* More of what is more sums up to more.
LEMMA TotalGrows ==
    ASSUME NEW f, NEW g, NEW T, IsFiniteSet(T), NEW S \in SUBSET T,
           \A x \in S : f[x] \in Nat /\ f[x] <= g[x], \A x \in T : g[x] \in Nat
    PROVE  Total(f, S) <= Total(g, T)
<1> DEFINE Good == {n \in Nat : \A U \in SUBSET T : Cardinality(U) = n => Total(f, U \cap S) <= Total(g, U)}
<1>1. ASSUME NEW U \in SUBSET T PROVE IsFiniteSet(U) /\ Cardinality(U) \in Nat /\ IsFiniteSet(U \cap S)
  BY FS_Subset, FS_CardinalityType, FS_Intersection
<1>2. 0 \in Good
  <2> SUFFICES ASSUME NEW U \in SUBSET T, Cardinality(U) = 0 PROVE Total(f, U \cap S) <= Total(g, U)
    OBVIOUS
  <2>1. U = {} /\ U \cap S = {}
    BY <1>1, FS_EmptySet
  <2> QED BY <2>1, TotalOfNothing
<1>3. ASSUME NEW n \in Nat, n \in Good PROVE n + 1 \in Good
  <2> SUFFICES ASSUME NEW U \in SUBSET T, Cardinality(U) = n + 1 PROVE Total(f, U \cap S) <= Total(g, U)
    OBVIOUS
  <2>1. PICK y : y \in U
    BY FS_EmptySet
  <2> DEFINE V == U \ {y}
  <2>2. V \in SUBSET T /\ Cardinality(V) = n
    <3>1. Cardinality(U \ {y}) = Cardinality(U) - 1
      BY <1>1, <2>1, FS_RemoveElement
    <3> QED BY <3>1
  <2>3. Total(g, U) = g[y] + Total(g, V)
    <3>1. IsFiniteSet(U) /\ \A z \in U : g[z] \in Nat
      BY <1>1
    <3>2. Total(g, U) = g[y] + Total(g, U \ {y})
      BY ONLY <2>1, <3>1, TotalWithout
    <3> QED BY <3>2
  <2>4. Total(f, V \cap S) <= Total(g, V)
    BY <1>3, <2>2
  <2>5. Total(f, V \cap S) \in Nat /\ Total(g, V) \in Nat /\ g[y] \in Nat
    BY <1>1, <2>1, <2>2, TotalIsNatural
  <2>6. CASE y \in S
    <3>1. (U \cap S) \ {y} = V \cap S /\ y \in U \cap S
      BY <2>1, <2>6
    <3>2. Total(f, U \cap S) = f[y] + Total(f, V \cap S)
      <4>1. \A z \in U \cap S : f[z] \in Nat
        OBVIOUS
      <4> HIDE DEF V
      <4> QED BY <1>1, <3>1, <4>1, TotalWithout
    <3>3. f[y] \in Nat /\ f[y] <= g[y]
      BY <2>6
    <3>4. Total(f, V \cap S) \in Nat /\ Total(g, V) \in Nat /\ g[y] \in Nat
      BY <2>5
    <3> HIDE DEF V
    <3> QED BY <2>3, <2>4, <3>2, <3>3, <3>4
  <2>7. CASE y \notin S
    <3>1. U \cap S = V \cap S
      BY <2>7
    <3>2. Total(f, U \cap S) = Total(f, V \cap S)
      BY <3>1
    <3> HIDE DEF V
    <3> QED BY <2>3, <2>4, <2>5, <3>2
  <2> QED BY <2>6, <2>7
<1> HIDE DEF Good
<1>4. \A n \in Nat : n \in Good
  BY <1>2, <1>3, SetInduction
<1> USE DEF Good
<1>5. Total(f, T \cap S) <= Total(g, T)
  BY <1>1, <1>4
<1>6. T \cap S = S
  OBVIOUS
<1> QED BY <1>5, <1>6

----------------------------------------------------------------------------
(* The sums of the specification. *)

Counts == [q \in Request |-> Counted(q)]
Excesses == [q \in Request |-> Excess(q)]
Leasts == [q \in Request |-> Least(q)]
Rows == {q \in Request : Reserved(q)}

LEMMA SpentIsTotal ==
    ASSUME IsFiniteSet(Rows)
    PROVE  Spent = Total(Counts, Rows)
<1> DEFINE Solves(h) == h = [s \in SUBSET Rows |-> IF s = {} THEN 0
                             ELSE Counted(CHOOSE x \in s : TRUE) + h[s \ {CHOOSE x \in s : TRUE}]]
<1>1. ASSUME NEW h PROVE Solves(h) <=> Folds(Counts, Rows, h)
  <2>1. ASSUME NEW s \in SUBSET Rows, s # {}
        PROVE  Counts[Chosen(s)] = Counted(Chosen(s))
    <3>1. Chosen(s) \in Request
      BY <2>1 DEF Chosen, Rows
    <3> QED BY <3>1 DEF Counts
  <2> QED BY <2>1 DEF Folds, Folded, Rest, Chosen
<1>2. PICK g : Folds(Counts, Rows, g) /\ Total(Counts, Rows) = g[Rows]
  BY TotalFolds
<1>3. Solves(CHOOSE h : Solves(h))
  <2>1. Solves(g)
    BY <1>1, <1>2
  <2> HIDE DEF Solves
  <2> QED BY <2>1
<1> DEFINE k == CHOOSE h : Solves(h)
<1>4. Spent = k[Rows]
  BY DEF Spent, Rows, MapThenSumSet, MapThenFoldSet
<1>5. Folds(Counts, Rows, k)
  <2> HIDE DEF Solves
  <2> QED BY <1>1, <1>3
<1>6. g[Rows] = k[Rows]
  <2> HIDE DEF k
  <2>1. Rows \in SUBSET Rows
    OBVIOUS
  <2> QED BY <1>2, <1>5, <2>1, FoldsAgree
<1> QED BY <1>2, <1>4, <1>6

LEMMA ExcessIsTotal ==
    ASSUME IsFiniteSet(Rows)
    PROVE  MapThenSumSet(Excess, Rows) = Total(Excesses, Rows)
<1> DEFINE Solves(h) == h = [s \in SUBSET Rows |-> IF s = {} THEN 0
                             ELSE Excess(CHOOSE x \in s : TRUE) + h[s \ {CHOOSE x \in s : TRUE}]]
<1>1. ASSUME NEW h PROVE Solves(h) <=> Folds(Excesses, Rows, h)
  <2>1. ASSUME NEW s \in SUBSET Rows, s # {}
        PROVE  Excesses[Chosen(s)] = Excess(Chosen(s))
    <3>1. Chosen(s) \in Request
      BY <2>1 DEF Chosen, Rows
    <3> QED BY <3>1 DEF Excesses
  <2> QED BY <2>1 DEF Folds, Folded, Rest, Chosen
<1>2. PICK g : Folds(Excesses, Rows, g) /\ Total(Excesses, Rows) = g[Rows]
  BY TotalFolds
<1>3. Solves(CHOOSE h : Solves(h))
  <2>1. Solves(g)
    BY <1>1, <1>2
  <2> HIDE DEF Solves
  <2> QED BY <2>1
<1> DEFINE k == CHOOSE h : Solves(h)
<1>4. MapThenSumSet(Excess, Rows) = k[Rows]
  BY DEF MapThenSumSet, MapThenFoldSet
<1>5. Folds(Excesses, Rows, k)
  <2> HIDE DEF Solves
  <2> QED BY <1>1, <1>3
<1>6. g[Rows] = k[Rows]
  <2> HIDE DEF k
  <2>1. Rows \in SUBSET Rows
    OBVIOUS
  <2> QED BY <1>2, <1>5, <2>1, FoldsAgree
<1> QED BY <1>2, <1>4, <1>6

LEMMA LeastIsTotal ==
    ASSUME NEW S \in SUBSET Request, IsFiniteSet(S)
    PROVE  MapThenSumSet(Least, S) = Total(Leasts, S)
<1> DEFINE Solves(h) == h = [s \in SUBSET S |-> IF s = {} THEN 0
                             ELSE Least(CHOOSE x \in s : TRUE) + h[s \ {CHOOSE x \in s : TRUE}]]
<1>1. ASSUME NEW h PROVE Solves(h) <=> Folds(Leasts, S, h)
  <2>1. ASSUME NEW s \in SUBSET S, s # {}
        PROVE  Leasts[Chosen(s)] = Least(Chosen(s))
    <3>1. Chosen(s) \in Request
      BY <2>1 DEF Chosen
    <3> QED BY <3>1 DEF Leasts
  <2> QED BY <2>1 DEF Folds, Folded, Rest, Chosen
<1>2. PICK g : Folds(Leasts, S, g) /\ Total(Leasts, S) = g[S]
  BY TotalFolds
<1>3. Solves(CHOOSE h : Solves(h))
  <2>1. Solves(g)
    BY <1>1, <1>2
  <2> HIDE DEF Solves
  <2> QED BY <2>1
<1> DEFINE k == CHOOSE h : Solves(h)
<1>4. MapThenSumSet(Least, S) = k[S]
  BY DEF MapThenSumSet, MapThenFoldSet
<1>5. Folds(Leasts, S, k)
  <2> HIDE DEF Solves
  <2> QED BY <1>1, <1>3
<1>6. g[S] = k[S]
  <2> HIDE DEF k
  <2>1. S \in SUBSET S
    OBVIOUS
  <2> QED BY <1>2, <1>5, <2>1, FoldsAgree
<1> QED BY <1>2, <1>4, <1>6

LEMMA MaxOfTwo ==
    ASSUME NEW m \in Int, NEW n \in Int
    PROVE  Max({m, n}) = IF m >= n THEN m ELSE n
BY DEF Max

LEMMA MinOfTwo ==
    ASSUME NEW m \in Int, NEW n \in Int
    PROVE  Min({m, n}) = IF m <= n THEN m ELSE n
BY DEF Min

----------------------------------------------------------------------------
(* Where a request stands, and what is on record of it. *)

RowType == [estimated : Nat, actual : Nat \cup {Unknown}]
BudgetType == [calls : Nat, reserved : Nat, failed : BOOLEAN, open : BOOLEAN]
Stage == {"none", "reserving", "granted", "called", "settling", "over"}
RequestType == [stage : Stage, by : Attempt \cup {0}, estimate : Nat,
                actual : Nat \cup {Unknown}, dropped : BOOLEAN]

BookTypes ==
    /\ attempt \in Attempt
    /\ rows \in [Request -> RowType]
    /\ budgets \in [Attempt -> BudgetType]
    /\ requests \in [Request -> RequestType]
    /\ called \in SUBSET Request

\* A request has a row before the provider is called, what was settled is what was
\* metered, and only what is over was dropped.
RequestFits(q) ==
    /\ At(q, "none") <=> requests[q].by = 0
    /\ ~At(q, "none") => requests[q].estimate \in Estimate
    /\ Reserved(q) => ~At(q, "none") /\ rows[q].estimated = requests[q].estimate
    /\ requests[q].stage \in {"granted", "called", "settling"} \/ q \in called => Reserved(q)
    /\ rows[q].actual # Unknown => /\ rows[q].actual = requests[q].actual
                                   /\ Reserved(q) /\ requests[q].stage \in {"settling", "over"}
    /\ At(q, "settling") => requests[q].actual # Unknown
    /\ requests[q].dropped => At(q, "over")
Fit == \A q \in Request : RequestFits(q)

LEMMA InitFits == Init => BookTypes /\ Fit
BY BudgetAssumption DEF Init, BookTypes, Fit, RequestFits, RowType, BudgetType, RequestType, Stage, NoRow, NoRequest,
   NewBudget, At, Reserved, Unknown

\* A request that moves on changes in nothing else.
LEMMA Moved ==
    ASSUME BookTypes, NEW q \in Request, NEW stage \in Stage, Goes(q, stage)
    PROVE  /\ requests' \in [Request -> RequestType]
           /\ requests'[q].stage = stage
           /\ \A p \in Request : /\ p # q => requests'[p] = requests[p]
                                 /\ requests'[p].by = requests[p].by
                                 /\ requests'[p].estimate = requests[p].estimate
                                 /\ requests'[p].actual = requests[p].actual
                                 /\ requests'[p].dropped = requests[p].dropped
BY DEF BookTypes, RequestType, Goes

LEMMA Dropped ==
    ASSUME BookTypes, NEW q \in Request,
           requests' = [requests EXCEPT ![q].stage = "over", ![q].dropped = TRUE]
    PROVE  /\ requests' \in [Request -> RequestType]
           /\ requests'[q].stage = "over" /\ requests'[q].dropped
           /\ \A p \in Request : /\ p # q => requests'[p] = requests[p]
                                 /\ requests'[p].by = requests[p].by
                                 /\ requests'[p].estimate = requests[p].estimate
                                 /\ requests'[p].actual = requests[p].actual
BY DEF BookTypes, RequestType, Stage

LEMMA Measured ==
    ASSUME BookTypes, NEW q \in Request, NEW actual \in Usage, Metered(q, actual)
    PROVE  /\ requests' \in [Request -> RequestType]
           /\ requests'[q].stage = "settling" /\ requests'[q].actual = actual /\ actual # Unknown
           /\ \A p \in Request : /\ p # q => requests'[p] = requests[p]
                                 /\ requests'[p].by = requests[p].by
                                 /\ requests'[p].estimate = requests[p].estimate
                                 /\ requests'[p].dropped = requests[p].dropped
<1>1. actual \in Nat
  BY BudgetAssumption
<1>2. requests' = [requests EXCEPT ![q].stage = "settling", ![q].actual = actual]
  BY DEF Metered
<1>3. actual # Unknown
  BY <1>1 DEF Unknown
<1> QED BY <1>1, <1>2, <1>3 DEF BookTypes, RequestType, Stage

\* A request that was begun has somebody's budget, which keeps its shape.
LEMMA BudgetStays ==
    ASSUME BookTypes, Fit, NEW q \in Request, ~At(q, "none")
    PROVE  /\ requests[q].by \in Attempt
           /\ Fails(q) => budgets' \in [Attempt -> BudgetType]
           /\ Settled(q) => budgets' \in [Attempt -> BudgetType]
<1> DEFINE a == requests[q].by
<1>1. a \in Attempt
  BY DEF BookTypes, RequestType, Fit, RequestFits
<1>2. budgets[a] \in BudgetType
  BY <1>1 DEF BookTypes
<1>3. ASSUME Fails(q) PROVE budgets' \in [Attempt -> BudgetType]
  <2>1. [budgets[a] EXCEPT !.failed = TRUE] \in BudgetType
    BY <1>2 DEF BudgetType
  <2> QED BY <1>1, <1>3, <2>1 DEF Fails, BookTypes
<1>4. ASSUME Settled(q) PROVE budgets' \in [Attempt -> BudgetType]
  <2> DEFINE n == Exchanged(budgets[a].reserved, requests[q])
  <2>1. n \in Nat
    <3>1. requests[q].estimate \in Nat /\ requests[q].actual \in Int /\ budgets[a].reserved \in Nat
      BY <1>2 DEF BookTypes, RequestType, BudgetType, Unknown
    <3> QED BY <3>1, MaxOfTwo DEF Exchanged
  <2> HIDE DEF n
  <2>2. [budgets[a] EXCEPT !.reserved = n] \in BudgetType
    BY <1>2, <2>1 DEF BudgetType
  <2>3. budgets' = [budgets EXCEPT ![a] = [budgets[a] EXCEPT !.reserved = n]]
    BY <1>1, <1>4 DEF Settled, n
  <2> QED BY <1>1, <2>2, <2>3 DEF BookTypes
<1> QED BY <1>1, <1>3, <1>4

LEMMA Begun ==
    ASSUME BookTypes, NEW q \in Request, NEW a \in Attempt, NEW estimate \in Estimate, Begin(q, a, estimate)
    PROVE  /\ requests' \in [Request -> RequestType]
           /\ budgets' \in [Attempt -> BudgetType]
           /\ requests'[q].stage \in {"reserving", "over"} /\ requests'[q].by = a
           /\ requests'[q].estimate = estimate /\ requests'[q].dropped = FALSE
           /\ \A p \in Request \ {q} : requests'[p] = requests[p]
           /\ budgets'[a].reserved = budgets[a].reserved + estimate /\ ~budgets[a].failed
           /\ ~budgets'[a].failed => requests'[q].stage = "reserving"
           /\ \A b \in Attempt \ {a} : budgets'[b] = budgets[b]
<1> DEFINE b == [budgets[a] EXCEPT !.calls = @ + 1, !.reserved = @ + estimate]
<1>1. estimate \in Nat
  BY BudgetAssumption
<1>2. budgets[a] \in BudgetType
  BY DEF BookTypes
<1>3. b \in BudgetType /\ b.reserved = budgets[a].reserved + estimate
  <2>1. budgets[a].calls + 1 \in Nat /\ budgets[a].reserved + estimate \in Nat
    BY <1>1, <1>2 DEF BudgetType
  <2> DEFINE c == [budgets[a] EXCEPT !.calls = budgets[a].calls + 1]
             n == budgets[a].reserved + estimate
  <2>2. c \in BudgetType
    BY <1>2, <2>1 DEF BudgetType
  <2>3. b = [c EXCEPT !.reserved = n]
    <3>1. c.reserved = budgets[a].reserved
      BY <1>2 DEF BudgetType
    <3> QED BY <3>1
  <2>4. n \in Nat
    BY <2>1
  <2> HIDE DEF b, c, n
  <2>5. b \in BudgetType /\ b.reserved = n
    BY <2>2, <2>3, <2>4 DEF BudgetType
  <2> QED BY <2>5 DEF n
<1>4. [b EXCEPT !.failed = ~Within(b)] \in BudgetType
      /\ [b EXCEPT !.failed = ~Within(b)].failed = ~Within(b)
      /\ [b EXCEPT !.failed = ~Within(b)].reserved = b.reserved
  BY <1>3 DEF BudgetType, Within
<1>5. /\ requests' = [requests EXCEPT ![q] = [stage |-> IF Within(b) THEN "reserving" ELSE "over",
                                              by |-> a, estimate |-> estimate, actual |-> Unknown,
                                              dropped |-> FALSE]]
      /\ budgets' = [budgets EXCEPT ![a] = [b EXCEPT !.failed = ~Within(b)]]
      /\ ~budgets[a].failed
  BY DEF Begin
<1> HIDE DEF b
<1>6. /\ budgets' \in [Attempt -> BudgetType]
      /\ budgets'[a].reserved = budgets[a].reserved + estimate /\ budgets'[a].failed = ~Within(b)
      /\ \A c \in Attempt \ {a} : budgets'[c] = budgets[c]
  BY <1>3, <1>4, <1>5 DEF BookTypes
<1>7. /\ requests' \in [Request -> RequestType]
      /\ requests'[q].stage = IF Within(b) THEN "reserving" ELSE "over"
      /\ requests'[q].by = a /\ requests'[q].estimate = estimate /\ requests'[q].dropped = FALSE
      /\ \A p \in Request \ {q} : requests'[p] = requests[p]
  BY <1>1, <1>5 DEF BookTypes, RequestType, Stage
<1> QED BY <1>5, <1>6, <1>7

\* What a request does keeps it in shape, and says nothing of the others.
LEMMA FetchFits ==
    ASSUME BookTypes, Fit, NEW q \in Request, Fetch(q)
    PROVE  BookTypes' /\ Fit'
<1> USE DEF Fit, RequestFits, At, Reserved, store, memory
<1>1. ASSUME NEW a \in Attempt, NEW estimate \in Estimate, Begin(q, a, estimate) PROVE BookTypes' /\ Fit'
  <2>1. requests[q].stage = "none" /\ a \in Attempt /\ estimate \in Estimate /\ UNCHANGED <<attempt, rows, called>>
    BY <1>1 DEF Begin
  <2>2. BookTypes'
    BY <1>1, <2>1, Begun DEF BookTypes
  <2>3. a # 0
    BY BudgetAssumption
  <2>4. /\ requests'[q].stage \in {"reserving", "over"} /\ requests'[q].by = a
        /\ requests'[q].estimate = estimate /\ requests'[q].dropped = FALSE
        /\ \A p \in Request \ {q} : requests'[p] = requests[p]
    <3> HIDE DEF Fit, RequestFits, At, Reserved, store, memory
    <3> QED BY <1>1, Begun, ZenonT(40)
  <2>5. ASSUME NEW p \in Request PROVE RequestFits(p)'
    <3>1. CASE p = q
      <4>1. RequestFits(q) /\ rows' = rows /\ called' = called
        BY <2>1
      <4>2. ~Reserved(q) /\ q \notin called /\ rows[q].actual = Unknown
        BY <2>1, <4>1
      <4> QED BY <2>1, <2>3, <2>4, <3>1, <4>1, <4>2
    <3>2. CASE p # q
      BY <2>1, <2>4, <3>2
    <3> QED BY <3>1, <3>2
  <2> QED BY <2>2, <2>5
<1>2. CASE Reserve(q)
  <2>1. rows'[q].estimated = requests[q].estimate /\ rows'[q].actual = Unknown /\ rows' \in [Request -> RowType]
        /\ \A p \in Request : p # q => rows'[p] = rows[p]
    BY <1>2 DEF Reserve, BookTypes, RowType, RequestType
  <2>2. UNCHANGED <<attempt, budgets, requests, called>> /\ requests[q].stage = "reserving"
    BY <1>2 DEF Reserve
  <2>3. requests[q].estimate > 0
    <3>1. requests[q].estimate \in Estimate
      BY <2>2
    <3>2. requests[q].estimate \in Nat \ {0}
      BY <3>1, BudgetAssumption
    <3> QED BY ONLY <3>2
  <2> QED BY <2>1, <2>2, <2>3 DEF BookTypes
<1>3. CASE Granted(q)
  BY <1>3, Moved DEF Granted, BookTypes, Stage
<1>4. CASE Refused(q)
  <2>1. Goes(q, "over") /\ Fails(q) /\ UNCHANGED <<attempt, rows, called>> /\ requests[q].stage = "reserving"
    BY <1>4 DEF Refused, Fails
  <2>2. budgets' \in [Attempt -> BudgetType]
    BY <2>1, BudgetStays
  <2> QED BY <2>1, <2>2, Moved DEF BookTypes, Stage
<1>5. CASE Call(q)
  BY <1>5, Moved DEF Call, BookTypes, Stage
<1>6. ASSUME NEW actual \in Usage, Metered(q, actual) PROVE BookTypes' /\ Fit'
  <2>1. UNCHANGED <<attempt, rows, budgets, called>> /\ requests[q].stage = "called"
    BY <1>6 DEF Metered
  <2> QED BY <1>6, <2>1, Measured DEF BookTypes
<1>7. CASE Unmetered(q)
  BY <1>7, Moved DEF Unmetered, BookTypes, Stage
<1>8. CASE BreaksOff(q)
  <2>1. Goes(q, "over") /\ Fails(q) /\ UNCHANGED <<attempt, rows, called>> /\ requests[q].stage = "called"
    BY <1>8 DEF BreaksOff, Fails
  <2>2. budgets' \in [Attempt -> BudgetType]
    BY <2>1, BudgetStays
  <2> QED BY <2>1, <2>2, Moved DEF BookTypes, Stage
<1>9. CASE Settle(q)
  <2>1. rows'[q].estimated = rows[q].estimated /\ rows'[q].actual = requests[q].actual
        /\ rows' \in [Request -> RowType] /\ \A p \in Request : p # q => rows'[p] = rows[p]
    BY <1>9 DEF Settle, BookTypes, RowType, RequestType
  <2>2. UNCHANGED <<attempt, budgets, requests, called>> /\ requests[q].stage = "settling" /\ Reserved(q)
    BY <1>9 DEF Settle
  <2> QED BY <2>1, <2>2 DEF BookTypes
<1>10. CASE Settled(q)
  <2>1. Goes(q, "over") /\ UNCHANGED <<attempt, rows, called>> /\ requests[q].stage = "settling"
    BY <1>10 DEF Settled
  <2>2. budgets' \in [Attempt -> BudgetType]
    BY <1>10, <2>1, BudgetStays
  <2> QED BY <2>1, <2>2, Moved DEF BookTypes, Stage
<1>11. CASE Unsettled(q)
  <2>1. UNCHANGED <<attempt, rows, called>> /\ requests[q].stage = "settling"
    BY <1>11 DEF Unsettled
  <2>2. CASE Fails(q)
    <3>1. budgets' \in [Attempt -> BudgetType]
      BY <2>1, <2>2, BudgetStays
    <3> QED BY <2>1, <2>2, <3>1, Moved DEF Fails, BookTypes, Stage
  <2>3. CASE /\ requests' = [requests EXCEPT ![q].stage = "over", ![q].dropped = TRUE]
             /\ UNCHANGED budgets
    <3>1. requests' = [requests EXCEPT ![q].stage = "over", ![q].dropped = TRUE]
      BY <2>3
    <3>2. BookTypes'
      BY <2>1, <2>3, <3>1, Dropped DEF BookTypes
    <3>3. ASSUME NEW p \in Request PROVE RequestFits(p)'
      <4>1. CASE p = q
        <5>1. /\ requests'[q].stage = "over" /\ requests'[q].by = requests[q].by
              /\ requests'[q].estimate = requests[q].estimate /\ requests'[q].actual = requests[q].actual
          BY <3>1, Dropped
        <5>2. RequestFits(q) /\ rows' = rows /\ called' = called
          BY <2>1
        <5> QED BY <2>1, <4>1, <5>1, <5>2
      <4>2. CASE p # q
        BY <2>1, <3>1, <4>2, Dropped
      <4> QED BY <4>1, <4>2
    <3> QED BY <3>2, <3>3
  <2> QED BY <1>11, <2>2, <2>3 DEF Unsettled
<1> QED BY <1>1, <1>2, <1>3, <1>4, <1>5, <1>6, <1>7, <1>8, <1>9, <1>10, <1>11 DEF Fetch

----------------------------------------------------------------------------
(* The worker's own book. *)

\* The requests a worker began, and what its budget still counts for each at least.
Made(a) == {q \in Request : requests[q].by = a}
Contribution(q) ==
    IF At(q, "over") /\ ~requests[q].dropped /\ rows[q].actual # Unknown
    THEN rows[q].actual ELSE requests[q].estimate
Contributions == [q \in Request |-> Contribution(q)]

BookKept ==
    \A a \in Attempt :
        /\ IsFiniteSet(Made(a))
        /\ ~budgets[a].failed => Total(Contributions, Made(a)) <= budgets[a].reserved

LEMMA ContributionIsNatural ==
    ASSUME BookTypes, NEW q \in Request
    PROVE  Contribution(q) \in Nat /\ Contributions[q] = Contribution(q)
BY DEF BookTypes, RowType, RequestType, Contribution, Contributions, Unknown

\* A book that nothing is entered into, and whose entries stand, is kept.
LEMMA BookStays ==
    ASSUME BookTypes, BookTypes', BookKept, NEW a \in Attempt,
           \A p \in Request : (requests'[p].by = a <=> requests[p].by = a),
           ~budgets'[a].failed =>
               /\ ~budgets[a].failed /\ budgets'[a].reserved = budgets[a].reserved
               /\ \A p \in Made(a) : Contribution(p)' = Contribution(p)
    PROVE  /\ IsFiniteSet(Made(a)')
           /\ ~budgets'[a].failed => Total(Contributions', Made(a)') <= budgets'[a].reserved
<1>1. Made(a)' = Made(a)
  BY DEF Made
<1>2. IsFiniteSet(Made(a))
  BY DEF BookKept
<1>3. ASSUME ~budgets'[a].failed PROVE Total(Contributions', Made(a)) <= budgets[a].reserved
  <2>1. \A p \in Made(a) : Contributions[p] = Contributions'[p]
    BY <1>3 DEF Made, Contributions
  <2>2. Total(Contributions, Made(a)) = Total(Contributions', Made(a))
    BY <1>2, <2>1, TotalAgrees
  <2>3. Total(Contributions, Made(a)) <= budgets[a].reserved
    BY <1>3 DEF BookKept
  <2> QED BY <2>2, <2>3
<1> QED BY <1>1, <1>2, <1>3

LEMMA FetchKeepsBook ==
    ASSUME BookTypes, Fit, BookKept, NEW q \in Request, Fetch(q)
    PROVE  BookKept'
<1>1. BookTypes' /\ Fit'
  BY FetchFits
<1>2. RequestFits(q)
  BY DEF Fit
<1> SUFFICES ASSUME NEW a \in Attempt
             PROVE  /\ IsFiniteSet(Made(a)')
                    /\ ~budgets'[a].failed => Total(Contributions', Made(a)') <= budgets'[a].reserved
  BY DEF BookKept
\* Of other requests nothing changes, and of other budgets neither.
<1>3. ASSUME \A p \in Request : requests'[p].by = requests[p].by,
             \A p \in Request \ {q} : requests'[p] = requests[p] /\ rows'[p] = rows[p],
             ~budgets'[a].failed => ~budgets[a].failed /\ budgets'[a].reserved = budgets[a].reserved,
             requests[q].by = a /\ ~budgets'[a].failed => Contribution(q)' = Contribution(q)
      PROVE  /\ IsFiniteSet(Made(a)')
             /\ ~budgets'[a].failed => Total(Contributions', Made(a)') <= budgets'[a].reserved
  <2>1. ASSUME NEW p \in Made(a), ~budgets'[a].failed PROVE Contribution(p)' = Contribution(p)
    <3>1. CASE p = q
      BY <1>3, <2>1, <3>1 DEF Made
    <3>2. CASE p # q
      BY <1>3, <2>1, <3>2 DEF Made, Contribution, At
    <3> QED BY <3>1, <3>2
  <2> QED BY <1>1, <1>3, <2>1, BookStays
<1>4. ASSUME NEW stage \in Stage, Goes(q, stage), UNCHANGED rows, stage # "over" \/ rows[q].actual = Unknown, ~At(q, "over"),
             ~budgets'[a].failed => ~budgets[a].failed /\ budgets'[a].reserved = budgets[a].reserved
      PROVE  /\ IsFiniteSet(Made(a)')
             /\ ~budgets'[a].failed => Total(Contributions', Made(a)') <= budgets'[a].reserved
  <2>1. Contribution(q)' = Contribution(q)
    BY <1>4, Moved DEF Contribution, At
  <2> QED BY <1>3, <1>4, <2>1, Moved
<1>5. ASSUME Fails(q), UNCHANGED rows, ~At(q, "none")
      PROVE  /\ IsFiniteSet(Made(a)')
             /\ ~budgets'[a].failed => Total(Contributions', Made(a)') <= budgets'[a].reserved
  <2>1. requests[q].by \in Attempt
    BY <1>5, BudgetStays
  <2>2. budgets'[a].failed \/ (budgets'[a] = budgets[a] /\ requests[q].by # a)
    BY <1>5, <2>1 DEF Fails, BookTypes, BudgetType
  <2>3. Goes(q, "over") /\ "over" \in Stage
    BY <1>5 DEF Fails, Stage
  <2> QED BY <1>3, <1>5, <2>2, <2>3, Moved
<1>6. ASSUME NEW b \in Attempt, NEW estimate \in Estimate, Begin(q, b, estimate)
      PROVE  /\ IsFiniteSet(Made(a)')
             /\ ~budgets'[a].failed => Total(Contributions', Made(a)') <= budgets'[a].reserved
  <2>1. /\ requests'[q].stage \in {"reserving", "over"} /\ requests'[q].by = b
        /\ requests'[q].estimate = estimate
        /\ \A p \in Request \ {q} : requests'[p] = requests[p]
        /\ budgets'[b].reserved = budgets[b].reserved + estimate /\ ~budgets[b].failed
        /\ ~budgets'[b].failed => requests'[q].stage = "reserving"
        /\ \A c \in Attempt \ {b} : budgets'[c] = budgets[c]
    BY <1>6, Begun, ZenonT(40)
  <2>2. requests[q].by = 0 /\ rows' = rows /\ 0 \notin Attempt
    BY <1>2, <1>6, BudgetAssumption DEF Begin, RequestFits, store
  <2>3. \A p \in Request \ {q} : Contribution(p)' = Contribution(p)
    BY <2>1, <2>2 DEF Contribution, At
  <2>4. CASE a # b
    <3>1. \A p \in Request : (requests'[p].by = a <=> requests[p].by = a)
      BY <2>1, <2>2, <2>4
    <3>2. \A p \in Made(a) : Contribution(p)' = Contribution(p)
      BY <2>2, <2>3 DEF Made
    <3> QED BY <1>1, <2>1, <2>4, <3>1, <3>2, BookStays
  <2>5. CASE a = b
    <3>1. Made(a)' = Made(a) \cup {q} /\ q \notin Made(a)
      BY <2>1, <2>2, <2>5 DEF Made
    <3>2. IsFiniteSet(Made(a)) /\ IsFiniteSet(Made(a)')
      BY <3>1, FS_AddElement DEF BookKept
    <3>3. ASSUME ~budgets'[a].failed PROVE Total(Contributions', Made(a)') <= budgets'[a].reserved
      <4>1. Contributions'[q] = estimate
        BY <2>1, <2>5, <3>3 DEF Contributions, Contribution, At
      <4>2. \A p \in Made(a) \cup {q} : Contributions'[p] \in Nat
        BY <1>1, ContributionIsNatural DEF Made, Contributions, BookTypes, RowType, RequestType, Contribution, Unknown
      <4>3. Total(Contributions', Made(a) \cup {q}) = Total(Contributions', Made(a)) + Contributions'[q]
        BY <3>1, <3>2, <4>2, TotalWith
      <4>4. \A p \in Made(a) : Contributions[p] = Contributions'[p]
        BY <2>3, <3>1 DEF Made, Contributions
      <4>5. Total(Contributions, Made(a)) = Total(Contributions', Made(a))
        BY <3>2, <4>4, TotalAgrees
      <4>6. Total(Contributions, Made(a)) <= budgets[a].reserved
        BY <2>1, <2>5 DEF BookKept
      <4>7. Total(Contributions, Made(a)) \in Nat /\ budgets[a].reserved \in Nat /\ estimate \in Nat
        <5>1. \A p \in Made(a) : Contributions[p] \in Nat
          BY ContributionIsNatural DEF Made
        <5> QED BY <3>2, <5>1, TotalIsNatural, BudgetAssumption DEF BookTypes, BudgetType
      <4>8. budgets'[a].reserved = budgets[a].reserved + estimate
        BY <2>1, <2>5
      <4> QED BY <3>1, <4>1, <4>3, <4>5, <4>6, <4>7, <4>8
    <3> QED BY <3>2, <3>3
  <2> QED BY <2>4, <2>5
<1>7. CASE Reserve(q)
  <2>1. UNCHANGED <<requests, budgets>> /\ At(q, "reserving") /\ \A p \in Request \ {q} : rows'[p] = rows[p]
    BY <1>7 DEF Reserve, memory, BookTypes
  <2>2. Contribution(q)' = Contribution(q)
    BY <2>1 DEF Contribution, At
  <2> QED BY <1>3, <2>1, <2>2
<1>8. CASE Granted(q)
  BY <1>4, <1>8 DEF Granted, store, Stage, At
<1>9. CASE Refused(q)
  BY <1>5, <1>9 DEF Refused, store, At
<1>10. CASE Call(q)
  BY <1>4, <1>10 DEF Call, store, Stage, At
<1>11. ASSUME NEW actual \in Usage, Metered(q, actual)
       PROVE  /\ IsFiniteSet(Made(a)')
              /\ ~budgets'[a].failed => Total(Contributions', Made(a)') <= budgets'[a].reserved
  <2>1. UNCHANGED <<rows, budgets>> /\ At(q, "called")
    BY <1>11 DEF Metered, store
  <2>2. Contribution(q)' = Contribution(q)
    BY <1>11, <2>1, Measured DEF Contribution, At
  <2> QED BY <1>3, <1>11, <2>1, <2>2, Measured
<1>12. CASE Unmetered(q)
  <2>1. rows[q].actual = Unknown
    BY <1>2, <1>12 DEF Unmetered, RequestFits, At
  <2> QED BY <1>4, <1>12, <2>1 DEF Unmetered, store, Stage, At
<1>13. CASE BreaksOff(q)
  BY <1>5, <1>13 DEF BreaksOff, store, At
<1>14. CASE Settle(q)
  <2>1. UNCHANGED <<requests, budgets>> /\ At(q, "settling") /\ \A p \in Request \ {q} : rows'[p] = rows[p]
    BY <1>14 DEF Settle, memory, BookTypes
  <2>2. Contribution(q)' = Contribution(q)
    BY <2>1 DEF Contribution, At
  <2> QED BY <1>3, <2>1, <2>2
<1>15. CASE Settled(q)
  <2> DEFINE b == requests[q].by
  <2>1. b \in Attempt /\ Goes(q, "over") /\ UNCHANGED rows /\ At(q, "settling") /\ "over" \in Stage
    BY <1>15, BudgetStays DEF Settled, store, At, Stage
  <2>2. CASE a # b
    <3>1. budgets'[a] = budgets[a]
      BY <1>15, <2>1, <2>2 DEF Settled, BookTypes
    <3> QED BY <1>3, <2>1, <2>2, <3>1, Moved
  <2>3. CASE a = b
    <3>1. Made(a)' = Made(a) /\ q \in Made(a) /\ IsFiniteSet(Made(a))
      BY <2>1, <2>3, Moved DEF Made, BookKept
    <3>2. ASSUME ~budgets'[a].failed PROVE Total(Contributions', Made(a)) <= budgets'[a].reserved
      <4>1. budgets'[a].reserved = Exchanged(budgets[a].reserved, requests[q]) /\ ~budgets[a].failed
        BY <1>15, <2>1, <2>3, <3>2 DEF Settled, BookTypes, BudgetType
      <4>2. rows[q].actual = requests[q].actual /\ rows[q].actual # Unknown /\ ~requests[q].dropped
        BY <1>2, <1>15, <2>1 DEF Settled, RequestFits, At
      <4>3. Contributions[q] = requests[q].estimate /\ Contributions'[q] = requests[q].actual
        BY <2>1, <4>2, Moved DEF Contributions, Contribution, At
      <4>4. \A p \in Made(a) : Contributions[p] \in Nat /\ Contributions'[p] \in Nat
        BY <1>1, <3>1, ContributionIsNatural DEF Made, Contributions, BookTypes, RowType, RequestType, Contribution, Unknown
      <4>5. \A p \in Made(a) \ {q} : Contributions[p] = Contributions'[p]
        BY <2>1, Moved DEF Made, Contributions, Contribution, At
      <4>6. Total(Contributions', Made(a)) = Total(Contributions, Made(a)) - Contributions[q] + Contributions'[q]
        BY <3>1, <4>4, <4>5, TotalChanges
      <4>7. Total(Contributions, Made(a)) <= budgets[a].reserved /\ Total(Contributions, Made(a)) \in Nat
        BY <3>1, <4>1, <4>4, TotalIsNatural DEF BookKept
      <4>8. budgets[a].reserved \in Nat /\ requests[q].estimate \in Nat /\ requests[q].actual \in Nat
        BY <3>1, <4>3, <4>4 DEF BookTypes, BudgetType
      <4>9. Exchanged(budgets[a].reserved, requests[q]) >= budgets[a].reserved - requests[q].estimate + requests[q].actual
        BY <4>8, MaxOfTwo DEF Exchanged
      <4>10. Exchanged(budgets[a].reserved, requests[q]) \in Int
        BY <4>8, MaxOfTwo DEF Exchanged
      <4> HIDE DEF b
      <4> QED BY <4>1, <4>3, <4>6, <4>7, <4>8, <4>9, <4>10
    <3> QED BY <3>1, <3>2
  <2> QED BY <2>2, <2>3
<1>16. CASE Unsettled(q)
  <2>1. UNCHANGED rows /\ At(q, "settling")
    BY <1>16 DEF Unsettled, store
  <2>2. CASE Fails(q)
    BY <1>5, <2>1, <2>2 DEF At
  <2>3. CASE requests' = [requests EXCEPT ![q].stage = "over", ![q].dropped = TRUE] /\ UNCHANGED budgets
    <3>1. requests' = [requests EXCEPT ![q].stage = "over", ![q].dropped = TRUE]
      BY <2>3
    <3>2. Contribution(q)' = Contribution(q)
      BY <2>1, <3>1, Dropped DEF Contribution, At
    <3> QED BY <1>3, <2>1, <2>3, <3>1, <3>2, Dropped
  <2> QED BY <1>16, <2>2, <2>3 DEF Unsettled
<1> QED BY <1>6, <1>7, <1>8, <1>9, <1>10, <1>11, <1>12, <1>13, <1>14, <1>15, <1>16 DEF Fetch

\* What the guard counts for a request on record is no more than its book holds for it.
LEMMA LeastIsContributed ==
    ASSUME BookTypes, Fit, NEW a \in Attempt, NEW q \in Mine(a), ~budgets[a].failed
    PROVE  Leasts[q] \in Nat /\ Leasts[q] <= Contributions[q]
<1>1. q \in Request /\ Reserved(q) /\ RequestFits(q)
  BY DEF Mine, Fit
<1>2. rows[q].estimated \in Nat /\ requests[q].estimate \in Nat /\ (rows[q].actual # Unknown => rows[q].actual \in Nat)
  BY <1>1 DEF BookTypes, RowType, RequestType
<1>3. Leasts[q] = Least(q) /\ Contributions[q] = Contribution(q)
  BY <1>1 DEF Leasts, Contributions
<1>4. rows[q].estimated = requests[q].estimate
  BY <1>1 DEF RequestFits
<1>5. CASE At(q, "settling")
  BY <1>2, <1>3, <1>5 DEF Least, Contribution, At
<1>6. CASE ~At(q, "settling") /\ requests[q].dropped
  <2>1. Counted(q) \in Nat
    BY <1>2 DEF Counted
  <2>2. Least(q) = IF Counted(q) <= requests[q].estimate THEN Counted(q) ELSE requests[q].estimate
    BY <1>2, <1>6, <2>1, MinOfTwo DEF Least
  <2>3. Contribution(q) = requests[q].estimate
    BY <1>6 DEF Contribution
  <2> QED BY <1>2, <1>3, <2>1, <2>2, <2>3
<1>7. CASE ~At(q, "settling") /\ ~requests[q].dropped
  <2>1. Least(q) = Counted(q)
    BY <1>7 DEF Least
  <2>2. rows[q].actual # Unknown => At(q, "over")
    BY <1>1, <1>7 DEF RequestFits, At
  <2> QED BY <1>2, <1>3, <1>4, <1>7, <2>1, <2>2 DEF Counted, Contribution
<1> QED BY <1>5, <1>6, <1>7

LEMMA BookCovers == BookTypes /\ Fit /\ BookKept => GuardCoversRecord
<1> SUFFICES ASSUME BookTypes, Fit, BookKept, NEW a \in Attempt, ~budgets[a].failed
             PROVE  MapThenSumSet(Least, Mine(a)) <= budgets[a].reserved
  BY DEF GuardCoversRecord
<1>1. IsFiniteSet(Made(a)) /\ Mine(a) \in SUBSET Made(a) /\ Mine(a) \in SUBSET Request
  BY DEF BookKept, Mine, Made
<1>2. IsFiniteSet(Mine(a))
  BY <1>1, FS_Subset
<1>3. MapThenSumSet(Least, Mine(a)) = Total(Leasts, Mine(a))
  BY <1>1, <1>2, LeastIsTotal
<1>4. \A q \in Mine(a) : Leasts[q] \in Nat /\ Leasts[q] <= Contributions[q]
  BY LeastIsContributed
<1>5. \A q \in Made(a) : Contributions[q] \in Nat
  BY ContributionIsNatural DEF Made
<1>6. Total(Leasts, Mine(a)) <= Total(Contributions, Made(a))
  BY <1>1, <1>4, <1>5, TotalGrows
<1>7. Total(Leasts, Mine(a)) \in Nat /\ Total(Contributions, Made(a)) \in Nat /\ budgets[a].reserved \in Nat
  BY <1>1, <1>2, <1>4, <1>5, TotalIsNatural DEF BookTypes, BudgetType
<1>8. Total(Contributions, Made(a)) <= budgets[a].reserved
  BY DEF BookKept
<1> QED BY <1>3, <1>6, <1>7, <1>8

----------------------------------------------------------------------------
(* The platform's book. *)

SpendingKept ==
    /\ IsFiniteSet(Rows)
    /\ Cardinality(Rows) <= MaxModelCalls
    /\ Total(Counts, Rows) <= MaxTokens + Total(Excesses, Rows)

LEMMA CountsAreNatural ==
    ASSUME BookTypes, NEW q \in Request
    PROVE  /\ Counts[q] = Counted(q) /\ Counted(q) \in Nat
           /\ Excesses[q] = Excess(q) /\ Excess(q) \in Nat
           /\ Excess(q) >= Counted(q) - rows[q].estimated
<1>1. Counted(q) \in Nat /\ rows[q].estimated \in Nat
  BY DEF BookTypes, RowType, Counted, Unknown
<1> QED BY <1>1, MaxOfTwo DEF Counts, Excesses, Excess

LEMMA NextCountsAreNatural ==
    ASSUME BookTypes', NEW q \in Request
    PROVE  Counts'[q] \in Nat /\ Excesses'[q] \in Nat
<1>1. Counted(q)' \in Nat /\ rows'[q].estimated \in Nat
  BY DEF BookTypes, RowType, Counted, Unknown
<1>2. Excess(q)' \in Nat
  BY <1>1, MaxOfTwo DEF Excess
<1> QED BY <1>1, <1>2 DEF Counts, Excesses

LEMMA FetchKeepsSpending ==
    ASSUME BookTypes, Fit, SpendingKept, NEW q \in Request, Fetch(q)
    PROVE  SpendingKept'
<1>1. BookTypes' /\ Fit'
  BY FetchFits
<1>2. CASE UNCHANGED rows
  BY <1>2 DEF SpendingKept, Rows, Counts, Excesses, Counted, Excess, Reserved
<1>3. Total(Counts, Rows) \in Nat /\ Total(Excesses, Rows) \in Nat /\ MaxTokens \in Nat
  <2>1. \A p \in Rows : Counts[p] \in Nat /\ Excesses[p] \in Nat
    BY CountsAreNatural DEF Rows
  <2> QED BY <2>1, TotalIsNatural, BudgetAssumption DEF SpendingKept
<1>4. CASE Reserve(q)
  <2> DEFINE e == requests[q].estimate
  <2>1. /\ At(q, "reserving") /\ ~Reserved(q) /\ CallsReserved < MaxModelCalls /\ Spent + e <= MaxTokens
        /\ rows' = [rows EXCEPT ![q] = [estimated |-> e, actual |-> Unknown]]
    BY <1>4 DEF Reserve, HasRoom
  <2>2. e \in Nat /\ e > 0
    <3>1. e \in Estimate
      BY <2>1 DEF Fit, RequestFits, At
    <3>2. e \in Nat \ {0}
      BY <3>1, BudgetAssumption
    <3> QED BY ONLY <3>2
  <2>3. rows'[q].estimated = e /\ rows'[q].actual = Unknown /\ \A p \in Request \ {q} : rows'[p] = rows[p]
    BY <2>1 DEF BookTypes
  <2> HIDE DEF e
  <2>4. Rows' = Rows \cup {q} /\ q \notin Rows
    BY <2>1, <2>2, <2>3 DEF Rows, Reserved
  <2>5. IsFiniteSet(Rows)
    BY DEF SpendingKept
  <2>6. IsFiniteSet(Rows') /\ Cardinality(Rows') = Cardinality(Rows) + 1 /\ Cardinality(Rows) \in Nat
    BY <2>4, <2>5, FS_AddElement, FS_CardinalityType
  <2>7. Cardinality(Rows') <= MaxModelCalls
    <3>1. Cardinality(Rows) < MaxModelCalls /\ MaxModelCalls \in Nat
      BY <2>1, BudgetAssumption DEF CallsReserved, Rows
    <3> QED BY <2>6, <3>1
  <2>8. \A p \in Rows \cup {q} : Counts'[p] \in Nat /\ Excesses'[p] \in Nat
    BY <1>1, CountsAreNatural, NextCountsAreNatural, <2>4 DEF Rows
  <2>9. Counts'[q] = e
    BY <2>3 DEF Counts, Counted
  <2>10. Total(Counts', Rows') = Total(Counts', Rows) + e
    BY <2>4, <2>5, <2>8, <2>9, TotalWith
  <2>11. Total(Counts, Rows) = Total(Counts', Rows)
    <3>1. \A p \in Rows : Counts[p] = Counts'[p]
      BY <2>3, <2>4 DEF Rows, Counts, Counted
    <3> QED BY <2>5, <3>1, TotalAgrees
  <2>12. Total(Counts, Rows) + e <= MaxTokens
    BY <2>1, <2>5, SpentIsTotal
  <2>13. Total(Excesses', Rows') \in Nat
    BY <2>4, <2>6, <2>8, TotalIsNatural
  <2> QED BY <1>3, <2>2, <2>6, <2>7, <2>10, <2>11, <2>12, <2>13 DEF SpendingKept
<1>5. CASE Settle(q)
  <2> DEFINE n == requests[q].actual
  <2>1. /\ At(q, "settling") /\ Reserved(q) /\ rows[q].actual \in {Unknown, n}
        /\ rows' = [rows EXCEPT ![q].actual = n]
    BY <1>5 DEF Settle
  <2>2. n \in Nat
    BY <2>1 DEF Fit, RequestFits, BookTypes, RequestType
  <2>3. /\ rows'[q].estimated = rows[q].estimated /\ rows'[q].actual = n /\ n # Unknown
        /\ \A p \in Request \ {q} : rows'[p] = rows[p]
    BY <2>1, <2>2 DEF BookTypes, RowType, Unknown
  <2> HIDE DEF n
  <2>4. Rows' = Rows /\ q \in Rows /\ IsFiniteSet(Rows)
    BY <2>1, <2>3 DEF Rows, Reserved, SpendingKept
  <2>5. CASE rows[q].actual = n
    <3>1. rows' = rows
      BY <2>1, <2>5 DEF BookTypes, RowType
    <3> QED BY <1>2, <3>1
  <2>6. CASE rows[q].actual = Unknown
    <3>1. Counts[q] = rows[q].estimated /\ Counts'[q] = n /\ Excesses[q] = 0 /\ Excesses'[q] \in Nat
          /\ Excesses'[q] >= n - rows[q].estimated /\ rows[q].estimated \in Nat
      <4>1. Counted(q) = rows[q].estimated /\ Counted(q)' = n /\ rows[q].estimated \in Nat
        BY <2>3, <2>6 DEF Counted, BookTypes, RowType
      <4>2. Excess(q) = 0
        BY <4>1, MaxOfTwo DEF Excess
      <4>3. Excess(q)' = IF 0 >= n - rows[q].estimated THEN 0 ELSE n - rows[q].estimated
        BY <2>2, <2>3, <4>1, MaxOfTwo DEF Excess
      <4> QED BY <2>2, <4>1, <4>2, <4>3 DEF Counts, Excesses
    <3>2. \A p \in Rows : Counts[p] \in Nat /\ Excesses[p] \in Nat /\ Counts'[p] \in Nat /\ Excesses'[p] \in Nat
      BY <1>1, CountsAreNatural, NextCountsAreNatural, <2>4 DEF Rows
    <3>3. \A p \in Rows \ {q} : Counts[p] = Counts'[p] /\ Excesses[p] = Excesses'[p]
      BY <2>3 DEF Rows, Counts, Excesses, Counted, Excess
    <3>4. Total(Counts', Rows) = Total(Counts, Rows) - Counts[q] + Counts'[q]
      BY <2>4, <3>2, <3>3, TotalChanges
    <3>5. Total(Excesses', Rows) = Total(Excesses, Rows) - Excesses[q] + Excesses'[q]
      BY <2>4, <3>2, <3>3, TotalChanges
    <3>6. Total(Counts, Rows) <= MaxTokens + Total(Excesses, Rows)
      BY DEF SpendingKept
    <3>7. Total(Counts', Rows) <= MaxTokens + Total(Excesses', Rows)
      BY <1>3, <2>2, <3>1, <3>4, <3>5, <3>6
    <3> QED BY <2>4, <3>7 DEF SpendingKept
  <2> QED BY <2>1, <2>5, <2>6
<1> QED BY <1>2, <1>4, <1>5 DEF Fetch, Begin, Granted, Refused, Call, Metered, Unmetered, BreaksOff, Settled, Unsettled, store

\* Every call of the provider is behind a row, so there are no more calls than rows.
LEMMA SpendingBounds == BookTypes /\ Fit /\ SpendingKept => SpendingIsBounded
<1> SUFFICES ASSUME BookTypes, Fit, SpendingKept PROVE SpendingIsBounded
  OBVIOUS
<1>1. called \in SUBSET Rows /\ \A q \in called : Reserved(q)
  BY DEF BookTypes, Fit, RequestFits, Rows
<1>2. IsFiniteSet(Rows) /\ Cardinality(Rows) <= MaxModelCalls
  BY DEF SpendingKept
<1>3. Cardinality(called) <= MaxModelCalls
  <2>1. IsFiniteSet(called) /\ Cardinality(called) <= Cardinality(Rows)
    BY <1>1, <1>2, FS_Subset
  <2>2. Cardinality(called) \in Nat /\ Cardinality(Rows) \in Nat /\ MaxModelCalls \in Nat
    BY <1>2, <2>1, FS_CardinalityType, BudgetAssumption
  <2> QED BY <1>2, <2>1, <2>2
<1>4. Spent <= MaxTokens + MapThenSumSet(Excess, Rows)
  BY <1>2, SpentIsTotal, ExcessIsTotal DEF SpendingKept
<1> QED BY <1>1, <1>3, <1>4 DEF SpendingIsBounded, Rows

\* The inductive invariant of the books.
BookInv == BookTypes /\ Fit /\ BookKept /\ SpendingKept

LEMMA InitBooks == Init => BookInv
<1> SUFFICES ASSUME Init PROVE BookInv
  OBVIOUS
<1>1. BookTypes /\ Fit
  BY InitFits
<1>2. BookKept
  <2> SUFFICES ASSUME NEW a \in Attempt
               PROVE  /\ IsFiniteSet(Made(a))
                      /\ ~budgets[a].failed => Total(Contributions, Made(a)) <= budgets[a].reserved
    BY DEF BookKept
  <2>1. Made(a) = {}
    BY BudgetAssumption DEF Init, Made, NoRequest
  <2>2. budgets[a].reserved = 0
    BY DEF Init, NewBudget
  <2> QED BY <2>1, <2>2, TotalOfNothing, FS_EmptySet
<1>3. SpendingKept
  <2>1. Rows = {}
    BY DEF Init, Rows, Reserved, NoRow
  <2>2. MaxTokens \in Nat /\ MaxModelCalls \in Nat
    BY BudgetAssumption
  <2> QED BY <2>1, <2>2, TotalOfNothing, FS_EmptySet DEF SpendingKept
<1> QED BY <1>1, <1>2, <1>3 DEF BookInv

\* Who has the lease and which budgets are open says nothing of the sums.
LEMMA ElsewhereKeepsBooks ==
    ASSUME BookInv, attempt' \in Attempt, UNCHANGED <<rows, requests, called>>, budgets' \in [Attempt -> BudgetType],
           \A a \in Attempt : budgets'[a].reserved = budgets[a].reserved /\ budgets'[a].failed = budgets[a].failed
    PROVE  BookInv'
BY DEF BookInv, BookTypes, Fit, RequestFits, BookKept, SpendingKept, Made, Contributions, Contribution, Rows, Counts, Excesses,
       Counted, Excess, Reserved, At

LEMMA StepKeepsBooks == BookInv /\ [Next]_vars => BookInv'
<1> SUFFICES ASSUME BookInv, [Next]_vars PROVE BookInv'
  OBVIOUS
<1>1. ASSUME NEW q \in Request, Fetch(q) PROVE BookInv'
  BY <1>1, FetchFits, FetchKeepsBook, FetchKeepsSpending DEF BookInv
<1>2. budgets \in [Attempt -> BudgetType] /\ attempt \in Attempt
  BY DEF BookInv, BookTypes
<1>3. CASE UNCHANGED <<store, memory>>
  BY <1>2, <1>3, ElsewhereKeepsBooks DEF store, memory
<1>4. CASE Recover
  BY <1>2, <1>4, ElsewhereKeepsBooks DEF Recover, memory
<1>5. CASE Close
  BY <1>2, <1>5, ElsewhereKeepsBooks DEF Close, store, BudgetType
<1> QED BY <1>1, <1>3, <1>4, <1>5 DEF Next, Subagent, Delegate, ReportFails, Acquire, Enter, Return, Abort, vars

\* However often a run is recovered, its model calls stay within the limits of the
\* run, and no worker's own guard allows what the platform's record would not.
THEOREM LimitsHold == Spec => []BooksAreKept
<1>1. BookInv => BooksAreKept
  BY BookCovers, SpendingBounds DEF BookInv, BooksAreKept
<1> QED BY <1>1, InitBooks, StepKeepsBooks, PTL DEF Spec

----------------------------------------------------------------------------
(* The slots of the subagents. *)

ChildStage == {"idle", "accepted", "waiting", "entered", "running"} \cup Over
Holders == {c \in Child : child[c] \in Working}

\* Everybody in line waits and stands there once.
Line ==
    /\ waiters \in Seq(Child)
    /\ \A i, j \in 1..Len(waiters) : waiters[i] = waiters[j] => i = j
    /\ \A c \in Child : child[c] = "waiting" <=> \E i \in 1..Len(waiters) : waiters[i] = c
Slots ==
    /\ IsFiniteSet(Holders)
    /\ active = Cardinality(Holders)
    /\ active <= MaxParallel
    /\ waiters # <<>> => active = MaxParallel

\* The inductive invariant of the scheduler: once it is aborted, nobody stands in line.
SlotInv ==
    /\ child \in [Child -> ChildStage]
    /\ Line /\ Slots
    /\ aborted => waiters = <<>>

LEMMA LineIsEmpty ==
    ASSUME waiters = <<>>, child \in [Child -> ChildStage], \A c \in Child : child[c] # "waiting"
    PROVE  Line
BY DEF Line

LEMMA NoHolders ==
    ASSUME Holders = {}, active = 0, waiters = <<>>
    PROVE  Slots
<1>1. MaxParallel \in Nat
  BY BudgetAssumption
<1> QED BY <1>1, FS_EmptySet DEF Slots

LEMMA InitSlots == Init => SlotInv
<1> SUFFICES ASSUME Init PROVE SlotInv
  OBVIOUS
<1>1. child = [c \in Child |-> "idle"] /\ active = 0 /\ waiters = <<>> /\ aborted = FALSE
  BY DEF Init
<1>2. child \in [Child -> ChildStage] /\ Holders = {}
  BY <1>1 DEF ChildStage, Holders, Working
<1> QED BY <1>1, <1>2, LineIsEmpty, NoHolders DEF SlotInv

\* A subagent that neither takes nor gives back a slot, nor stands in line.
LEMMA SlotsStay ==
    ASSUME SlotInv, NEW c \in Child, NEW stage \in ChildStage, Moves(c, stage), UNCHANGED <<active, waiters, aborted>>,
           child[c] \in Working <=> stage \in Working, child[c] # "waiting", stage # "waiting"
    PROVE  SlotInv'
<1>1. child' \in [Child -> ChildStage] /\ child'[c] = stage /\ \A d \in Child \ {c} : child'[d] = child[d]
  BY DEF SlotInv, Moves
<1>2. Holders' = Holders
  BY <1>1 DEF Holders
<1>3. Line'
  <2>1. \A d \in Child : child'[d] = "waiting" <=> child[d] = "waiting"
    BY <1>1
  <2> QED BY <2>1 DEF SlotInv, Line
<1>4. Slots'
  BY <1>2 DEF SlotInv, Slots
<1> QED BY <1>1, <1>3, <1>4 DEF SlotInv

\* Somebody takes a slot, at once.
LEMMA SlotTaken ==
    ASSUME SlotInv, NEW c \in Child, child[c] = "accepted", active < MaxParallel,
           Moves(c, "entered"), active' = active + 1, UNCHANGED <<waiters, aborted>>
    PROVE  SlotInv'
<1>1. /\ child' \in [Child -> ChildStage] /\ child'[c] = "entered"
      /\ \A d \in Child \ {c} : child'[d] = child[d]
  BY DEF SlotInv, Moves, ChildStage
<1>2. Holders' = Holders \cup {c} /\ c \notin Holders /\ IsFiniteSet(Holders)
  BY <1>1 DEF Holders, Working, SlotInv, Slots
<1>3. IsFiniteSet(Holders') /\ Cardinality(Holders') = Cardinality(Holders) + 1 /\ Cardinality(Holders) \in Nat
  BY <1>2, FS_AddElement, FS_CardinalityType
<1>4. MaxParallel \in Nat /\ active = Cardinality(Holders) /\ waiters = <<>>
  <2>1. MaxParallel \in Nat /\ active = Cardinality(Holders)
    BY BudgetAssumption DEF SlotInv, Slots
  <2>2. active # MaxParallel
    BY <1>3, <2>1
  <2> QED BY <2>1, <2>2 DEF SlotInv, Slots
<1>5. Line'
  <2>1. \A d \in Child : child'[d] = "waiting" <=> child[d] = "waiting"
    BY <1>1
  <2> QED BY <2>1 DEF SlotInv, Line
<1>6. Slots'
  <2>1. active' <= MaxParallel
    BY <1>3, <1>4
  <2> QED BY <1>3, <1>4, <2>1 DEF Slots
<1> QED BY <1>1, <1>5, <1>6 DEF SlotInv

\* Somebody joins the line.
LEMMA LineJoined ==
    ASSUME SlotInv, NEW c \in Child, child[c] = "accepted", active >= MaxParallel, ~aborted,
           Moves(c, "waiting"), waiters' = Append(waiters, c), UNCHANGED <<active, aborted>>
    PROVE  SlotInv'
<1>1. /\ child' \in [Child -> ChildStage] /\ child'[c] = "waiting"
      /\ \A d \in Child \ {c} : child'[d] = child[d]
  BY DEF SlotInv, Moves, ChildStage
<1>2. Holders' = Holders
  BY <1>1 DEF Holders, Working
<1>3. /\ waiters \in Seq(Child) /\ waiters' \in Seq(Child) /\ Len(waiters') = Len(waiters) + 1
      /\ waiters'[Len(waiters) + 1] = c /\ \A i \in 1..Len(waiters) : waiters'[i] = waiters[i]
      /\ Len(waiters) \in Nat
  BY DEF SlotInv, Line
<1>4. \A i \in 1..Len(waiters) : waiters[i] # c
  BY DEF SlotInv, Line
<1>5. \A i \in 1..Len(waiters') : i \in 1..Len(waiters) \/ i = Len(waiters) + 1
  BY <1>3
<1>6. \A i, j \in 1..Len(waiters') : waiters'[i] = waiters'[j] => i = j
  BY <1>3, <1>4, <1>5 DEF SlotInv, Line
<1>7. ASSUME NEW d \in Child
      PROVE  child'[d] = "waiting" <=> \E i \in 1..Len(waiters') : waiters'[i] = d
  <2>1. CASE d = c
    <3>1. Len(waiters) + 1 \in 1..Len(waiters')
      BY <1>3
    <3> QED BY <1>1, <1>3, <2>1, <3>1
  <2>2. CASE d # c
    <3>1. child'[d] = "waiting" <=> \E i \in 1..Len(waiters) : waiters[i] = d
      BY <1>1, <2>2 DEF SlotInv, Line
    <3>2. \A i \in 1..Len(waiters) : i \in 1..Len(waiters')
      BY <1>3
    <3> QED BY <1>3, <1>5, <2>2, <3>1, <3>2
  <2> QED BY <2>1, <2>2
<1>8. Line'
  BY <1>3, <1>6, <1>7 DEF Line
<1>9. Slots'
  <2>1. active = MaxParallel
    <3>1. active = Cardinality(Holders) /\ active <= MaxParallel /\ IsFiniteSet(Holders) /\ MaxParallel \in Nat
      BY BudgetAssumption DEF SlotInv, Slots
    <3>2. active \in Nat
      BY <3>1, FS_CardinalityType
    <3> QED BY <3>1, <3>2
  <2> QED BY <1>2, <2>1 DEF SlotInv, Slots
<1> QED BY <1>1, <1>8, <1>9 DEF SlotInv

\* A slot is given back, or goes to the first in line.
LEMMA SlotReleased ==
    ASSUME SlotInv, NEW c \in Child, child[c] \in Working, NEW stage \in Over, Release(c, stage), UNCHANGED aborted
    PROVE  SlotInv'
<1>1. c \in Holders /\ IsFiniteSet(Holders) /\ active = Cardinality(Holders) /\ active <= MaxParallel /\ MaxParallel \in Nat
  BY BudgetAssumption DEF Holders, SlotInv, Slots
<1>2. IsFiniteSet(Holders \ {c}) /\ Cardinality(Holders \ {c}) = Cardinality(Holders) - 1 /\ Cardinality(Holders) \in Nat
  BY <1>1, FS_RemoveElement, FS_CardinalityType
<1>3. CASE aborted \/ waiters = <<>>
  <2>1. Moves(c, stage) /\ active' = active - 1 /\ waiters' = waiters /\ waiters = <<>>
    BY <1>3 DEF Release, SlotInv
  <2>2. /\ child' \in [Child -> ChildStage] /\ child'[c] = stage
        /\ \A d \in Child \ {c} : child'[d] = child[d]
    BY <2>1 DEF SlotInv, Moves, ChildStage
  <2>3. Holders' = Holders \ {c}
    BY <2>2 DEF Holders, Working, Over
  <2>4. Slots'
    <3>1. active' = Cardinality(Holders') /\ active' <= MaxParallel
      BY <1>1, <1>2, <2>1, <2>3
    <3> QED BY <1>2, <2>1, <2>3, <3>1 DEF Slots
  <2>5. Line'
    <3>1. \A d \in Child : child'[d] = "waiting" <=> child[d] = "waiting"
      BY <2>2 DEF Working, Over
    <3> QED BY <2>1, <3>1 DEF SlotInv, Line
  <2> QED BY <2>1, <2>2, <2>4, <2>5 DEF SlotInv
<1>4. CASE ~aborted /\ waiters # <<>>
  <2> DEFINE h == Head(waiters)
  <2>1. /\ waiters \in Seq(Child) /\ Len(waiters) \in Nat /\ Len(waiters) > 0 /\ h = waiters[1] /\ h \in Child
        /\ waiters' = Tail(waiters) /\ active' = active
        /\ child' = [child EXCEPT ![c] = stage, ![h] = "entered"]
    BY <1>4 DEF SlotInv, Line, Release
  <2>2. /\ waiters' \in Seq(Child) /\ Len(waiters') = Len(waiters) - 1
        /\ \A i \in 1..Len(waiters') : waiters'[i] = waiters[i + 1] /\ i + 1 \in 2..Len(waiters)
    BY <2>1
  <2>3. child[h] = "waiting"
    <3>1. 1 \in 1..Len(waiters)
      BY <2>1
    <3> QED BY <2>1, <3>1 DEF SlotInv, Line
  <2>4. h # c
    BY <2>3 DEF Working
  <2> HIDE DEF h
  <2>5. /\ child' \in [Child -> ChildStage] /\ child'[c] = stage /\ child'[h] = "entered"
        /\ \A d \in Child \ {c, h} : child'[d] = child[d]
    BY <2>1, <2>4 DEF SlotInv, ChildStage
  <2>6. Holders' = (Holders \ {c}) \cup {h} /\ h \notin Holders \ {c}
    BY <2>1, <2>3, <2>5 DEF Holders, Working, Over
  <2>7. IsFiniteSet(Holders') /\ Cardinality(Holders') = Cardinality(Holders)
    <3>1. IsFiniteSet(Holders') /\ Cardinality(Holders') = Cardinality(Holders \ {c}) + 1
      BY <1>2, <2>6, FS_AddElement
    <3> QED BY <1>2, <3>1
  <2>8. Slots'
    <3>1. active = MaxParallel
      BY <1>4 DEF SlotInv, Slots
    <3> QED BY <1>1, <2>1, <2>7, <3>1 DEF Slots
  <2>9. \A i, j \in 1..Len(waiters') : waiters'[i] = waiters'[j] => i = j
    <3>1. \A i, j \in 1..Len(waiters) : waiters[i] = waiters[j] => i = j
      BY DEF SlotInv, Line
    <3> SUFFICES ASSUME NEW i \in 1..Len(waiters'), NEW j \in 1..Len(waiters'), waiters'[i] = waiters'[j]
                 PROVE  i = j
      OBVIOUS
    <3>2. i + 1 = j + 1
      BY <2>1, <2>2, <3>1
    <3> QED BY <3>2
  <2>10. ASSUME NEW d \in Child
         PROVE  child'[d] = "waiting" <=> \E i \in 1..Len(waiters') : waiters'[i] = d
    <3>1. child[d] = "waiting" <=> \E i \in 1..Len(waiters) : waiters[i] = d
      BY DEF SlotInv, Line
    <3>2. \A i, j \in 1..Len(waiters) : waiters[i] = waiters[j] => i = j
      BY DEF SlotInv, Line
    <3>3. CASE d = c
      <4>1. child'[d] # "waiting" /\ child[d] # "waiting"
        BY <2>5, <3>3 DEF Working, Over
      <4> QED BY <2>1, <2>2, <3>1, <4>1
    <3>4. CASE d = h
      <4>1. child'[d] # "waiting"
        BY <2>5, <3>4
      <4>2. ASSUME NEW i \in 1..Len(waiters'), waiters'[i] = d PROVE FALSE
        <5>1. waiters[i + 1] = waiters[1] /\ i + 1 \in 1..Len(waiters) /\ 1 \in 1..Len(waiters) /\ i + 1 # 1
          BY <2>1, <2>2, <3>4, <4>2
        <5> QED BY <3>2, <5>1
      <4> QED BY <4>1, <4>2
    <3>5. CASE d # c /\ d # h
      <4>1. child'[d] = child[d]
        BY <2>5, <3>5
      <4>2. ASSUME NEW i \in 1..Len(waiters), waiters[i] = d
            PROVE  \E j \in 1..Len(waiters') : waiters'[j] = d
        <5>1. i # 1
          BY <2>1, <3>5, <4>2
        <5>2. i - 1 \in 1..Len(waiters')
          BY <2>1, <2>2, <5>1
        <5>3. waiters'[i - 1] = d
          BY <2>2, <4>2, <5>2
        <5> QED BY <5>2, <5>3
      <4>3. ASSUME NEW j \in 1..Len(waiters'), waiters'[j] = d
            PROVE  \E i \in 1..Len(waiters) : waiters[i] = d
        BY <2>1, <2>2, <4>3
      <4> QED BY <3>1, <4>1, <4>2, <4>3
    <3> QED BY <3>3, <3>4, <3>5
  <2>11. Line'
    BY <2>2, <2>9, <2>10 DEF Line
  <2> QED BY <1>4, <2>5, <2>8, <2>11 DEF SlotInv
<1> QED BY <1>3, <1>4

LEMMA StepKeepsSlots == SlotInv /\ [Next]_vars => SlotInv'
<1> SUFFICES ASSUME SlotInv, [Next]_vars PROVE SlotInv'
  OBVIOUS
<1>1. CASE UNCHANGED scheduler
  BY <1>1 DEF scheduler, SlotInv, Line, Slots, Holders
<1>2. CASE Recover
  <2>1. child' = [c \in Child |-> "idle"] /\ active' = 0 /\ waiters' = <<>> /\ aborted' = FALSE
    BY <1>2 DEF Recover
  <2>2. child' \in [Child -> ChildStage] /\ Holders' = {}
    BY <2>1 DEF ChildStage, Holders, Working
  <2>3. Line'
    BY <2>1 DEF Line
  <2>4. Slots'
    <3>1. MaxParallel \in Nat
      BY BudgetAssumption
    <3> QED BY <2>1, <2>2, <3>1, FS_EmptySet DEF Slots
  <2> QED BY <2>1, <2>2, <2>3, <2>4 DEF SlotInv
<1>3. ASSUME NEW c \in Child, Delegate(c) PROVE SlotInv'
  <2>1. UNCHANGED <<active, waiters, aborted>> /\ child[c] = "idle" /\ (Moves(c, "accepted") \/ Moves(c, "rejected"))
    BY <1>3 DEF Delegate
  <2> QED BY <2>1, SlotsStay DEF ChildStage, Working, Over
<1>4. ASSUME NEW c \in Child, ReportFails(c) PROVE SlotInv'
  <2>1. UNCHANGED <<active, waiters, aborted>> /\ child[c] = "accepted" /\ (Moves(c, "cancelled") \/ Moves(c, "failed"))
    BY <1>4 DEF ReportFails
  <2> QED BY <2>1, SlotsStay DEF ChildStage, Working, Over
<1>5. ASSUME NEW c \in Child, Acquire(c) PROVE SlotInv'
  <2>1. child[c] = "accepted" /\ UNCHANGED aborted
    BY <1>5 DEF Acquire
  <2>2. CASE aborted /\ Moves(c, "cancelled") /\ UNCHANGED <<active, waiters>>
    BY <2>1, <2>2, SlotsStay DEF ChildStage, Working, Over
  <2>3. CASE ~aborted /\ active < MaxParallel /\ Moves(c, "entered") /\ active' = active + 1 /\ UNCHANGED waiters
    BY <2>1, <2>3, SlotTaken
  <2>4. CASE ~aborted /\ active >= MaxParallel /\ Moves(c, "waiting") /\ waiters' = Append(waiters, c) /\ UNCHANGED active
    BY <2>1, <2>4, LineJoined
  <2> QED BY <1>5, <2>2, <2>3, <2>4 DEF Acquire
<1>6. ASSUME NEW c \in Child, Enter(c) PROVE SlotInv'
  <2>1. child[c] = "entered" /\ UNCHANGED aborted
    BY <1>6 DEF Enter
  <2>2. CASE ~aborted /\ Moves(c, "running") /\ UNCHANGED <<active, waiters>>
    BY <2>1, <2>2, SlotsStay DEF ChildStage, Working, Over
  <2>3. ASSUME NEW stage \in {"cancelled", "failed"}, Release(c, stage) PROVE SlotInv'
    BY <2>1, <2>3, SlotReleased DEF Working, Over
  <2> QED BY <1>6, <2>2, <2>3 DEF Enter
<1>7. ASSUME NEW c \in Child, Return(c) PROVE SlotInv'
  <2>1. child[c] = "running" /\ UNCHANGED aborted
    BY <1>7 DEF Return
  <2>2. PICK stage \in Over : Release(c, stage)
    BY <1>7 DEF Return, Over
  <2> QED BY <2>1, <2>2, SlotReleased DEF Working
<1>8. CASE Abort
  <2>1. /\ aborted' = TRUE /\ waiters' = <<>> /\ active' = active
        /\ child' = [c \in Child |-> IF child[c] = "waiting" THEN "cancelled" ELSE child[c]]
    BY <1>8 DEF Abort, LeaveLine
  <2>2. child' \in [Child -> ChildStage] /\ \A c \in Child : child'[c] # "waiting"
    BY <2>1 DEF SlotInv, ChildStage, Over
  <2>3. Holders' = Holders
    BY <2>1 DEF Holders, Working
  <2>4. Line'
    BY <2>1, <2>2 DEF Line
  <2>5. Slots'
    BY <2>1, <2>3 DEF SlotInv, Slots
  <2> QED BY <2>1, <2>2, <2>4, <2>5 DEF SlotInv
<1>9. CASE Close \/ \E q \in Request : Fetch(q)
  <2>1. UNCHANGED scheduler
    BY <1>9 DEF Close, Fetch, Begin, Reserve, Granted, Refused, Call, Metered, Unmetered, BreaksOff, Settle, Settled, Unsettled
  <2> QED BY <1>1, <2>1
<1>10. CASE UNCHANGED vars
  BY <1>1, <1>10 DEF vars
<1> QED BY <1>2, <1>3, <1>4, <1>5, <1>6, <1>7, <1>8, <1>9, <1>10 DEF Next, Subagent

\* No slot of the subagents is lost or given twice, whatever is aborted, fails or is
\* recovered, and nobody waits in line beside a free slot.
THEOREM SlotsAddUp == Spec => []SlotsAreKept
<1>1. SlotInv => SlotsAreKept
  <2> SUFFICES ASSUME SlotInv PROVE SlotsAreKept
    OBVIOUS
  <2>1. ToSet(waiters) = {c \in Child : child[c] = "waiting"}
    <3>1. waiters \in Seq(Child) /\ DOMAIN waiters = 1..Len(waiters)
      BY DEF SlotInv, Line
    <3>2. \A i \in 1..Len(waiters) : waiters[i] \in Child
      BY <3>1
    <3> QED BY <3>1, <3>2 DEF SlotInv, Line, ToSet
  <2> QED BY <2>1 DEF SlotInv, Slots, SlotsAreKept, Holders
<1> QED BY <1>1, InitSlots, StepKeepsSlots, PTL DEF Spec

=============================================================================
