------------------------------- MODULE TotalFacts ------------------------------
(***************************************************************************)
(* What a sum over a finite set is, whatever the order it is added up in.  *)
(* Induction here is by a smallest counterexample: strict inclusion is     *)
(* well-founded on the subsets of a finite set, and a set of bad subsets   *)
(* has a member none of whose proper subsets is bad.                       *)
(***************************************************************************)
EXTENDS Totals, Integers, FiniteSets, FiniteSetTheorems, TLAPS

\* A set of subsets of a finite set has a smallest member.
LEMMA SmallestSubset ==
    ASSUME NEW S, IsFiniteSet(S), NEW F, F \subseteq SUBSET S, F # {}
    PROVE  \E T \in F : \A U \in F : U \subseteq T => U = T
<1>1. F \subseteq FiniteSubsetsOf(S)
  BY FS_Subset DEF FiniteSubsetsOf
<1>2. IsWellFoundedOn(StrictSubsetOrdering(S), FiniteSubsetsOf(S))
  BY FS_StrictSubsetOrderingWellFounded
<1>3. \E T \in F : \A U \in F : ~(<<U, T>> \in StrictSubsetOrdering(S))
  BY <1>1, <1>2, WFMin
<1> QED
  BY <1>3 DEF StrictSubsetOrdering

(* The member a sum begins with, and the function that adds up every subset *)
(* of S in the order in which members are picked.                          *)
First(s) == CHOOSE x \in s : TRUE
Adds(w, S, g) ==
    g = [s \in SUBSET S |-> IF s = {} THEN 0 ELSE w[First(s)] + g[s \ {First(s)}]]

LEMMA FirstIsIn == ASSUME NEW s, s # {} PROVE First(s) \in s
  BY DEF First

\* On a smaller set and equal weights the same sums.
LEMMA AddsAgree ==
    ASSUME NEW S, IsFiniteSet(S), NEW T \in SUBSET S, NEW w, NEW v, NEW g, NEW h,
           Adds(w, S, g), Adds(v, T, h), \A x \in T : v[x] = w[x]
    PROVE  \A s \in SUBSET T : h[s] = g[s]
<1> DEFINE F == {s \in SUBSET T : h[s] # g[s]}
<1> SUFFICES ASSUME F # {} PROVE FALSE
  OBVIOUS
<1>0. F \subseteq SUBSET S /\ \A u : u \in F <=> u \in SUBSET T /\ h[u] # g[u]
  OBVIOUS
<1> HIDE DEF F
<1>1. PICK s \in F : \A u \in F : u \subseteq s => u = s
  BY <1>0, SmallestSubset
<1>2. g[s] = IF s = {} THEN 0 ELSE w[First(s)] + g[s \ {First(s)}]
  <2>1. s \in SUBSET S
    BY <1>0
  <2> QED BY <2>1 DEF Adds
<1>3. h[s] = IF s = {} THEN 0 ELSE v[First(s)] + h[s \ {First(s)}]
  <2>1. s \in SUBSET T
    BY <1>0
  <2> QED BY <2>1 DEF Adds
<1>4. s # {} /\ First(s) \in s
  BY <1>0, <1>1, <1>2, <1>3, FirstIsIn
<1>5. h[s \ {First(s)}] = g[s \ {First(s)}]
  <2>1. s \ {First(s)} \in SUBSET T /\ s \ {First(s)} # s /\ s \ {First(s)} \subseteq s
    BY <1>0, <1>4
  <2>2. s \ {First(s)} \notin F
    BY <1>0, <1>1, <2>1
  <2> QED BY <1>0, <2>1, <2>2
<1> QED
  BY <1>0, <1>1, <1>2, <1>3, <1>4, <1>5

\* A finite set can be added up.
LEMMA AddsExists ==
    ASSUME NEW S, IsFiniteSet(S), NEW w PROVE \E g : Adds(w, S, g)
<1> DEFINE F == {s \in SUBSET S : ~\E g : Adds(w, s, g)}
<1> SUFFICES ASSUME F # {} PROVE FALSE
  OBVIOUS
<1>0. F \subseteq SUBSET S /\ \A u : u \in F <=> u \in SUBSET S /\ ~\E g : Adds(w, u, g)
  OBVIOUS
<1> HIDE DEF F
<1>1. PICK T \in F : \A u \in F : u \subseteq T => u = T
  BY <1>0, SmallestSubset
<1> DEFINE G(s) == CHOOSE g : Adds(w, s, g)
<1>2. ASSUME NEW s \in SUBSET T, s # T PROVE Adds(w, s, G(s))
  <2>1. s \in SUBSET S /\ s \notin F
    BY <1>0, <1>1, <1>2
  <2>2. \E g : Adds(w, s, g)
    BY <1>0, <2>1
  <2> QED BY <2>2
<1> HIDE DEF G
<1> DEFINE rest(s) == s \ {First(s)}
           h == [s \in SUBSET T |-> IF s = {} THEN 0 ELSE w[First(s)] + G(rest(s))[rest(s)]]
<1>3. ASSUME NEW u \in SUBSET T, u # T PROVE G(u)[u] = h[u]
  <2>1. G(u)[u] = IF u = {} THEN 0 ELSE w[First(u)] + G(u)[rest(u)]
    BY <1>2, <1>3 DEF Adds
  <2>2. CASE u = {}
    BY <2>1, <2>2
  <2>3. CASE u # {}
    <3>1. rest(u) \in SUBSET u /\ rest(u) # u /\ rest(u) # T /\ rest(u) \in SUBSET T
      BY <2>3, FirstIsIn
    <3>2. Adds(w, u, G(u)) /\ Adds(w, rest(u), G(rest(u)))
      BY <1>2, <1>3, <3>1
    <3>3. IsFiniteSet(u)
      BY <1>0, <1>1, FS_Subset
    <3> HIDE DEF rest
    <3>4. G(rest(u))[rest(u)] = G(u)[rest(u)]
      BY <3>1, <3>2, <3>3, AddsAgree
    <3> QED BY <2>1, <2>3, <3>4
  <2> QED BY <2>2, <2>3
<1>4. h = [s \in SUBSET T |-> IF s = {} THEN 0 ELSE w[First(s)] + h[rest(s)]]
  <2>1. ASSUME NEW s \in SUBSET T, s # {} PROVE G(rest(s))[rest(s)] = h[rest(s)]
    <3>1. rest(s) \in SUBSET T /\ rest(s) # T
      BY <2>1, FirstIsIn
    <3> QED BY <1>3, <3>1
  <2> QED BY <2>1
<1>5. Adds(w, T, h)
  BY <1>4 DEF Adds
<1> QED BY <1>0, <1>1, <1>5

\* SumOver is what adding up gives.
LEMMA SumIs ==
    ASSUME NEW S, IsFiniteSet(S), NEW w, NEW g, Adds(w, S, g) PROVE SumOver(w, S) = g[S]
<1> DEFINE G == CHOOSE f : f = [s \in SUBSET S |->
                   IF s = {} THEN 0
                   ELSE w[CHOOSE x \in s : TRUE] + f[s \ {CHOOSE x \in s : TRUE}]]
<1>1. Adds(w, S, G)
  BY DEF Adds, First
<1>2. SumOver(w, S) = G[S]
  BY DEF SumOver, MapThenSumSet, MapThenFoldSet
<1> HIDE DEF G
<1>3. G[S] = g[S]
  BY <1>1, AddsAgree
<1> QED BY <1>2, <1>3

LEMMA SumOfNone == ASSUME NEW w PROVE SumOver(w, {}) = 0
<1>1. IsFiniteSet({})
  BY FS_EmptySet
<1>2. PICK g : Adds(w, {}, g)
  BY <1>1, AddsExists
<1>3. g[{}] = 0
  BY <1>2 DEF Adds
<1> QED BY <1>1, <1>2, <1>3, SumIs

LEMMA SumOfFirst ==
    ASSUME NEW S, IsFiniteSet(S), S # {}, NEW w
    PROVE  SumOver(w, S) = w[First(S)] + SumOver(w, S \ {First(S)})
<1> DEFINE R == S \ {First(S)}
<1>1. R \in SUBSET S /\ IsFiniteSet(R)
  BY FS_Subset
<1>2. PICK g : Adds(w, S, g)
  BY AddsExists
<1>3. PICK h : Adds(w, R, h)
  BY <1>1, AddsExists
<1>4. g[S] = w[First(S)] + g[R]
  BY <1>2 DEF Adds
<1> HIDE DEF R
<1>5. h[R] = g[R]
  BY <1>1, <1>2, <1>3, AddsAgree
<1>6. SumOver(w, S) = g[S] /\ SumOver(w, R) = h[R]
  BY <1>1, <1>2, <1>3, SumIs
<1>7. SumOver(w, S) = w[First(S)] + SumOver(w, R)
  BY <1>4, <1>5, <1>6
<1> QED BY <1>7 DEF R

\* Weights that are equal on a set have equal sums over it.
LEMMA SumOfEquals ==
    ASSUME NEW S, IsFiniteSet(S), NEW w, NEW v, \A x \in S : v[x] = w[x]
    PROVE  SumOver(v, S) = SumOver(w, S)
<1>1. PICK g : Adds(w, S, g)
  BY AddsExists
<1>2. PICK h : Adds(v, S, h)
  BY AddsExists
<1>3. h[S] = g[S]
  BY <1>1, <1>2, AddsAgree
<1> QED BY <1>1, <1>2, <1>3, SumIs

\* The sum of whole numbers is one.
LEMMA SumType ==
    ASSUME NEW S, IsFiniteSet(S), NEW w, \A x \in S : w[x] \in Nat
    PROVE  SumOver(w, S) \in Nat
<1> DEFINE F == {s \in SUBSET S : SumOver(w, s) \notin Nat}
<1> SUFFICES ASSUME F # {} PROVE FALSE
  OBVIOUS
<1>0. F \subseteq SUBSET S /\ \A u : u \in F <=> u \in SUBSET S /\ SumOver(w, u) \notin Nat
  OBVIOUS
<1> HIDE DEF F
<1>1. PICK s \in F : \A u \in F : u \subseteq s => u = s
  BY <1>0, SmallestSubset
<1>2. IsFiniteSet(s) /\ s # {}
  <2>1. IsFiniteSet(s)
    BY <1>0, FS_Subset
  <2>2. SumOver(w, {}) \in Nat
    BY SumOfNone
  <2>3. s # {}
    BY <1>0, <2>2
  <2> QED BY <2>1, <2>3
<1>3. SumOver(w, s) = w[First(s)] + SumOver(w, s \ {First(s)}) /\ First(s) \in s
  BY <1>2, SumOfFirst, FirstIsIn
<1>4. SumOver(w, s \ {First(s)}) \in Nat /\ w[First(s)] \in Nat
  BY <1>0, <1>1, <1>3
<1> QED BY <1>0, <1>1, <1>3, <1>4

\* Any member may be added first.
LEMMA SumOfAny ==
    ASSUME NEW S, IsFiniteSet(S), NEW w, \A x \in S : w[x] \in Nat, NEW y \in S
    PROVE  SumOver(w, S) = w[y] + SumOver(w, S \ {y})
<1> DEFINE F == {s \in SUBSET S : \E x \in s : SumOver(w, s) # w[x] + SumOver(w, s \ {x})}
<1> SUFFICES ASSUME F # {} PROVE FALSE
  OBVIOUS
<1>0. F \subseteq SUBSET S /\ \A u : u \in F <=> u \in SUBSET S /\ \E x \in u : SumOver(w, u) # w[x] + SumOver(w, u \ {x})
  OBVIOUS
<1> HIDE DEF F
<1>1. PICK s \in F : \A u \in F : u \subseteq s => u = s
  BY <1>0, SmallestSubset
<1>2. PICK x \in s : SumOver(w, s) # w[x] + SumOver(w, s \ {x})
  BY <1>0, <1>1
<1> DEFINE f == First(s)
           both == s \ {f, x}
<1>3. IsFiniteSet(s) /\ s \subseteq S
  BY <1>0, <1>1, FS_Subset
<1>4. f \in s /\ SumOver(w, s) = w[f] + SumOver(w, s \ {f})
  BY <1>2, <1>3, FirstIsIn, SumOfFirst
<1> HIDE DEF f
<1>5. f # x
  BY <1>2, <1>4
<1>6. s \ {f} \notin F /\ s \ {x} \notin F
  BY <1>0, <1>1, <1>2, <1>4
<1>7. SumOver(w, s \ {f}) = w[x] + SumOver(w, both)
  <2>1. (s \ {f}) \ {x} = both /\ x \in s \ {f} /\ s \ {f} \in SUBSET S
    BY <1>2, <1>3, <1>5
  <2> QED BY <1>0, <1>6, <2>1
<1>8. SumOver(w, s \ {x}) = w[f] + SumOver(w, both)
  <2>1. (s \ {x}) \ {f} = both /\ f \in s \ {x} /\ s \ {x} \in SUBSET S
    BY <1>3, <1>4, <1>5
  <2> QED BY <1>0, <1>6, <2>1
<1>9. w[x] \in Nat /\ w[f] \in Nat /\ SumOver(w, both) \in Nat
  <2>1. both \subseteq S /\ IsFiniteSet(both)
    BY <1>3, FS_Subset
  <2> QED BY <1>2, <1>3, <1>4, <2>1, SumType
<1> QED BY <1>2, <1>4, <1>7, <1>8, <1>9

\* A set has at least the sum of any of its parts, and of any of its members.
LEMMA SumOfPart ==
    ASSUME NEW S, IsFiniteSet(S), NEW w, \A x \in S : w[x] \in Nat, NEW T \in SUBSET S
    PROVE  SumOver(w, T) <= SumOver(w, S)
<1> DEFINE F == {s \in SUBSET S : T \subseteq s /\ ~(SumOver(w, T) <= SumOver(w, s))}
<1> SUFFICES ASSUME F # {} PROVE FALSE
  OBVIOUS
<1>0. F \subseteq SUBSET S /\ \A u : u \in F <=> u \in SUBSET S /\ T \subseteq u /\ ~(SumOver(w, T) <= SumOver(w, u))
  OBVIOUS
<1> HIDE DEF F
<1>1. PICK s \in F : \A u \in F : u \subseteq s => u = s
  BY <1>0, SmallestSubset
<1>2. IsFiniteSet(s) /\ IsFiniteSet(T) /\ SumOver(w, T) \in Nat /\ s \subseteq S
  BY <1>0, <1>1, FS_Subset, SumType
<1>3. PICK x \in s : x \notin T
  <2>1. SumOver(w, T) <= SumOver(w, T)
    BY <1>2
  <2>2. s # T /\ T \subseteq s
    BY <1>0, <2>1
  <2> QED BY <2>2
<1>4. SumOver(w, s) = w[x] + SumOver(w, s \ {x})
  BY <1>0, <1>1, <1>2, SumOfAny
<1>5. s \ {x} \notin F /\ s \ {x} \in SUBSET S /\ T \subseteq s \ {x} /\ IsFiniteSet(s \ {x})
  BY <1>0, <1>1, <1>2, <1>3, FS_Subset
<1>6. SumOver(w, T) <= SumOver(w, s \ {x}) /\ SumOver(w, s \ {x}) \in Nat /\ w[x] \in Nat
  BY <1>0, <1>2, <1>5, SumType
<1> QED BY <1>0, <1>1, <1>2, <1>4, <1>6

LEMMA SumOfMember ==
    ASSUME NEW S, IsFiniteSet(S), NEW w, \A x \in S : w[x] \in Nat, NEW y \in S
    PROVE  w[y] <= SumOver(w, S)
<1>1. SumOver(w, S) = w[y] + SumOver(w, S \ {y})
  BY SumOfAny
<1>2. SumOver(w, S \ {y}) \in Nat
  BY FS_Subset, SumType
<1> QED BY <1>1, <1>2

\* What weighs no more has no larger a sum.
LEMMA SumOfLess ==
    ASSUME NEW S, IsFiniteSet(S), NEW w, NEW v, \A x \in S : w[x] \in Nat /\ v[x] \in Nat /\ v[x] <= w[x]
    PROVE  SumOver(v, S) <= SumOver(w, S)
<1> DEFINE F == {s \in SUBSET S : ~(SumOver(v, s) <= SumOver(w, s))}
<1> SUFFICES ASSUME F # {} PROVE FALSE
  OBVIOUS
<1>0. F \subseteq SUBSET S /\ \A u : u \in F <=> u \in SUBSET S /\ ~(SumOver(v, u) <= SumOver(w, u))
  OBVIOUS
<1> HIDE DEF F
<1>1. PICK s \in F : \A u \in F : u \subseteq s => u = s
  BY <1>0, SmallestSubset
<1>2. IsFiniteSet(s) /\ s # {}
  <2>1. IsFiniteSet(s)
    BY <1>0, FS_Subset
  <2>2. SumOver(v, {}) = 0 /\ SumOver(w, {}) = 0
    BY SumOfNone
  <2>3. SumOver(v, {}) <= SumOver(w, {})
    BY <2>2
  <2>4. s # {}
    BY <1>0, <2>3
  <2> QED BY <2>1, <2>4
<1>3. First(s) \in s
  BY <1>2, FirstIsIn
<1> DEFINE R == s \ {First(s)}
<1>4. /\ SumOver(w, s) = w[First(s)] + SumOver(w, R)
      /\ SumOver(v, s) = v[First(s)] + SumOver(v, R)
  BY <1>2, SumOfFirst
<1>5. R \in SUBSET S /\ IsFiniteSet(R) /\ R \notin F
  BY <1>0, <1>1, <1>2, <1>3, FS_Subset
<1>6. SumOver(v, R) <= SumOver(w, R) /\ SumOver(v, R) \in Nat /\ SumOver(w, R) \in Nat
  BY <1>0, <1>5, SumType
<1> HIDE DEF R
<1> QED BY <1>0, <1>1, <1>3, <1>4, <1>6

\* A total is at most as often the largest weight as there are members.
LEMMA SumAtMost ==
    ASSUME NEW S, IsFiniteSet(S), NEW w, NEW m \in Nat, \A x \in S : w[x] \in Nat /\ w[x] <= m
    PROVE  SumOver(w, S) <= Cardinality(S) * m
<1> DEFINE F == {s \in SUBSET S : ~(SumOver(w, s) <= Cardinality(s) * m)}
<1> SUFFICES ASSUME F # {} PROVE FALSE
  OBVIOUS
<1>0. /\ F \subseteq SUBSET S
      /\ \A u : u \in F <=> u \in SUBSET S /\ ~(SumOver(w, u) <= Cardinality(u) * m)
  OBVIOUS
<1> HIDE DEF F
<1>1. PICK s \in F : \A u \in F : u \subseteq s => u = s
  BY <1>0, SmallestSubset
<1>2. IsFiniteSet(s) /\ s # {}
  <2>1. IsFiniteSet(s)
    BY <1>0, FS_Subset
  <2>2. SumOver(w, {}) <= Cardinality({}) * m
    BY SumOfNone, FS_EmptySet
  <2>3. s # {}
    BY <1>0, <2>2
  <2> QED BY <2>1, <2>3
<1>3. First(s) \in s
  BY <1>2, FirstIsIn
<1> DEFINE R == s \ {First(s)}
<1>4. SumOver(w, s) = w[First(s)] + SumOver(w, R)
  BY <1>2, SumOfFirst
<1>5. R \in SUBSET S /\ IsFiniteSet(R) /\ R \notin F
  BY <1>0, <1>1, <1>2, <1>3, FS_Subset
<1>6. Cardinality(s) \in Nat /\ Cardinality(R) = Cardinality(s) - 1 /\ Cardinality(R) \in Nat
  BY <1>2, <1>3, <1>5, FS_RemoveElement, FS_CardinalityType
<1>7. SumOver(w, R) <= Cardinality(R) * m /\ SumOver(w, R) \in Nat
  BY <1>0, <1>5, SumType
<1>8. w[First(s)] \in Nat /\ w[First(s)] <= m
  BY <1>0, <1>3
<1> HIDE DEF R
<1>9. Cardinality(s) * m = Cardinality(R) * m + m /\ Cardinality(R) * m \in Nat
  <2>1. \A n \in Nat : n * m \in Nat /\ (n + 1) * m = n * m + m
    OBVIOUS
  <2>2. Cardinality(s) = Cardinality(R) + 1
    BY <1>6
  <2> QED BY <1>6, <2>1, <2>2
<1> QED BY <1>0, <1>4, <1>7, <1>8, <1>9

\* Of finitely many members one weighs most.
LEMMA HeaviestMember ==
    ASSUME NEW S, IsFiniteSet(S), S # {}, NEW w, \A x \in S : w[x] \in Nat
    PROVE  \E x \in S : \A y \in S : w[y] <= w[x]
<1> DEFINE Led(s) == \E x \in s : \A y \in s : w[y] <= w[x]
           F == {s \in SUBSET S : s # {} /\ ~Led(s)}
<1> SUFFICES ASSUME F # {} PROVE FALSE
  OBVIOUS
<1>0. F \subseteq SUBSET S /\ \A u : u \in F <=> u \in SUBSET S /\ u # {} /\ ~Led(u)
  OBVIOUS
<1> HIDE DEF F
<1>1. PICK s \in F : \A u \in F : u \subseteq s => u = s
  BY <1>0, SmallestSubset
<1>2. First(s) \in s /\ s \subseteq S
  BY <1>0, FirstIsIn
<1>3. CASE s = {First(s)}
  <2>1. \A y \in s : w[y] <= w[First(s)]
    BY <1>2, <1>3
  <2> QED BY <1>0, <1>2, <2>1
<1>4. CASE s # {First(s)}
  <2> DEFINE R == s \ {First(s)}
  <2>1. R \in SUBSET S /\ R # {} /\ R \subseteq s /\ R # s
    BY <1>2, <1>4
  <2>2. Led(R)
    BY <1>0, <1>1, <2>1
  <2>3. PICK x \in R : \A y \in R : w[y] <= w[x]
    BY <2>2
  <2>4. w[x] \in Nat /\ w[First(s)] \in Nat /\ x \in s
    BY <1>2, <2>3
  <2>5. CASE w[First(s)] <= w[x]
    <3>1. \A y \in s : w[y] <= w[x]
      BY <2>3, <2>5
    <3> QED BY <1>0, <2>4, <3>1
  <2>6. CASE w[x] <= w[First(s)]
    <3>1. \A y \in s : w[y] \in Nat /\ (y \in R \/ y = First(s))
      BY <1>2
    <3>2. \A y \in s : w[y] <= w[First(s)]
      BY <2>3, <2>4, <2>6, <3>1
    <3> QED BY <1>0, <1>2, <3>2
  <2> QED BY <2>4, <2>5, <2>6
<1> QED BY <1>3, <1>4

\* What is counted group by group is counted once.
LEMMA SumOfGroups ==
    ASSUME NEW S, IsFiniteSet(S), NEW key, NEW K, IsFiniteSet(K), \A a \in S : key[a] \in K,
           NEW part, \A f \in K : /\ part[f] \in SUBSET S
                                  /\ \A a \in S : a \in part[f] <=> key[a] = f,
           NEW w, \A f \in K : w[f] = Cardinality(part[f])
    PROVE  SumOver(w, K) = Cardinality(S)
<1> DEFINE Part(s) == {a \in S : key[a] \in s}
           F == {s \in SUBSET K : SumOver(w, s) # Cardinality(Part(s))}
<1>p. \A s : Part(s) \in SUBSET S /\ IsFiniteSet(Part(s)) /\ \A a : a \in Part(s) <=> a \in S /\ key[a] \in s
  BY FS_Subset
<1>0. F \subseteq SUBSET K /\ \A u : u \in F <=> u \in SUBSET K /\ SumOver(w, u) # Cardinality(Part(u))
  OBVIOUS
<1> HIDE DEF F, Part
<1>1. ASSUME F # {} PROVE FALSE
  <2>1. PICK s \in F : \A u \in F : u \subseteq s => u = s
    BY <1>0, <1>1, SmallestSubset
  <2>2. IsFiniteSet(s) /\ s # {} /\ s \subseteq K
    <3>1. IsFiniteSet(s) /\ s \subseteq K
      BY <1>0, FS_Subset
    <3>2. Part({}) = {}
      BY <1>p
    <3>3. SumOver(w, {}) = Cardinality(Part({}))
      BY <3>2, SumOfNone, FS_EmptySet
    <3>4. s # {}
      BY <1>0, <3>3
    <3> QED BY <3>1, <3>4
  <2> DEFINE f == First(s)
             R == s \ {f}
             G == part[f]
  <2>3. f \in s
    BY <2>2, FirstIsIn
  <2>4. SumOver(w, s) = w[f] + SumOver(w, R)
    BY <2>2, SumOfFirst
  <2>5. R \in SUBSET K /\ R \subseteq s /\ R # s /\ R \notin F
    BY <2>1, <2>2, <2>3
  <2>6. w[f] = Cardinality(G) /\ G \in SUBSET S /\ IsFiniteSet(G) /\ \A a : a \in G <=> a \in S /\ key[a] = f
    BY <2>2, <2>3, FS_Subset
  <2>7. SumOver(w, R) = Cardinality(Part(R))
    BY <1>0, <2>5
  <2> HIDE DEF G
  <2>8. Part(s) = G \cup Part(R) /\ G \cap Part(R) = {}
    BY <1>p, <2>3, <2>6
  <2>9. Cardinality(Part(s)) = Cardinality(G) + Cardinality(Part(R))
    <3>1. /\ Cardinality(G \cup Part(R))
                = Cardinality(G) + Cardinality(Part(R)) - Cardinality(G \cap Part(R))
          /\ Cardinality(G) \in Nat /\ Cardinality(Part(R)) \in Nat
      BY <1>p, <2>6, FS_Union, FS_CardinalityType
    <3>2. Cardinality(G \cap Part(R)) = 0
      BY <2>8, FS_EmptySet
    <3> QED BY <2>8, <3>1, <3>2
  <2> QED BY <1>0, <2>4, <2>6, <2>7, <2>9
<1>2. K \notin F
  BY <1>1
<1>3. Part(K) = S
  <2>1. \A a : a \in Part(K) => a \in S
    BY <1>p
  <2>2. ASSUME NEW a \in S PROVE a \in Part(K)
    <3>1. key[a] \in K
      OBVIOUS
    <3> QED BY <1>p, <3>1
  <2> QED BY <2>1, <2>2
<1> QED BY <1>0, <1>2, <1>3

\* What a function on a finite set takes is finite.
LEMMA ImageIsFinite ==
    ASSUME NEW S, IsFiniteSet(S), NEW f, f = [x \in S |-> f[x]]
    PROVE  IsFiniteSet({f[x] : x \in S})
<1> DEFINE T == {f[x] : x \in S}
<1>1. f \in Surjection(S, T)
  BY DEF Surjection
<1> HIDE DEF T
<1>2. IsFiniteSet(T)
  BY <1>1, FS_Surjection
<1> QED BY <1>2 DEF T
=============================================================================
