-------------------------------- MODULE Sums --------------------------------
(***************************************************************************)
(* Sums of a function over a finite set, as FiniteSetsExt defines them:    *)
(* MapThenSumSet takes the elements in an order of its own.  What holds of *)
(* the sum over every subset is shown by way of a smallest subset it fails *)
(* for, so no induction over an operator is needed.                        *)
(***************************************************************************)
EXTENDS Integers, FiniteSetsExt, FiniteSetTheorems, WellFoundedInduction, TLAPS

\* A set of numbers that is not empty has a least one.
LEMMA LeastNat ==
  ASSUME NEW S, S \subseteq Nat, S # {}
  PROVE  \E n \in S : \A k \in S : n <= k
<1>1. IsWellFoundedOn(OpToRel(<, Nat), Nat)
  BY NatLessThanWellFounded
<1>2. PICK n \in S : \A k \in S : ~(<<k, n>> \in OpToRel(<, Nat))
  BY <1>1, WFMin
<1>3. \A k \in S : n \in Nat /\ k \in Nat /\ ~(k < n)
  BY <1>2 DEF OpToRel
<1>4. \A k \in S : n <= k
  BY <1>3
<1> QED BY <1>4

\* The element MapThenSumSet takes next.
Pick(T) == CHOOSE x \in T : TRUE

\* g gives the sum of f over each subset of T, taken in that order.
SumsOver(g, f, T) ==
  g = [s \in SUBSET T |-> IF s = {} THEN 0 ELSE f[Pick(s)] + g[s \ {Pick(s)}]]

SumOf(f, S) == MapThenSumSet(LAMBDA t : f[t], S)

\* The definition, with the function that the sum is read from.
LEMMA SumIs ==
  ASSUME NEW f, NEW S
  PROVE  SumOf(f, S) = (CHOOSE g : SumsOver(g, f, S))[S]
BY DEF SumOf, MapThenSumSet, MapThenFoldSet, SumsOver, Pick

\* It is an element.
LEMMA PickIn == ASSUME NEW T, T # {} PROVE Pick(T) \in T
BY DEF Pick

\* Of the subsets of a finite set that have a property, some have no smaller one that has it.
LEMMA SmallestSubset ==
  ASSUME NEW S, IsFiniteSet(S), NEW B \in SUBSET SUBSET S, B # {}
  PROVE  \E T \in B : \A U \in SUBSET T : U # T => U \notin B
<1>1. IsWellFoundedOn(StrictSubsetOrdering(S), SUBSET S)
  BY FS_StrictSubsetOrderingWellFounded, FS_FiniteSubsetsOfFinite
<1>2. PICK T \in B : \A U \in B : ~(<<U, T>> \in StrictSubsetOrdering(S))
  BY <1>1, WFMin
<1>3. ASSUME NEW U \in SUBSET T, U # T PROVE U \notin B
  <2>1. T \in SUBSET S /\ U \in SUBSET S
    OBVIOUS
  <2>2. <<U, T>> \in StrictSubsetOrdering(S)
    BY <1>3, <2>1 DEF StrictSubsetOrdering
  <2> QED BY <1>2, <2>2
<1> QED BY <1>3

\* The sums over a smaller set are those over a larger one.
LEMMA SumsAgree ==
  ASSUME NEW f, NEW S, IsFiniteSet(S), NEW T, NEW g, NEW h,
         SumsOver(g, f, S), SumsOver(h, f, T)
  PROVE  \A s \in SUBSET S : s \subseteq T => g[s] = h[s]
<1> DEFINE B == {s \in SUBSET S : s \subseteq T /\ g[s] # h[s]}
<1> SUFFICES ASSUME B # {} PROVE FALSE
  OBVIOUS
<1>1. PICK s \in B : \A U \in SUBSET s : U # s => U \notin B
  <2> HIDE DEF B
  <2>1. B \in SUBSET SUBSET S
    BY DEF B
  <2> QED BY <2>1, SmallestSubset
<1>2. CASE s = {}
  BY <1>1, <1>2 DEF SumsOver
<1>3. CASE s # {}
  <2> DEFINE r == s \ {Pick(s)}
  <2>1. Pick(s) \in s
    BY <1>3, PickIn
  <2>2. r \in SUBSET s /\ r # s /\ r \in SUBSET S /\ r \subseteq T
    BY <2>1
  <2>3. g[r] = h[r]
    BY <1>1, <2>2
  <2>4. g[s] = f[Pick(s)] + g[r] /\ h[s] = f[Pick(s)] + h[r]
    BY <1>3 DEF SumsOver
  <2> QED BY <2>3, <2>4
<1> QED BY <1>2, <1>3

\* There are such sums.
LEMMA SumsExist ==
  ASSUME NEW f, NEW S, IsFiniteSet(S)
  PROVE  \E g : SumsOver(g, f, S)
<1> DEFINE B == {T \in SUBSET S : ~ \E g : SumsOver(g, f, T)}
<1> SUFFICES ASSUME B # {} PROVE FALSE
  OBVIOUS
<1>1. PICK T \in B : \A U \in SUBSET T : U # T => U \notin B
  <2> HIDE DEF B
  <2>1. B \in SUBSET SUBSET S
    BY DEF B
  <2> QED BY <2>1, SmallestSubset
<1> DEFINE Rest(s) == s \ {Pick(s)}
           Of(s) == CHOOSE h : SumsOver(h, f, s)
           g == [s \in SUBSET T |-> IF s = {} THEN 0 ELSE f[Pick(s)] + Of(Rest(s))[Rest(s)]]
<1>2. ASSUME NEW s \in SUBSET T, s # T PROVE SumsOver(Of(s), f, s)
  <2>1. \E h : SumsOver(h, f, s)
    BY <1>1, <1>2
  <2> QED BY <2>1
<1>3. ASSUME NEW s \in SUBSET T, s # {}
      PROVE  Rest(s) \in SUBSET T /\ Rest(s) # T /\ Rest(s) \subseteq s
  BY <1>3, PickIn
<1> HIDE DEF Of
<1>4. ASSUME NEW s \in SUBSET T, s # {} PROVE g[Rest(s)] = Of(Rest(s))[Rest(s)]
  <2> DEFINE U == Rest(s)
             h == Of(U)
  <2>1. SumsOver(h, f, U) /\ U \in SUBSET T /\ U # T
    BY <1>2, <1>3, <1>4
  <2>2. CASE U = {}
    <3>1. h[U] = 0 /\ g[U] = 0
      BY <2>1, <2>2 DEF SumsOver
    <3> QED BY <3>1
  <2>3. CASE U # {}
    <3> DEFINE V == Rest(U)
    <3>1. SumsOver(Of(V), f, V) /\ V \subseteq U /\ IsFiniteSet(V)
      <4>1. V \in SUBSET T /\ V # T /\ V \subseteq U
        BY <1>3, <2>1, <2>3
      <4> QED BY <1>2, <4>1, FS_Subset
    <3>2. Of(V)[V] = h[V]
      <4> HIDE DEF h, V
      <4> QED BY <2>1, <3>1, SumsAgree
    <3>3. h[U] = f[Pick(U)] + h[V]
      <4> HIDE DEF h
      <4> QED BY <2>1, <2>3 DEF SumsOver
    <3>4. g[U] = f[Pick(U)] + Of(V)[V]
      BY <2>1, <2>3
    <3> QED BY <3>2, <3>3, <3>4
  <2> QED BY <2>2, <2>3
<1>5. SumsOver(g, f, T)
  <2>1. \A s \in SUBSET T : g[s] = IF s = {} THEN 0 ELSE f[Pick(s)] + g[Rest(s)]
    BY <1>4
  <2> QED BY <2>1 DEF SumsOver
<1> QED BY <1>1, <1>5

\* A sum is that of the rest with the element taken first.
LEMMA SumTakes ==
  ASSUME NEW f, NEW S, IsFiniteSet(S)
  PROVE  /\ SumOf(f, {}) = 0
         /\ S # {} => SumOf(f, S) = f[Pick(S)] + SumOf(f, S \ {Pick(S)})
<1> DEFINE Of(s) == CHOOSE h : SumsOver(h, f, s)
<1>1. \A T : IsFiniteSet(T) => SumsOver(Of(T), f, T) /\ SumOf(f, T) = Of(T)[T]
  BY SumsExist, SumIs
<1> HIDE DEF Of
<1>2. SumOf(f, {}) = 0
  BY <1>1, FS_EmptySet DEF SumsOver
<1>3. ASSUME S # {} PROVE SumOf(f, S) = f[Pick(S)] + SumOf(f, S \ {Pick(S)})
  <2> DEFINE R == S \ {Pick(S)}
  <2>1. R \subseteq S /\ IsFiniteSet(R)
    BY FS_Subset
  <2>2. Of(R)[R] = Of(S)[R]
    <3> HIDE DEF R
    <3>1. SumsOver(Of(R), f, R) /\ SumsOver(Of(S), f, S)
      BY <1>1, <2>1
    <3>2. \A r \in SUBSET R : r \subseteq S => Of(R)[r] = Of(S)[r]
      BY <2>1, <3>1, SumsAgree
    <3> QED BY <2>1, <3>2
  <2>3. Of(S)[S] = f[Pick(S)] + Of(S)[R]
    BY <1>1, <1>3 DEF SumsOver
  <2> QED BY <1>1, <2>1, <2>2, <2>3
<1> QED BY <1>2, <1>3

-----------------------------------------------------------------------------
\* A sum of naturals is a natural.
LEMMA SumNat ==
  ASSUME NEW f, NEW S, IsFiniteSet(S), \A x \in S : f[x] \in Nat
  PROVE  SumOf(f, S) \in Nat
<1> DEFINE B == {T \in SUBSET S : SumOf(f, T) \notin Nat}
<1> SUFFICES ASSUME B # {} PROVE FALSE
  OBVIOUS
<1>1. PICK T \in B : \A U \in SUBSET T : U # T => U \notin B
  <2> HIDE DEF B
  <2>1. B \in SUBSET SUBSET S
    BY DEF B
  <2> QED BY <2>1, SmallestSubset
<1>2. IsFiniteSet(T)
  BY FS_Subset
<1>3. T # {}
  <2>1. SumOf(f, {}) = 0
    BY SumTakes, FS_EmptySet
  <2> QED BY <2>1
<1> DEFINE R == T \ {Pick(T)}
<1>4. Pick(T) \in T /\ R \in SUBSET T /\ R # T
  BY <1>3, PickIn
<1>5. SumOf(f, T) = f[Pick(T)] + SumOf(f, R)
  BY <1>2, <1>3, SumTakes
<1>6. SumOf(f, R) \in Nat
  BY <1>1, <1>4
<1>7. f[Pick(T)] \in Nat
  BY <1>4
<1> QED BY <1>5, <1>6, <1>7

\* Any element may be taken first.
LEMMA SumRemove ==
  ASSUME NEW f, NEW S, IsFiniteSet(S), \A x \in S : f[x] \in Nat
  PROVE  \A x \in S : SumOf(f, S) = f[x] + SumOf(f, S \ {x})
<1> DEFINE B == {T \in SUBSET S : \E x \in T : SumOf(f, T) # f[x] + SumOf(f, T \ {x})}
<1> SUFFICES ASSUME B # {} PROVE FALSE
  OBVIOUS
<1>1. PICK T \in B : \A U \in SUBSET T : U # T => U \notin B
  <2> HIDE DEF B
  <2>1. B \in SUBSET SUBSET S
    BY DEF B
  <2> QED BY <2>1, SmallestSubset
<1>2. PICK x \in T : SumOf(f, T) # f[x] + SumOf(f, T \ {x})
  OBVIOUS
<1> DEFINE p == Pick(T)
<1>3. p \in T /\ SumOf(f, T) = f[p] + SumOf(f, T \ {p}) /\ p # x
  <2>1. IsFiniteSet(T) /\ T # {}
    BY FS_Subset
  <2> QED BY <1>2, <2>1, SumTakes, PickIn
<1> HIDE DEF p
<1>4. SumOf(f, T \ {p}) = f[x] + SumOf(f, (T \ {p}) \ {x})
  <2>1. T \ {p} \in SUBSET T /\ T \ {p} # T /\ x \in T \ {p}
    BY <1>3
  <2> QED BY <1>1, <2>1
<1>5. SumOf(f, T \ {x}) = f[p] + SumOf(f, (T \ {x}) \ {p})
  <2>1. T \ {x} \in SUBSET T /\ T \ {x} # T /\ p \in T \ {x}
    BY <1>3
  <2> QED BY <1>1, <2>1
<1>6. (T \ {x}) \ {p} = (T \ {p}) \ {x}
  OBVIOUS
<1>7. f[x] \in Nat /\ f[p] \in Nat /\ SumOf(f, (T \ {p}) \ {x}) \in Nat
  <2>1. IsFiniteSet((T \ {p}) \ {x}) /\ (T \ {p}) \ {x} \subseteq S
    BY FS_Subset
  <2> QED BY <1>3, <2>1, SumNat
<1> QED BY <1>2, <1>3, <1>4, <1>5, <1>6, <1>7

\* A sum is that of a part and of the rest.
LEMMA SumSplit ==
  ASSUME NEW f, NEW S, IsFiniteSet(S), \A x \in S : f[x] \in Nat, NEW P \in SUBSET S
  PROVE  SumOf(f, S) = SumOf(f, P) + SumOf(f, S \ P)
<1> DEFINE B == {T \in SUBSET P : SumOf(f, S) # SumOf(f, T) + SumOf(f, S \ T)}
<1> SUFFICES ASSUME B # {} PROVE FALSE
  OBVIOUS
<1>1. PICK T \in B : \A U \in SUBSET T : U # T => U \notin B
  <2> HIDE DEF B
  <2>1. IsFiniteSet(P) /\ B \in SUBSET SUBSET P
    BY FS_Subset DEF B
  <2> QED BY <2>1, SmallestSubset
<1>2. T # {}
  <2>1. SumOf(f, {}) = 0 /\ S \ {} = S /\ SumOf(f, S) \in Nat
    BY SumTakes, SumNat
  <2>2. ASSUME T = {} PROVE FALSE
    <3>1. SumOf(f, S) # SumOf(f, {}) + SumOf(f, S \ {})
      BY <2>2
    <3> QED BY <2>1, <3>1
  <2> QED BY <2>2
<1>3. PICK x \in T : TRUE
  BY <1>2
<1> DEFINE U == T \ {x}
<1>4. /\ T \in SUBSET S /\ U \in SUBSET P /\ U \in SUBSET S /\ x \in S /\ x \in S \ U
      /\ (S \ U) \ {x} = S \ T /\ U \notin B
  BY <1>1, <1>3
<1>5. SumOf(f, S) = SumOf(f, U) + SumOf(f, S \ U)
  BY <1>4
<1>6. SumOf(f, T) = f[x] + SumOf(f, U)
  <2>1. IsFiniteSet(T) /\ \A y \in T : f[y] \in Nat
    BY <1>4, FS_Subset
  <2> QED BY <1>3, <2>1, SumRemove
<1>7. SumOf(f, S \ U) = f[x] + SumOf(f, S \ T)
  <2>1. IsFiniteSet(S \ U) /\ \A y \in S \ U : f[y] \in Nat
    BY FS_Subset
  <2>2. SumOf(f, S \ U) = f[x] + SumOf(f, (S \ U) \ {x})
    BY <1>4, <2>1, SumRemove
  <2> QED BY <1>4, <2>2
<1>8. SumOf(f, U) \in Nat /\ SumOf(f, S \ T) \in Nat /\ f[x] \in Nat
  <2>1. IsFiniteSet(U) /\ IsFiniteSet(S \ T)
    BY <1>4, FS_Subset
  <2>2. (\A y \in U : f[y] \in Nat) /\ (\A y \in S \ T : f[y] \in Nat)
    BY <1>4
  <2> QED BY <1>4, <2>1, <2>2, SumNat
<1>9. SumOf(f, S) = SumOf(f, T) + SumOf(f, S \ T)
  BY <1>5, <1>6, <1>7, <1>8
<1> QED BY <1>9

\* Equal functions have equal sums, of which nothing outside the set can be seen.
LEMMA SumSame ==
  ASSUME NEW f, NEW g, NEW S, IsFiniteSet(S), \A x \in S : f[x] = g[x]
  PROVE  SumOf(f, S) = SumOf(g, S)
<1> DEFINE B == {T \in SUBSET S : SumOf(f, T) # SumOf(g, T)}
<1> SUFFICES ASSUME B # {} PROVE FALSE
  OBVIOUS
<1>1. PICK T \in B : \A U \in SUBSET T : U # T => U \notin B
  <2> HIDE DEF B
  <2>1. B \in SUBSET SUBSET S
    BY DEF B
  <2> QED BY <2>1, SmallestSubset
<1>2. IsFiniteSet(T)
  BY FS_Subset
<1>3. T # {}
  <2>1. SumOf(f, {}) = 0 /\ SumOf(g, {}) = 0
    BY SumTakes, FS_EmptySet
  <2> QED BY <2>1
<1> DEFINE R == T \ {Pick(T)}
<1>4. Pick(T) \in T /\ R \in SUBSET T /\ R # T
  BY <1>3, PickIn
<1>5. SumOf(f, T) = f[Pick(T)] + SumOf(f, R) /\ SumOf(g, T) = g[Pick(T)] + SumOf(g, R)
  BY <1>2, <1>3, SumTakes
<1>6. SumOf(f, R) = SumOf(g, R)
  BY <1>1, <1>4
<1> QED BY <1>4, <1>5, <1>6

\* A change at one place changes the sum by as much.
LEMMA SumChange ==
  ASSUME NEW f, NEW g, NEW S, IsFiniteSet(S), \A y \in S : f[y] \in Nat /\ g[y] \in Nat,
         NEW x \in S, \A y \in S \ {x} : f[y] = g[y]
  PROVE  SumOf(g, S) + f[x] = SumOf(f, S) + g[x]
<1>1. IsFiniteSet(S \ {x})
  BY FS_RemoveElement
<1>2. SumOf(f, S \ {x}) = SumOf(g, S \ {x}) /\ SumOf(f, S \ {x}) \in Nat
  BY <1>1, SumSame, SumNat
<1>3. SumOf(f, S) = f[x] + SumOf(f, S \ {x}) /\ SumOf(g, S) = g[x] + SumOf(g, S \ {x})
  BY SumRemove
<1> QED BY <1>2, <1>3

\* The same for a function updated at one place.
LEMMA SumExcept ==
  ASSUME NEW D, NEW f \in [D -> Nat], NEW S, IsFiniteSet(S), S \subseteq D,
         NEW x \in S, NEW n \in Nat
  PROVE  /\ SumOf([f EXCEPT ![x] = n], S) + f[x] = SumOf(f, S) + n
         /\ SumOf([f EXCEPT ![x] = n], S) \in Nat /\ SumOf(f, S) \in Nat
<1> DEFINE g == [f EXCEPT ![x] = n]
<1>1. (\A y \in S : f[y] \in Nat /\ g[y] \in Nat) /\ (\A y \in S \ {x} : f[y] = g[y]) /\ g[x] = n
  OBVIOUS
<1> HIDE DEF g
<1>2. SumOf(g, S) + f[x] = SumOf(f, S) + g[x]
  BY <1>1, SumChange
<1>3. SumOf(g, S) \in Nat /\ SumOf(f, S) \in Nat
  BY <1>1, SumNat
<1>4. SumOf(g, S) + f[x] = SumOf(f, S) + n /\ SumOf(g, S) \in Nat /\ SumOf(f, S) \in Nat
  BY <1>1, <1>2, <1>3
<1> QED BY <1>4 DEF g

\* A sum of zeros.
LEMMA SumZero ==
  ASSUME NEW f, NEW S, IsFiniteSet(S), \A x \in S : f[x] = 0
  PROVE  SumOf(f, S) = 0
<1> DEFINE B == {T \in SUBSET S : SumOf(f, T) # 0}
<1> SUFFICES ASSUME B # {} PROVE FALSE
  OBVIOUS
<1>1. PICK T \in B : \A U \in SUBSET T : U # T => U \notin B
  <2> HIDE DEF B
  <2>1. B \in SUBSET SUBSET S
    BY DEF B
  <2> QED BY <2>1, SmallestSubset
<1>2. IsFiniteSet(T) /\ T # {}
  BY FS_Subset, FS_EmptySet, SumTakes
<1>3. Pick(T) \in T /\ SumOf(f, T \ {Pick(T)}) = 0
  BY <1>1, <1>2, PickIn
<1>4. SumOf(f, T) = f[Pick(T)] + SumOf(f, T \ {Pick(T)})
  BY <1>2, SumTakes
<1> QED BY <1>3, <1>4

\* A sum of so many numbers is at most so many times their bound.
LEMMA SumBound ==
  ASSUME NEW f, NEW S, IsFiniteSet(S), NEW b \in Nat, \A x \in S : f[x] \in 0 .. b
  PROVE  SumOf(f, S) <= Cardinality(S) * b
<1> DEFINE B == {T \in SUBSET S : ~(SumOf(f, T) <= Cardinality(T) * b)}
<1> SUFFICES ASSUME B # {} PROVE FALSE
  <2>1. S \notin B
    OBVIOUS
  <2> QED BY <2>1
<1>1. PICK T \in B : \A U \in SUBSET T : U # T => U \notin B
  <2> HIDE DEF B
  <2>1. B \in SUBSET SUBSET S
    BY DEF B
  <2> QED BY <2>1, SmallestSubset
<1>2. IsFiniteSet(T) /\ Cardinality(T) \in Nat
  BY FS_Subset, FS_CardinalityType
<1>3. T # {}
  <2> SUFFICES ASSUME T = {} PROVE FALSE
    OBVIOUS
  <2>1. SumOf(f, T) = 0 /\ Cardinality(T) = 0
    BY SumTakes, FS_EmptySet
  <2> QED BY <2>1
<1> DEFINE p == Pick(T)
           R == T \ {p}
<1>4. p \in T /\ R \in SUBSET T /\ R # T /\ p \in S
  BY <1>3, PickIn
<1>5. SumOf(f, T) = f[p] + SumOf(f, R)
  BY <1>2, <1>3, SumTakes
<1>6. Cardinality(R) = Cardinality(T) - 1 /\ Cardinality(R) \in Nat /\ IsFiniteSet(R)
  BY <1>2, <1>4, FS_RemoveElement, FS_CardinalityType
<1>7. SumOf(f, R) <= Cardinality(R) * b /\ SumOf(f, R) \in Nat /\ f[p] \in Nat /\ f[p] <= b
  <2>1. R \notin B /\ R \in SUBSET S
    BY <1>1, <1>4
  <2>2. SumOf(f, R) \in Nat
    BY <1>6, <2>1, SumNat
  <2> QED BY <1>4, <2>1, <2>2
<1>8. SumOf(f, T) <= Cardinality(T) * b
  <2> HIDE DEF R, p
  <2> QED BY <1>2, <1>5, <1>6, <1>7
<1> QED BY <1>8

\* Finitely many numbers have a greatest.
LEMMA MaxIs ==
  ASSUME NEW S \in SUBSET Nat, IsFiniteSet(S), S # {}
  PROVE  Max(S) \in S /\ \A x \in S : Max(S) >= x
<1> DEFINE Top(T) == \E m \in T : \A x \in T : m >= x
           B == {T \in SUBSET S : T # {} /\ ~Top(T)}
<1>1. SUFFICES ASSUME B # {} PROVE FALSE
  <2>1. \E m \in S : \A x \in S : m >= x
    OBVIOUS
  <2> QED BY <2>1 DEF Max
<1>2. PICK T \in B : \A U \in SUBSET T : U # T => U \notin B
  <2> HIDE DEF B
  <2>1. B \in SUBSET SUBSET S
    BY DEF B
  <2> QED BY <1>1, <2>1, SmallestSubset
<1>3. PICK x \in T : TRUE
  OBVIOUS
<1> DEFINE U == T \ {x}
<1>4. CASE U = {}
  <2>1. T = {x} /\ x \in Nat
    BY <1>3, <1>4
  <2> QED BY <2>1
<1>5. CASE U # {}
  <2>1. Top(U)
    BY <1>2, <1>3, <1>5
  <2>2. PICK m \in U : \A y \in U : m >= y
    BY <2>1
  <2>3. m \in Nat /\ x \in Nat /\ m \in T
    OBVIOUS
  <2>4. CASE m >= x
    BY <2>2, <2>3, <2>4
  <2>5. CASE x > m
    <3>1. \A y \in T : x >= y
      BY <2>2, <2>3, <2>5
    <3> QED BY <1>3, <3>1
  <2> QED BY <2>3, <2>4, <2>5
<1> QED BY <1>4, <1>5
=============================================================================
