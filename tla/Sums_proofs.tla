---------------------------- MODULE Sums_proofs ----------------------------
(***************************************************************************)
(* Sums of a function's values over a finite set, as SumFunctionOnSet of   *)
(* the Functions module computes them, in an unspecified order.  Theorems  *)
(* about an arbitrary summand are stated for a function rather than an     *)
(* operator, and inductions are done by a least counterexample.            *)
(***************************************************************************)
EXTENDS Integers, Functions, FiniteSetTheorems, WellFoundedInduction, TLAPS

LEMMA LeastNat ==
  ASSUME NEW B \in SUBSET Nat, B # {}
  PROVE  \E m \in B : \A y \in B : m <= y
<1>1. PICK m \in B : \A y \in B : ~(<<y, m>> \in OpToRel(<, Nat))
  BY NatLessThanWellFounded, WFMin, Zenon
<1>2. ASSUME NEW y \in B  PROVE m <= y
  <2>1. m \in Nat /\ y \in Nat
    OBVIOUS
  <2>2. ~(y < m)
    BY <1>1, <2>1 DEF OpToRel
  <2> QED  BY <2>1, <2>2
<1> QED
  BY <1>2

\* The recursion of MapThenFoldSet, as a property of the function it defines.
Sums(f, S, g) == g = [s \in SUBSET S |->
                        IF s = {} THEN 0
                        ELSE f[CHOOSE x \in s : TRUE] + g[s \ {CHOOSE x \in s : TRUE}]]

LEMMA SumUnfolds ==
  ASSUME NEW f, NEW S, NEW g, Sums(f, S, g)
  PROVE  \E h : Sums(f, S, h) /\ SumFunctionOnSet(f, S) = h[S]
<1> DEFINE h == CHOOSE iter :
                  iter = [s \in SUBSET S |->
                            IF s = {} THEN 0
                            ELSE f[CHOOSE x \in s : TRUE] + iter[s \ {CHOOSE x \in s : TRUE}]]
<1>1. SumFunctionOnSet(f, S) = h[S]
  BY DEF SumFunctionOnSet, FoldFunctionOnSet, MapThenFoldSet
<1>2. Sums(f, S, h)
  BY DEF Sums
<1> QED
  BY <1>1, <1>2

\* Taking an element out of a finite set.
LEMMA Smaller ==
  ASSUME NEW S, IsFiniteSet(S), NEW s \in SUBSET S, NEW x \in s
  PROVE  /\ IsFiniteSet(s) /\ Cardinality(s) \in Nat
         /\ s \ {x} \in SUBSET S /\ Cardinality(s \ {x}) = Cardinality(s) - 1
  BY FS_Subset, FS_CardinalityType, FS_RemoveElement

\* The recursion has a solution, with integer values.
LEMMA SumsExist ==
  ASSUME NEW S, IsFiniteSet(S), NEW f, \A x \in S : f[x] \in Int
  PROVE  \E g \in [SUBSET S -> Int] : Sums(f, S, g)
<1> DEFINE ch(s) == CHOOSE x \in s : TRUE
           Level(m) == {s \in SUBSET S : Cardinality(s) <= m}
           Solves(m, g) == /\ g \in [Level(m) -> Int]
                           /\ \A s \in Level(m) :
                                g[s] = IF s = {} THEN 0 ELSE f[ch(s)] + g[s \ {ch(s)}]
           B == {m \in Nat : ~\E g : Solves(m, g)}
<1>c. \A s : s # {} => ch(s) \in s
  OBVIOUS
<1> HIDE DEF ch
<1>z. \A s \in SUBSET S : /\ Cardinality(s) \in Nat
                          /\ s # {} => /\ Cardinality(s \ {ch(s)}) = Cardinality(s) - 1
                                       /\ s \ {ch(s)} \in SUBSET S
  BY <1>c, Smaller, FS_Subset, FS_CardinalityType
<1>1. B = {}
  <2> SUFFICES ASSUME B # {}  PROVE FALSE
    OBVIOUS
  <2>1. PICK m \in B : \A y \in B : m <= y
    <3> HIDE DEF Solves
    <3>1. B \in SUBSET Nat
      OBVIOUS
    <3> HIDE DEF B
    <3> QED  BY <3>1, LeastNat
  <2>2. m \in Nat /\ ~\E g : Solves(m, g)
    OBVIOUS
  <2>3. CASE m = 0
    <3>1. \A s \in Level(0) : s = {}
      <4> SUFFICES ASSUME NEW s \in Level(0), s # {}  PROVE FALSE
        OBVIOUS
      <4>1. Cardinality(s) \in Nat /\ Cardinality(s) <= 0
        BY <1>z
      <4>2. s \ {ch(s)} \in SUBSET S /\ Cardinality(s \ {ch(s)}) = Cardinality(s) - 1
        BY <1>z
      <4>3. Cardinality(s \ {ch(s)}) \in Nat
        BY <1>z, <4>2
      <4> QED  BY <4>1, <4>2, <4>3
    <3>2. Solves(0, [s \in Level(0) |-> 0])
      BY <3>1
    <3> QED  BY <2>2, <2>3, <3>2
  <2>4. CASE m # 0
    <3>1. m - 1 \in Nat /\ m - 1 \notin B
      <4> HIDE DEF B
      <4> QED  BY <2>1, <2>2, <2>4
    <3>2. PICK g : Solves(m - 1, g)
      BY <3>1
    <3> DEFINE h == [s \in Level(m) |-> IF s = {} THEN 0 ELSE f[ch(s)] + g[s \ {ch(s)}]]
    <3>3. \A s \in Level(m) : s # {} => s \ {ch(s)} \in Level(m - 1) /\ f[ch(s)] \in Int
      BY <1>c, <1>z, <2>2
    <3> DEFINE val(s) == IF s = {} THEN 0 ELSE f[ch(s)] + g[s \ {ch(s)}]
    <3>4. \A s \in Level(m) : val(s) \in Int
      <4> SUFFICES ASSUME NEW s \in Level(m), s # {}
                   PROVE  f[ch(s)] + g[s \ {ch(s)}] \in Int
        OBVIOUS
      <4>1. s \ {ch(s)} \in Level(m - 1) /\ f[ch(s)] \in Int
        BY <3>3
      <4>2. g[s \ {ch(s)}] \in Int
        BY <3>2, <4>1
      <4> QED  BY <4>1, <4>2
    <3>h. h = [s \in Level(m) |-> val(s)] /\ \A s \in Level(m) : h[s] = val(s)
      OBVIOUS
    <3>i. h \in [Level(m) -> Int]
      <4> HIDE DEF Level, val
      <4> QED  BY <3>4, <3>h
    <3>l. \A s \in Level(m - 1) : s \in Level(m)
      <4>1. \A k \in Nat : k <= m - 1 => k <= m
        BY <2>2
      <4> QED  BY <1>z, <4>1
    <3>g. \A s \in Level(m - 1) : g[s] = val(s)
      <4> HIDE DEF Level
      <4> QED  BY <3>2
    <3>5. \A s \in Level(m - 1) : s \in Level(m) /\ h[s] = g[s]
      <4> HIDE DEF Level, val, h
      <4> QED  BY <3>h, <3>l, <3>g
    <3>6. \A s \in Level(m) : s # {} => h[s \ {ch(s)}] = g[s \ {ch(s)}]
      BY <3>3, <3>5
    <3>7. Solves(m, h)
      BY <3>i, <3>6
    <3> QED  BY <2>2, <3>7
  <2> QED  BY <2>3, <2>4
<1>2. Cardinality(S) \in Nat /\ Level(Cardinality(S)) = SUBSET S
  BY FS_CardinalityType, FS_Subset
<1>3. PICK g : Solves(Cardinality(S), g)
  BY <1>1, <1>2
<1>4. g \in [SUBSET S -> Int] /\ g = [s \in SUBSET S |-> g[s]]
  BY <1>2, <1>3
<1>5. \A s \in SUBSET S : g[s] = IF s = {} THEN 0 ELSE f[ch(s)] + g[s \ {ch(s)}]
  BY <1>2, <1>3
<1>6. g = [s \in SUBSET S |-> IF s = {} THEN 0 ELSE f[ch(s)] + g[s \ {ch(s)}]]
  BY <1>4, <1>5
<1> QED
  BY <1>4, <1>6 DEF Sums, ch

\* Solutions for summands that agree agree.
LEMMA SumsAgree ==
  ASSUME NEW S, IsFiniteSet(S), NEW f, NEW g, Sums(f, S, g),
         NEW T \in SUBSET S, NEW e, NEW h, Sums(e, T, h), \A x \in T : e[x] = f[x]
  PROVE  \A s \in SUBSET T : h[s] = g[s]
<1> DEFINE ch(s) == CHOOSE x \in s : TRUE
           B == {m \in Nat : \E s \in SUBSET T : Cardinality(s) = m /\ h[s] # g[s]}
<1>c. \A s : s # {} => ch(s) \in s
  OBVIOUS
<1>1. \A s \in SUBSET T : /\ h[s] = IF s = {} THEN 0 ELSE e[ch(s)] + h[s \ {ch(s)}]
                          /\ g[s] = IF s = {} THEN 0 ELSE f[ch(s)] + g[s \ {ch(s)}]
  BY DEF Sums
<1> HIDE DEF ch
<1>z. \A s \in SUBSET T : /\ Cardinality(s) \in Nat
                          /\ s # {} => /\ Cardinality(s \ {ch(s)}) = Cardinality(s) - 1
                                       /\ s \ {ch(s)} \in SUBSET T
  BY <1>c, Smaller, FS_Subset, FS_CardinalityType
<1>2. B = {}
  <2> SUFFICES ASSUME B # {}  PROVE FALSE
    OBVIOUS
  <2>1. PICK m \in B : \A y \in B : m <= y
    <3>1. B \in SUBSET Nat
      OBVIOUS
    <3> HIDE DEF B
    <3> QED  BY <3>1, LeastNat
  <2>2. PICK s \in SUBSET T : Cardinality(s) = m /\ h[s] # g[s]
    BY <2>1
  <2>3. s # {} /\ m \in Nat
    BY <1>1, <2>2
  <2>4. h[s \ {ch(s)}] # g[s \ {ch(s)}]
    BY <1>1, <1>c, <2>2, <2>3
  <2>5. m - 1 \in B
    BY <1>z, <2>2, <2>3, <2>4
  <2> QED  BY <2>1, <2>3, <2>5
<1> QED
  BY <1>2, <1>z
-----------------------------------------------------------------------------
(* What the sum of a function over a finite set is *)

Summable(f, S) == IsFiniteSet(S) /\ \A x \in S : f[x] \in Int

\* One solution of the recursion gives the sums over all subsets.
LEMMA SumSolution ==
  ASSUME NEW f, NEW S, Summable(f, S)
  PROVE  \E g \in [SUBSET S -> Int] :
           Sums(f, S, g) /\ \A T \in SUBSET S : SumFunctionOnSet(f, T) = g[T]
<1> USE DEF Summable
<1>1. PICK g \in [SUBSET S -> Int] : Sums(f, S, g)
  BY SumsExist
<1>2. ASSUME NEW T \in SUBSET S  PROVE SumFunctionOnSet(f, T) = g[T]
  <2>1. IsFiniteSet(T) /\ \A x \in T : f[x] \in Int
    BY FS_Subset
  <2>2. PICK e : Sums(f, T, e)
    BY <2>1, SumsExist
  <2>3. PICK h : Sums(f, T, h) /\ SumFunctionOnSet(f, T) = h[T]
    BY <2>2, SumUnfolds
  <2>4. \A s \in SUBSET T : h[s] = g[s]
    <3>1. IsFiniteSet(S) /\ \A x \in T : f[x] = f[x]
      OBVIOUS
    <3>2. Sums(f, S, g) /\ Sums(f, T, h)
      BY <1>1, <2>3
    <3> HIDE DEF Summable
    <3> QED  BY <3>1, <3>2, SumsAgree
  <2> QED  BY <2>3, <2>4
<1> QED
  BY <1>1, <1>2

\* A sum of integers is an integer, the empty sum is 0, and any sum takes out some element.
LEMMA SumRecursion ==
  ASSUME NEW f, NEW S, Summable(f, S)
  PROVE  /\ SumFunctionOnSet(f, S) \in Int
         /\ S = {} => SumFunctionOnSet(f, S) = 0
         /\ S # {} => \E x \in S : SumFunctionOnSet(f, S) = f[x] + SumFunctionOnSet(f, S \ {x})
<1> DEFINE c == CHOOSE x \in S : TRUE
<1>1. PICK g \in [SUBSET S -> Int] :
             Sums(f, S, g) /\ \A T \in SUBSET S : SumFunctionOnSet(f, T) = g[T]
  BY SumSolution
<1>2. g[S] = IF S = {} THEN 0 ELSE f[c] + g[S \ {c}]
  BY <1>1 DEF Sums
<1>3. S # {} => c \in S
  OBVIOUS
<1> HIDE DEF c
<1>4. SumFunctionOnSet(f, S) = g[S] /\ SumFunctionOnSet(f, S \ {c}) = g[S \ {c}]
  BY <1>1
<1> QED
  BY <1>1, <1>2, <1>3, <1>4

LEMMA SumType ==
  ASSUME NEW f, NEW S, Summable(f, S)
  PROVE  SumFunctionOnSet(f, S) \in Int
  BY SumRecursion

LEMMA SumEmpty ==
  ASSUME NEW f
  PROVE  SumFunctionOnSet(f, {}) = 0
  BY SumRecursion, FS_EmptySet DEF Summable

\* Only the values on the set matter.
LEMMA SumSame ==
  ASSUME NEW f, NEW e, NEW S, Summable(f, S), \A x \in S : e[x] = f[x]
  PROVE  SumFunctionOnSet(e, S) = SumFunctionOnSet(f, S)
<1>1. Summable(e, S)
  BY DEF Summable
<1>2. PICK g \in [SUBSET S -> Int] : Sums(f, S, g) /\ SumFunctionOnSet(f, S) = g[S]
  BY SumSolution
<1>3. PICK h \in [SUBSET S -> Int] : Sums(e, S, h) /\ SumFunctionOnSet(e, S) = h[S]
  <2>1. PICK h \in [SUBSET S -> Int] :
               Sums(e, S, h) /\ \A T \in SUBSET S : SumFunctionOnSet(e, T) = h[T]
    BY <1>1, SumSolution, Zenon
  <2> QED  BY <2>1
<1>4. IsFiniteSet(S)
  BY DEF Summable
<1>5. \A s \in SUBSET S : h[s] = g[s]
  BY <1>2, <1>3, <1>4, SumsAgree
<1> QED
  BY <1>2, <1>3, <1>5

\* Any element can be taken out.
LEMMA SumWithout ==
  ASSUME NEW f, NEW S, Summable(f, S), NEW x \in S
  PROVE  SumFunctionOnSet(f, S) = f[x] + SumFunctionOnSet(f, S \ {x})
<1> DEFINE F(s) == SumFunctionOnSet(f, s)
           Bad(s, y) == F(s) # f[y] + F(s \ {y})
           B == {m \in Nat : \E s \in SUBSET S : Cardinality(s) = m /\ \E y \in s : Bad(s, y)}
<1>f. IsFiniteSet(S) /\ \A s \in SUBSET S : Summable(f, s)
  BY FS_Subset DEF Summable
<1>i. \A s \in SUBSET S : F(s) \in Int
  BY <1>f, SumType
<1>r. \A s \in SUBSET S : s # {} => \E y \in s : F(s) = f[y] + F(s \ {y})
  BY <1>f, SumRecursion
<1>v. \A y \in S : f[y] \in Int
  BY DEF Summable
<1>z. \A s \in SUBSET S, y \in S :
        /\ Cardinality(s) \in Nat /\ s \ {y} \in SUBSET S
        /\ y \in s => Cardinality(s \ {y}) = Cardinality(s) - 1
  BY <1>f, Smaller, FS_Subset, FS_CardinalityType
<1> HIDE DEF F
<1>1. B = {}
  <2> SUFFICES ASSUME B # {}  PROVE FALSE
    OBVIOUS
  <2>1. PICK m \in B : \A k \in B : m <= k
    <3>1. B \in SUBSET Nat
      OBVIOUS
    <3> HIDE DEF B
    <3> QED  BY <3>1, LeastNat
  <2>2. PICK s \in SUBSET S, y \in S : y \in s /\ Cardinality(s) = m /\ Bad(s, y)
    BY <2>1
  <2>3. PICK c \in s : F(s) = f[c] + F(s \ {c})
    BY <1>r, <2>2
  <2>4. y # c /\ y \in S /\ c \in S /\ m \in Nat
    BY <2>2, <2>3
  <2>5. m - 1 \notin B
    <3> HIDE DEF B
    <3> QED  BY <2>1, <2>4
  <2>6. ASSUME NEW a \in s, NEW b \in s \ {a}
        PROVE  F(s \ {a}) = f[b] + F((s \ {a}) \ {b})
    <3>1. s \ {a} \in SUBSET S /\ Cardinality(s \ {a}) = m - 1 /\ m - 1 \in Nat
      BY <1>z, <2>2
    <3> QED  BY <2>5, <3>1
  <2>7. F(s \ {c}) = f[y] + F((s \ {c}) \ {y}) /\ F(s \ {y}) = f[c] + F((s \ {y}) \ {c})
    BY <2>2, <2>3, <2>4, <2>6
  <2> DEFINE A == (s \ {c}) \ {y}
             C == (s \ {y}) \ {c}
  <2>8. A = C /\ F(A) \in Int
    BY <1>i
  <2>9. f[y] \in Int /\ f[c] \in Int
    BY <1>v, <2>4
  <2>10. F(s \ {c}) = f[y] + F(A) /\ F(s \ {y}) = f[c] + F(C)
    BY <2>7
  <2> HIDE DEF B, A, C
  <2>11. F(s) = f[c] + (f[y] + F(A)) /\ F(s) # f[y] + (f[c] + F(A))
    BY <2>2, <2>3, <2>8, <2>10
  <2> QED  BY <2>8, <2>9, <2>11
<1>2. S \in SUBSET S /\ Cardinality(S) \in Nat
  BY <1>z
<1> QED
  BY <1>1, <1>2 DEF F

\* Adding a new element.
LEMMA SumAdd ==
  ASSUME NEW f, NEW S, Summable(f, S), NEW x, x \notin S, f[x] \in Int
  PROVE  SumFunctionOnSet(f, S \cup {x}) = SumFunctionOnSet(f, S) + f[x]
<1>1. Summable(f, S \cup {x})
  BY FS_AddElement DEF Summable
<1>2. SumFunctionOnSet(f, S \cup {x}) = f[x] + SumFunctionOnSet(f, (S \cup {x}) \ {x})
  BY <1>1, SumWithout
<1> DEFINE T == (S \cup {x}) \ {x}
<1>3. T = S /\ SumFunctionOnSet(f, S) \in Int
  BY SumType
<1>4. SumFunctionOnSet(f, S \cup {x}) = f[x] + SumFunctionOnSet(f, T)
  BY <1>2
<1> HIDE DEF T
<1> QED
  BY <1>3, <1>4

\* Changing the value of one element.
LEMMA SumUpdate ==
  ASSUME NEW f, NEW e, NEW S, Summable(f, S), NEW x \in S, e[x] \in Int,
         \A y \in S \ {x} : e[y] = f[y]
  PROVE  SumFunctionOnSet(e, S) = SumFunctionOnSet(f, S) + (e[x] - f[x])
<1>1. Summable(e, S) /\ Summable(f, S \ {x}) /\ f[x] \in Int
  BY FS_Subset DEF Summable
<1>2. SumFunctionOnSet(e, S) = e[x] + SumFunctionOnSet(e, S \ {x})
  BY <1>1, SumWithout
<1>3. SumFunctionOnSet(f, S) = f[x] + SumFunctionOnSet(f, S \ {x})
  BY SumWithout
<1>4. SumFunctionOnSet(e, S \ {x}) = SumFunctionOnSet(f, S \ {x})
  BY <1>1, SumSame
<1>5. SumFunctionOnSet(f, S \ {x}) \in Int
  BY <1>1, SumType
<1> QED
  BY <1>1, <1>2, <1>3, <1>4, <1>5

\* A sum of naturals is one, and no summand exceeds it.
LEMMA SumNat ==
  ASSUME NEW f, NEW S, IsFiniteSet(S), \A x \in S : f[x] \in Nat
  PROVE  /\ SumFunctionOnSet(f, S) \in Nat
         /\ \A x \in S : f[x] <= SumFunctionOnSet(f, S)
<1> DEFINE F(s) == SumFunctionOnSet(f, s)
           B == {m \in Nat : \E s \in SUBSET S : Cardinality(s) = m /\ F(s) \notin Nat}
<1>f. \A s \in SUBSET S : Summable(f, s)
  BY FS_Subset DEF Summable
<1>i. \A s \in SUBSET S : F(s) \in Int
  BY <1>f, SumType
<1>e. F({}) = 0
  BY SumEmpty
<1>r. \A s \in SUBSET S, y \in S : y \in s => F(s) = f[y] + F(s \ {y})
  BY <1>f, SumWithout
<1>z. \A s \in SUBSET S, y \in S :
        /\ Cardinality(s) \in Nat /\ s \ {y} \in SUBSET S
        /\ y \in s => Cardinality(s \ {y}) = Cardinality(s) - 1
  BY Smaller, FS_Subset, FS_CardinalityType
<1> HIDE DEF F
<1>1. B = {}
  <2> SUFFICES ASSUME B # {}  PROVE FALSE
    OBVIOUS
  <2>1. PICK m \in B : \A k \in B : m <= k
    <3>1. B \in SUBSET Nat
      OBVIOUS
    <3> HIDE DEF B
    <3> QED  BY <3>1, LeastNat
  <2>2. PICK s \in SUBSET S : Cardinality(s) = m /\ F(s) \notin Nat
    BY <2>1
  <2>3. PICK y \in s : TRUE
    BY <1>e, <2>2
  <2>4. F(s) = f[y] + F(s \ {y}) /\ F(s \ {y}) \in Int /\ f[y] \in Nat
    BY <1>i, <1>r, <2>3
  <2>5. F(s \ {y}) \notin Nat
    <3> HIDE DEF B
    <3> QED  BY <2>2, <2>4
  <2>6. m \in Nat /\ m - 1 \in Nat /\ s \ {y} \in SUBSET S /\ Cardinality(s \ {y}) = m - 1
    BY <1>z, <2>2, <2>3
  <2>7. m - 1 \in B
    BY <2>5, <2>6
  <2> HIDE DEF B
  <2> QED  BY <2>1, <2>6, <2>7
<1>2. ASSUME NEW s \in SUBSET S  PROVE F(s) \in Nat
  <2>1. Cardinality(s) \in Nat /\ Cardinality(s) \notin B
    <3>1. IsFiniteSet(s)
      BY FS_Subset
    <3> QED  BY <1>1, <3>1, FS_CardinalityType
  <2> QED  BY <2>1
<1>3. ASSUME NEW x \in S  PROVE f[x] <= F(S)
  <2>1. F(S) = f[x] + F(S \ {x})
    BY <1>r
  <2>2. F(S \ {x}) \in Nat /\ F(S) \in Nat /\ f[x] \in Nat
    BY <1>2
  <2> QED  BY <2>1, <2>2
<1> QED
  BY <1>2, <1>3 DEF F

\* A sum of zeros.
LEMMA SumZero ==
  ASSUME NEW f, NEW S, IsFiniteSet(S), \A x \in S : f[x] = 0
  PROVE  SumFunctionOnSet(f, S) = 0
<1> DEFINE h == [s \in SUBSET S |-> 0]
<1>1. Sums(f, S, h)
  <2> DEFINE ch(s) == CHOOSE x \in s : TRUE
  <2>1. \A s \in SUBSET S : s # {} => ch(s) \in s
    OBVIOUS
  <2> HIDE DEF ch
  <2>2. \A s \in SUBSET S : h[s] = IF s = {} THEN 0 ELSE f[ch(s)] + h[s \ {ch(s)}]
    BY <2>1
  <2> QED  BY <2>2 DEF Sums, ch
<1>2. PICK g \in [SUBSET S -> Int] : Sums(f, S, g) /\ SumFunctionOnSet(f, S) = g[S]
  <2>1. Summable(f, S)
    BY DEF Summable
  <2>2. PICK g \in [SUBSET S -> Int] :
               Sums(f, S, g) /\ \A T \in SUBSET S : SumFunctionOnSet(f, T) = g[T]
    BY <2>1, SumSolution, Zenon
  <2> QED  BY <2>2
<1>3. \A s \in SUBSET S : h[s] = g[s]
  BY <1>1, <1>2, SumsAgree
<1> QED
  BY <1>2, <1>3


-----------------------------------------------------------------------------
(* Sums of a whole function *)

SummableFunction(f) == Summable(f, DOMAIN f)

LEMMA SumFunctionType ==
  ASSUME NEW f, SummableFunction(f)
  PROVE  SumFunction(f) \in Int
  BY SumType DEF SumFunction, SummableFunction

\* One value changed.
LEMMA SumFunctionUpdate ==
  ASSUME NEW f, SummableFunction(f), NEW e, DOMAIN e = DOMAIN f,
         NEW x \in DOMAIN f, e[x] \in Int, \A y \in DOMAIN f : y # x => e[y] = f[y]
  PROVE  SumFunction(e) = SumFunction(f) + (e[x] - f[x])
<1>1. \A y \in DOMAIN f \ {x} : e[y] = f[y]
  OBVIOUS
<1>2. SumFunctionOnSet(e, DOMAIN f) = SumFunctionOnSet(f, DOMAIN f) + (e[x] - f[x])
  BY <1>1, SumUpdate DEF SummableFunction
<1> QED
  BY <1>2 DEF SumFunction

\* The same values on the same domain.
LEMMA SumFunctionSame ==
  ASSUME NEW f, SummableFunction(f), NEW e, DOMAIN e = DOMAIN f,
         \A y \in DOMAIN f : e[y] = f[y]
  PROVE  SumFunction(e) = SumFunction(f)
<1>1. SumFunctionOnSet(e, DOMAIN f) = SumFunctionOnSet(f, DOMAIN f)
  BY SumSame DEF SummableFunction
<1> QED
  BY <1>1 DEF SumFunction

\* One argument more.
LEMMA SumFunctionExtend ==
  ASSUME NEW f, SummableFunction(f), NEW x, x \notin DOMAIN f,
         NEW e, DOMAIN e = DOMAIN f \cup {x}, e[x] \in Int, \A y \in DOMAIN f : e[y] = f[y]
  PROVE  SumFunction(e) = SumFunction(f) + e[x]
<1>1. Summable(e, DOMAIN f)
  BY DEF Summable, SummableFunction
<1>2. SumFunctionOnSet(e, DOMAIN f \cup {x}) = SumFunctionOnSet(e, DOMAIN f) + e[x]
  BY <1>1, SumAdd
<1>3. SumFunctionOnSet(e, DOMAIN f) = SumFunctionOnSet(f, DOMAIN f)
  BY SumSame DEF SummableFunction
<1> QED
  BY <1>2, <1>3 DEF SumFunction
=============================================================================
