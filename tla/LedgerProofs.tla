---------------------------- MODULE LedgerProofs ----------------------------
(***************************************************************************)
(* Proofs about Ledger: a theory of sums over finite sets, and what a      *)
(* posting does to the sums of its journals.                               *)
(*                                                                         *)
(* A sum is a fold, so what it is for every set is a matter of induction:  *)
(* SetInduction, in which the claim is the set of the sets it holds for.   *)
(***************************************************************************)
EXTENDS Ledger, FiniteSetTheorems, TLAPS

-----------------------------------------------------------------------------
(* Sums over finite sets *)

\* The element with which the fold goes on.
OneOf(S) == CHOOSE x \in S : TRUE

\* g[s] is the sum of f over s, for every subset s of S.
Sums(f, S, g) ==
    g = [s \in SUBSET S |->
            IF s = {} THEN 0 ELSE f[OneOf(s)] + g[s \ {OneOf(s)}]]

\* A set of natural numbers that is not empty has a least element.
LEMMA LeastNatural ==
    ASSUME NEW N \in SUBSET Nat, N # {}
    PROVE  \E n \in N : \A m \in N : n <= m
  <1> DEFINE Less == OpToRel(<, Nat)
  <1>1. \A m, n \in Nat : <<m, n>> \in Less <=> m < n
    BY DEF OpToRel
  <1>2. PICK n \in N : \A m \in N : <<m, n>> \notin Less
    <2>1. IsWellFoundedOn(Less, Nat)
      BY NatLessThanWellFounded
    <2> HIDE DEF Less
    <2> QED  BY <2>1, WFMin
  <1> HIDE DEF Less
  <1>3. \A m \in N : ~(m < n)
    BY <1>1, <1>2
  <1> QED  BY <1>3

\* What holds for a subset of S whenever it holds for the subsets of that
\* holds for every subset of S.
LEMMA SetInduction ==
    ASSUME NEW S, IsFiniteSet(S), NEW P,
           \A T \in SUBSET S : (\A U \in SUBSET T : U # T => U \in P) => T \in P
    PROVE  SUBSET S \subseteq P
  <1> DEFINE N == {Cardinality(T) : T \in (SUBSET S) \ P}
  <1>1. \A T \in SUBSET S : IsFiniteSet(T) /\ Cardinality(T) \in Nat
    BY FS_Subset, FS_CardinalityType
  <1>2. CASE N # {}
    <2>1. PICK n \in N : \A m \in N : n <= m
      <3>1. N \in SUBSET Nat
        BY <1>1
      <3> HIDE DEF N
      <3> QED  BY <1>2, <3>1, LeastNatural
    <2>2. PICK T \in (SUBSET S) \ P : n = Cardinality(T)
      OBVIOUS
    <2>3. PICK U \in SUBSET T : U # T /\ U \notin P
      BY <2>2
    <2>4. Cardinality(U) < n
      BY <1>1, <2>2, <2>3, FS_Subset
    <2>5. Cardinality(U) \in N /\ Cardinality(U) \in Nat /\ n \in Nat
      BY <1>1, <2>2, <2>3
    <2> HIDE DEF N
    <2> QED  BY <2>1, <2>4, <2>5
  <1>3. CASE N = {}
    BY <1>3
  <1> QED  BY <1>2, <1>3

LEMMA OneOfIsElement ==
    ASSUME NEW S, S # {}
    PROVE  OneOf(S) \in S /\ S \ {OneOf(S)} \in SUBSET S /\ S \ {OneOf(S)} # S
  BY DEF OneOf

LEMMA SumIsFold ==
    ASSUME NEW f, NEW S
    PROVE  SumFunctionOnSet(f, S) = (CHOOSE g : Sums(f, S, g))[S]
  BY DEF SumFunctionOnSet, FoldFunctionOnSet, MapThenFoldSet, Sums, OneOf

LEMMA SumsRestricted ==
    ASSUME NEW f, NEW S, NEW g, Sums(f, S, g), NEW T \in SUBSET S
    PROVE  Sums(f, T, [s \in SUBSET T |-> g[s]])
  <1> DEFINE h == [s \in SUBSET T |-> g[s]]
  <1>1. ASSUME NEW s \in SUBSET T
        PROVE  h[s] = IF s = {} THEN 0 ELSE f[OneOf(s)] + h[s \ {OneOf(s)}]
    <2>1. s \in SUBSET S /\ s \ {OneOf(s)} \in SUBSET T
      OBVIOUS
    <2>2. g[s] = IF s = {} THEN 0 ELSE f[OneOf(s)] + g[s \ {OneOf(s)}]
      BY <2>1 DEF Sums
    <2> QED  BY <2>1, <2>2
  <1>2. h = [s \in SUBSET T |-> IF s = {} THEN 0 ELSE f[OneOf(s)] + h[s \ {OneOf(s)}]]
    BY <1>1, Zenon
  <1> QED  BY <1>2, Zenon DEF Sums

LEMMA SumsAreUnique ==
    ASSUME NEW f, NEW S, IsFiniteSet(S), NEW g, NEW h, Sums(f, S, g), Sums(f, S, h)
    PROVE  g = h
  <1> DEFINE P == {s \in SUBSET S : g[s] = h[s]}
  <1>1. ASSUME NEW s \in SUBSET S, \A t \in SUBSET s : t # s => t \in P
        PROVE  s \in P
    <2>1. /\ g[s] = IF s = {} THEN 0 ELSE f[OneOf(s)] + g[s \ {OneOf(s)}]
          /\ h[s] = IF s = {} THEN 0 ELSE f[OneOf(s)] + h[s \ {OneOf(s)}]
      BY DEF Sums
    <2>2. s # {} => s \ {OneOf(s)} \in P
      BY <1>1, OneOfIsElement
    <2> QED  BY <2>1, <2>2
  <1>2. SUBSET S \subseteq P
    <2> HIDE DEF P
    <2> QED  BY <1>1, SetInduction
  <1>3. \A s \in SUBSET S : g[s] = h[s]
    BY <1>2
  <1>4. /\ g = [s \in SUBSET S |-> g[s]]
        /\ h = [s \in SUBSET S |-> h[s]]
    BY DEF Sums
  <1> QED  BY <1>3, <1>4

\* What is left to show for S once the sums over its parts exist.
LEMMA SumsGrow ==
    ASSUME NEW f, NEW S, IsFiniteSet(S),
           \A T \in SUBSET S : T # S => \E g : Sums(f, T, g)
    PROVE  \E g : Sums(f, S, g)
  <1> DEFINE Of(T) == SumFunctionOnSet(f, T)
             h == [s \in SUBSET S |->
                     IF s = {} THEN 0 ELSE f[OneOf(s)] + Of(s \ {OneOf(s)})]
  <1>1. ASSUME NEW T \in SUBSET S, T # S
        PROVE  Of(T) = h[T]
    <2>1. IsFiniteSet(T)
      BY FS_Subset
    <2> DEFINE g == CHOOSE k : Sums(f, T, k)
    <2>2. Sums(f, T, g)
      BY <1>1
    <2>3. Of(T) = g[T]
      BY SumIsFold
    <2> HIDE DEF g
    <2>4. CASE T = {}
      BY <2>2, <2>3, <2>4 DEF Sums
    <2>5. CASE T # {}
      <3> DEFINE U == T \ {OneOf(T)}
                 k == [s \in SUBSET U |-> g[s]]
                 l == CHOOSE m : Sums(f, U, m)
      <3>1. U \in SUBSET T /\ IsFiniteSet(U)
        BY <2>1, FS_Subset
      <3>2. Sums(f, U, k)
        BY <2>2, <3>1, SumsRestricted
      <3>3. Sums(f, U, l)
        BY <3>2
      <3>4. k = l
        <4> HIDE DEF k, l, U
        <4> QED  BY <3>1, <3>2, <3>3, SumsAreUnique
      <3>5. Of(U) = l[U]
        BY SumIsFold
      <3>6. l[U] = g[U]
        BY <3>4
      <3>7. g[T] = f[OneOf(T)] + g[U]
        BY <2>2, <2>5 DEF Sums
      <3>8. h[T] = f[OneOf(T)] + Of(U)
        BY <2>5
      <3> HIDE DEF h, l, U
      <3> QED  BY <2>3, <3>5, <3>6, <3>7, <3>8
    <2> QED  BY <2>4, <2>5
  <1>2. ASSUME NEW s \in SUBSET S
        PROVE  h[s] = IF s = {} THEN 0 ELSE f[OneOf(s)] + h[s \ {OneOf(s)}]
    <2>1. CASE s = {}
      BY <2>1
    <2>2. CASE s # {}
      <3>2. s \ {OneOf(s)} \in SUBSET S /\ s \ {OneOf(s)} # S
        BY <2>2, OneOfIsElement
      <3>3. h[s] = f[OneOf(s)] + Of(s \ {OneOf(s)})
        BY <2>2
      <3> HIDE DEF h, Of
      <3> QED  BY <1>1, <2>2, <3>2, <3>3
    <2> QED  BY <2>1, <2>2
  <1>3. h = [s \in SUBSET S |-> IF s = {} THEN 0 ELSE f[OneOf(s)] + h[s \ {OneOf(s)}]]
    BY <1>2, Zenon
  <1> QED  BY <1>3, Zenon DEF Sums

LEMMA SumsExist ==
    ASSUME NEW f, NEW S, IsFiniteSet(S)
    PROVE  \E g : Sums(f, S, g)
  <1> DEFINE P == {T \in SUBSET S : \E g : Sums(f, T, g)}
  <1>1. ASSUME NEW T \in SUBSET S, \A U \in SUBSET T : U # T => U \in P
        PROVE  T \in P
    <2>1. IsFiniteSet(T) /\ \A U \in SUBSET T : U # T => \E g : Sums(f, U, g)
      BY <1>1, FS_Subset
    <2> QED  BY <2>1, SumsGrow
  <1>2. SUBSET S \subseteq P
    <2> HIDE DEF P
    <2> QED  BY <1>1, SetInduction
  <1> QED  BY <1>2

LEMMA SumOfNothing ==
    ASSUME NEW f
    PROVE  SumFunctionOnSet(f, {}) = 0
  <1> DEFINE g == CHOOSE k : Sums(f, {}, k)
  <1>1. Sums(f, {}, g)
    BY FS_EmptySet, SumsExist
  <1>2. SumFunctionOnSet(f, {}) = g[{}]
    BY SumIsFold
  <1> HIDE DEF g
  <1> QED  BY <1>1, <1>2 DEF Sums

LEMMA SumUnfolds ==
    ASSUME NEW f, NEW S, IsFiniteSet(S), S # {}
    PROVE  SumFunctionOnSet(f, S)
               = f[OneOf(S)] + SumFunctionOnSet(f, S \ {OneOf(S)})
  <1> DEFINE U == S \ {OneOf(S)}
             g == CHOOSE k : Sums(f, S, k)
             h == [s \in SUBSET U |-> g[s]]
             l == CHOOSE k : Sums(f, U, k)
  <1>1. Sums(f, S, g) /\ IsFiniteSet(U)
    BY SumsExist, FS_Subset
  <1>2. SumFunctionOnSet(f, S) = g[S]
    BY SumIsFold
  <1>3. SumFunctionOnSet(f, U) = l[U]
    BY SumIsFold
  <1>4. Sums(f, U, l)
    BY <1>1, SumsExist
  <1>5. Sums(f, U, h)
    <2> HIDE DEF g
    <2> QED  BY <1>1, SumsRestricted
  <1>6. h = l
    <2> HIDE DEF h, l, U
    <2> QED  BY <1>1, <1>4, <1>5, SumsAreUnique
  <1>7. l[U] = g[U]
    <2> HIDE DEF l, g
    <2> QED  BY <1>6
  <1>8. g[S] = f[OneOf(S)] + g[U]
    <2> HIDE DEF g
    <2> QED  BY <1>1 DEF Sums
  <1> HIDE DEF g, h, l, U
  <1> QED  BY <1>2, <1>3, <1>7, <1>8 DEF U

\* The sum of integers is an integer, of natural numbers a natural number.
LEMMA SumType ==
    ASSUME NEW f, NEW S, IsFiniteSet(S), NEW D, D = Int \/ D = Nat,
           \A x \in S : f[x] \in D
    PROVE  SumFunctionOnSet(f, S) \in D
  <1> DEFINE P == {T \in SUBSET S : SumFunctionOnSet(f, T) \in D}
  <1>1. ASSUME NEW T \in SUBSET S, \A U \in SUBSET T : U # T => U \in P
        PROVE  T \in P
    <2>1. CASE T = {}
      BY <2>1, SumOfNothing
    <2>2. CASE T # {}
      <3>1. f[OneOf(T)] \in D /\ SumFunctionOnSet(f, T \ {OneOf(T)}) \in D
        BY <1>1, <2>2, OneOfIsElement
      <3>2. SumFunctionOnSet(f, T)
                = f[OneOf(T)] + SumFunctionOnSet(f, T \ {OneOf(T)})
        BY <2>2, FS_Subset, SumUnfolds
      <3> QED  BY <3>1, <3>2
    <2> QED  BY <2>1, <2>2
  <1>2. SUBSET S \subseteq P
    <2> HIDE DEF P
    <2> QED  BY <1>1, SetInduction
  <1> QED  BY <1>2

\* The sum does not depend on the order of the elements.
LEMMA SumWithout ==
    ASSUME NEW f, NEW S, IsFiniteSet(S), \A x \in S : f[x] \in Int, NEW y \in S
    PROVE  SumFunctionOnSet(f, S) = f[y] + SumFunctionOnSet(f, S \ {y})
  <1> DEFINE Of(T) == SumFunctionOnSet(f, T)
             P == {T \in SUBSET S : \A x \in T : Of(T) = f[x] + Of(T \ {x})}
  <1>1. ASSUME NEW T \in SUBSET S, \A U \in SUBSET T : U # T => U \in P
        PROVE  T \in P
    <2> SUFFICES ASSUME NEW x \in T
                 PROVE  Of(T) = f[x] + Of(T \ {x})
      OBVIOUS
    <2> DEFINE z == OneOf(T)
    <2>1. Of(T) = f[z] + Of(T \ {z})
      BY FS_Subset, SumUnfolds
    <2>2. CASE x = z
      BY <2>1, <2>2
    <2>3. CASE x # z
      <3>1. z \in T /\ T \ {z} # T /\ T \ {x} # T
        BY OneOfIsElement
      <3>2. T \ {z} \in P /\ T \ {x} \in P
        BY <1>1, <3>1
      <3>3. (T \ {z}) \ {x} = (T \ {x}) \ {z}
        OBVIOUS
      <3> DEFINE rest == Of((T \ {x}) \ {z})
      <3>4. Of(T \ {z}) = f[x] + rest /\ Of(T \ {x}) = f[z] + rest
        <4> HIDE DEF Of, z
        <4> QED  BY <2>3, <3>1, <3>2, <3>3
      <3>5. f[x] \in Int /\ f[z] \in Int /\ rest \in Int
        <4>1. IsFiniteSet((T \ {x}) \ {z})
          BY FS_Subset
        <4> QED  BY <3>1, <4>1, SumType
      <3> HIDE DEF Of, z, rest
      <3> QED  BY <2>1, <3>4, <3>5
    <2> QED  BY <2>2, <2>3
  <1>2. SUBSET S \subseteq P
    <2> HIDE DEF P
    <2> QED  BY <1>1, SetInduction
  <1> QED  BY <1>2

LEMMA SumWith ==
    ASSUME NEW f, NEW S, IsFiniteSet(S), NEW y, y \notin S,
           \A x \in S \cup {y} : f[x] \in Int
    PROVE  SumFunctionOnSet(f, S \cup {y}) = SumFunctionOnSet(f, S) + f[y]
  <1>1. IsFiniteSet(S \cup {y}) /\ (S \cup {y}) \ {y} = S
    BY FS_AddElement
  <1>2. SumFunctionOnSet(f, S \cup {y}) = f[y] + SumFunctionOnSet(f, S)
    BY <1>1, SumWithout
  <1>3. SumFunctionOnSet(f, S) \in Int /\ f[y] \in Int
    BY SumType
  <1> QED  BY <1>2, <1>3

\* A sum depends on the summands only.
LEMMA SumOfSame ==
    ASSUME NEW f, NEW g, NEW S, IsFiniteSet(S), \A x \in S : f[x] = g[x]
    PROVE  SumFunctionOnSet(f, S) = SumFunctionOnSet(g, S)
  <1> DEFINE P == {T \in SUBSET S :
                      SumFunctionOnSet(f, T) = SumFunctionOnSet(g, T)}
  <1>1. ASSUME NEW T \in SUBSET S, \A U \in SUBSET T : U # T => U \in P
        PROVE  T \in P
    <2>1. CASE T = {}
      BY <2>1, SumOfNothing
    <2>2. CASE T # {}
      <3>1. /\ f[OneOf(T)] = g[OneOf(T)]
            /\ SumFunctionOnSet(f, T \ {OneOf(T)})
                   = SumFunctionOnSet(g, T \ {OneOf(T)})
        BY <1>1, <2>2, OneOfIsElement
      <3>2. /\ SumFunctionOnSet(f, T)
                   = f[OneOf(T)] + SumFunctionOnSet(f, T \ {OneOf(T)})
            /\ SumFunctionOnSet(g, T)
                   = g[OneOf(T)] + SumFunctionOnSet(g, T \ {OneOf(T)})
        BY <2>2, FS_Subset, SumUnfolds
      <3> QED  BY <3>1, <3>2
    <2> QED  BY <2>1, <2>2
  <1>2. SUBSET S \subseteq P
    <2> HIDE DEF P
    <2> QED  BY <1>1, SetInduction
  <1> QED  BY <1>2

\* What changes in one summand changes in the sum.
LEMMA SumOfChanged ==
    ASSUME NEW f, NEW g, NEW S, IsFiniteSet(S), NEW y \in S,
           \A x \in S : f[x] \in Int /\ g[x] \in Int,
           \A x \in S \ {y} : f[x] = g[x]
    PROVE  SumFunctionOnSet(g, S) = SumFunctionOnSet(f, S) - f[y] + g[y]
  <1>1. IsFiniteSet(S \ {y})
    BY FS_Subset
  <1>2. SumFunctionOnSet(f, S \ {y}) = SumFunctionOnSet(g, S \ {y})
    BY <1>1, SumOfSame
  <1>3. SumFunctionOnSet(f, S \ {y}) \in Int
    BY <1>1, SumType
  <1>4. /\ SumFunctionOnSet(f, S) = f[y] + SumFunctionOnSet(f, S \ {y})
        /\ SumFunctionOnSet(g, S) = g[y] + SumFunctionOnSet(g, S \ {y})
    BY SumWithout
  <1> QED  BY <1>2, <1>3, <1>4

\* No part of a sum of natural numbers is greater than the sum.
LEMMA SumCovers ==
    ASSUME NEW f, NEW S, IsFiniteSet(S), \A x \in S : f[x] \in Nat, NEW y \in S
    PROVE  /\ SumFunctionOnSet(f, S) \in Nat
           /\ f[y] <= SumFunctionOnSet(f, S)
  <1>1. IsFiniteSet(S \ {y})
    BY FS_Subset
  <1>2. SumFunctionOnSet(f, S \ {y}) \in Nat /\ SumFunctionOnSet(f, S) \in Nat
    BY <1>1, SumType
  <1>3. SumFunctionOnSet(f, S) = f[y] + SumFunctionOnSet(f, S \ {y})
    BY SumWithout
  <1> QED  BY <1>2, <1>3

\* Only what is not zero counts.
LEMMA SumOfZeros ==
    ASSUME NEW f, NEW S, IsFiniteSet(S), \A x \in S : f[x] = 0
    PROVE  SumFunctionOnSet(f, S) = 0
  <1> DEFINE P == {T \in SUBSET S : SumFunctionOnSet(f, T) = 0}
  <1>1. ASSUME NEW T \in SUBSET S, \A U \in SUBSET T : U # T => U \in P
        PROVE  T \in P
    <2>1. CASE T = {}
      BY <2>1, SumOfNothing
    <2>2. CASE T # {}
      <3>1. f[OneOf(T)] = 0 /\ SumFunctionOnSet(f, T \ {OneOf(T)}) = 0
        BY <1>1, <2>2, OneOfIsElement
      <3>2. SumFunctionOnSet(f, T)
                = f[OneOf(T)] + SumFunctionOnSet(f, T \ {OneOf(T)})
        BY <2>2, FS_Subset, SumUnfolds
      <3> QED  BY <3>1, <3>2
    <2> QED  BY <2>1, <2>2
  <1>2. SUBSET S \subseteq P
    <2> HIDE DEF P
    <2> QED  BY <1>1, SetInduction
  <1> QED  BY <1>2

\* The summands may be named by other things.
LEMMA SumRenamed ==
    ASSUME NEW S, IsFiniteSet(S), NEW f, NEW g, NEW T,
           NEW e \in [S -> T], \A x, y \in S : e[x] = e[y] => x = y,
           \A t \in T : \E x \in S : t = e[x],
           \A x \in S : f[x] \in Int /\ g[e[x]] = f[x]
    PROVE  SumFunctionOnSet(g, T) = SumFunctionOnSet(f, S) /\ IsFiniteSet(T)
  <1> DEFINE Image(U) == {e[x] : x \in U}
             P == {U \in SUBSET S : /\ IsFiniteSet(Image(U))
                                    /\ SumFunctionOnSet(g, Image(U))
                                           = SumFunctionOnSet(f, U)}
  <1>1. ASSUME NEW U \in SUBSET S, \A V \in SUBSET U : V # U => V \in P
        PROVE  U \in P
    <2>1. CASE U = {}
      <3>1. Image(U) = {}
        BY <2>1
      <3> QED  BY <2>1, <3>1, SumOfNothing, FS_EmptySet
    <2>2. CASE U # {}
      <3> DEFINE z == OneOf(U)
                 V == U \ {z}
      <3>1. z \in U /\ z \notin V /\ V \in P /\ U = V \cup {z}
        BY <1>1, <2>2, OneOfIsElement
      <3>2. Image(U) = Image(V) \cup {e[z]} /\ e[z] \notin Image(V)
        BY <3>1
      <3>3. IsFiniteSet(Image(V)) /\ IsFiniteSet(V)
        BY <3>1, FS_Subset
      <3>4. IsFiniteSet(Image(U))
        <4> HIDE DEF Image, z, V
        <4> QED  BY <3>2, <3>3, FS_AddElement
      <3>5. \A t \in Image(V) \cup {e[z]} : g[t] \in Int
        BY <3>1
      <3>6. SumFunctionOnSet(g, Image(U))
                = SumFunctionOnSet(g, Image(V)) + g[e[z]]
        <4> HIDE DEF Image, z, V
        <4> QED  BY <3>2, <3>3, <3>5, SumWith
      <3>7. SumFunctionOnSet(f, U) = SumFunctionOnSet(f, V) + f[z]
        <4>1. \A x \in V \cup {z} : f[x] \in Int
          BY <3>1
        <4> HIDE DEF z, V
        <4> QED  BY <3>1, <3>3, <4>1, SumWith
      <3>8. SumFunctionOnSet(g, Image(V)) = SumFunctionOnSet(f, V)
        BY <3>1
      <3>9. g[e[z]] = f[z]
        BY <3>1
      <3> HIDE DEF Image, z, V
      <3>10. SumFunctionOnSet(g, Image(U)) = SumFunctionOnSet(f, U)
        BY <3>6, <3>7, <3>8, <3>9
      <3> QED  BY <3>4, <3>10
    <2> QED  BY <2>1, <2>2
  <1>2. SUBSET S \subseteq P
    <2> HIDE DEF P
    <2> QED  BY <1>1, SetInduction
  <1>3. T = Image(S)
    OBVIOUS
  <1>4. S \in P
    BY <1>2
  <1> HIDE DEF Image
  <1> QED  BY <1>3, <1>4

-----------------------------------------------------------------------------
(* Postings *)

LEMMA AccountsApart ==
    ASSUME NEW h, NEW k
    PROVE  /\ AvailableOf(h) # Omnibus /\ ReservedOf(h) # Omnibus
           /\ AvailableOf(h) # ReservedOf(k)
           /\ AvailableOf(h) = AvailableOf(k) <=> h = k
           /\ ReservedOf(h) = ReservedOf(k) <=> h = k
  BY DEF AvailableOf, ReservedOf, Omnibus

LEMMA AccountsOfHolder ==
    ASSUME NEW h
    PROVE  /\ AvailableOf(h) \in Account <=> h \in Holder
           /\ ReservedOf(h) \in Account <=> h \in Holder
           /\ Omnibus \in Account
  BY DEF AvailableOf, ReservedOf, Omnibus, Account

LEMMA AccountKinds ==
    ASSUME NEW a \in Account
    PROVE  a = Omnibus \/ \E h \in Holder : a = AvailableOf(h) \/ a = ReservedOf(h)
  BY DEF AvailableOf, ReservedOf, Omnibus, Account

\* A debit takes from a customer and gives to the omnibus, a credit the other
\* way round.
LEMMA Signs ==
    ASSUME NEW amount \in Nat, NEW a
    PROVE  /\ Signed(a, "DEBIT", amount) = IF a = Omnibus THEN amount ELSE -amount
           /\ Signed(a, "CREDIT", amount) = IF a = Omnibus THEN -amount ELSE amount
  BY DEF Signed, Increases, AccountClass

LEMMA EntriesType ==
    ASSUME NEW j \in Journal, NEW a
    PROVE  Entries(a, j) \in Int
  <1>1. j.amount \in Nat
    BY DEF Journal
  <1> QED  BY <1>1, Signs DEF Entries

LEMMA PostedBalance ==
    ASSUME NEW debit \in Account, NEW credit \in Account, debit # credit,
           NEW amount \in Nat, balance \in [Account -> Int], NEW a \in Account
    PROVE  /\ Posted(debit, credit, amount) \in [Account -> Int]
           /\ Posted(debit, credit, amount)[a] =
                  balance[a] + (IF a = debit THEN Signed(a, "DEBIT", amount) ELSE 0)
                             + (IF a = credit THEN Signed(a, "CREDIT", amount) ELSE 0)
  <1>1. /\ Signed(debit, "DEBIT", amount) \in Int
        /\ Signed(credit, "CREDIT", amount) \in Int
    BY Signs
  <1>2. balance[a] \in Int
    OBVIOUS
  <1> QED  BY <1>1, <1>2 DEF Posted, ApplyPosting

\* The ledger is of its type, finite, and as assert_ledger_invariants wants it.
LedgerOK == LedgerTypeOK /\ IsFiniteSet(journals) /\ LedgerInvariants

LEMMA ExpectedGrows ==
    ASSUME LedgerOK, NEW j \in Journal, j \notin journals,
           journals' = journals \cup {j}, NEW a
    PROVE  Expected(a)' = Expected(a) + Entries(a, j)
  <1> DEFINE f == [k \in journals |-> Entries(a, k)]
             g == [k \in journals \cup {j} |-> Entries(a, k)]
  <1>1. Expected(a) = SumFunctionOnSet(f, journals)
    BY DEF Expected, SumFunction
  <1>2. Expected(a)' = SumFunctionOnSet(g, journals \cup {j})
    BY DEF Expected, SumFunction
  <1>3. \A k \in journals \cup {j} : g[k] \in Int
    BY EntriesType DEF LedgerOK, LedgerTypeOK
  <1>4. SumFunctionOnSet(g, journals \cup {j})
            = SumFunctionOnSet(g, journals) + g[j]
    <2> HIDE DEF g
    <2> QED  BY <1>3, SumWith DEF LedgerOK
  <1>5. SumFunctionOnSet(g, journals) = SumFunctionOnSet(f, journals)
    <2>1. \A k \in journals : g[k] = f[k]
      OBVIOUS
    <2> HIDE DEF f, g
    <2> QED  BY <2>1, SumOfSame DEF LedgerOK
  <1>6. g[j] = Entries(a, j)
    OBVIOUS
  <1> HIDE DEF f, g
  <1> QED  BY <1>1, <1>2, <1>4, <1>5, <1>6

LEMMA PostKeepsLedger ==
    ASSUME LedgerOK, NEW s \in Request, NEW event \in JournalEvent,
           NEW debit, NEW credit, debit # credit, NEW amount \in Nat,
           Postable(s, event, debit, credit, amount),
           Post(s, event, debit, credit, amount)
    PROVE  LedgerOK'
  <1> DEFINE j == [settlement |-> s, event |-> event, debit |-> debit,
                   credit |-> credit, amount |-> amount]
  <1>1. debit \in Account /\ credit \in Account /\ ~IsPosted(s, event)
    BY DEF Postable
  <1>2. j \in Journal /\ j \notin journals
    BY <1>1 DEF Journal, IsPosted
  <1>3. journals' = journals \cup {j} /\ balance' = Posted(debit, credit, amount)
    BY DEF Post
  <1>4. balance \in [Account -> Int] /\ journals \subseteq Journal
    BY DEF LedgerOK, LedgerTypeOK
  <1>5. j.debit = debit /\ j.credit = credit /\ j.amount = amount
    OBVIOUS
  <1> HIDE DEF j
  <1>6. balance' \in [Account -> Int]
    BY <1>1, <1>3, <1>4, PostedBalance
  <1>7. LedgerTypeOK' /\ IsFiniteSet(journals')
    BY <1>2, <1>3, <1>4, <1>6, FS_AddElement DEF LedgerOK, LedgerTypeOK
  <1>8. ASSUME NEW a \in Account
        PROVE  balance'[a] >= 0 /\ balance'[a] = Expected(a)'
    <2>1. balance'[a] = balance[a] + Entries(a, j)
      <3>1. /\ Signed(a, "DEBIT", amount) \in Int
            /\ Signed(a, "CREDIT", amount) \in Int
            /\ balance[a] \in Int
        BY <1>4, Signs
      <3>2. balance'[a] =
                  balance[a] + (IF a = debit THEN Signed(a, "DEBIT", amount) ELSE 0)
                             + (IF a = credit THEN Signed(a, "CREDIT", amount) ELSE 0)
        BY <1>1, <1>3, <1>4, PostedBalance
      <3>3. Entries(a, j) =
                  (IF a = debit THEN Signed(a, "DEBIT", amount) ELSE 0)
                + (IF a = credit THEN Signed(a, "CREDIT", amount) ELSE 0)
        BY <1>5 DEF Entries
      <3> QED  BY <3>1, <3>2, <3>3
    <2>2. balance[a] = Expected(a) /\ balance[a] >= 0
      BY DEF LedgerOK, LedgerInvariants
    <2>3. Expected(a)' = Expected(a) + Entries(a, j)
      BY <1>2, <1>3, ExpectedGrows
    <2>4. CASE a \in {debit, credit}
      BY <1>3, <2>1, <2>2, <2>3, <2>4 DEF Postable
    <2>5. CASE a \notin {debit, credit}
      <3>1. Entries(a, j) = 0
        BY <1>5, <2>5 DEF Entries
      <3> QED  BY <1>4, <2>1, <2>2, <2>3, <3>1
    <2> QED  BY <2>4, <2>5
  <1> QED  BY <1>7, <1>8 DEF LedgerOK, LedgerInvariants

\* What a balance becomes, by the role of its account.
LEMMA PostedByRole ==
    ASSUME balance \in [Account -> Int], NEW debit \in Account,
           NEW credit \in Account, debit # credit, NEW amount \in Nat,
           NEW a \in Account
    PROVE  Posted(debit, credit, amount)[a] =
               CASE a = debit -> IF a = Omnibus THEN balance[a] + amount
                                                ELSE balance[a] - amount
                 [] a = credit -> IF a = Omnibus THEN balance[a] - amount
                                                 ELSE balance[a] + amount
                 [] OTHER -> balance[a]
  <1>1. balance[a] \in Int
    OBVIOUS
  <1>2. Posted(debit, credit, amount)[a] =
            balance[a] + (IF a = debit THEN Signed(a, "DEBIT", amount) ELSE 0)
                       + (IF a = credit THEN Signed(a, "CREDIT", amount) ELSE 0)
    BY PostedBalance
  <1> QED  BY <1>1, <1>2, Signs

LEMMA PostChanges ==
    ASSUME LedgerTypeOK, NEW debit \in Account, NEW credit \in Account,
           debit # credit, NEW amount \in Nat, NEW s, NEW event,
           Post(s, event, debit, credit, amount), NEW a \in Account
    PROVE  balance'[a] =
               CASE a = debit -> IF a = Omnibus THEN balance[a] + amount
                                                ELSE balance[a] - amount
                 [] a = credit -> IF a = Omnibus THEN balance[a] - amount
                                                 ELSE balance[a] + amount
                 [] OTHER -> balance[a]
  BY PostedByRole DEF LedgerTypeOK, Post

-----------------------------------------------------------------------------
(* The opening *)

LEMMA OpeningJournalsApart ==
    /\ \A h \in Holder : OpeningJournal(h) \in Journal
    /\ \A h, k \in Holder : OpeningJournal(h) = OpeningJournal(k) => h = k
  <1>1. ASSUME NEW h \in Holder
        PROVE  OpeningJournal(h) \in Journal
    BY SchemaAssumption, AccountsOfHolder DEF OpeningJournal, Journal, JournalEvent
  <1>2. ASSUME NEW h \in Holder, NEW k \in Holder,
               OpeningJournal(h) = OpeningJournal(k)
        PROVE  h = k
    <2>1. OpeningJournal(h).credit = AvailableOf(h)
          /\ OpeningJournal(k).credit = AvailableOf(k)
      BY DEF OpeningJournal
    <2> QED  BY <1>2, <2>1, AccountsApart
  <1> QED  BY <1>1, <1>2

LEMMA OpeningEntries ==
    ASSUME NEW h \in Holder, NEW a
    PROVE  Entries(a, OpeningJournal(h)) =
               IF a = Omnibus \/ a = AvailableOf(h) THEN Opening[h] ELSE 0
  <1>1. Opening[h] \in Nat
    BY SchemaAssumption
  <1>2. /\ OpeningJournal(h).debit = Omnibus
        /\ OpeningJournal(h).credit = AvailableOf(h)
        /\ OpeningJournal(h).amount = Opening[h]
    BY DEF OpeningJournal
  <1> QED  BY <1>1, <1>2, Signs, AccountsApart DEF Entries

LEMMA OpeningExpected ==
    ASSUME LedgerInit, NEW a
    PROVE  /\ IsFiniteSet(journals)
           /\ Expected(a) = SumFunctionOnSet(
                  [h \in Holder |-> Entries(a, OpeningJournal(h))], Holder)
  <1> DEFINE e == [h \in Holder |-> OpeningJournal(h)]
             f == [h \in Holder |-> Entries(a, OpeningJournal(h))]
             g == [j \in journals |-> Entries(a, j)]
  <1>1. journals = {OpeningJournal(h) : h \in Holder}
    BY DEF LedgerInit
  <1>2. e \in [Holder -> journals]
    BY <1>1
  <1>3. \A x, y \in Holder : e[x] = e[y] => x = y
    BY OpeningJournalsApart
  <1>4. \A j \in journals : \E h \in Holder : j = e[h]
    BY <1>1
  <1>5. \A h \in Holder : f[h] \in Int /\ g[e[h]] = f[h]
    BY <1>1, OpeningJournalsApart, EntriesType
  <1>6. Expected(a) = SumFunctionOnSet(g, journals)
    BY DEF Expected, SumFunction
  <1> HIDE DEF e, f, g
  <1>7. SumFunctionOnSet(g, journals) = SumFunctionOnSet(f, Holder)
        /\ IsFiniteSet(journals)
    BY <1>2, <1>3, <1>4, <1>5, LedgerAssumption, SumRenamed
  <1> QED  BY <1>6, <1>7 DEF f

\* A sum with a single summand that is not zero.
LEMMA SumOfOne ==
    ASSUME NEW f, NEW S, IsFiniteSet(S), NEW y \in S, f[y] \in Int,
           \A x \in S \ {y} : f[x] = 0
    PROVE  SumFunctionOnSet(f, S) = f[y]
  <1>1. SumFunctionOnSet(f, S \ {y}) = 0
    BY FS_Subset, SumOfZeros
  <1>2. SumFunctionOnSet(f, S) = f[y] + SumFunctionOnSet(f, S \ {y})
    BY SumWithout
  <1> QED  BY <1>1, <1>2

LEMMA LedgerInitOK == LedgerInit => LedgerOK
  <1> SUFFICES ASSUME LedgerInit
               PROVE  LedgerOK
    OBVIOUS
  <1>1. IsFiniteSet(journals)
    BY OpeningExpected
  <1>2. \A a \in Account : balance[a] =
            IF a = Omnibus THEN OmnibusOpening
            ELSE IF a[2] = "AVAILABLE" THEN Opening[a[1]] ELSE 0
    BY DEF LedgerInit
  <1>3. ASSUME NEW a \in Account
        PROVE  balance[a] \in Nat /\ balance[a] = Expected(a)
    <2> DEFINE f == [h \in Holder |-> Entries(a, OpeningJournal(h))]
    <2>1. Expected(a) = SumFunctionOnSet(f, Holder)
      BY OpeningExpected
    <2>2. IsFiniteSet(Holder)
      BY LedgerAssumption
    <2>3. CASE a = Omnibus
      <3>1. \A h \in Holder : f[h] = Opening[h]
        BY <2>3, OpeningEntries
      <3>2. SumFunctionOnSet(f, Holder) = SumFunctionOnSet(Opening, Holder)
        <4> HIDE DEF f
        <4> QED  BY <2>2, <3>1, SumOfSame
      <3>3. DOMAIN Opening = Holder
        BY SchemaAssumption
      <3>4. OmnibusOpening = SumFunctionOnSet(Opening, Holder)
        BY <3>3, LedgerAssumption DEF SumFunction
      <3> HIDE DEF f
      <3> QED  BY <1>2, <2>1, <2>3, <3>2, <3>4, LedgerAssumption
    <2>4. ASSUME NEW k \in Holder, a = AvailableOf(k)
          PROVE  balance[a] \in Nat /\ balance[a] = Expected(a)
      <3>1. f[k] = Opening[k] /\ \A h \in Holder \ {k} : f[h] = 0
        BY <2>4, OpeningEntries, AccountsApart
      <3>2. Opening[k] \in Nat
        BY SchemaAssumption
      <3>3. SumFunctionOnSet(f, Holder) = Opening[k]
        <4> HIDE DEF f
        <4> QED  BY <2>2, <3>1, <3>2, SumOfOne
      <3>4. balance[a] = Opening[k]
        BY <1>2, <2>4, AccountsApart DEF AvailableOf
      <3> HIDE DEF f
      <3> QED  BY <2>1, <3>2, <3>3, <3>4
    <2>5. ASSUME NEW k \in Holder, a = ReservedOf(k)
          PROVE  balance[a] \in Nat /\ balance[a] = Expected(a)
      <3>1. \A h \in Holder : f[h] = 0
        BY <2>5, OpeningEntries, AccountsApart
      <3>2. SumFunctionOnSet(f, Holder) = 0
        <4> HIDE DEF f
        <4> QED  BY <2>2, <3>1, SumOfZeros
      <3>3. balance[a] = 0
        BY <1>2, <2>5, AccountsApart DEF ReservedOf
      <3> HIDE DEF f
      <3> QED  BY <2>1, <3>2, <3>3
    <2> QED  BY <2>3, <2>4, <2>5, AccountKinds
  <1>4. balance \in [Account -> Int]
    <2>1. balance = [a \in Account |-> balance[a]]
      BY DEF LedgerInit
    <2> QED  BY <1>3, <2>1
  <1>5. journals \subseteq Journal
    BY OpeningJournalsApart DEF LedgerInit
  <1> QED  BY <1>1, <1>3, <1>4, <1>5 DEF LedgerOK, LedgerTypeOK, LedgerInvariants

-----------------------------------------------------------------------------
(* Assets and liabilities *)

\* What the ledger owes a customer.
Custody(h) == balance[AvailableOf(h)] + balance[ReservedOf(h)]

\* The omnibus holds what the ledger owes its customers.
BooksBalance ==
    balance[Omnibus] = SumFunctionOnSet([h \in Holder |-> Custody(h)], Holder)

LEMMA CustodyType ==
    ASSUME LedgerTypeOK, NEW h \in Holder
    PROVE  Custody(h) \in Int
  BY AccountsOfHolder DEF Custody, LedgerTypeOK

\* The sum of what is owed changes by what changes for one customer.
LEMMA CustodyOfOne ==
    ASSUME LedgerTypeOK, LedgerTypeOK', BooksBalance, NEW h \in Holder,
           \A k \in Holder \ {h} : Custody(k)' = Custody(k),
           balance'[Omnibus] - balance[Omnibus] = Custody(h)' - Custody(h)
    PROVE  BooksBalance'
  <1> DEFINE f == [k \in Holder |-> Custody(k)]
             g == [k \in Holder |-> Custody(k)']
  <1>1. /\ \A k \in Holder : f[k] \in Int /\ g[k] \in Int
        /\ \A k \in Holder \ {h} : f[k] = g[k]
        /\ f[h] = Custody(h) /\ g[h] = Custody(h)'
    BY CustodyType, AccountsOfHolder DEF LedgerTypeOK, Custody
  <1>2. balance[Omnibus] \in Int /\ balance'[Omnibus] \in Int
    BY AccountsOfHolder DEF LedgerTypeOK
  <1>3. balance[Omnibus] = SumFunctionOnSet(f, Holder)
    BY DEF BooksBalance
  <1> HIDE DEF f, g
  <1>4. SumFunctionOnSet(g, Holder) = SumFunctionOnSet(f, Holder) - f[h] + g[h]
    BY <1>1, LedgerAssumption, SumOfChanged
  <1>5. balance'[Omnibus] = SumFunctionOnSet(g, Holder)
    BY <1>1, <1>2, <1>3, <1>4
  <1> QED  BY <1>5 DEF g, BooksBalance

\* A hold and its release move money between the accounts of one customer, a
\* payout takes it from a customer and from the omnibus.
LEMMA PostKeepsBalance ==
    ASSUME LedgerTypeOK, LedgerTypeOK', BooksBalance, NEW h \in Holder,
           NEW debit, NEW credit, NEW amount \in Nat, NEW s, NEW event,
           \/ debit = AvailableOf(h) /\ credit = ReservedOf(h)
           \/ debit = ReservedOf(h) /\ credit \in {AvailableOf(h), Omnibus},
           Post(s, event, debit, credit, amount)
    PROVE  BooksBalance'
  <1>1. debit \in Account /\ credit \in Account /\ debit # credit
    BY AccountsOfHolder, AccountsApart
  <1>2. \A a \in Account :
            /\ balance[a] \in Int
            /\ balance'[a] =
               CASE a = debit -> IF a = Omnibus THEN balance[a] + amount
                                                ELSE balance[a] - amount
                 [] a = credit -> IF a = Omnibus THEN balance[a] - amount
                                                 ELSE balance[a] + amount
                 [] OTHER -> balance[a]
    BY <1>1, PostChanges DEF LedgerTypeOK
  <1>3. ASSUME NEW k \in Holder \ {h}
        PROVE  Custody(k)' = Custody(k)
    BY <1>2, AccountsOfHolder, AccountsApart DEF Custody
  <1>4. balance'[Omnibus] - balance[Omnibus] = Custody(h)' - Custody(h)
    BY <1>2, AccountsOfHolder, AccountsApart DEF Custody
  <1> QED  BY <1>3, <1>4, CustodyOfOne

LEMMA OpeningBalances == LedgerInit => BooksBalance
  <1> SUFFICES ASSUME LedgerInit
               PROVE  BooksBalance
    OBVIOUS
  <1> DEFINE f == [h \in Holder |-> Custody(h)]
  <1>1. ASSUME NEW h \in Holder
        PROVE  f[h] = Opening[h]
    <2>1. balance[AvailableOf(h)] = Opening[h] /\ balance[ReservedOf(h)] = 0
      BY AccountsOfHolder, AccountsApart DEF LedgerInit, AvailableOf, ReservedOf
    <2>2. Opening[h] \in Nat
      BY SchemaAssumption
    <2> QED  BY <2>1, <2>2 DEF Custody
  <1>2. SumFunctionOnSet(f, Holder) = SumFunctionOnSet(Opening, Holder)
    <2> HIDE DEF f
    <2> QED  BY <1>1, LedgerAssumption, SumOfSame
  <1>3. balance[Omnibus] = OmnibusOpening
    BY AccountsOfHolder DEF LedgerInit
  <1>4. OmnibusOpening = SumFunctionOnSet(Opening, Holder)
    <2>1. DOMAIN Opening = Holder
      BY SchemaAssumption
    <2> QED  BY <2>1, LedgerAssumption DEF SumFunction
  <1> QED  BY <1>2, <1>3, <1>4 DEF BooksBalance

\* The omnibus holds enough for any payout from a hold.
LEMMA OmnibusCovers ==
    ASSUME LedgerOK, BooksBalance, NEW h \in Holder
    PROVE  balance[ReservedOf(h)] <= balance[Omnibus]
  <1> DEFINE f == [k \in Holder |-> Custody(k)]
  <1>1. \A k \in Holder : /\ balance[AvailableOf(k)] \in Nat
                          /\ balance[ReservedOf(k)] \in Nat
    BY AccountsOfHolder DEF LedgerOK, LedgerTypeOK, LedgerInvariants
  <1>2. \A k \in Holder : f[k] \in Nat
    BY <1>1 DEF Custody
  <1>3. f[h] = balance[AvailableOf(h)] + balance[ReservedOf(h)]
    BY DEF Custody
  <1>4. f[h] <= SumFunctionOnSet(f, Holder) /\ SumFunctionOnSet(f, Holder) \in Nat
    <2> HIDE DEF f
    <2> QED  BY <1>2, LedgerAssumption, SumCovers
  <1>5. balance[Omnibus] = SumFunctionOnSet(f, Holder)
    BY DEF BooksBalance
  <1> HIDE DEF f
  <1> QED  BY <1>1, <1>3, <1>4, <1>5
=============================================================================
