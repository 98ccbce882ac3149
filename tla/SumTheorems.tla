---------------------------- MODULE SumTheorems ----------------------------
(***************************************************************************)
(* Sums over finite sets, as SumFunctionOnSet of module Functions defines  *)
(* them: the sum of the values of a function on a set, taken apart in      *)
(* whatever order CHOOSE picks.  The lemmas say that the sum exists, that  *)
(* it has the type of its terms, and that any element may be taken out     *)
(* first.                                                                  *)
(*                                                                         *)
(* The induction they need is stated about sets instead of predicates: a   *)
(* set of numbers, or a family of subsets, that is closed under the step   *)
(* is everything.  Both follow from the well-foundedness of < on Nat.      *)
(***************************************************************************)
EXTENDS Functions, FiniteSetTheorems, TLAPS

-----------------------------------------------------------------------------
(* Induction. *)

\* The order of the natural numbers has no infinite descent.
LEMMA NatLessWellFounded ==
  IsWellFoundedOn({ss \in Nat \X Nat : ss[1] < ss[2]}, Nat)
  BY Zenon, NatLessThanWellFounded DEF OpToRel

\* A set of natural numbers has a least element.
LEMMA NatLeast ==
  ASSUME NEW T \in SUBSET Nat, T # {}
  PROVE  \E m \in T : \A n \in T : m <= n
  <1>1. PICK m \in T :
           \A n \in T : ~(<<n, m>> \in {ss \in Nat \X Nat : ss[1] < ss[2]})
    BY WFMin, NatLessWellFounded
  <1>2. ASSUME NEW n \in T PROVE m <= n
    <2>1. <<n, m>> \in Nat \X Nat /\ m \in Nat /\ n \in Nat
      OBVIOUS
    <2>2. ~(n < m)
      BY <1>1, <2>1
    <2> QED
      BY <2>1, <2>2
  <1> QED
    BY <1>2

\* Induction: a set with 0 and the successors of its members is Nat.
LEMMA NatSetInduction ==
  ASSUME NEW T \in SUBSET Nat, 0 \in T, \A n \in T : n + 1 \in T
  PROVE  T = Nat
  <1>1. SUFFICES ASSUME Nat \ T # {} PROVE FALSE
    OBVIOUS
  <1>2. PICK m \in Nat \ T : \A n \in Nat \ T : m <= n
    BY <1>1, NatLeast
  <1>3. m - 1 \in T
    BY <1>2
  <1> QED
    BY <1>2, <1>3

\* Induction on the subsets of a finite set: a family that has every set all of
\* whose proper subsets it has, has every subset.
LEMMA FiniteSetInduction ==
  ASSUME NEW S, IsFiniteSet(S), NEW U,
         \A T \in SUBSET S : (\A R \in SUBSET T : R # T => R \in U) => T \in U
  PROVE  SUBSET S \subseteq U
  <1> DEFINE I == {n \in Nat : \E T \in (SUBSET S) \ U : Cardinality(T) = n}
  <1>1. \A T \in SUBSET S : IsFiniteSet(T) /\ Cardinality(T) \in Nat
    BY FS_Subset, FS_CardinalityType
  <1>2. SUFFICES ASSUME NEW T \in (SUBSET S) \ U PROVE FALSE
    OBVIOUS
  <1>3. Cardinality(T) \in I
    BY <1>1
  <1>4. PICK m \in I : \A n \in I : m <= n
    <2> HIDE DEF I
    <2>1. I \in SUBSET Nat
      BY DEF I
    <2> QED
      BY <2>1, <1>3, NatLeast
  <1>5. PICK M \in (SUBSET S) \ U : Cardinality(M) = m
    OBVIOUS
  <1>6. ASSUME NEW R \in SUBSET M, R # M
        PROVE  R \in U
    <2>1. Cardinality(R) <= Cardinality(M) /\ Cardinality(R) # Cardinality(M)
      BY <1>1, <1>6, FS_Subset
    <2>2. Cardinality(R) \notin I
      BY <2>1, <1>1, <1>4, <1>5
    <2> QED
      BY <2>2, <1>1
  <1> QED
    BY <1>5, <1>6

-----------------------------------------------------------------------------
(* Sums. *)

\* The element that a sum over s takes out first.
Chosen(s) == CHOOSE x \in s : TRUE

\* F has the sum of fun over each member of D, a family of sets that has with
\* each set what remains of it without its chosen element.
Sums(F, fun, D) ==
  F = [s \in D |-> IF s = {} THEN 0 ELSE fun[Chosen(s)] + F[s \ {Chosen(s)}]]

\* SumFunctionOnSet in terms of Sums.
LEMMA SumUnfold ==
  ASSUME NEW fun, NEW S
  PROVE  SumFunctionOnSet(fun, S) = (CHOOSE F : Sums(F, fun, SUBSET S))[S]
  BY DEF SumFunctionOnSet, FoldFunctionOnSet, MapThenFoldSet, Sums, Chosen

\* There are such partial sums over the subsets of a finite set: those of at most
\* n + 1 elements extend those of at most n.
LEMMA SumsExist ==
  ASSUME NEW fun, NEW S, IsFiniteSet(S)
  PROVE  \E F : Sums(F, fun, SUBSET S)
  <1> DEFINE D(n) == {s \in SUBSET S : Cardinality(s) <= n}
             I == {n \in Nat : \E F : Sums(F, fun, D(n))}
  <1>1. \A s \in SUBSET S : IsFiniteSet(s) /\ Cardinality(s) \in Nat
    BY FS_Subset, FS_CardinalityType
  <1>2. 0 \in I
    <2>1. D(0) = {{}}
      BY <1>1, FS_EmptySet
    <2>2. Sums([s \in D(0) |-> 0], fun, D(0))
      BY <2>1 DEF Sums
    <2> QED
      BY <2>2
  <1>3. ASSUME NEW n \in I PROVE n + 1 \in I
    <2>1. PICK F : Sums(F, fun, D(n))
      OBVIOUS
    <2> DEFINE Term(H, s) == IF s = {} THEN 0 ELSE fun[Chosen(s)] + H[s \ {Chosen(s)}]
               G == [s \in D(n + 1) |-> Term(F, s)]
    <2>2. D(n) \subseteq D(n + 1)
      BY <1>1
    <2>3. \A s \in D(n) : F[s] = G[s]
      BY <2>1, <2>2 DEF Sums
    <2>4. ASSUME NEW s \in D(n + 1), s # {}
          PROVE  s \ {Chosen(s)} \in D(n)
      <3>1. Chosen(s) \in s
        BY <2>4 DEF Chosen
      <3>2. Cardinality(s \ {Chosen(s)}) = Cardinality(s) - 1
        BY <3>1, <1>1, FS_RemoveElement
      <3> QED
        BY <3>2, <1>1
    <2>5. \A s \in D(n + 1) : Term(F, s) = Term(G, s)
      <3> HIDE DEF D, G
      <3> QED
        BY <2>4, <2>3
    <2>6. Sums(G, fun, D(n + 1))
      BY <2>5, Zenon DEF Sums
    <2>7. \E H : Sums(H, fun, D(n + 1))
      <3> HIDE DEF D, G
      <3> QED
        BY <2>6
    <2>8. n + 1 \in Nat
      OBVIOUS
    <2> HIDE DEF D
    <2> QED
      BY <2>7, <2>8
  <1>4. I = Nat
    <2> HIDE DEF I
    <2>1. I \in SUBSET Nat
      BY DEF I
    <2> QED
      BY <2>1, <1>2, <1>3, NatSetInduction
  <1>5. D(Cardinality(S)) = SUBSET S
    BY <1>1, FS_Subset
  <1>6. Cardinality(S) \in I
    BY <1>1, <1>4
  <1> QED
    BY <1>5, <1>6

\* The partial sums over the subsets of a set and of a part of it agree on the part.
LEMMA SumOfPart ==
  ASSUME NEW fun, NEW S, IsFiniteSet(S), NEW R \in SUBSET S
  PROVE  \A F, G : Sums(F, fun, SUBSET S) /\ Sums(G, fun, SUBSET R) => F[R] = G[R]
  <1> SUFFICES ASSUME NEW F, Sums(F, fun, SUBSET S), NEW G, Sums(G, fun, SUBSET R)
               PROVE  F[R] = G[R]
    OBVIOUS
  <1> DEFINE U == {T \in SUBSET R : F[T] = G[T]}
  <1>1. ASSUME NEW T \in SUBSET R, \A Q \in SUBSET T : Q # T => Q \in U
        PROVE  T \in U
    <2>1. CASE T = {}
      BY <2>1 DEF Sums
    <2>2. CASE T # {}
      <3>1. Chosen(T) \in T
        BY <2>2 DEF Chosen
      <3>2. F[T \ {Chosen(T)}] = G[T \ {Chosen(T)}]
        BY <1>1, <3>1
      <3>3. /\ F[T] = fun[Chosen(T)] + F[T \ {Chosen(T)}]
            /\ G[T] = fun[Chosen(T)] + G[T \ {Chosen(T)}]
        BY <2>2 DEF Sums
      <3> QED
        BY <3>2, <3>3
    <2> QED
      BY <2>1, <2>2
  <1>2. IsFiniteSet(R)
    BY FS_Subset
  <1>3. SUBSET R \subseteq U
    <2> HIDE DEF U
    <2> QED
      BY <1>1, <1>2, FiniteSetInduction
  <1> QED
    BY <1>3

\* The sum over nothing is 0, and the sum over a finite set is that of a chosen
\* element and the rest.
LEMMA SumStep ==
  ASSUME NEW fun
  PROVE  /\ SumFunctionOnSet(fun, {}) = 0
         /\ \A S : IsFiniteSet(S) /\ S # {} =>
               SumFunctionOnSet(fun, S)
                 = fun[Chosen(S)] + SumFunctionOnSet(fun, S \ {Chosen(S)})
  <1> DEFINE F(S) == CHOOSE F : Sums(F, fun, SUBSET S)
  <1>1. \A S : IsFiniteSet(S) =>
           Sums(F(S), fun, SUBSET S) /\ SumFunctionOnSet(fun, S) = F(S)[S]
    BY SumsExist, SumUnfold
  <1> HIDE DEF F
  <1>2. SumFunctionOnSet(fun, {}) = 0
    BY <1>1, FS_EmptySet DEF Sums
  <1>3. ASSUME NEW S, IsFiniteSet(S), S # {}
        PROVE  SumFunctionOnSet(fun, S)
                 = fun[Chosen(S)] + SumFunctionOnSet(fun, S \ {Chosen(S)})
    <2> DEFINE R == S \ {Chosen(S)}
    <2>1. R \in SUBSET S /\ IsFiniteSet(R)
      BY <1>3, FS_Subset
    <2>2. F(S)[S] = fun[Chosen(S)] + F(S)[R]
      BY <1>1, <1>3 DEF Sums
    <2>3. F(S)[R] = F(R)[R]
      <3>1. Sums(F(S), fun, SUBSET S) /\ Sums(F(R), fun, SUBSET R)
        BY <1>1, <1>3, <2>1
      <3> HIDE DEF R
      <3>2. \A A, B : /\ Sums(A, fun, SUBSET S) /\ Sums(B, fun, SUBSET R)
                     => A[R] = B[R]
        BY <1>3, <2>1, SumOfPart
      <3> QED
        BY <3>1, <3>2, Zenon
    <2> QED
      BY <1>1, <1>3, <2>1, <2>2, <2>3
  <1> QED
    BY <1>2, <1>3

\* A sum stays in any set of numbers that has 0 and is closed under addition.
LEMMA SumType ==
  ASSUME NEW fun, NEW S, IsFiniteSet(S),
         NEW N, 0 \in N, \A a, b \in N : a + b \in N, \A x \in S : fun[x] \in N
  PROVE  SumFunctionOnSet(fun, S) \in N
  <1> DEFINE U == {T \in SUBSET S : SumFunctionOnSet(fun, T) \in N}
  <1>1. ASSUME NEW T \in SUBSET S, \A R \in SUBSET T : R # T => R \in U
        PROVE  T \in U
    <2>1. CASE T = {}
      BY <2>1, SumStep
    <2>2. CASE T # {}
      <3>1. Chosen(T) \in T
        BY <2>2 DEF Chosen
      <3>2. SumFunctionOnSet(fun, T \ {Chosen(T)}) \in N
        BY <1>1, <3>1
      <3>3. SumFunctionOnSet(fun, T)
              = fun[Chosen(T)] + SumFunctionOnSet(fun, T \ {Chosen(T)})
        BY <2>2, FS_Subset, SumStep
      <3> QED
        BY <3>1, <3>2, <3>3
    <2> QED
      BY <2>1, <2>2
  <1>2. SUBSET S \subseteq U
    <2> HIDE DEF U
    <2> QED
      BY <1>1, FiniteSetInduction
  <1> QED
    BY <1>2

\* Any element may be the one that is taken out, as addition commutes.
LEMMA SumWithout ==
  ASSUME NEW fun, NEW S, IsFiniteSet(S), \A x \in S : fun[x] \in Int,
         NEW x \in S
  PROVE  SumFunctionOnSet(fun, S) = fun[x] + SumFunctionOnSet(fun, S \ {x})
  <1> DEFINE Sum(T) == SumFunctionOnSet(fun, T)
             U == {T \in SUBSET S : \A y \in T : Sum(T) = fun[y] + Sum(T \ {y})}
  <1>0. \A T \in SUBSET S : IsFiniteSet(T) /\ Sum(T) \in Int
    <2>1. 0 \in Int /\ \A a, b \in Int : a + b \in Int
      OBVIOUS
    <2>2. \A T \in SUBSET S : IsFiniteSet(T) /\ \A y \in T : fun[y] \in Int
      BY FS_Subset
    <2> QED
      BY <2>1, <2>2, SumType
  <1>1. ASSUME NEW T \in SUBSET S, \A R \in SUBSET T : R # T => R \in U
        PROVE  T \in U
    <2>1. SUFFICES ASSUME NEW y \in T PROVE Sum(T) = fun[y] + Sum(T \ {y})
      OBVIOUS
    <2> DEFINE c == Chosen(T)
    <2>2. c \in T
      BY DEF Chosen
    <2>3. Sum(T) = fun[c] + Sum(T \ {c})
      BY <1>0, SumStep
    <2>4. CASE y # c
      <3> HIDE DEF c, Sum
      <3>1. T \ {c} \in U /\ T \ {y} \in U
        <4> HIDE DEF U
        <4> QED
          BY <1>1, <2>2
      <3>2. /\ Sum(T \ {c}) = fun[y] + Sum((T \ {c}) \ {y})
            /\ Sum(T \ {y}) = fun[c] + Sum((T \ {y}) \ {c})
        BY <2>2, <2>4, <3>1
      <3>3. (T \ {c}) \ {y} = (T \ {y}) \ {c}
        OBVIOUS
      <3>4. fun[c] \in Int /\ fun[y] \in Int /\ Sum((T \ {c}) \ {y}) \in Int
        BY <1>0, <2>2
      <3>5. fun[c] + (fun[y] + Sum((T \ {c}) \ {y}))
              = fun[y] + (fun[c] + Sum((T \ {c}) \ {y}))
        BY <3>4
      <3> QED
        BY <2>3, <3>2, <3>3, <3>5
    <2> QED
      BY <2>3, <2>4
  <1>2. SUBSET S \subseteq U
    <2> HIDE DEF U
    <2> QED
      BY <1>1, FiniteSetInduction
  <1> QED
    BY <1>2

\* The sum knows of a function only its values on the set.
LEMMA SumAgree ==
  ASSUME NEW fun, NEW gun, NEW S, IsFiniteSet(S), \A x \in S : fun[x] = gun[x]
  PROVE  SumFunctionOnSet(fun, S) = SumFunctionOnSet(gun, S)
  <1> DEFINE U == {T \in SUBSET S : SumFunctionOnSet(fun, T) = SumFunctionOnSet(gun, T)}
  <1>1. ASSUME NEW T \in SUBSET S, \A R \in SUBSET T : R # T => R \in U
        PROVE  T \in U
    <2>1. CASE T = {}
      BY <2>1, SumStep
    <2>2. CASE T # {}
      <3>1. Chosen(T) \in T
        BY <2>2 DEF Chosen
      <3>2. SumFunctionOnSet(fun, T \ {Chosen(T)}) = SumFunctionOnSet(gun, T \ {Chosen(T)})
        BY <1>1, <3>1
      <3>3. /\ SumFunctionOnSet(fun, T)
                  = fun[Chosen(T)] + SumFunctionOnSet(fun, T \ {Chosen(T)})
            /\ SumFunctionOnSet(gun, T)
                  = gun[Chosen(T)] + SumFunctionOnSet(gun, T \ {Chosen(T)})
        BY <2>2, FS_Subset, SumStep
      <3> QED
        BY <3>1, <3>2, <3>3
    <2> QED
      BY <2>1, <2>2
  <1>2. SUBSET S \subseteq U
    <2> HIDE DEF U
    <2> QED
      BY <1>1, FiniteSetInduction
  <1> QED
    BY <1>2

\* One more for one element is one more for the sum.
LEMMA SumIncrement ==
  ASSUME NEW fun, NEW gun, NEW S, IsFiniteSet(S), NEW x \in S,
         \A y \in S : fun[y] \in Int,
         \A y \in S : gun[y] = IF y = x THEN fun[y] + 1 ELSE fun[y]
  PROVE  SumFunctionOnSet(gun, S) = SumFunctionOnSet(fun, S) + 1
  <1>1. /\ SumFunctionOnSet(fun, S) = fun[x] + SumFunctionOnSet(fun, S \ {x})
        /\ SumFunctionOnSet(gun, S) = gun[x] + SumFunctionOnSet(gun, S \ {x})
    <2>1. \A y \in S : gun[y] \in Int
      OBVIOUS
    <2> QED
      BY <2>1, SumWithout
  <1>2. SumFunctionOnSet(fun, S \ {x}) = SumFunctionOnSet(gun, S \ {x})
    <2>1. IsFiniteSet(S \ {x}) /\ \A y \in S \ {x} : fun[y] = gun[y]
      BY FS_Subset
    <2> QED
      BY <2>1, SumAgree
  <1>3. SumFunctionOnSet(fun, S \ {x}) \in Int /\ fun[x] \in Int /\ gun[x] = fun[x] + 1
    <2>1. 0 \in Int /\ (\A a, b \in Int : a + b \in Int) /\ IsFiniteSet(S \ {x})
      BY FS_Subset
    <2>2. \A y \in S \ {x} : fun[y] \in Int
      OBVIOUS
    <2> QED
      BY <2>1, <2>2, SumType
  <1> QED
    BY <1>1, <1>2, <1>3
=============================================================================
