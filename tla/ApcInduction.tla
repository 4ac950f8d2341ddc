----------------------------- MODULE ApcInduction -----------------------------
(***************************************************************************)
(* Induction in the form the provers can use: a set of counterexamples     *)
(* that is not empty has a least, or a smallest, member.  Each proof by    *)
(* induction of this project applies one of these lemmas to the set of     *)
(* values for which its claim fails.                                       *)
(***************************************************************************)
EXTENDS Integers, WellFoundedInduction, FiniteSetTheorems, TLAPS

\* A set of natural numbers has a least element.
LEMMA LeastElement ==
  ASSUME NEW S \in SUBSET Nat, S # {}
  PROVE  \E m \in S : \A n \in S : m <= n
<1> DEFINE R == OpToRel(<, Nat)
<1>1. \A x, y \in Nat : <<x, y>> \in R <=> x < y
  BY DEF OpToRel
<1>2. IsWellFoundedOn(R, Nat)
  BY NatLessThanWellFounded
<1> HIDE DEF R
<1>3. PICK m \in S : \A n \in S : <<n, m>> \notin R
  BY <1>2, WFMin
<1>4. ASSUME NEW n \in S PROVE m <= n
  <2>1. n \in Nat /\ m \in Nat
    OBVIOUS
  <2>2. ~(n < m)
    BY <1>1, <1>3, <2>1
  <2> QED
    BY <2>1, <2>2
<1> QED
  BY <1>4

\* One that is bounded has a greatest.
LEMMA GreatestElement ==
  ASSUME NEW n \in Nat, NEW S \in SUBSET (0..n), S # {}
  PROVE  \E m \in S : \A k \in S : k <= m
<1> DEFINE T == {n - k : k \in S}
<1>1. T \in SUBSET Nat /\ T # {}
  <2>1. PICK k \in S : TRUE
    OBVIOUS
  <2>2. n - k \in T
    BY <2>1
  <2>3. \A j \in S : n - j \in Nat
    OBVIOUS
  <2> QED
    BY <2>2, <2>3
<1>2. PICK t \in T : \A u \in T : t <= u
  BY <1>1, LeastElement
<1>3. PICK m \in S : t = n - m
  OBVIOUS
<1>4. ASSUME NEW k \in S PROVE k <= m
  <2>1. t <= n - k
    BY <1>2
  <2> QED
    BY <1>3, <2>1
<1> QED
  BY <1>4

\* A family of subsets of a finite set has a member with no other inside it.
LEMMA SmallestSubset ==
  ASSUME NEW T, IsFiniteSet(T), NEW S \in SUBSET SUBSET T, S # {}
  PROVE  \E m \in S : \A n \in S : n \subseteq m => n = m
<1> DEFINE R == StrictSubsetOrdering(T)
<1>1. IsWellFoundedOn(R, SUBSET T)
  BY FS_StrictSubsetOrderingWellFounded, FS_FiniteSubsetsOfFinite
<1>2. PICK m \in S : \A n \in S : <<n, m>> \notin R
  <2> HIDE DEF R
  <2> QED
    BY <1>1, WFMin
<1> QED
  BY <1>2 DEF StrictSubsetOrdering

\* Induction from 0 up to n, for membership in a set.
LEMMA StepByStep ==
  ASSUME NEW n \in Nat, NEW S, 0 \in S, \A k \in 1..n : k - 1 \in S => k \in S
  PROVE  0..n \subseteq S
<1> DEFINE Fails == {k \in 0..n : k \notin S}
<1> SUFFICES ASSUME Fails # {} PROVE FALSE
  OBVIOUS
<1>0. Fails \in SUBSET Nat
  OBVIOUS
<1>1. PICK k \in Fails : \A j \in Fails : k <= j
  BY <1>0, LeastElement
<1>2. k \in 1..n /\ k - 1 \in 0..n /\ ~(k <= k - 1)
  BY <1>1
<1> QED
  BY <1>1, <1>2

\* Induction over the subsets of a finite set, one element at a time.
LEMMA OneByOne ==
  ASSUME NEW T, IsFiniteSet(T), NEW S, {} \in S,
         \A A \in SUBSET T : \A x \in T \ A : A \in S => A \cup {x} \in S
  PROVE  SUBSET T \subseteq S
<1> DEFINE Fails == {A \in SUBSET T : A \notin S}
<1> SUFFICES ASSUME Fails # {} PROVE FALSE
  OBVIOUS
<1>0. Fails \in SUBSET SUBSET T
  OBVIOUS
<1>1. PICK A \in Fails : \A B \in Fails : B \subseteq A => B = A
  <2> HIDE DEF Fails
  <2> QED
    BY <1>0, SmallestSubset
<1>2. PICK x \in A : TRUE
  BY <1>1
<1>3. A \ {x} \in SUBSET T /\ A \ {x} # A /\ x \in T \ (A \ {x}) /\ (A \ {x}) \cup {x} = A
  BY <1>1, <1>2
<1>4. A \ {x} \in S
  BY <1>1, <1>3
<1> QED
  BY <1>1, <1>3, <1>4

-----------------------------------------------------------------------------
(* Sums over finite sets, as the folds of the community modules compute    *)
(* them: one chosen element after the other.                               *)

\* The weight of s, when g gives those of smaller sets.
Summed(w, g, s) ==
  IF s = {} THEN 0 ELSE LET x == CHOOSE x \in s : TRUE IN w[x] + g[s \ {x}]

Sums(w, T, g) == g = [s \in SUBSET T |-> Summed(w, g, s)]

\* A sum depends on nothing but the elements and their weights.
LEMMA SumsAgree ==
  ASSUME NEW w, NEW T, NEW g, Sums(w, T, g), NEW v, NEW U, NEW h, Sums(v, U, h),
         NEW R \in SUBSET (T \cap U), IsFiniteSet(R), \A x \in R : w[x] = v[x]
  PROVE  g[R] = h[R]
<1> DEFINE Fails == {A \in SUBSET R : g[A] # h[A]}
<1> SUFFICES ASSUME Fails # {} PROVE FALSE
  OBVIOUS
<1>1. Fails \in SUBSET SUBSET R
  OBVIOUS
<1>2. PICK A \in Fails : \A B \in Fails : B \subseteq A => B = A
  <2> HIDE DEF Fails
  <2> QED
    BY <1>1, SmallestSubset
<1>3. A \in SUBSET T /\ A \in SUBSET U /\ A \in SUBSET R /\ g[A] # h[A]
  BY <1>2
<1>4. g[A] = Summed(w, g, A) /\ h[A] = Summed(v, h, A)
  BY <1>3 DEF Sums
<1>5. CASE A = {}
  BY <1>3, <1>4, <1>5 DEF Summed
<1>6. CASE A # {}
  <2>1. PICK x \in A : x = CHOOSE y \in A : TRUE
    BY <1>6
  <2>2. A \ {x} \notin Fails
    BY <1>2, <2>1
  <2>3. g[A \ {x}] = h[A \ {x}] /\ w[x] = v[x]
    BY <1>3, <2>1, <2>2
  <2> QED
    BY <1>3, <1>4, <1>6, <2>1, <2>3 DEF Summed
<1> QED
  BY <1>5, <1>6

LEMMA SumsExist ==
  ASSUME NEW w, NEW T, IsFiniteSet(T)
  PROVE  \E g : Sums(w, T, g)
<1> DEFINE Fails == {A \in SUBSET T : ~\E g : Sums(w, A, g)}
<1> SUFFICES ASSUME Fails # {} PROVE FALSE
  OBVIOUS
<1>1. Fails \in SUBSET SUBSET T
  OBVIOUS
<1>2. PICK A \in Fails : \A B \in Fails : B \subseteq A => B = A
  <2> HIDE DEF Fails
  <2> QED
    BY <1>1, SmallestSubset
<1>3. A \in SUBSET T /\ ~\E g : Sums(w, A, g)
  BY <1>2
<1> DEFINE f == [s \in SUBSET A |-> CHOOSE g : Sums(w, s, g)]
           h == [s \in SUBSET A |-> f[s][s]]
           k == [s \in SUBSET A |-> IF s = A THEN Summed(w, h, A) ELSE h[s]]
<1>4. \A s \in SUBSET A : s # A => Sums(w, s, f[s])
  <2> SUFFICES ASSUME NEW s \in SUBSET A, s # A PROVE Sums(w, s, f[s])
    OBVIOUS
  <2>1. s \notin Fails /\ s \in SUBSET T
    BY <1>2, <1>3
  <2>2. \E g : Sums(w, s, g)
    BY <2>1
  <2> QED
    BY <2>2
<1>5. \A s \in SUBSET A : h[s] = f[s][s]
  OBVIOUS
<1>6. \A s \in SUBSET A : s # A => k[s] = h[s]
  OBVIOUS
<1>7. k[A] = Summed(w, h, A) /\ k = [s \in SUBSET A |-> k[s]]
  OBVIOUS
<1> HIDE DEF f, h, k
<1>8. ASSUME NEW s \in SUBSET A PROVE k[s] = Summed(w, k, s)
  <2>1. CASE s = A /\ s # {}
    <3>1. PICK x \in A : x = CHOOSE y \in A : TRUE
      BY <2>1
    <3>2. k[A \ {x}] = h[A \ {x}]
      BY <1>6, <3>1
    <3> QED
      BY <1>7, <2>1, <3>1, <3>2 DEF Summed
  <2>2. CASE s # A /\ s # {}
    <3>1. PICK x \in s : x = CHOOSE y \in s : TRUE
      BY <2>2
    <3> DEFINE r == s \ {x}
    <3>2. r \in SUBSET A /\ r # A /\ r \in SUBSET s
      BY <2>2
    <3>3. Sums(w, s, f[s]) /\ Sums(w, r, f[r])
      BY <1>4, <2>2, <3>2
    <3>4. IsFiniteSet(r)
      BY <1>3, <3>2, FS_Subset
    <3>5. r \in SUBSET (s \cap r)
      BY <3>2
    <3> HIDE DEF r
    <3>6. f[s][r] = f[r][r]
      BY <3>3, <3>4, <3>5, SumsAgree
    <3>7. f[s][s] = Summed(w, f[s], s)
      BY <3>3 DEF Sums
    <3>8. k[s] = f[s][s] /\ k[r] = f[r][r]
      BY <1>5, <1>6, <2>2, <3>2
    <3> QED
      BY <2>2, <3>1, <3>6, <3>7, <3>8 DEF Summed, r
  <2>3. CASE s = {}
    <3>1. CASE s = A
      BY <1>7, <2>3, <3>1 DEF Summed
    <3>2. CASE s # A
      <4>1. Sums(w, s, f[s])
        BY <1>4, <3>2
      <4>2. f[s][s] = Summed(w, f[s], s)
        BY <4>1 DEF Sums
      <4> QED
        BY <1>5, <1>6, <2>3, <3>2, <4>2 DEF Summed
    <3> QED
      BY <3>1, <3>2
  <2> QED
    BY <2>1, <2>2, <2>3
<1>9. Sums(w, A, k)
  BY <1>7, <1>8 DEF Sums
<1> QED
  BY <1>3, <1>9

AnyOrder(w, T, g) ==
  \A A \in SUBSET T : /\ g[A] \in Nat /\ (A = {} => g[A] = 0)
                      /\ \A y \in A : g[A] = w[y] + g[A \ {y}]

\* It does not matter which element comes first.
LEMMA SumsAny ==
  ASSUME NEW w, NEW T, IsFiniteSet(T), \A x \in T : w[x] \in Nat,
         NEW g, Sums(w, T, g)
  PROVE  AnyOrder(w, T, g)
<1>0. \A A \in SUBSET T : g[A] = Summed(w, g, A)
  BY DEF Sums
<1> DEFINE Good(A) == g[A] \in Nat /\ \A y \in A : g[A] = w[y] + g[A \ {y}]
           Fails == {A \in SUBSET T : ~Good(A)}
<1>1. Fails = {}
  <2> SUFFICES ASSUME Fails # {} PROVE FALSE
    OBVIOUS
  <2>1. Fails \in SUBSET SUBSET T
    OBVIOUS
  <2>2. PICK A \in Fails : \A B \in Fails : B \subseteq A => B = A
    <3> HIDE DEF Fails
    <3> QED
      BY <2>1, SmallestSubset
  <2>3. A \in SUBSET T /\ ~Good(A) /\ g[A] = Summed(w, g, A)
    BY <1>0, <2>2
  <2>4. A # {}
    BY <2>3 DEF Summed
  <2>5. PICK x \in A : x = CHOOSE y \in A : TRUE
    BY <2>4
  <2>6. g[A] = w[x] + g[A \ {x}]
    BY <2>3, <2>4, <2>5 DEF Summed
  <2>7. \A B \in SUBSET A : B # A => Good(B)
    BY <2>2
  <2>8. Good(A \ {x})
    BY <2>5, <2>7
  <2>9. g[A] \in Nat
    BY <2>3, <2>5, <2>6, <2>8
  <2>10. ASSUME NEW y \in A PROVE g[A] = w[y] + g[A \ {y}]
    <3>1. CASE y = x
      BY <2>6, <3>1
    <3>2. CASE y # x
      <4>1. Good(A \ {y}) /\ y \in A \ {x} /\ x \in A \ {y}
        BY <2>5, <2>7, <3>2
      <4>2. (A \ {y}) \ {x} = (A \ {x}) \ {y}
        OBVIOUS
      <4> DEFINE B == (A \ {x}) \ {y}
      <4>3. g[A \ {x}] = w[y] + g[B] /\ g[A \ {y}] = w[x] + g[B]
        BY <2>8, <4>1, <4>2
      <4>4. Good(B)
        BY <2>5, <2>7
      <4>5. w[x] \in Nat /\ w[y] \in Nat /\ g[B] \in Nat
        BY <2>3, <4>4
      <4> HIDE DEF B
      <4> QED
        BY <2>6, <4>3, <4>5
    <3> QED
      BY <3>1, <3>2
  <2> QED
    BY <2>3, <2>9, <2>10
<1> QED
  BY <1>0, <1>1 DEF Summed, AnyOrder
=============================================================================
