-------------------------------- MODULE Sums --------------------------------
(***************************************************************************)
(* Sums over finite sets, for the proofs about what is paid, spent and     *)
(* held.  The sum of the library is a fold, that is a recursive function   *)
(* on the subsets of a set: it exists, there is only one, and in whatever  *)
(* order elements are taken it comes to the same.  Each of these is an     *)
(* induction on finite sets, made by looking at a smallest set that would  *)
(* be an exception: strict inclusion of finite sets is well founded.       *)
(***************************************************************************)
EXTENDS FiniteSetsExt, Integers, FiniteSetTheorems, WellFoundedInduction, TLAPS

\* the sum of g[x] over the elements x of S
SumOver(g, S) == MapThenSumSet(LAMBDA x : g[x], S)

\* the element that is taken next
Pick(S) == CHOOSE x \in S : TRUE

\* the function a sum is computed with
Sums(f, g, S) ==
    f = [A \in SUBSET S |-> IF A = {} THEN 0 ELSE g[Pick(A)] + f[A \ {Pick(A)}]]

-----------------------------------------------------------------------------
(* Induction on finite sets                                                 *)

\* Some subsets of a finite set, if any, include a smallest.
LEMMA SmallestSubset ==
    ASSUME NEW S, IsFiniteSet(S), NEW T, T \subseteq SUBSET S, T # {}
    PROVE  \E A \in T : \A B \in SUBSET A : B # A => B \notin T
<1>1. FiniteSubsetsOf(S) = SUBSET S
  BY FS_FiniteSubsetsOfFinite
<1>2. IsWellFoundedOn(StrictSubsetOrdering(S), SUBSET S)
  BY <1>1, FS_StrictSubsetOrderingWellFounded
<1>3. \E A \in T : \A B \in T : <<B, A>> \notin StrictSubsetOrdering(S)
  BY <1>2, WFMin
<1>4. PICK A \in T : \A B \in T : <<B, A>> \notin StrictSubsetOrdering(S)
  BY <1>3
<1>5. ASSUME NEW B \in SUBSET A, B # A, B \in T
      PROVE  FALSE
  BY <1>4, <1>5 DEF StrictSubsetOrdering
<1>. QED
  BY <1>4, <1>5

\* The next element is one of the set, and what remains is smaller.
LEMMA PickIn == \A A : A # {} => Pick(A) \in A /\ A \ {Pick(A)} # A
BY DEF Pick

-----------------------------------------------------------------------------
(* The sum is well defined                                                  *)

\* Functions that compute the sums of subsets of A and of B agree on the sets
\* that are both.
LEMMA SumsAgree ==
    ASSUME NEW g, NEW A, NEW B, NEW f, NEW h, Sums(f, g, A), Sums(h, g, B),
           NEW S, IsFiniteSet(S), S \subseteq A, S \subseteq B
    PROVE  f[S] = h[S]
<1>. DEFINE T == {C \in SUBSET S : f[C] # h[C]}
<1>1. SUFFICES ASSUME T # {} PROVE FALSE
  BY <1>1
<1>2. T \subseteq SUBSET S
  OBVIOUS
<1>. HIDE DEF T
<1>3. PICK C \in T : \A D \in SUBSET C : D # C => D \notin T
  BY <1>1, <1>2, SmallestSubset
<1>. USE DEF T
<1>4. /\ C \in SUBSET A /\ C \in SUBSET B
      /\ f[C] = IF C = {} THEN 0 ELSE g[Pick(C)] + f[C \ {Pick(C)}]
      /\ h[C] = IF C = {} THEN 0 ELSE g[Pick(C)] + h[C \ {Pick(C)}]
  BY <1>3 DEF Sums
<1>5. C # {}
  BY <1>3, <1>4
<1>6. f[C \ {Pick(C)}] = h[C \ {Pick(C)}]
  BY <1>3, <1>5, PickIn
<1>. QED
  BY <1>3, <1>4, <1>6

\* The fold of the library, spelled out.
LEMMA SumUnfolds ==
    ASSUME NEW g, NEW S
    PROVE  SumOver(g, S) = (CHOOSE f : Sums(f, g, S))[S]
BY DEF SumOver, MapThenSumSet, MapThenFoldSet, Sums, Pick

\* Whatever computes the sums of the subsets of S computes the sum over S.
LEMMA SumIsThat ==
    ASSUME NEW g, NEW S, IsFiniteSet(S), NEW f, Sums(f, g, S)
    PROVE  f[S] = SumOver(g, S)
<1>. DEFINE h == CHOOSE e : Sums(e, g, S)
<1>1. Sums(h, g, S)
  OBVIOUS
<1>. HIDE DEF h
<1>2. f[S] = h[S]
  BY <1>1, SumsAgree
<1>. QED
  BY <1>2, SumUnfolds DEF h

\* Something does.
LEMMA SumsExist ==
    ASSUME NEW g, NEW S, IsFiniteSet(S)
    PROVE  \E f : Sums(f, g, S)
<1>. DEFINE T == {A \in SUBSET S : ~ \E f : Sums(f, g, A)}
<1>1. SUFFICES ASSUME T # {} PROVE FALSE
  BY <1>1
<1>0. T \subseteq SUBSET S
  OBVIOUS
<1>. HIDE DEF T
<1>2. PICK A \in T : \A B \in SUBSET A : B # A => B \notin T
  BY <1>1, <1>0, SmallestSubset
<1>. USE DEF T
<1>3. ASSUME NEW B \in SUBSET A, B # A
      PROVE  IsFiniteSet(B) /\ \E f : Sums(f, g, B) /\ f[B] = SumOver(g, B)
  <2>1. B \in SUBSET S
    BY <1>2
  <2>2. IsFiniteSet(B)
    BY <2>1, FS_Subset
  <2>3. PICK f : Sums(f, g, B)
    BY <1>2, <1>3, <2>1
  <2>. QED
    BY <2>2, <2>3, SumIsThat
<1>4. ASSUME NEW B \in SUBSET A, B # A
      PROVE  SumOver(g, B) = IF B = {} THEN 0
                             ELSE g[Pick(B)] + SumOver(g, B \ {Pick(B)})
  <2>1. PICK f : Sums(f, g, B) /\ f[B] = SumOver(g, B)
    BY <1>3, <1>4
  <2>2. f[B] = IF B = {} THEN 0 ELSE g[Pick(B)] + f[B \ {Pick(B)}]
    BY <2>1 DEF Sums
  <2>3. ASSUME B # {}
        PROVE  f[B \ {Pick(B)}] = SumOver(g, B \ {Pick(B)})
    <3>. DEFINE D == B \ {Pick(B)}
    <3>1. D \in SUBSET A /\ D # A /\ D \subseteq B
      BY <1>4, <2>3, PickIn
    <3>2. PICK h : Sums(h, g, D) /\ h[D] = SumOver(g, D)
      BY <1>3, <3>1
    <3>3. IsFiniteSet(D)
      BY <1>3, <3>1
    <3>. HIDE DEF D
    <3>4. f[D] = h[D]
      BY <2>1, <3>1, <3>2, <3>3, SumsAgree
    <3>. QED
      BY <3>2, <3>4 DEF D
  <2>. QED
    BY <2>1, <2>2, <2>3
<1>. DEFINE f == [B \in SUBSET A |->
                    IF B = {} THEN 0 ELSE g[Pick(B)] + SumOver(g, B \ {Pick(B)})]
<1>5. ASSUME NEW B \in SUBSET A, B # {}
      PROVE  f[B \ {Pick(B)}] = SumOver(g, B \ {Pick(B)})
  <2>1. B \ {Pick(B)} \in SUBSET A /\ B \ {Pick(B)} # A
    BY <1>5, PickIn
  <2>. QED
    BY <1>4, <2>1
<1>6. Sums(f, g, A)
  BY <1>5 DEF Sums
<1>. QED
  BY <1>2, <1>6

-----------------------------------------------------------------------------
(* How to compute with it                                                   *)

\* The sum over the empty set.
LEMMA SumEmpty == ASSUME NEW g PROVE SumOver(g, {}) = 0
<1>1. IsFiniteSet({})
  BY FS_EmptySet
<1>2. PICK f : Sums(f, g, {})
  BY <1>1, SumsExist
<1>3. f[{}] = 0
  BY <1>2 DEF Sums
<1>. QED
  BY <1>1, <1>2, <1>3, SumIsThat

\* The equation of the sum.
LEMMA SumPick ==
    ASSUME NEW g, NEW S, IsFiniteSet(S), S # {}
    PROVE  SumOver(g, S) = g[Pick(S)] + SumOver(g, S \ {Pick(S)})
<1>. DEFINE D == S \ {Pick(S)}
<1>1. D \subseteq S
  OBVIOUS
<1>2. IsFiniteSet(D)
  BY <1>1, FS_Subset
<1>3. PICK f : Sums(f, g, S)
  BY SumsExist
<1>4. f[S] = g[Pick(S)] + f[D]
  BY <1>3 DEF Sums
<1>5. PICK h : Sums(h, g, D)
  BY <1>2, SumsExist
<1>. HIDE DEF D
<1>6. f[D] = h[D]
  BY <1>1, <1>2, <1>3, <1>5, SumsAgree
<1>. QED
  BY <1>2, <1>3, <1>4, <1>5, <1>6, SumIsThat DEF D

\* A sum of numbers is a number.
LEMMA SumNat ==
    ASSUME NEW S, IsFiniteSet(S), NEW g, \A x \in S : g[x] \in Nat
    PROVE  SumOver(g, S) \in Nat
<1>. DEFINE T == {A \in SUBSET S : SumOver(g, A) \notin Nat}
<1>1. SUFFICES ASSUME T # {} PROVE FALSE
  BY <1>1
<1>0. T \subseteq SUBSET S
  OBVIOUS
<1>. HIDE DEF T
<1>2. PICK A \in T : \A B \in SUBSET A : B # A => B \notin T
  BY <1>1, <1>0, SmallestSubset
<1>. USE DEF T
<1>3. A # {}
  <2>1. A = {} => SumOver(g, A) = 0
    BY SumEmpty
  <2>2. SumOver(g, A) \notin Nat
    BY <1>2
  <2>. QED
    BY <2>1, <2>2
<1>4. IsFiniteSet(A)
  BY <1>2, FS_Subset
<1>5. SumOver(g, A) = g[Pick(A)] + SumOver(g, A \ {Pick(A)})
  BY <1>3, <1>4, SumPick
<1>6. Pick(A) \in S /\ A \ {Pick(A)} \in SUBSET S /\ A \ {Pick(A)} \notin T
  BY <1>2, <1>3, PickIn
<1>. QED
  BY <1>2, <1>5, <1>6

\* Any element may be taken first.
LEMMA SumRemove ==
    ASSUME NEW S, IsFiniteSet(S), NEW g, \A x \in S : g[x] \in Nat, NEW y \in S
    PROVE  SumOver(g, S) = g[y] + SumOver(g, S \ {y})
<1>. DEFINE T == {A \in SUBSET S :
                    \E x \in A : SumOver(g, A) # g[x] + SumOver(g, A \ {x})}
<1>1. SUFFICES ASSUME T # {} PROVE FALSE
  BY <1>1
<1>0. T \subseteq SUBSET S
  OBVIOUS
<1>. HIDE DEF T
<1>2. PICK A \in T : \A B \in SUBSET A : B # A => B \notin T
  BY <1>1, <1>0, SmallestSubset
<1>. USE DEF T
<1>3. PICK x \in A : SumOver(g, A) # g[x] + SumOver(g, A \ {x})
  BY <1>2
<1>. DEFINE p == Pick(A)
<1>4. p \in A
  BY <1>3, PickIn
<1>5. IsFiniteSet(A)
  BY <1>2, FS_Subset
<1>6. SumOver(g, A) = g[p] + SumOver(g, A \ {p})
  BY <1>4, <1>5, SumPick
<1>. HIDE DEF p
<1>7. p # x
  BY <1>3, <1>6
<1>8. SumOver(g, A \ {p}) = g[x] + SumOver(g, (A \ {p}) \ {x})
  <2>1. A \ {p} \in SUBSET A /\ A \ {p} # A /\ A \ {p} \in SUBSET S /\ x \in A \ {p}
    BY <1>2, <1>3, <1>4, <1>7
  <2>. QED
    BY <1>2, <2>1
<1>9. SumOver(g, A \ {x}) = g[p] + SumOver(g, (A \ {x}) \ {p})
  <2>1. A \ {x} \in SUBSET A /\ A \ {x} # A /\ A \ {x} \in SUBSET S /\ p \in A \ {x}
    BY <1>2, <1>3, <1>4, <1>7
  <2>. QED
    BY <1>2, <2>1
<1>10. SumOver(g, (A \ {p}) \ {x}) = SumOver(g, (A \ {x}) \ {p})
  <2>1. (A \ {p}) \ {x} = (A \ {x}) \ {p}
    OBVIOUS
  <2>. QED
    BY <2>1
<1>11. SumOver(g, (A \ {x}) \ {p}) \in Nat /\ g[x] \in Nat /\ g[p] \in Nat
  <2>1. (A \ {x}) \ {p} \in SUBSET S /\ x \in S /\ p \in S
    BY <1>2, <1>3, <1>4
  <2>2. IsFiniteSet((A \ {x}) \ {p})
    BY <2>1, FS_Subset
  <2>. QED
    BY <2>1, <2>2, SumNat
<1>12. SumOver(g, A) = g[x] + SumOver(g, A \ {x})
  BY <1>6, <1>8, <1>9, <1>10, <1>11
<1>. QED
  BY <1>3, <1>12

\* A new element adds its value.
LEMMA SumAdd ==
    ASSUME NEW S, IsFiniteSet(S), NEW g, NEW y, y \notin S,
           \A x \in S \cup {y} : g[x] \in Nat
    PROVE  SumOver(g, S \cup {y}) = SumOver(g, S) + g[y]
<1>1. IsFiniteSet(S \cup {y})
  BY FS_AddElement
<1>2. (S \cup {y}) \ {y} = S
  OBVIOUS
<1>3. SumOver(g, S \cup {y}) = g[y] + SumOver(g, (S \cup {y}) \ {y})
  BY <1>1, SumRemove
<1>4. SumOver(g, S) \in Nat /\ g[y] \in Nat
  BY SumNat
<1>. QED
  BY <1>2, <1>3, <1>4

\* The sum depends on the values at the elements only.
LEMMA SumSame ==
    ASSUME NEW S, IsFiniteSet(S), NEW g, NEW h, \A x \in S : g[x] = h[x]
    PROVE  SumOver(g, S) = SumOver(h, S)
<1>1. PICK f : Sums(f, g, S)
  BY SumsExist
<1>2. \A A \in SUBSET S : A # {} => g[Pick(A)] = h[Pick(A)]
  BY PickIn
<1>3. Sums(f, h, S)
  BY <1>1, <1>2 DEF Sums
<1>. QED
  BY <1>1, <1>3, SumIsThat

\* A sum of nothing is nothing.
LEMMA SumZero ==
    ASSUME NEW S, IsFiniteSet(S), NEW g, \A x \in S : g[x] = 0
    PROVE  SumOver(g, S) = 0
<1>. DEFINE f == [A \in SUBSET S |-> 0]
<1>1. \A A \in SUBSET S : A # {} => g[Pick(A)] = 0 /\ A \ {Pick(A)} \in SUBSET S
  BY PickIn
<1>2. Sums(f, g, S)
  BY <1>1 DEF Sums
<1>3. f[S] = SumOver(g, S)
  BY <1>2, SumIsThat
<1>. QED
  BY <1>3

\* A sum of smaller values is smaller.
LEMMA SumLess ==
    ASSUME NEW S, IsFiniteSet(S), NEW g, NEW h,
           \A x \in S : g[x] \in Nat /\ h[x] \in Nat /\ g[x] <= h[x]
    PROVE  SumOver(g, S) <= SumOver(h, S)
<1>. DEFINE T == {A \in SUBSET S : ~(SumOver(g, A) <= SumOver(h, A))}
<1>1. SUFFICES ASSUME T # {} PROVE FALSE
  BY <1>1
<1>0. T \subseteq SUBSET S
  OBVIOUS
<1>. HIDE DEF T
<1>2. PICK A \in T : \A B \in SUBSET A : B # A => B \notin T
  BY <1>1, <1>0, SmallestSubset
<1>. USE DEF T
<1>3. A # {}
  <2>1. A = {} => SumOver(g, A) = 0 /\ SumOver(h, A) = 0
    BY SumEmpty
  <2>2. ~(SumOver(g, A) <= SumOver(h, A))
    BY <1>2
  <2>. QED
    BY <2>1, <2>2
<1>4. IsFiniteSet(A)
  BY <1>2, FS_Subset
<1>. DEFINE p == Pick(A)
            D == A \ {p}
<1>5. /\ SumOver(g, A) = g[p] + SumOver(g, D)
      /\ SumOver(h, A) = h[p] + SumOver(h, D)
  BY <1>3, <1>4, SumPick
<1>6. p \in S /\ D \in SUBSET S /\ D \notin T
  BY <1>2, <1>3, PickIn
<1>7. IsFiniteSet(D)
  BY <1>6, FS_Subset
<1>8. SumOver(g, D) \in Nat /\ SumOver(h, D) \in Nat
  BY <1>6, <1>7, SumNat
<1>. HIDE DEF p, D
<1>. QED
  BY <1>2, <1>5, <1>6, <1>8

\* If one value changes, the sum changes by as much.
LEMMA SumChange ==
    ASSUME NEW S, IsFiniteSet(S), NEW g, NEW h, NEW y \in S,
           \A x \in S : g[x] \in Nat /\ h[x] \in Nat,
           \A x \in S \ {y} : g[x] = h[x]
    PROVE  SumOver(h, S) = SumOver(g, S) - g[y] + h[y]
<1>1. S \ {y} \in SUBSET S
  OBVIOUS
<1>2. IsFiniteSet(S \ {y})
  BY <1>1, FS_Subset
<1>3. SumOver(g, S \ {y}) = SumOver(h, S \ {y}) /\ SumOver(g, S \ {y}) \in Nat
  BY <1>2, SumSame, SumNat
<1>4. /\ SumOver(g, S) = g[y] + SumOver(g, S \ {y})
      /\ SumOver(h, S) = h[y] + SumOver(h, S \ {y})
  BY SumRemove
<1>. QED
  BY <1>3, <1>4

\* The sum over two sets is that of their sums.
LEMMA SumSplit ==
    ASSUME NEW A, IsFiniteSet(A), NEW B, IsFiniteSet(B), A \cap B = {},
           NEW g, \A x \in A \cup B : g[x] \in Nat
    PROVE  SumOver(g, A \cup B) = SumOver(g, A) + SumOver(g, B)
<1>. DEFINE T == {C \in SUBSET B : SumOver(g, A \cup C) # SumOver(g, A) + SumOver(g, C)}
<1>1. SUFFICES ASSUME T # {} PROVE FALSE
  BY <1>1
<1>0. T \subseteq SUBSET B
  OBVIOUS
<1>. HIDE DEF T
<1>2. PICK C \in T : \A D \in SUBSET C : D # C => D \notin T
  BY <1>1, <1>0, SmallestSubset
<1>. USE DEF T
<1>3. SumOver(g, A) \in Nat
  BY SumNat
<1>4. C # {}
  <2>1. A \cup {} = A /\ SumOver(g, {}) = 0
    BY SumEmpty
  <2>2. {} \notin T
    BY <1>3, <2>1
  <2>. QED
    BY <1>2, <2>2
<1>. DEFINE p == Pick(C)
            D == C \ {p}
<1>5. p \in C /\ p \in B /\ D \in SUBSET B /\ D \notin T
  BY <1>2, <1>4, PickIn
<1>6. IsFiniteSet(D) /\ IsFiniteSet(A \cup D)
  <2>1. IsFiniteSet(D)
    BY <1>5, FS_Subset
  <2>. QED
    BY <2>1, FS_Union
<1>7. SumOver(g, A \cup D) = SumOver(g, A) + SumOver(g, D)
  BY <1>5
<1>8. C = D \cup {p} /\ A \cup C = (A \cup D) \cup {p} /\ p \notin D /\ p \notin A \cup D
  BY <1>5
<1>9. \A x \in (A \cup D) \cup {p} : g[x] \in Nat
  BY <1>5
<1>. HIDE DEF p, D
<1>10. SumOver(g, A \cup C) = SumOver(g, A \cup D) + g[p]
  BY <1>6, <1>8, <1>9, SumAdd
<1>11. SumOver(g, C) = SumOver(g, D) + g[p]
  BY <1>6, <1>8, <1>9, SumAdd
<1>12. SumOver(g, D) \in Nat /\ g[p] \in Nat
  BY <1>6, <1>9, SumNat
<1>. QED
  BY <1>2, <1>3, <1>7, <1>10, <1>11, <1>12

\* A part of a set has no more than the set.
LEMMA SumPart ==
    ASSUME NEW B, IsFiniteSet(B), NEW A \in SUBSET B, NEW g, \A x \in B : g[x] \in Nat
    PROVE  SumOver(g, A) <= SumOver(g, B)
<1>1. IsFiniteSet(A) /\ IsFiniteSet(B \ A)
  <2>1. B \ A \in SUBSET B
    OBVIOUS
  <2>. QED
    BY <2>1, FS_Subset
<1>2. A \cup (B \ A) = B /\ A \cap (B \ A) = {}
  OBVIOUS
<1>3. SumOver(g, B) = SumOver(g, A) + SumOver(g, B \ A)
  BY <1>1, <1>2, SumSplit
<1>4. SumOver(g, A) \in Nat /\ SumOver(g, B \ A) \in Nat
  BY <1>1, SumNat
<1>. QED
  BY <1>3, <1>4
=============================================================================
