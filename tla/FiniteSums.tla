----------------------------- MODULE FiniteSums -----------------------------
(***************************************************************************)
(* What MapThenSumSet of the community modules computes of a finite set:   *)
(* the facts that the proofs about amounts, balances and counts cite.  The *)
(* operator adds up the members in an order of its own choosing; here that *)
(* order is shown not to matter.                                           *)
(***************************************************************************)
EXTENDS Integers, Sequences, FiniteSets, FiniteSetsExt, SequencesExt, FiniteSetTheorems, WellFoundedInduction, TLAPS

Chosen(s) == CHOOSE x \in s : TRUE

-----------------------------------------------------------------------------
(* Induction over the subsets of a finite set.                             *)

LEMMA SubsetInduction ==
  ASSUME NEW S, IsFiniteSet(S), NEW B,
         \A U \in SUBSET S : (\A V \in SUBSET U : V # U => V \in B) => U \in B
  PROVE  SUBSET S \subseteq B
<1> DEFINE T == {U \in SUBSET S : U \notin B}
<1> SUFFICES ASSUME T # {} PROVE FALSE
  OBVIOUS
<1>1. IsWellFoundedOn(StrictSubsetOrdering(S), SUBSET S)
  <2>1. FiniteSubsetsOf(S) = SUBSET S
    BY FS_FiniteSubsetsOfFinite
  <2>2. IsWellFoundedOn(StrictSubsetOrdering(S), FiniteSubsetsOf(S))
    BY FS_StrictSubsetOrderingWellFounded
  <2> QED
    BY <2>1, <2>2
<1>2. PICK U \in T : \A V \in T : ~(<<V, U>> \in StrictSubsetOrdering(S))
  <2> HIDE DEF T
  <2>1. T \subseteq SUBSET S
    BY DEF T
  <2> QED
    BY <1>1, <2>1, WFMin
<1>3. \A V \in SUBSET U : V # U => V \in B
  BY <1>2 DEF StrictSubsetOrdering
<1> QED
  BY <1>3

LEMMA ChosenMember ==
  ASSUME NEW s, s # {}
  PROVE  /\ Chosen(s) \in s
         /\ s \ {Chosen(s)} \in SUBSET s
         /\ s \ {Chosen(s)} # s
BY DEF Chosen

-----------------------------------------------------------------------------
(* The fold of a finite set.                                              *)

\* The recursion of the fold: g[s] is step[s] of what is left of s.
Folds(g, base, step, S) ==
  g = [s \in SUBSET S |-> IF s = {} THEN base ELSE step[s][g[s \ {Chosen(s)}]]]

LEMMA FoldsAt ==
  ASSUME NEW base, NEW step, NEW S, NEW g, Folds(g, base, step, S), NEW s \in SUBSET S
  PROVE  g[s] = IF s = {} THEN base ELSE step[s][g[s \ {Chosen(s)}]]
BY DEF Folds

\* Two functions that fold alike agree on the subsets they share.
LEMMA FoldsUnique ==
  ASSUME NEW base, NEW step, NEW S, NEW R, IsFiniteSet(S),
         NEW g, NEW h, Folds(g, base, step, S), Folds(h, base, step, R)
  PROVE  \A s \in SUBSET S : s \in SUBSET R => g[s] = h[s]
<1> DEFINE B == {s \in SUBSET S : s \in SUBSET R => g[s] = h[s]}
<1>1. ASSUME NEW U \in SUBSET S, \A V \in SUBSET U : V # U => V \in B
      PROVE  U \in B
  <2> SUFFICES ASSUME U \in SUBSET R PROVE g[U] = h[U]
    OBVIOUS
  <2>1. g[U] = IF U = {} THEN base ELSE step[U][g[U \ {Chosen(U)}]]
    BY DEF Folds
  <2>2. h[U] = IF U = {} THEN base ELSE step[U][h[U \ {Chosen(U)}]]
    BY DEF Folds
  <2>3. U # {} => g[U \ {Chosen(U)}] = h[U \ {Chosen(U)}]
    BY <1>1, ChosenMember
  <2> QED
    BY <2>1, <2>2, <2>3
<1>2. SUBSET S \subseteq B
  <2> HIDE DEF B
  <2> QED
    BY <1>1, SubsetInduction
<1> QED
  BY <1>2

\* There is one for every finite set.
LEMMA FoldsExists ==
  ASSUME NEW base, NEW step, NEW S, IsFiniteSet(S)
  PROVE  \E g : Folds(g, base, step, S)
<1> DEFINE B == {s \in SUBSET S : \E g : Folds(g, base, step, s)}
<1>1. ASSUME NEW U \in SUBSET S, \A V \in SUBSET U : V # U => V \in B
      PROVE  U \in B
  <2> DEFINE G(s) == CHOOSE g : Folds(g, base, step, s)
             h == [s \in SUBSET U |->
                     IF s = {} THEN base
                     ELSE step[s][G(s \ {Chosen(s)})[s \ {Chosen(s)}]]]
  <2>1. \A V \in SUBSET U : V # U => Folds(G(V), base, step, V)
    BY <1>1
  <2>2. ASSUME NEW V \in SUBSET U, V # U
        PROVE  h[V] = G(V)[V]
    <3>1. CASE V = {}
      <4>1. G(V)[V] = base
        <5>1. Folds(G(V), base, step, V) /\ V \in SUBSET V
          BY <2>1, <2>2
        <5> HIDE DEF G
        <5> QED
          BY <3>1, <5>1, FoldsAt
      <4> QED
        BY <3>1, <4>1
    <3>2. CASE V # {}
      <4> DEFINE W == V \ {Chosen(V)}
      <4>1. W \in SUBSET V /\ W # V /\ W \in SUBSET U /\ W # U
        BY <2>2, <3>2, ChosenMember
      <4>2. G(V)[V] = step[V][G(V)[W]]
        <5>1. Folds(G(V), base, step, V) /\ V \in SUBSET V
          BY <2>1, <2>2
        <5> HIDE DEF G
        <5> QED
          BY <3>2, <5>1, FoldsAt
      <4>3. h[V] = step[V][G(W)[W]]
        BY <3>2
      <4>4. Folds(G(W), base, step, W) /\ Folds(G(V), base, step, V)
        BY <2>1, <2>2, <4>1
      <4>5. IsFiniteSet(W)
        BY <4>1, FS_Subset
      <4>6. G(W)[W] = G(V)[W]
        <5> HIDE DEF G, W
        <5> QED
          BY <4>1, <4>4, <4>5, FoldsUnique
      <4> QED
        BY <4>2, <4>3, <4>6
    <3> QED
      BY <3>1, <3>2
  <2>3. Folds(h, base, step, U)
    <3>1. ASSUME NEW s \in SUBSET U, s # {}
          PROVE  G(s \ {Chosen(s)})[s \ {Chosen(s)}] = h[s \ {Chosen(s)}]
      <4>1. s \ {Chosen(s)} \in SUBSET U /\ s \ {Chosen(s)} # U
        BY <3>1, ChosenMember
      <4> HIDE DEF G, h
      <4> QED
        BY <2>2, <4>1
    <3>2. h = [s \in SUBSET U |->
                 IF s = {} THEN base ELSE step[s][h[s \ {Chosen(s)}]]]
      <4>1. \A s \in SUBSET U :
              (IF s = {} THEN base
               ELSE step[s][G(s \ {Chosen(s)})[s \ {Chosen(s)}]])
                = IF s = {} THEN base ELSE step[s][h[s \ {Chosen(s)}]]
        <5> HIDE DEF G, h
        <5> QED
          BY <3>1
      <4>2. h = [s \in SUBSET U |->
                   IF s = {} THEN base
                   ELSE step[s][G(s \ {Chosen(s)})[s \ {Chosen(s)}]]]
        OBVIOUS
      <4> HIDE DEF G, h
      <4> QED
        BY <4>1, <4>2
    <3> HIDE DEF h
    <3> QED
      BY <3>2 DEF Folds
  <2> QED
    BY <2>3
<1>2. SUBSET S \subseteq B
  <2> HIDE DEF B
  <2> QED
    BY <1>1, SubsetInduction
<1> QED
  BY <1>2

LEMMA FoldsType ==
  ASSUME NEW Value, NEW base \in Value, NEW S, IsFiniteSet(S),
         NEW step \in [SUBSET S -> [Value -> Value]], NEW g, Folds(g, base, step, S)
  PROVE  g \in [SUBSET S -> Value]
<1> DEFINE B == {s \in SUBSET S : g[s] \in Value}
<1>1. ASSUME NEW U \in SUBSET S, \A V \in SUBSET U : V # U => V \in B
      PROVE  U \in B
  <2>1. g[U] = IF U = {} THEN base ELSE step[U][g[U \ {Chosen(U)}]]
    BY FoldsAt
  <2>2. U # {} => g[U \ {Chosen(U)}] \in Value
    BY <1>1, ChosenMember
  <2> QED
    BY <2>1, <2>2
<1>2. SUBSET S \subseteq B
  <2> HIDE DEF B
  <2> QED
    BY <1>1, SubsetInduction
<1> QED
  BY <1>2 DEF Folds

-----------------------------------------------------------------------------
(* Sums.                                                                   *)

SumOf(f, S) == MapThenSumSet(LAMBDA x : f[x], S)

\* g adds up f over every subset of S, taking out the chosen member first.
Adds(g, f, S) ==
  g = [s \in SUBSET S |-> IF s = {} THEN 0 ELSE f[Chosen(s)] + g[s \ {Chosen(s)}]]

LEMMA SumOfIsAdds == 
  ASSUME NEW f, NEW S
  PROVE  SumOf(f, S) = (CHOOSE g : Adds(g, f, S))[S]
BY DEF SumOf, MapThenSumSet, MapThenFoldSet, Adds, Chosen

LEMMA AddsAt ==
  ASSUME NEW f, NEW S, NEW g, Adds(g, f, S), NEW s \in SUBSET S
  PROVE  g[s] = IF s = {} THEN 0 ELSE f[Chosen(s)] + g[s \ {Chosen(s)}]
BY DEF Adds

\* Two functions that add up f agree on the subsets they share.
LEMMA AddsUnique ==
  ASSUME NEW f, NEW S, NEW R, IsFiniteSet(S), NEW g, NEW h, Adds(g, f, S), Adds(h, f, R)
  PROVE  \A s \in SUBSET S : s \in SUBSET R => g[s] = h[s]
<1> DEFINE B == {s \in SUBSET S : s \in SUBSET R => g[s] = h[s]}
<1>1. ASSUME NEW U \in SUBSET S, \A V \in SUBSET U : V # U => V \in B
      PROVE  U \in B
  <2> SUFFICES ASSUME U \in SUBSET R PROVE g[U] = h[U]
    OBVIOUS
  <2>1. g[U] = IF U = {} THEN 0 ELSE f[Chosen(U)] + g[U \ {Chosen(U)}]
    BY DEF Adds
  <2>2. h[U] = IF U = {} THEN 0 ELSE f[Chosen(U)] + h[U \ {Chosen(U)}]
    BY DEF Adds
  <2>3. U # {} => g[U \ {Chosen(U)}] = h[U \ {Chosen(U)}]
    BY <1>1, ChosenMember
  <2> QED
    BY <2>1, <2>2, <2>3
<1>2. SUBSET S \subseteq B
  <2> HIDE DEF B
  <2> QED
    BY <1>1, SubsetInduction
<1> QED
  BY <1>2

LEMMA AddsExists ==
  ASSUME NEW f, NEW S, IsFiniteSet(S), \A x \in S : f[x] \in Int
  PROVE  \E g : Adds(g, f, S)
<1> DEFINE step == [s \in SUBSET S |->
                      [v \in Int |-> IF s = {} THEN v ELSE f[Chosen(s)] + v]]
<1>1. step \in [SUBSET S -> [Int -> Int]]
  BY ChosenMember
<1>2. PICK g : Folds(g, 0, step, S)
  <2> HIDE DEF step
  <2> QED
    BY FoldsExists
<1>3. g \in [SUBSET S -> Int]
  <2>1. 0 \in Int
    OBVIOUS
  <2> HIDE DEF step
  <2> QED
    BY <1>1, <1>2, <2>1, FoldsType
<1>4. \A s \in SUBSET S : s # {} =>
        step[s][g[s \ {Chosen(s)}]] = f[Chosen(s)] + g[s \ {Chosen(s)}]
  BY <1>3, ChosenMember
<1>5. Adds(g, f, S)
  <2> HIDE DEF step
  <2>1. \A s \in SUBSET S :
          (IF s = {} THEN 0 ELSE step[s][g[s \ {Chosen(s)}]])
            = IF s = {} THEN 0 ELSE f[Chosen(s)] + g[s \ {Chosen(s)}]
    BY <1>4
  <2> QED
    BY <1>2, <2>1 DEF Adds, Folds
<1> QED
  BY <1>5

LEMMA SumOfWhenAdds ==
  ASSUME NEW f, NEW S, IsFiniteSet(S), NEW g, Adds(g, f, S),
         NEW s \in SUBSET S, \E h : Adds(h, f, s)
  PROVE  SumOf(f, s) = g[s]
<1> DEFINE k == CHOOSE h : Adds(h, f, s)
<1>1. IsFiniteSet(s)
  BY FS_Subset
<1>2. Adds(k, f, s)
  OBVIOUS
<1>3. k[s] = g[s]
  <2>1. s \in SUBSET s /\ s \in SUBSET S
    OBVIOUS
  <2> HIDE DEF k
  <2> QED
    BY <1>1, <1>2, <2>1, AddsUnique
<1> QED
  BY <1>3, SumOfIsAdds

LEMMA SumOfAdds ==
  ASSUME NEW f, NEW S, IsFiniteSet(S), \A x \in S : f[x] \in Int,
         NEW g, Adds(g, f, S), NEW s \in SUBSET S
  PROVE  SumOf(f, s) = g[s]
<1>1. IsFiniteSet(s)
  BY FS_Subset
<1>2. \E h : Adds(h, f, s)
  BY <1>1, AddsExists
<1> QED
  BY <1>2, SumOfWhenAdds

-----------------------------------------------------------------------------
(* The sum of a finite set.                                                *)

LEMMA SumEmpty ==
  ASSUME NEW f
  PROVE  SumOf(f, {}) = 0
<1>1. IsFiniteSet({})
  BY FS_EmptySet
<1>2. PICK g : Adds(g, f, {})
  BY <1>1, AddsExists
<1>3. SumOf(f, {}) = g[{}]
  BY <1>1, <1>2, SumOfAdds
<1> QED
  BY <1>2, <1>3, AddsAt

LEMMA SumChosen ==
  ASSUME NEW f, NEW S, IsFiniteSet(S), \A x \in S : f[x] \in Int, S # {}
  PROVE  SumOf(f, S) = f[Chosen(S)] + SumOf(f, S \ {Chosen(S)})
<1>1. PICK g : Adds(g, f, S)
  BY AddsExists
<1>2. SumOf(f, S) = g[S] /\ SumOf(f, S \ {Chosen(S)}) = g[S \ {Chosen(S)}]
  BY <1>1, SumOfAdds
<1>3. S \in SUBSET S
  OBVIOUS
<1>4. g[S] = f[Chosen(S)] + g[S \ {Chosen(S)}]
  BY <1>1, <1>3 DEF Adds
<1> QED
  BY <1>2, <1>4

LEMMA SumType ==
  ASSUME NEW f, NEW S, IsFiniteSet(S), \A x \in S : f[x] \in Int
  PROVE  SumOf(f, S) \in Int
<1> DEFINE B == {s \in SUBSET S : SumOf(f, s) \in Int}
<1>1. ASSUME NEW U \in SUBSET S, \A V \in SUBSET U : V # U => V \in B
      PROVE  U \in B
  <2>1. CASE U = {}
    BY <2>1, SumEmpty
  <2>2. CASE U # {}
    <3>1. IsFiniteSet(U)
      BY FS_Subset
    <3>2. SumOf(f, U) = f[Chosen(U)] + SumOf(f, U \ {Chosen(U)})
      BY <2>2, <3>1, SumChosen
    <3>3. f[Chosen(U)] \in Int /\ SumOf(f, U \ {Chosen(U)}) \in Int
      BY <1>1, <2>2, ChosenMember
    <3> QED
      BY <3>2, <3>3
  <2> QED
    BY <2>1, <2>2
<1>2. SUBSET S \subseteq B
  <2> HIDE DEF B
  <2> QED
    BY <1>1, SubsetInduction
<1> QED
  BY <1>2

\* Any member may be taken out first.
LEMMA SumRemove ==
  ASSUME NEW f, NEW S, IsFiniteSet(S), \A x \in S : f[x] \in Int, NEW x \in S
  PROVE  SumOf(f, S) = f[x] + SumOf(f, S \ {x})
<1> DEFINE Out(s) == \A y \in s : SumOf(f, s) = f[y] + SumOf(f, s \ {y})
           B == {s \in SUBSET S : Out(s)}
<1>1. ASSUME NEW U \in SUBSET S, \A V \in SUBSET U : V # U => V \in B
      PROVE  U \in B
  <2> SUFFICES ASSUME NEW y \in U PROVE SumOf(f, U) = f[y] + SumOf(f, U \ {y})
    OBVIOUS
  <2> DEFINE c == Chosen(U)
  <2>1. /\ IsFiniteSet(U)
        /\ IsFiniteSet(U \ {c})
        /\ IsFiniteSet(U \ {y})
        /\ IsFiniteSet((U \ {y}) \ {c})
    BY FS_Subset
  <2>2. SumOf(f, U) = f[c] + SumOf(f, U \ {c})
    BY <2>1, SumChosen
  <2>3. c \in U
    BY ChosenMember
  <2>4. CASE y = c
    BY <2>2, <2>4
  <2>5. CASE y # c
    <3>1. SumOf(f, U \ {c}) = f[y] + SumOf(f, (U \ {c}) \ {y})
      <4>1. U \ {c} \in B /\ y \in U \ {c}
        BY <1>1, <2>3, <2>5
      <4> QED
        BY <4>1
    <3>2. SumOf(f, U \ {y}) = f[c] + SumOf(f, (U \ {y}) \ {c})
      <4>1. U \ {y} \in B /\ c \in U \ {y}
        BY <1>1, <2>3, <2>5
      <4> QED
        BY <4>1
    <3>3. (U \ {c}) \ {y} = (U \ {y}) \ {c}
      OBVIOUS
    <3>4. f[c] \in Int /\ f[y] \in Int
      BY <2>3
    <3>5. SumOf(f, (U \ {y}) \ {c}) \in Int
      BY <2>1, SumType
    <3>6. SumOf(f, (U \ {c}) \ {y}) = SumOf(f, (U \ {y}) \ {c})
      BY <3>3
    <3>7. SumOf(f, U) = f[c] + (f[y] + SumOf(f, (U \ {y}) \ {c}))
      BY <2>2, <3>1, <3>6
    <3>8. SumOf(f, U \ {y}) = f[c] + SumOf(f, (U \ {y}) \ {c})
      BY <3>2
    <3>9. \A i, j, k \in Int : i + (j + k) = j + (i + k)
      OBVIOUS
    <3>10. f[c] + (f[y] + SumOf(f, (U \ {y}) \ {c})) = f[y] + (f[c] + SumOf(f, (U \ {y}) \ {c}))
      BY <3>4, <3>5, <3>9
    <3> QED
      BY <3>7, <3>8, <3>10
  <2> QED
    BY <2>4, <2>5
<1>2. SUBSET S \subseteq B
  <2> HIDE DEF B
  <2> QED
    BY <1>1, SubsetInduction
<1> QED
  BY <1>2

LEMMA SumInsert ==
  ASSUME NEW f, NEW S, IsFiniteSet(S), \A y \in S : f[y] \in Int,
         NEW x, x \notin S, f[x] \in Int
  PROVE  SumOf(f, S \cup {x}) = f[x] + SumOf(f, S)
<1>1. IsFiniteSet(S \cup {x})
  BY FS_AddElement
<1>2. SumOf(f, S \cup {x}) = f[x] + SumOf(f, (S \cup {x}) \ {x})
  BY <1>1, SumRemove
<1>3. (S \cup {x}) \ {x} = S
  OBVIOUS
<1> QED
  BY <1>2, <1>3

\* Only the values on the set count.
LEMMA SumSame ==
  ASSUME NEW f, NEW g, NEW S, IsFiniteSet(S),
         \A x \in S : f[x] \in Int /\ f[x] = g[x]
  PROVE  SumOf(f, S) = SumOf(g, S)
<1>1. PICK h : Adds(h, f, S)
  BY AddsExists
<1>2. Adds(h, g, S)
  <2>1. \A s \in SUBSET S :
          (IF s = {} THEN 0 ELSE f[Chosen(s)] + h[s \ {Chosen(s)}])
            = IF s = {} THEN 0 ELSE g[Chosen(s)] + h[s \ {Chosen(s)}]
    BY ChosenMember
  <2>2. h = [s \in SUBSET S |-> IF s = {} THEN 0 ELSE f[Chosen(s)] + h[s \ {Chosen(s)}]]
    BY <1>1 DEF Adds
  <2>3. h = [s \in SUBSET S |-> IF s = {} THEN 0 ELSE g[Chosen(s)] + h[s \ {Chosen(s)}]]
    BY <2>1, <2>2
  <2> QED
    BY <2>3 DEF Adds
<1> QED
  BY <1>1, <1>2, SumOfAdds

LEMMA SumOfZeros ==
  ASSUME NEW f, NEW S, IsFiniteSet(S), \A x \in S : f[x] = 0
  PROVE  SumOf(f, S) = 0
<1> DEFINE B == {s \in SUBSET S : SumOf(f, s) = 0}
<1>1. ASSUME NEW U \in SUBSET S, \A V \in SUBSET U : V # U => V \in B
      PROVE  U \in B
  <2>1. CASE U = {}
    BY <2>1, SumEmpty
  <2>2. CASE U # {}
    <3>1. IsFiniteSet(U)
      BY FS_Subset
    <3>2. SumOf(f, U) = f[Chosen(U)] + SumOf(f, U \ {Chosen(U)})
      BY <2>2, <3>1, SumChosen
    <3>3. f[Chosen(U)] = 0 /\ SumOf(f, U \ {Chosen(U)}) = 0
      BY <1>1, <2>2, ChosenMember
    <3> QED
      BY <3>2, <3>3
  <2> QED
    BY <2>1, <2>2
<1>2. SUBSET S \subseteq B
  <2> HIDE DEF B
  <2> QED
    BY <1>1, SubsetInduction
<1> QED
  BY <1>2

LEMMA SumOfNaturals ==
  ASSUME NEW f, NEW S, IsFiniteSet(S), \A x \in S : f[x] \in Nat
  PROVE  SumOf(f, S) \in Nat
<1> DEFINE B == {s \in SUBSET S : SumOf(f, s) \in Nat}
<1>1. ASSUME NEW U \in SUBSET S, \A V \in SUBSET U : V # U => V \in B
      PROVE  U \in B
  <2>1. CASE U = {}
    BY <2>1, SumEmpty
  <2>2. CASE U # {}
    <3>1. IsFiniteSet(U)
      BY FS_Subset
    <3>2. SumOf(f, U) = f[Chosen(U)] + SumOf(f, U \ {Chosen(U)})
      BY <2>2, <3>1, SumChosen
    <3>3. f[Chosen(U)] \in Nat /\ SumOf(f, U \ {Chosen(U)}) \in Nat
      BY <1>1, <2>2, ChosenMember
    <3> QED
      BY <3>2, <3>3
  <2> QED
    BY <2>1, <2>2
<1>2. SUBSET S \subseteq B
  <2> HIDE DEF B
  <2> QED
    BY <1>1, SubsetInduction
<1> QED
  BY <1>2

\* No member of a set of naturals exceeds their sum.
LEMMA SumAtLeast ==
  ASSUME NEW f, NEW S, IsFiniteSet(S), \A x \in S : f[x] \in Nat, NEW x \in S
  PROVE  f[x] <= SumOf(f, S)
<1>1. SumOf(f, S) = f[x] + SumOf(f, S \ {x})
  BY SumRemove
<1>2. SumOf(f, S \ {x}) \in Nat
  BY FS_Subset, SumOfNaturals
<1> QED
  BY <1>1, <1>2

\* What changes at one member changes the sum by as much.
LEMMA SumChange ==
  ASSUME NEW f, NEW g, NEW S, IsFiniteSet(S), NEW x \in S,
         \A y \in S : f[y] \in Int /\ g[y] \in Int,
         \A y \in S \ {x} : f[y] = g[y]
  PROVE  SumOf(g, S) = SumOf(f, S) + g[x] - f[x]
<1>1. SumOf(f, S) = f[x] + SumOf(f, S \ {x}) /\ SumOf(g, S) = g[x] + SumOf(g, S \ {x})
  BY SumRemove
<1>2. IsFiniteSet(S \ {x})
  BY FS_Subset
<1>3. SumOf(f, S \ {x}) = SumOf(g, S \ {x})
  BY <1>2, SumSame
<1>4. SumOf(f, S \ {x}) \in Int
  BY <1>2, SumType
<1> QED
  BY <1>1, <1>3, <1>4

\* One more member, the others being worth what they were.
LEMMA SumExtend ==
  ASSUME NEW f, NEW g, NEW S, IsFiniteSet(S), \A y \in S : f[y] \in Int,
         \A y \in S : g[y] = f[y], NEW x, x \notin S, g[x] \in Int
  PROVE  SumOf(g, S \cup {x}) = SumOf(f, S) + g[x]
<1>1. \A y \in S : g[y] \in Int
  OBVIOUS
<1>2. SumOf(g, S \cup {x}) = g[x] + SumOf(g, S)
  BY <1>1, SumInsert
<1>3. SumOf(g, S) = SumOf(f, S)
  BY SumSame
<1>4. SumOf(f, S) \in Int
  BY SumType
<1> QED
  BY <1>2, <1>3, <1>4

LEMMA SumDisjoint ==
  ASSUME NEW f, NEW S, NEW R, IsFiniteSet(S), IsFiniteSet(R), S \cap R = {},
         \A x \in S \cup R : f[x] \in Int
  PROVE  SumOf(f, S \cup R) = SumOf(f, S) + SumOf(f, R)
<1> DEFINE B == {s \in SUBSET S : SumOf(f, s \cup R) = SumOf(f, s) + SumOf(f, R)}
<1>1. ASSUME NEW U \in SUBSET S, \A V \in SUBSET U : V # U => V \in B
      PROVE  U \in B
  <2>0. IsFiniteSet(U) /\ IsFiniteSet(U \cup R) /\ SumOf(f, R) \in Int
    BY FS_Subset, FS_Union, SumType
  <2>1. CASE U = {}
    <3>1. U \cup R = R
      BY <2>1
    <3> QED
      BY <2>0, <2>1, <3>1, SumEmpty
  <2>2. CASE U # {}
    <3> PICK x \in U : TRUE
      BY <2>2
    <3>1. (U \cup R) \ {x} = (U \ {x}) \cup R
      OBVIOUS
    <3>2. SumOf(f, U \cup R) = f[x] + SumOf(f, (U \ {x}) \cup R)
      <4>1. x \in U \cup R /\ \A y \in U \cup R : f[y] \in Int
        OBVIOUS
      <4>2. SumOf(f, U \cup R) = f[x] + SumOf(f, (U \cup R) \ {x})
        BY <2>0, <4>1, SumRemove
      <4> QED
        BY <3>1, <4>2
    <3>3. SumOf(f, U) = f[x] + SumOf(f, U \ {x})
      <4>1. \A y \in U : f[y] \in Int
        OBVIOUS
      <4> QED
        BY <2>0, <4>1, SumRemove
    <3>4. SumOf(f, (U \ {x}) \cup R) = SumOf(f, U \ {x}) + SumOf(f, R)
      <4>1. U \ {x} \in B
        BY <1>1
      <4> QED
        BY <4>1
    <3>5. f[x] \in Int /\ SumOf(f, U \ {x}) \in Int
      <4>1. IsFiniteSet(U \ {x}) /\ \A y \in U \ {x} : f[y] \in Int
        BY <2>0, FS_Subset
      <4> QED
        BY <4>1, SumType
    <3>6. \A i, j, k \in Int : i + (j + k) = (i + j) + k
      OBVIOUS
    <3>7. f[x] + (SumOf(f, U \ {x}) + SumOf(f, R)) = (f[x] + SumOf(f, U \ {x})) + SumOf(f, R)
      BY <2>0, <3>5, <3>6
    <3> QED
      BY <3>2, <3>3, <3>4, <3>7
  <2> QED
    BY <2>1, <2>2
<1>2. SUBSET S \subseteq B
  <2> HIDE DEF B
  <2> QED
    BY <1>1, SubsetInduction
<1> QED
  BY <1>2

LEMMA SumPlus ==
  ASSUME NEW f, NEW g, NEW h, NEW S, IsFiniteSet(S),
         \A x \in S : f[x] \in Int /\ g[x] \in Int /\ h[x] = f[x] + g[x]
  PROVE  SumOf(h, S) = SumOf(f, S) + SumOf(g, S)
<1> DEFINE B == {s \in SUBSET S : SumOf(h, s) = SumOf(f, s) + SumOf(g, s)}
<1>1. ASSUME NEW U \in SUBSET S, \A V \in SUBSET U : V # U => V \in B
      PROVE  U \in B
  <2>1. CASE U = {}
    BY <2>1, SumEmpty
  <2>2. CASE U # {}
    <3> PICK x \in U : TRUE
      BY <2>2
    <3>1. /\ IsFiniteSet(U)
          /\ \A y \in U : f[y] \in Int
          /\ \A y \in U : g[y] \in Int
          /\ \A y \in U : h[y] \in Int
      BY FS_Subset
    <3>2. SumOf(f, U) = f[x] + SumOf(f, U \ {x})
      BY <3>1, SumRemove
    <3>3. SumOf(g, U) = g[x] + SumOf(g, U \ {x})
      BY <3>1, SumRemove
    <3>4. SumOf(h, U) = h[x] + SumOf(h, U \ {x})
      BY <3>1, SumRemove
    <3>5. SumOf(h, U \ {x}) = SumOf(f, U \ {x}) + SumOf(g, U \ {x})
      <4>1. U \ {x} \in B
        BY <1>1
      <4> QED
        BY <4>1
    <3>6. IsFiniteSet(U \ {x})
      BY <3>1, FS_Subset
    <3>7. SumOf(f, U \ {x}) \in Int
      BY <3>1, <3>6, SumType
    <3>8. SumOf(g, U \ {x}) \in Int
      BY <3>1, <3>6, SumType
    <3>9. \A i, j, k, l \in Int : (i + j) + (k + l) = (i + k) + (j + l)
      OBVIOUS
    <3>10. (f[x] + g[x]) + (SumOf(f, U \ {x}) + SumOf(g, U \ {x}))
             = (f[x] + SumOf(f, U \ {x})) + (g[x] + SumOf(g, U \ {x}))
      BY <3>1, <3>7, <3>8, <3>9
    <3>11. h[x] = f[x] + g[x]
      OBVIOUS
    <3> QED
      BY <3>2, <3>3, <3>4, <3>5, <3>10, <3>11
  <2> QED
    BY <2>1, <2>2
<1>2. SUBSET S \subseteq B
  <2> HIDE DEF B
  <2> QED
    BY <1>1, SubsetInduction
<1> QED
  BY <1>2

\* A set counts each of its members once.
LEMMA SumOfOnes ==
  ASSUME NEW f, NEW S, IsFiniteSet(S), \A x \in S : f[x] = 1
  PROVE  SumOf(f, S) = Cardinality(S)
<1> DEFINE B == {s \in SUBSET S : SumOf(f, s) = Cardinality(s)}
<1>1. ASSUME NEW U \in SUBSET S, \A V \in SUBSET U : V # U => V \in B
      PROVE  U \in B
  <2>1. CASE U = {}
    BY <2>1, SumEmpty, FS_EmptySet
  <2>2. CASE U # {}
    <3> PICK x \in U : TRUE
      BY <2>2
    <3>1. IsFiniteSet(U) /\ \A y \in U : f[y] \in Int
      BY FS_Subset
    <3>2. SumOf(f, U) = 1 + SumOf(f, U \ {x})
      BY <3>1, SumRemove
    <3>3. SumOf(f, U \ {x}) = Cardinality(U \ {x})
      <4>1. U \ {x} \in B
        BY <1>1
      <4> QED
        BY <4>1
    <3>4. Cardinality(U \ {x}) = Cardinality(U) - 1 /\ Cardinality(U) \in Nat
      BY <3>1, FS_RemoveElement, FS_CardinalityType
    <3> QED
      BY <3>2, <3>3, <3>4
  <2> QED
    BY <2>1, <2>2
<1>2. SUBSET S \subseteq B
  <2> HIDE DEF B
  <2> QED
    BY <1>1, SubsetInduction
<1> QED
  BY <1>2

LEMMA SumTimes ==
  ASSUME NEW f, NEW h, NEW S, NEW n \in Int, IsFiniteSet(S),
         \A x \in S : f[x] \in Int /\ h[x] = f[x] * n
  PROVE  SumOf(h, S) = SumOf(f, S) * n
<1> DEFINE B == {s \in SUBSET S : SumOf(h, s) = SumOf(f, s) * n}
<1>1. ASSUME NEW U \in SUBSET S, \A V \in SUBSET U : V # U => V \in B
      PROVE  U \in B
  <2>1. CASE U = {}
    BY <2>1, SumEmpty
  <2>2. CASE U # {}
    <3> PICK x \in U : TRUE
      BY <2>2
    <3>1. IsFiniteSet(U) /\ \A y \in U : f[y] \in Int /\ h[y] = f[y] * n
      BY FS_Subset
    <3>2. \A i \in Int : i * n \in Int
      OBVIOUS
    <3>3. \A y \in U : h[y] \in Int
      BY <3>1, <3>2
    <3>4. SumOf(f, U) = f[x] + SumOf(f, U \ {x})
      BY <3>1, SumRemove
    <3>5. SumOf(h, U) = h[x] + SumOf(h, U \ {x})
      BY <3>1, <3>3, SumRemove
    <3>6. SumOf(h, U \ {x}) = SumOf(f, U \ {x}) * n
      <4>1. U \ {x} \in B
        BY <1>1
      <4> QED
        BY <4>1
    <3>7. SumOf(f, U \ {x}) \in Int /\ f[x] \in Int
      <4>1. IsFiniteSet(U \ {x})
        BY <3>1, FS_Subset
      <4> QED
        BY <3>1, <4>1, SumType
    <3>8. \A i, j \in Int : (i + j) * n = i * n + j * n
      OBVIOUS
    <3>9. h[x] = f[x] * n
      BY <3>1
    <3>10. (f[x] + SumOf(f, U \ {x})) * n = f[x] * n + SumOf(f, U \ {x}) * n
      BY <3>7, <3>8
    <3> QED
      BY <3>4, <3>5, <3>6, <3>9, <3>10
  <2> QED
    BY <2>1, <2>2
<1>2. SUBSET S \subseteq B
  <2> HIDE DEF B
  <2> QED
    BY <1>1, SubsetInduction
<1> QED
  BY <1>2

\* F[k] is what f adds up to in the group k, each member of S being in the group
\* that g gives.
Grouped(f, g, F, S, K) ==
  /\ IsFiniteSet(S) /\ IsFiniteSet(K)
  /\ \A x \in S : f[x] \in Int /\ g[x] \in K
  /\ \A k \in K : F[k] = SumOf(f, {x \in S : g[x] = k})

\* A set is as much as its groups together.
LEMMA SumGroups ==
  ASSUME NEW f, NEW g, NEW F, NEW S, NEW K, Grouped(f, g, F, S, K)
  PROVE  SumOf(F, K) = SumOf(f, S)
<1> USE DEF Grouped
<1> DEFINE In(U) == {x \in S : g[x] \in U}
           B == {U \in SUBSET K : SumOf(F, U) = SumOf(f, In(U))}
<1>0. ASSUME NEW k \in K PROVE F[k] \in Int
  <2>1. IsFiniteSet({x \in S : g[x] = k})
    BY FS_Subset
  <2> QED
    BY <2>1, SumType
<1>1. ASSUME NEW U \in SUBSET K, \A V \in SUBSET U : V # U => V \in B
      PROVE  U \in B
  <2>1. CASE U = {}
    <3>1. In(U) = {}
      BY <2>1
    <3> QED
      BY <2>1, <3>1, SumEmpty
  <2>2. CASE U # {}
    <3> PICK k \in U : TRUE
      BY <2>2
    <3>1. IsFiniteSet(U) /\ \A u \in U : F[u] \in Int
      BY <1>0, FS_Subset
    <3>2. SumOf(F, U) = F[k] + SumOf(F, U \ {k})
      BY <3>1, SumRemove
    <3>3. SumOf(F, U \ {k}) = SumOf(f, In(U \ {k}))
      <4>1. U \ {k} \in B
        BY <1>1
      <4> QED
        BY <4>1
    <3>4. /\ In(U) = {x \in S : g[x] = k} \cup In(U \ {k})
          /\ {x \in S : g[x] = k} \cap In(U \ {k}) = {}
      OBVIOUS
    <3>5. IsFiniteSet({x \in S : g[x] = k}) /\ IsFiniteSet(In(U \ {k}))
      BY FS_Subset
    <3>6. \A x \in {x \in S : g[x] = k} \cup In(U \ {k}) : f[x] \in Int
      OBVIOUS
    <3>7. F[k] = SumOf(f, {x \in S : g[x] = k})
      OBVIOUS
    <3> HIDE DEF In
    <3>8. SumOf(f, {x \in S : g[x] = k} \cup In(U \ {k}))
            = SumOf(f, {x \in S : g[x] = k}) + SumOf(f, In(U \ {k}))
      BY <3>4, <3>5, <3>6, SumDisjoint
    <3> QED
      BY <3>2, <3>3, <3>4, <3>7, <3>8
  <2> QED
    BY <2>1, <2>2
<1>2. SUBSET K \subseteq B
  <2> HIDE DEF B
  <2> QED
    BY <1>1, SubsetInduction
<1>3. K \in B
  <2> HIDE DEF B
  <2> QED
    BY <1>2
<1>4. In(K) = S
  OBVIOUS
<1> QED
  BY <1>3, <1>4

\* What is no more anywhere is less in all exactly when it is less somewhere.
LEMMA SumLess ==
  ASSUME NEW f, NEW g, NEW S, IsFiniteSet(S),
         \A x \in S : f[x] \in Int /\ g[x] \in Int /\ f[x] <= g[x]
  PROVE  (SumOf(f, S) < SumOf(g, S)) <=> \E x \in S : f[x] < g[x]
<1> DEFINE h == [x \in S |-> g[x] - f[x]]
<1>1. \A x \in S : h[x] \in Nat /\ h[x] \in Int /\ g[x] = f[x] + h[x]
  OBVIOUS
<1>2. \A x \in S : f[x] < g[x] <=> h[x] # 0
  OBVIOUS
<1> HIDE DEF h
<1>3. SumOf(g, S) = SumOf(f, S) + SumOf(h, S)
  BY <1>1, SumPlus
<1>4. SumOf(f, S) \in Int /\ SumOf(h, S) \in Nat
  BY <1>1, SumType, SumOfNaturals
<1>5. SumOf(f, S) < SumOf(g, S) <=> SumOf(h, S) # 0
  BY <1>3, <1>4
<1>6. SumOf(h, S) # 0 => \E x \in S : h[x] # 0
  BY SumOfZeros
<1>7. ASSUME NEW x \in S, h[x] # 0 PROVE SumOf(h, S) # 0
  <2>1. h[x] <= SumOf(h, S)
    BY <1>1, SumAtLeast
  <2> QED
    BY <1>1, <1>4, <1>7, <2>1
<1> QED
  BY <1>2, <1>5, <1>6, <1>7

\* What is apart by e at most of every member is apart by e a member in all.
LEMMA SumApart ==
  ASSUME NEW f, NEW g, NEW S, NEW e \in Int, IsFiniteSet(S),
         \A x \in S : f[x] \in Int /\ g[x] \in Int /\ f[x] - g[x] <= e
  PROVE  SumOf(f, S) - SumOf(g, S) <= e * Cardinality(S)
<1> DEFINE one == [x \in S |-> 1]
           most == [x \in S |-> e]
           rest == [x \in S |-> e + g[x] - f[x]]
           all == [x \in S |-> e + g[x]]
<1>1. \A x \in S : /\ one[x] = 1 /\ most[x] = e
                   /\ rest[x] \in Nat /\ all[x] \in Int
                   /\ all[x] = most[x] + g[x]
                   /\ all[x] = rest[x] + f[x]
  OBVIOUS
<1>2. \A x \in S : one[x] \in Int /\ most[x] = one[x] * e
  OBVIOUS
<1> HIDE DEF one, most, rest, all
<1>3. SumOf(most, S) = Cardinality(S) * e
  <2>1. SumOf(one, S) = Cardinality(S)
    BY <1>1, SumOfOnes
  <2>2. SumOf(most, S) = SumOf(one, S) * e
    BY <1>2, SumTimes
  <2> QED
    BY <2>1, <2>2
<1>4. SumOf(all, S) = SumOf(most, S) + SumOf(g, S)
  BY <1>1, SumPlus
<1>5. SumOf(all, S) = SumOf(rest, S) + SumOf(f, S)
  BY <1>1, SumPlus
<1>6. /\ SumOf(rest, S) \in Nat /\ SumOf(f, S) \in Int /\ SumOf(g, S) \in Int
      /\ SumOf(most, S) \in Int
  BY <1>1, SumOfNaturals, SumType
<1>7. Cardinality(S) * e = e * Cardinality(S)
  BY FS_CardinalityType
<1>8. SumOf(f, S) - SumOf(g, S) <= SumOf(most, S)
  BY <1>4, <1>5, <1>6
<1> QED
  BY <1>3, <1>7, <1>8

\* The same, in units of which the numbers that are added are a and b.
LEMMA SumScaled ==
  ASSUME NEW f, NEW g, NEW S, NEW a \in Int, NEW b \in Int, NEW e \in Int,
         IsFiniteSet(S),
         \A x \in S : f[x] \in Int /\ g[x] \in Int /\ f[x] * a - g[x] * b <= e
  PROVE  SumOf(f, S) * a - SumOf(g, S) * b <= e * Cardinality(S)
<1> DEFINE fa == [x \in S |-> f[x] * a]
           gb == [x \in S |-> g[x] * b]
<1>1. \A x \in S : /\ f[x] \in Int /\ fa[x] = f[x] * a
                   /\ g[x] \in Int /\ gb[x] = g[x] * b
  OBVIOUS
<1>2. \A i, j \in Int : i * j \in Int
  OBVIOUS
<1>3. \A x \in S : fa[x] \in Int /\ gb[x] \in Int /\ fa[x] - gb[x] <= e
  BY <1>1, <1>2
<1> HIDE DEF fa, gb
<1>4. SumOf(fa, S) = SumOf(f, S) * a /\ SumOf(gb, S) = SumOf(g, S) * b
  BY <1>1, SumTimes
<1>5. SumOf(fa, S) - SumOf(gb, S) <= e * Cardinality(S)
  BY <1>3, SumApart
<1> QED
  BY <1>4, <1>5

\* Quotient and remainder, and what the two numbers next to the quotient are
\* away from what was divided.
LEMMA DivisionParts ==
  ASSUME NEW n \in Nat, NEW d \in Nat \ {0}
  PROVE  /\ n \div d \in Nat
         /\ n % d \in Nat
         /\ n % d < d
         /\ (n \div d) * d = n - (n % d)
         /\ ((n \div d) + 1) * d = n - (n % d) + d
<1>1. /\ n \div d \in Int
      /\ n % d \in 0..(d - 1)
      /\ n = d * (n \div d) + (n % d)
  OBVIOUS
<1>2. \A i \in Int : d * i = i * d /\ (i + 1) * d = i * d + d /\ i * d \in Int
  OBVIOUS
<1>3. \A i \in Int : i < 0 => i * d <= 0 - d
  OBVIOUS
<1>4. n \div d >= 0
  BY <1>1, <1>2, <1>3
<1> QED
  BY <1>1, <1>2, <1>4

\* A whole number next to a quotient is half a unit away at most.
LEMMA NearestWhole ==
  ASSUME NEW n \in Nat, NEW d \in Nat \ {0}, NEW q,
         \/ q = n \div d /\ 2 * (n % d) <= d
         \/ q = (n \div d) + 1 /\ 2 * (n % d) >= d
  PROVE  /\ q \in Nat
         /\ q * (2 * d) - n * 2 <= d
         /\ n * 2 - q * (2 * d) <= d
<1>1. /\ n \div d \in Nat
      /\ n % d \in Nat /\ n % d < d
      /\ (n \div d) * d = n - (n % d)
      /\ ((n \div d) + 1) * d = n - (n % d) + d
  BY DivisionParts
<1>2. q \in Nat
  BY <1>1
<1>3. q * (2 * d) = (q * d) + (q * d)
  BY <1>2
<1>4. CASE q = n \div d /\ 2 * (n % d) <= d
  <2>1. q * d = n - (n % d)
    BY <1>1, <1>4
  <2> QED
    BY <1>1, <1>2, <1>3, <1>4, <2>1
<1>5. CASE q = (n \div d) + 1 /\ 2 * (n % d) >= d
  <2>1. q * d = n - (n % d) + d
    BY <1>1, <1>5
  <2> QED
    BY <1>1, <1>2, <1>3, <1>5, <2>1
<1> QED
  BY <1>4, <1>5

\* A multiple divides without a remainder.
LEMMA DivisionOfMultiple ==
  ASSUME NEW c \in Nat, NEW d \in Nat \ {0}
  PROVE  (c * d) \div d = c /\ (c * d) % d = 0
<1>1. c * d \in Nat
  OBVIOUS
<1> DEFINE q == (c * d) \div d
           r == (c * d) % d
<1>2. q \in Nat /\ r \in Nat /\ r < d /\ q * d = c * d - r
  BY <1>1, DivisionParts
<1> HIDE DEF q, r
<1>3. (c - q) * d = r
  BY <1>1, <1>2
<1>4. c - q = 0
  <2>1. \A i \in Int : i >= 1 => i * d >= d
    OBVIOUS
  <2>2. \A i \in Int : i <= -1 => i * d <= -1
    OBVIOUS
  <2> QED
    BY <1>2, <1>3, <2>1, <2>2
<1> QED
  BY <1>2, <1>3, <1>4 DEF q, r

-----------------------------------------------------------------------------
(* Products.                                                               *)

ProductOf(f, S) ==
  MapThenFoldSet(LAMBDA x, y : x * y, 1, LAMBDA x : f[x],
                 LAMBDA s : CHOOSE x \in s : TRUE, S)

Multiplies(g, f, S) ==
  g = [s \in SUBSET S |-> IF s = {} THEN 1 ELSE f[Chosen(s)] * g[s \ {Chosen(s)}]]

LEMMA ProductOfIsMultiplies ==
  ASSUME NEW f, NEW S
  PROVE  ProductOf(f, S) = (CHOOSE g : Multiplies(g, f, S))[S]
BY DEF ProductOf, MapThenFoldSet, Multiplies, Chosen

LEMMA MultipliesAt ==
  ASSUME NEW f, NEW S, NEW g, Multiplies(g, f, S), NEW s \in SUBSET S
  PROVE  g[s] = IF s = {} THEN 1 ELSE f[Chosen(s)] * g[s \ {Chosen(s)}]
BY DEF Multiplies

LEMMA MultipliesExists ==
  ASSUME NEW f, NEW S, IsFiniteSet(S), \A x \in S : f[x] \in Int
  PROVE  \E g : Multiplies(g, f, S)
<1> DEFINE step == [s \in SUBSET S |->
                      [v \in Int |-> IF s = {} THEN v ELSE f[Chosen(s)] * v]]
<1>1. step \in [SUBSET S -> [Int -> Int]]
  <2>1. ASSUME NEW s \in SUBSET S, NEW v \in Int, s # {}
        PROVE  f[Chosen(s)] * v \in Int
    <3>1. f[Chosen(s)] \in Int
      BY <2>1, ChosenMember
    <3>2. \A i, j \in Int : i * j \in Int
      OBVIOUS
    <3> QED
      BY <3>1, <3>2
  <2> QED
    BY <2>1
<1>2. PICK g : Folds(g, 1, step, S)
  <2> HIDE DEF step
  <2> QED
    BY FoldsExists
<1>3. g \in [SUBSET S -> Int]
  <2>1. 1 \in Int
    OBVIOUS
  <2> HIDE DEF step
  <2> QED
    BY <1>1, <1>2, <2>1, FoldsType
<1>4. \A s \in SUBSET S : s # {} =>
        step[s][g[s \ {Chosen(s)}]] = f[Chosen(s)] * g[s \ {Chosen(s)}]
  BY <1>3, ChosenMember
<1>5. Multiplies(g, f, S)
  <2> HIDE DEF step
  <2>1. \A s \in SUBSET S :
          (IF s = {} THEN 1 ELSE step[s][g[s \ {Chosen(s)}]])
            = IF s = {} THEN 1 ELSE f[Chosen(s)] * g[s \ {Chosen(s)}]
    BY <1>4
  <2> QED
    BY <1>2, <2>1 DEF Multiplies, Folds
<1> QED
  BY <1>5

\* The product of integers that stay in a set closed under their products.
LEMMA ProductType ==
  ASSUME NEW f, NEW S, IsFiniteSet(S), \A x \in S : f[x] \in Int,
         NEW Value, 1 \in Value, \A x \in S : \A v \in Value : f[x] * v \in Value
  PROVE  ProductOf(f, S) \in Value
<1> DEFINE g == CHOOSE g : Multiplies(g, f, S)
           B == {s \in SUBSET S : g[s] \in Value}
<1>1. Multiplies(g, f, S)
  <2>1. \E h : Multiplies(h, f, S)
    BY MultipliesExists
  <2> QED
    BY <2>1
<1>2. ASSUME NEW U \in SUBSET S, \A V \in SUBSET U : V # U => V \in B
      PROVE  U \in B
  <2>1. g[U] = IF U = {} THEN 1 ELSE f[Chosen(U)] * g[U \ {Chosen(U)}]
    <3> HIDE DEF g
    <3> QED
      BY <1>1 DEF Multiplies
  <2>2. U # {} => Chosen(U) \in S /\ g[U \ {Chosen(U)}] \in Value
    <3> HIDE DEF g
    <3> QED
      BY <1>2, ChosenMember
  <2> HIDE DEF g
  <2> QED
    BY <2>1, <2>2
<1>3. SUBSET S \subseteq B
  <2> HIDE DEF B
  <2> QED
    BY <1>2, SubsetInduction
<1> QED
  BY <1>3, ProductOfIsMultiplies

-----------------------------------------------------------------------------
(* Induction along an interval, and sums of sequences.                     *)

LEMMA IntervalInduction ==
  ASSUME NEW n \in Nat, NEW B, \A k \in 0..n : (k > 0 => k - 1 \in B) => k \in B
  PROVE  0..n \subseteq B
<1> DEFINE S == 1..n
           C == {U \in SUBSET S : \A m \in 0..n : U = 1..m => m \in B}
<1>1. IsFiniteSet(S)
  BY FS_Interval
<1>2. ASSUME NEW U \in SUBSET S, \A V \in SUBSET U : V # U => V \in C
      PROVE  U \in C
  <2> SUFFICES ASSUME NEW m \in 0..n, U = 1..m
               PROVE  m \in B
    OBVIOUS
  <2>1. CASE m = 0
    BY <2>1
  <2>2. CASE m > 0
    <3>1. 1..(m - 1) \in SUBSET U /\ m \in U /\ m \notin 1..(m - 1)
      BY <2>2
    <3>2. 1..(m - 1) \in C
      BY <1>2, <3>1
    <3>3. m - 1 \in 0..n
      BY <2>2
    <3> QED
      BY <3>2, <3>3
  <2> QED
    BY <2>1, <2>2
<1>3. SUBSET S \subseteq C
  <2> HIDE DEF C, S
  <2> QED
    BY <1>1, <1>2, SubsetInduction
<1>4. ASSUME NEW m \in 0..n PROVE m \in B
  <2>1. 1..m \in SUBSET S
    OBVIOUS
  <2> QED
    BY <1>3, <2>1
<1> QED
  BY <1>4

\* The sum up to n, one more at a time.
LEMMA SumStep ==
  ASSUME NEW f, NEW n \in Nat, \A k \in 1..(n + 1) : f[k] \in Int
  PROVE  /\ SumOf(f, 1..(n + 1)) = SumOf(f, 1..n) + f[n + 1]
         /\ SumOf(f, 1..n) \in Int
<1>1. /\ IsFiniteSet(1..n)
      /\ \A k \in 1..n : f[k] \in Int
      /\ n + 1 \notin 1..n
      /\ f[n + 1] \in Int
      /\ 1..(n + 1) = (1..n) \cup {n + 1}
  BY FS_Interval
<1>2. SumOf(f, (1..n) \cup {n + 1}) = f[n + 1] + SumOf(f, 1..n)
  BY <1>1, SumInsert
<1>3. SumOf(f, 1..n) \in Int
  BY <1>1, SumType
<1>4. SumOf(f, 1..(n + 1)) = f[n + 1] + SumOf(f, 1..n)
  BY <1>1, <1>2
<1>5. f[n + 1] \in Int
  BY <1>1
<1> QED
  BY <1>3, <1>4, <1>5

\* A sum along an interval is known by where it begins and what each step adds.
Accumulates(total, f, n) ==
  total[0] = 0 /\ \A k \in 1..n : f[k] \in Int /\ total[k] = total[k - 1] + f[k]

LEMMA SumBySteps ==
  ASSUME NEW f, NEW n \in Nat, NEW total, Accumulates(total, f, n)
  PROVE  \A k \in 0..n : SumOf(f, 1..k) = total[k]
<1> USE DEF Accumulates
<1> DEFINE B == {k \in 0..n : SumOf(f, 1..k) = total[k]}
<1>1. ASSUME NEW k \in 0..n, k > 0 => k - 1 \in B
      PROVE  k \in B
  <2>1. CASE k = 0
    <3>1. 1..0 = {}
      OBVIOUS
    <3> QED
      BY <2>1, <3>1, SumEmpty
  <2>2. CASE k > 0
    <3>1. k - 1 \in Nat /\ (k - 1) + 1 = k
      BY <2>2
    <3>2. \A i \in 1..((k - 1) + 1) : f[i] \in Int
      BY <3>1
    <3>3. SumOf(f, 1..((k - 1) + 1)) = SumOf(f, 1..(k - 1)) + f[(k - 1) + 1]
      BY <3>1, <3>2, SumStep
    <3>4. SumOf(f, 1..(k - 1)) = total[k - 1]
      BY <1>1, <2>2
    <3> QED
      BY <2>2, <3>1, <3>3, <3>4
  <2> QED
    BY <2>1, <2>2
<1>2. 0..n \subseteq B
  <2> HIDE DEF B
  <2> QED
    BY <1>1, IntervalInduction
<1> QED
  BY <1>2

LEMMA SumConcat ==
  ASSUME NEW s \in Seq(Int), NEW t \in Seq(Int)
  PROVE  SumOf(s \o t, 1..Len(s \o t)) = SumOf(s, 1..Len(s)) + SumOf(t, 1..Len(t))
<1> DEFINE st == s \o t
           B == {m \in 0..Len(t) :
                   SumOf(st, 1..(Len(s) + m)) = SumOf(s, 1..Len(s)) + SumOf(t, 1..m)}
<1>1. /\ Len(s) \in Nat /\ Len(t) \in Nat
      /\ Len(st) = Len(s) + Len(t)
      /\ \A k \in 1..Len(s) : st[k] = s[k] /\ s[k] \in Int
      /\ \A k \in 1..Len(t) : st[Len(s) + k] = t[k] /\ t[k] \in Int
      /\ \A k \in 1..(Len(s) + Len(t)) : st[k] \in Int
  OBVIOUS
<1>2. SumOf(s, 1..Len(s)) \in Int
  <2>1. IsFiniteSet(1..Len(s)) /\ \A k \in 1..Len(s) : s[k] \in Int
    BY <1>1, FS_Interval
  <2> QED
    BY <2>1, SumType
<1> HIDE DEF st
<1>3. ASSUME NEW m \in 0..Len(t), m > 0 => m - 1 \in B
      PROVE  m \in B
  <2>1. CASE m = 0
    <3>1. 1..m = {} /\ 1..(Len(s) + m) = 1..Len(s)
      BY <1>1, <2>1
    <3>2. SumOf(st, 1..Len(s)) = SumOf(s, 1..Len(s))
      <4>1. IsFiniteSet(1..Len(s)) /\ \A k \in 1..Len(s) : s[k] \in Int /\ s[k] = st[k]
        BY <1>1, FS_Interval
      <4> QED
        BY <4>1, SumSame
    <3> QED
      BY <1>2, <3>1, <3>2, SumEmpty
  <2>2. CASE m > 0
    <3> DEFINE n == Len(s) + (m - 1)
    <3>1. n \in Nat /\ n + 1 = Len(s) + m /\ m - 1 \in Nat /\ (m - 1) + 1 = m
      BY <1>1, <2>2
    <3>2. st[n + 1] = t[m] /\ t[m] \in Int
      BY <1>1, <2>2
    <3>3. (\A k \in 1..(n + 1) : st[k] \in Int) /\ \A k \in 1..((m - 1) + 1) : t[k] \in Int
      BY <1>1, <2>2
    <3>4. SumOf(st, 1..n) = SumOf(s, 1..Len(s)) + SumOf(t, 1..(m - 1))
      BY <1>3, <2>2
    <3> HIDE DEF n
    <3>5. SumOf(st, 1..(n + 1)) = SumOf(st, 1..n) + st[n + 1]
      BY <3>1, <3>3, SumStep
    <3>6. /\ SumOf(t, 1..((m - 1) + 1)) = SumOf(t, 1..(m - 1)) + t[(m - 1) + 1]
          /\ SumOf(t, 1..(m - 1)) \in Int
      BY <3>1, <3>3, SumStep
    <3>7. SumOf(st, 1..(Len(s) + m)) = SumOf(s, 1..Len(s)) + SumOf(t, 1..m)
      BY <1>2, <3>1, <3>2, <3>4, <3>5, <3>6
    <3> QED
      BY <3>7
  <2> QED
    BY <2>1, <2>2
<1>4. 0..Len(t) \subseteq B
  <2> HIDE DEF B
  <2> QED
    BY <1>1, <1>3, IntervalInduction
<1> QED
  BY <1>1, <1>4 DEF st

-----------------------------------------------------------------------------
(* A sequence of sequences, flattened.                                     *)

\* The recursion of FlattenSeq, up to the k-th sequence.
Flattens(f, seqs, k) ==
  f = [i \in 1..k |-> IF i = 1 THEN seqs[i] ELSE f[i-1] \o seqs[i]]

LEMMA FlattensExists ==
  ASSUME NEW n \in Nat, NEW seqs
  PROVE  \E f : Flattens(f, seqs, n)
<1> DEFINE B == {k \in 0..n : \E f : Flattens(f, seqs, k)}
<1>1. ASSUME NEW k \in 0..n, k > 0 => k - 1 \in B
      PROVE  k \in B
  <2>1. CASE k = 0
    <3>1. 1..k = {}
      BY <2>1
    <3>2. Flattens([i \in 1..k |-> i], seqs, k)
      BY <3>1 DEF Flattens
    <3> QED
      BY <3>2
  <2>2. CASE k > 0
    <3>1. PICK f : Flattens(f, seqs, k - 1)
      BY <1>1, <2>2
    <3> DEFINE h == [i \in 1..k |-> IF i < k THEN f[i]
                                    ELSE IF i = 1 THEN seqs[i] ELSE f[i-1] \o seqs[i]]
    <3>2. \A i \in 1..k : h[i] = IF i = 1 THEN seqs[i] ELSE h[i-1] \o seqs[i]
      <4>1. \A i \in 1..(k - 1) : f[i] = IF i = 1 THEN seqs[i] ELSE f[i-1] \o seqs[i]
        BY <3>1 DEF Flattens
      <4> QED
        BY <4>1, <2>2
    <3>3. h = [i \in 1..k |-> h[i]]
      OBVIOUS
    <3>4. Flattens(h, seqs, k)
      <4> HIDE DEF h
      <4> QED
        BY <3>2, <3>3 DEF Flattens
    <3> QED
      BY <3>4
  <2> QED
    BY <2>1, <2>2
<1>2. 0..n \subseteq B
  <2> HIDE DEF B
  <2> QED
    BY <1>1, IntervalInduction
<1> QED
  BY <1>2

LEMMA FlattenSeqIs ==
  ASSUME NEW seqs, Len(seqs) \in Nat \ {0}
  PROVE  \E f : Flattens(f, seqs, Len(seqs)) /\ FlattenSeq(seqs) = f[Len(seqs)]
<1> DEFINE f == CHOOSE f : Flattens(f, seqs, Len(seqs))
<1>1. Flattens(f, seqs, Len(seqs))
  BY FlattensExists
<1>2. FlattenSeq(seqs) = f[Len(seqs)]
  BY DEF FlattenSeq, Flattens
<1> QED
  BY <1>1, <1>2

\* The parts keep what they are, in a set closed under concatenation.
LEMMA FlattenSeqParts ==
  ASSUME NEW V, NEW n \in Nat \ {0}, NEW seqs \in [1..n -> Seq(V)]
  PROVE  FlattenSeq(seqs) \in Seq(V)
<1>1. Len(seqs) = n
  OBVIOUS
<1>2. PICK f : Flattens(f, seqs, n) /\ FlattenSeq(seqs) = f[n]
  BY <1>1, FlattenSeqIs
<1> DEFINE B == {k \in 0..n : k > 0 => f[k] \in Seq(V)}
<1>3. ASSUME NEW k \in 0..n, k > 0 => k - 1 \in B
      PROVE  k \in B
  <2>1. ASSUME k > 0 PROVE f[k] \in Seq(V)
    <3>1. f[k] = IF k = 1 THEN seqs[k] ELSE f[k-1] \o seqs[k]
      <4>1. k \in 1..n
        BY <2>1
      <4> QED
        BY <1>2, <4>1 DEF Flattens
    <3>2. seqs[k] \in Seq(V)
      BY <2>1
    <3>3. k # 1 => f[k-1] \in Seq(V)
      BY <1>3, <2>1
    <3> QED
      BY <3>1, <3>2, <3>3
  <2> QED
    BY <2>1
<1>4. 0..n \subseteq B
  <2> HIDE DEF B
  <2> QED
    BY <1>3, IntervalInduction
<1> QED
  BY <1>2, <1>4

\* The sum of the whole is the sum of the sums of the parts.
LEMMA SumFlatten ==
  ASSUME NEW n \in Nat \ {0}, NEW seqs \in [1..n -> Seq(Int)], NEW sums,
         \A i \in 1..n : sums[i] = SumOf(seqs[i], 1..Len(seqs[i]))
  PROVE  SumOf(FlattenSeq(seqs), 1..Len(FlattenSeq(seqs))) = SumOf(sums, 1..n)
<1>1. Len(seqs) = n
  OBVIOUS
<1>2. PICK f : Flattens(f, seqs, n) /\ FlattenSeq(seqs) = f[n]
  BY <1>1, FlattenSeqIs
<1>3. ASSUME NEW k \in 1..n
      PROVE  f[k] = IF k = 1 THEN seqs[k] ELSE f[k-1] \o seqs[k]
  BY <1>2 DEF Flattens
<1>4. ASSUME NEW k \in 1..n PROVE sums[k] \in Int
  <2>1. /\ IsFiniteSet(1..Len(seqs[k]))
        /\ \A i \in 1..Len(seqs[k]) : seqs[k][i] \in Int
    <3>1. seqs[k] \in Seq(Int)
      OBVIOUS
    <3> QED
      BY <3>1, FS_Interval
  <2> QED
    BY <2>1, SumType
<1> DEFINE Total(s) == SumOf(s, 1..Len(s))
           B == {k \in 0..n : k > 0 => f[k] \in Seq(Int) /\ Total(f[k]) = SumOf(sums, 1..k)}
<1>5. ASSUME NEW k \in 0..n, k > 0 => k - 1 \in B
      PROVE  k \in B
  <2> SUFFICES ASSUME k > 0 PROVE f[k] \in Seq(Int) /\ Total(f[k]) = SumOf(sums, 1..k)
    OBVIOUS
  <2>1. /\ k \in 1..n
        /\ k - 1 \in Nat /\ (k - 1) + 1 = k /\ seqs[k] \in Seq(Int)
        /\ \A i \in 1..((k - 1) + 1) : sums[i] \in Int
        /\ sums[k] = Total(seqs[k]) /\ sums[k] \in Int
    BY <1>4
  <2>2. /\ SumOf(sums, 1..((k - 1) + 1)) = SumOf(sums, 1..(k - 1)) + sums[(k - 1) + 1]
        /\ SumOf(sums, 1..(k - 1)) \in Int
    <3> HIDE DEF Total
    <3> QED
      BY <2>1, SumStep
  <2>3. CASE k = 1
    <3>1. f[k] = seqs[k]
      BY <1>3, <2>1, <2>3
    <3>2. 1..(k - 1) = {}
      BY <2>3
    <3>3. SumOf(sums, {}) = 0
      BY SumEmpty
    <3>4. SumOf(sums, 1..k) = sums[k]
      <4>1. SumOf(sums, 1..(k - 1)) = 0
        BY <3>2, <3>3
      <4>2. (k - 1) + 1 = k /\ sums[k] \in Int
        BY <2>1
      <4> HIDE DEF Total
      <4> QED
        BY <2>2, <4>1, <4>2
    <3> HIDE DEF Total
    <3> QED
      BY <2>1, <3>1, <3>4
  <2>4. CASE k > 1
    <3>1. f[k] = f[k-1] \o seqs[k]
      <4>1. k \in 1..n /\ k # 1
        BY <2>1, <2>4
      <4> QED
        BY <1>3, <4>1
    <3>2. f[k-1] \in Seq(Int) /\ Total(f[k-1]) = SumOf(sums, 1..(k - 1))
      BY <1>5, <2>4
    <3>3. Total(f[k-1] \o seqs[k]) = Total(f[k-1]) + Total(seqs[k])
      BY <2>1, <3>2, SumConcat
    <3>4. f[k] \in Seq(Int)
      BY <2>1, <3>1, <3>2
    <3> HIDE DEF Total
    <3> QED
      BY <2>1, <2>2, <3>1, <3>2, <3>3, <3>4
  <2> QED
    BY <2>3, <2>4
<1>6. 0..n \subseteq B
  <2> HIDE DEF B
  <2> QED
    BY <1>5, IntervalInduction
<1> QED
  BY <1>2, <1>6
=============================================================================
