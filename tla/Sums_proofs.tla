---------------------------- MODULE Sums_proofs ----------------------------
(***************************************************************************)
(* Sums over finite sets.  The community modules add up the values of a    *)
(* function by taking out one element after another; what follows says     *)
(* that the order does not matter, by induction over the subsets of a      *)
(* finite set.                                                             *)
(***************************************************************************)
EXTENDS FiniteSetsExt, FiniteSetTheorems, TLAPS

Pick(s) == CHOOSE x \in s : TRUE

\* g adds up the values of f over every subset of S.
SumsOver(f, S, g) ==
    g = [s \in SUBSET S |-> IF s = {} THEN 0 ELSE f[Pick(s)] + g[s \ {Pick(s)}]]

Sums(f, S)  == CHOOSE g : SumsOver(f, S, g)
Total(f, S) == Sums(f, S)[S]

----------------------------------------------------------------------------
\* All subsets of a finite set are good if each is good whose proper subsets are.
LEMMA SubsetInduction ==
    ASSUME NEW S, IsFiniteSet(S), NEW Good,
           \A T \in SUBSET S : (\A U \in SUBSET T : U # T => U \in Good) => T \in Good
    PROVE  \A T \in SUBSET S : T \in Good
<1> DEFINE Bad == {T \in SUBSET S : T \notin Good}
<1>1. Bad \subseteq FiniteSubsetsOf(S)
  BY FS_Subset DEF FiniteSubsetsOf
<1>2. ASSUME Bad # {} PROVE FALSE
  <2>1. IsWellFoundedOn(StrictSubsetOrdering(S), FiniteSubsetsOf(S))
    BY FS_StrictSubsetOrderingWellFounded
  <2>2. \E T \in Bad : \A U \in Bad : ~ (<<U, T>> \in StrictSubsetOrdering(S))
    <3> HIDE DEF Bad
    <3>1. QED
      BY <1>1, <1>2, <2>1, WFMin
  <2>3. PICK T \in Bad : \A U \in Bad : ~ (<<U, T>> \in StrictSubsetOrdering(S))
    BY <2>2
  <2>4. \A U \in SUBSET T : U # T => U \in Good
    <3>1. ASSUME NEW U \in SUBSET T, U # T, U \notin Good PROVE FALSE
      <4>1. U \in Bad /\ U \in SUBSET S /\ T \in SUBSET S
        BY <3>1
      <4>2. <<U, T>> \in StrictSubsetOrdering(S)
        BY <3>1, <4>1 DEF StrictSubsetOrdering
      <4>3. QED
        BY <2>3, <4>1, <4>2
    <3>2. QED
      BY <3>1
  <2>5. QED
    BY <2>3, <2>4
<1>3. QED
  BY <1>2

\* An element that is taken out leaves a smaller set.
LEMMA PickLess ==
    ASSUME NEW s, s # {}
    PROVE  Pick(s) \in s /\ s \ {Pick(s)} \in SUBSET s /\ s \ {Pick(s)} # s
  BY DEF Pick

LEMMA SumsValue ==
    ASSUME NEW f, NEW S, NEW g, SumsOver(f, S, g), NEW s \in SUBSET S
    PROVE  g[s] = IF s = {} THEN 0 ELSE f[Pick(s)] + g[s \ {Pick(s)}]
  BY DEF SumsOver

\* What is added up over a subset does not depend on the set around it.
LEMMA SumsAgree ==
    ASSUME NEW S, IsFiniteSet(S), NEW T \in SUBSET S, NEW f, NEW h,
           \A x \in T : f[x] = h[x],
           NEW g, SumsOver(f, S, g), NEW k, SumsOver(h, T, k)
    PROVE  \A s \in SUBSET T : g[s] = k[s]
<1> DEFINE Good == {s \in SUBSET T : g[s] = k[s]}
<1>1. IsFiniteSet(T)
  BY FS_Subset
<1>2. ASSUME NEW s \in SUBSET T, \A u \in SUBSET s : u # s => u \in Good
      PROVE  s \in Good
  <2>1. /\ g[s] = IF s = {} THEN 0 ELSE f[Pick(s)] + g[s \ {Pick(s)}]
        /\ k[s] = IF s = {} THEN 0 ELSE h[Pick(s)] + k[s \ {Pick(s)}]
    BY SumsValue
  <2>2. CASE s = {}
    BY <2>1, <2>2
  <2>3. CASE s # {}
    <3>1. Pick(s) \in T /\ s \ {Pick(s)} \in Good
      BY <1>2, <2>3, PickLess
    <3>2. QED
      BY <2>1, <2>3, <3>1
  <2>4. QED
    BY <2>2, <2>3
<1>3. \A s \in SUBSET T : s \in Good
  <2> HIDE DEF Good
  <2>1. QED
    BY <1>1, <1>2, SubsetInduction
<1>4. QED
  BY <1>3

\* The recursion has a solution, so that Sums is one.
LEMMA SumsExist ==
    ASSUME NEW S, IsFiniteSet(S), NEW f
    PROVE  SumsOver(f, S, Sums(f, S))
<1> DEFINE Good == {T \in SUBSET S : \E g : SumsOver(f, T, g)}
<1>1. ASSUME NEW T \in SUBSET S, \A U \in SUBSET T : U # T => U \in Good
      PROVE  T \in Good
  <2> DEFINE rest(s) == s \ {Pick(s)}
             h == [s \in SUBSET T |->
                     IF s = {} THEN 0 ELSE f[Pick(s)] + Sums(f, rest(s))[rest(s)]]
  <2>1. ASSUME NEW U \in SUBSET T, U # T PROVE SumsOver(f, U, Sums(f, U))
    <3>1. \E g : SumsOver(f, U, g)
      BY <1>1, <2>1
    <3>2. QED
      BY <3>1 DEF Sums
  <2>2. ASSUME NEW u \in SUBSET T, u # T PROVE h[u] = Sums(f, u)[u]
    <3>1. Sums(f, u)[u] = IF u = {} THEN 0 ELSE f[Pick(u)] + Sums(f, u)[rest(u)]
      BY <2>1, <2>2, SumsValue
    <3>2. ASSUME u # {} PROVE Sums(f, u)[rest(u)] = Sums(f, rest(u))[rest(u)]
      <4>1. rest(u) \in SUBSET u /\ rest(u) \in SUBSET T /\ rest(u) # T
        BY <2>2, <3>2, PickLess
      <4>2. IsFiniteSet(u)
        BY FS_Subset
      <4> HIDE DEF rest, h
      <4>3. SumsOver(f, u, Sums(f, u)) /\ SumsOver(f, rest(u), Sums(f, rest(u)))
        BY <2>1, <2>2, <4>1
      <4>4. \A s \in SUBSET rest(u) : Sums(f, u)[s] = Sums(f, rest(u))[s]
        BY <4>1, <4>2, <4>3, SumsAgree
      <4>5. QED
        BY <4>4
    <3>3. QED
      BY <3>1, <3>2
  <2>3. h = [s \in SUBSET T |-> IF s = {} THEN 0 ELSE f[Pick(s)] + h[s \ {Pick(s)}]]
    <3>1. ASSUME NEW s \in SUBSET T, s # {} PROVE h[s] = f[Pick(s)] + h[s \ {Pick(s)}]
      <4>1. rest(s) \in SUBSET T /\ rest(s) # T
        BY <3>1, PickLess
      <4>2. h[s] = f[Pick(s)] + Sums(f, rest(s))[rest(s)]
        BY <3>1
      <4> HIDE DEF h
      <4>3. QED
        BY <2>2, <4>1, <4>2
    <3>2. \A s \in SUBSET T : s = {} => h[s] = 0
      OBVIOUS
    <3>3. h = [s \in SUBSET T |-> h[s]]
      OBVIOUS
    <3> HIDE DEF h
    <3>4. QED
      BY <3>1, <3>2, <3>3
  <2>4. QED
    <3> HIDE DEF h
    <3>1. SumsOver(f, T, h)
      BY <2>3 DEF SumsOver
    <3>2. QED
      BY <3>1
<1>2. \A T \in SUBSET S : T \in Good
  <2> HIDE DEF Good
  <2>1. QED
    BY <1>1, SubsetInduction
<1>3. \E g : SumsOver(f, S, g)
  BY <1>2
<1>4. QED
  BY <1>3 DEF Sums

LEMMA TotalIn ==
    ASSUME NEW S, IsFiniteSet(S), NEW T \in SUBSET S, NEW f
    PROVE  Total(f, T) = Sums(f, S)[T]
<1>1. SumsOver(f, S, Sums(f, S)) /\ SumsOver(f, T, Sums(f, T))
  BY FS_Subset, SumsExist
<1>2. \A s \in SUBSET T : Sums(f, S)[s] = Sums(f, T)[s]
  BY <1>1, SumsAgree
<1>3. QED
  BY <1>2 DEF Total

----------------------------------------------------------------------------
(* Totals.                                                                 *)

LEMMA TotalEmpty == ASSUME NEW f PROVE Total(f, {}) = 0
<1>1. SumsOver(f, {}, Sums(f, {}))
  BY FS_EmptySet, SumsExist
<1>2. QED
  BY <1>1, SumsValue DEF Total

\* The definition, for sets that are not empty.
LEMMA TotalPick ==
    ASSUME NEW S, IsFiniteSet(S), S # {}, NEW f
    PROVE  Total(f, S) = f[Pick(S)] + Total(f, S \ {Pick(S)})
<1>1. S \ {Pick(S)} \in SUBSET S
  OBVIOUS
<1>2. Total(f, S \ {Pick(S)}) = Sums(f, S)[S \ {Pick(S)}] /\ Total(f, S) = Sums(f, S)[S]
  BY <1>1, TotalIn
<1>3. SumsOver(f, S, Sums(f, S))
  BY SumsExist
<1>4. QED
  BY <1>2, <1>3, SumsValue

LEMMA TotalSame ==
    ASSUME NEW S, IsFiniteSet(S), NEW f, NEW h, \A x \in S : f[x] = h[x]
    PROVE  Total(f, S) = Total(h, S)
<1>1. SumsOver(f, S, Sums(f, S)) /\ SumsOver(h, S, Sums(h, S))
  BY SumsExist
<1>2. \A s \in SUBSET S : Sums(f, S)[s] = Sums(h, S)[s]
  BY <1>1, SumsAgree
<1>3. QED
  BY <1>2 DEF Total

LEMMA TotalType ==
    ASSUME NEW S, IsFiniteSet(S), NEW f
    PROVE  /\ (\A x \in S : f[x] \in Int) => Total(f, S) \in Int
           /\ (\A x \in S : f[x] \in Nat) => Total(f, S) \in Nat
<1> DEFINE Good == {T \in SUBSET S : /\ (\A x \in T : f[x] \in Int) => Total(f, T) \in Int
                                     /\ (\A x \in T : f[x] \in Nat) => Total(f, T) \in Nat}
<1>1. ASSUME NEW T \in SUBSET S, \A U \in SUBSET T : U # T => U \in Good
      PROVE  T \in Good
  <2>1. CASE T = {}
    BY <2>1, TotalEmpty
  <2>2. CASE T # {}
    <3> DEFINE U == T \ {Pick(T)}
    <3>1. Pick(T) \in T /\ U \in SUBSET T /\ U \in Good
      BY <1>1, <2>2, PickLess
    <3>2. Total(f, T) = f[Pick(T)] + Total(f, U)
      BY <2>2, FS_Subset, TotalPick
    <3>3. ASSUME \A x \in T : f[x] \in Int PROVE Total(f, T) \in Int
      <4>1. f[Pick(T)] \in Int /\ Total(f, U) \in Int
        BY <3>1, <3>3
      <4> HIDE DEF U
      <4>2. QED
        BY <3>2, <4>1
    <3>4. ASSUME \A x \in T : f[x] \in Nat PROVE Total(f, T) \in Nat
      <4>1. f[Pick(T)] \in Nat /\ Total(f, U) \in Nat
        BY <3>1, <3>4
      <4> HIDE DEF U
      <4>2. QED
        BY <3>2, <4>1
    <3>5. QED
      BY <3>3, <3>4
  <2>3. QED
    BY <2>1, <2>2
<1>2. \A T \in SUBSET S : T \in Good
  <2> HIDE DEF Good
  <2>1. QED
    BY <1>1, SubsetInduction
<1>3. QED
  BY <1>2

\* Any element may be taken out first.
LEMMA TotalWithout ==
    ASSUME NEW S, IsFiniteSet(S), NEW f, \A x \in S : f[x] \in Int, NEW a \in S
    PROVE  Total(f, S) = f[a] + Total(f, S \ {a})
<1> DEFINE Good == {T \in SUBSET S : \A x \in T : Total(f, T) = f[x] + Total(f, T \ {x})}
<1>1. ASSUME NEW T \in SUBSET S, \A U \in SUBSET T : U # T => U \in Good
      PROVE  T \in Good
  <2>1. ASSUME NEW x \in T PROVE Total(f, T) = f[x] + Total(f, T \ {x})
    <3> DEFINE c == Pick(T)
               U == T \ {c}
               V == T \ {x}
               W == (T \ {c}) \ {x}
    <3>1. c \in T /\ U \in Good
      BY <1>1, <2>1, PickLess
    <3>2. Total(f, T) = f[c] + Total(f, U)
      BY <2>1, FS_Subset, TotalPick
    <3>3. CASE x = c
      BY <3>2, <3>3
    <3>4. CASE x # c
      <4>1. V \in Good /\ c \in V /\ V \ {c} = W
        BY <1>1, <3>1, <3>4
      <4>2. Total(f, U) = f[x] + Total(f, W)
        BY <2>1, <3>1, <3>4
      <4>3. Total(f, V) = f[c] + Total(f, W)
        BY <4>1
      <4>4. f[c] \in Int /\ f[x] \in Int /\ Total(f, W) \in Int
        <5>1. W \in SUBSET S /\ \A y \in W : f[y] \in Int
          OBVIOUS
        <5>2. IsFiniteSet(W)
          BY <5>1, FS_Subset
        <5> HIDE DEF W, c
        <5>3. QED
          BY <3>1, <5>1, <5>2, TotalType
      <4> HIDE DEF c, U, V, W
      <4>5. Total(f, T) = f[x] + Total(f, V)
        BY <3>2, <4>2, <4>3, <4>4
      <4>6. QED
        BY <4>5 DEF V
    <3>5. QED
      BY <3>3, <3>4
  <2>2. QED
    BY <2>1
<1>2. \A T \in SUBSET S : T \in Good
  <2> HIDE DEF Good
  <2>1. QED
    BY <1>1, SubsetInduction
<1>3. QED
  BY <1>2

\* What is added to the values is added to the total.
LEMMA TotalPlus ==
    ASSUME NEW S, IsFiniteSet(S), NEW f, NEW h, NEW k,
           \A x \in S : f[x] \in Int /\ h[x] \in Int /\ k[x] = f[x] + h[x]
    PROVE  Total(k, S) = Total(f, S) + Total(h, S)
<1> DEFINE Good == {T \in SUBSET S : Total(k, T) = Total(f, T) + Total(h, T)}
<1>1. ASSUME NEW T \in SUBSET S, \A U \in SUBSET T : U # T => U \in Good
      PROVE  T \in Good
  <2>1. CASE T = {}
    BY <2>1, TotalEmpty
  <2>2. CASE T # {}
    <3> DEFINE c == Pick(T)
               U == T \ {c}
    <3>1. c \in S /\ U \in SUBSET S /\ U \in Good
      BY <1>1, <2>2, PickLess
    <3>2. /\ Total(f, T) = f[c] + Total(f, U) /\ Total(h, T) = h[c] + Total(h, U)
          /\ Total(k, T) = k[c] + Total(k, U)
      BY <2>2, FS_Subset, TotalPick
    <3>3. IsFiniteSet(U)
      BY <3>1, FS_Subset
    <3> HIDE DEF c, U
    <3>4. Total(f, U) \in Int /\ Total(h, U) \in Int
      BY <3>1, <3>3, TotalType
    <3>5. Total(k, U) = Total(f, U) + Total(h, U)
      BY <3>1
    <3>6. f[c] \in Int /\ h[c] \in Int /\ k[c] = f[c] + h[c]
      BY <3>1
    <3>7. QED
      BY <3>2, <3>4, <3>5, <3>6
  <2>3. QED
    BY <2>1, <2>2
<1>2. \A T \in SUBSET S : T \in Good
  <2> HIDE DEF Good
  <2>1. QED
    BY <1>1, SubsetInduction
<1>3. QED
  BY <1>2

\* Where only the value at a changes, the total changes by as much.
LEMMA TotalExcept ==
    ASSUME NEW S, IsFiniteSet(S), NEW f, NEW h, NEW a \in S,
           \A x \in S : f[x] \in Int /\ h[x] \in Int, \A x \in S \ {a} : h[x] = f[x]
    PROVE  Total(h, S) = Total(f, S) - f[a] + h[a]
<1>1. Total(f, S) = f[a] + Total(f, S \ {a}) /\ Total(h, S) = h[a] + Total(h, S \ {a})
  BY TotalWithout
<1>2. IsFiniteSet(S \ {a})
  BY FS_Subset
<1>3. Total(h, S \ {a}) = Total(f, S \ {a}) /\ Total(f, S \ {a}) \in Int
  BY <1>2, TotalSame, TotalType
<1>4. QED
  BY <1>1, <1>3

\* Whatever solves the recursion is the total.
LEMMA TotalIs ==
    ASSUME NEW S, IsFiniteSet(S), NEW f, NEW g, SumsOver(f, S, g)
    PROVE  g[S] = Total(f, S)
<1>1. SumsOver(f, S, Sums(f, S))
  BY SumsExist
<1>2. \A s \in SUBSET S : g[s] = Sums(f, S)[s]
  BY <1>1, SumsAgree
<1>3. QED
  BY <1>2 DEF Total

LEMMA TotalZero ==
    ASSUME NEW S, IsFiniteSet(S), NEW f, \A x \in S : f[x] = 0
    PROVE  Total(f, S) = 0
<1>1. \A x \in S : f[x] \in Int /\ f[x] = f[x] + f[x]
  OBVIOUS
<1>2. PICK n \in Int : n = Total(f, S)
  BY <1>1, TotalType
<1>3. n = n + n
  BY <1>1, <1>2, TotalPlus
<1>4. n = 0
  BY <1>3
<1>5. QED
  BY <1>2, <1>4
=============================================================================
